------------------------- MODULE AdjudicationProofs -------------------------
(***************************************************************************)
(* Proofs about the verdicts of a request that is sent again and again,    *)
(* for every set of requests, every history of their session and any       *)
(* number of steps.  The rules, the classifier and the risk engine are in  *)
(* closed form in PolicyProofs; what remains is to compare the verdicts of *)
(* one request under two risks, or under two answers of the guard.         *)
(***************************************************************************)
EXTENDS Adjudication, PolicyProofs

\* The envelope of a request before it is classified, and after.
Raw(p, guard, risk) ==
    [scan |-> p.scan, dlp |-> p.dlp, guard |-> guard, risk |-> risk,
     permitted |-> p.permitted, stepUp |-> p.stepUp, class |-> Unclassified]

Classified(p, guard, risk) ==
    [scan |-> p.scan, dlp |-> p.dlp, guard |-> guard, risk |-> risk,
     permitted |-> p.permitted, stepUp |-> p.stepUp,
     class |-> classify(Raw(p, guard, risk))]

LEMMA VerdictOf ==
    ASSUME NEW p, NEW risk
    PROVE  Verdict(p, risk) = evaluate(Classified(p, analysis(p.reply), risk))
<1> DEFINE e == Raw(p, analysis(p.reply), risk)
           c == classify(e)
<1>1. Verdict(p, risk) = evaluate([e EXCEPT !.class = c])
  BY DEF Verdict, Raw
<1> HIDE DEF c
<1>2. [e EXCEPT !.class = c] =
          [scan |-> p.scan, dlp |-> p.dlp, guard |-> analysis(p.reply), risk |-> risk,
           permitted |-> p.permitted, stepUp |-> p.stepUp, class |-> c]
  BY DEF Raw
<1> QED
  BY <1>1, <1>2 DEF Classified, c

\* What the guard would have to reply for another verdict.
LEMMA WithOf ==
    ASSUME NEW reply, probe \in Probes
    PROVE  With(reply) = evaluate(Classified(probe, analysis(reply), last.risk))
<1> DEFINE p == [probe EXCEPT !.reply = reply]
<1>1. DOMAIN probe = {"scan", "dlp", "reply", "permitted", "stepUp"}
  BY ProbesAssumption DEF Judgeable
<1>2. /\ p.scan = probe.scan /\ p.dlp = probe.dlp /\ p.permitted = probe.permitted
      /\ p.stepUp = probe.stepUp /\ p.reply = reply
  BY <1>1
<1>3. With(reply) = evaluate(Classified(p, analysis(p.reply), last.risk))
  BY VerdictOf DEF With
<1> HIDE DEF p
<1>4. Classified(p, analysis(reply), last.risk) =
          Classified(probe, analysis(reply), last.risk)
  BY <1>2 DEF Classified, Raw
<1> QED
  BY <1>2, <1>3, <1>4

-----------------------------------------------------------------------------
(* The assumption on the requests *)

\* Every request there can be: any matches of the scanners' patterns, any reply.
Requests ==
    {[scan |-> input_scan(matches), dlp |-> dlp_scan(found), reply |-> reply,
      permitted |-> permitted, stepUp |-> stepUp] :
        matches \in [ScanFindings -> Nat], found \in [DlpFindings -> Nat],
        reply \in GuardReplies, permitted \in BOOLEAN, stepUp \in BOOLEAN}

\* What ProbesAssumption asks of a request is so of every one, whatever the
\* scanners match (input_scanner.py:291, dlp_scanner.py:23) and whatever the guard
\* model replies (llm_guard.py:450-656): the theorems below leave out no request.
THEOREM EveryRequestJudgeable == \A p \in Requests : Judgeable(p)
<1> SUFFICES ASSUME NEW matches \in [ScanFindings -> Nat],
                    NEW found \in [DlpFindings -> Nat], NEW reply \in GuardReplies,
                    NEW permitted \in BOOLEAN, NEW stepUp \in BOOLEAN,
                    NEW p, p = [scan |-> input_scan(matches), dlp |-> dlp_scan(found),
                                reply |-> reply, permitted |-> permitted, stepUp |-> stepUp]
             PROVE  Judgeable(p)
  BY DEF Requests
<1>1. /\ p.scan.score \in 0..100 /\ p.dlp.score \in 0..100
      /\ p.scan.labels = {} => p.scan.score = 0
  BY ScoresInRange
<1>2. /\ analysis(reply).label \in AllowedLabels \cup {NoGuard.label}
      /\ analysis(reply).action \in AllowedActions \cup {NoGuard.action}
      /\ analysis(reply).confidence \in 0..100 /\ analysis(reply).risk \in 0..100
  <2>1. CASE analysis(reply) \in Analyses
    BY <2>1 DEF Analyses
  <2>2. CASE analysis(reply) = NoGuard
    BY <2>2 DEF NoGuard, GuardAnalysis
  <2> QED
    BY <2>1, <2>2, EveryReplyRead
<1> QED
  BY <1>1, <1>2 DEF Judgeable

-----------------------------------------------------------------------------
(* Types *)

LEMMA RiskIsState ==
    ASSUME NEW p \in Probes, NEW s \in Session
    PROVE  RiskOf(p, s) \in RiskStates
<1> DEFINE in == [scan |-> p.scan.score, controlChars |-> FALSE,
                  systemMessage |-> FALSE, developerMessage |-> FALSE]
<1>1. in \in Inputs
  BY ProbesAssumption DEF Inputs, Judgeable
<1>2. Grown(s, s)
  BY DEF Grown, Counters, Session
<1>3. HistoryScore(s) \in Nat /\ InputScore(in) \in 0..60
  BY <1>1, <1>2, HistoryScoreGrows, InputScoreRange
<1> HIDE DEF in
<1>4. HistoryScore(s) + InputScore(in) \in Nat
  BY <1>3
<1>5. RiskState(HistoryScore(s) + InputScore(in)) \in RiskStates
  BY <1>4, RiskStateGrows
<1>6. assess(in, s).state = RiskState(HistoryScore(s) + InputScore(in))
  BY DEF assess
<1> QED
  BY <1>5, <1>6 DEF RiskOf, in

\* A request is no less risk to its session once that has grown.
LEMMA RiskOfGrows ==
    ASSUME NEW p \in Probes, NEW old \in Session, NEW new \in Session, Grown(old, new)
    PROVE  Severity[RiskOf(p, old)] <= Severity[RiskOf(p, new)]
<1> DEFINE in == [scan |-> p.scan.score, controlChars |-> FALSE,
                  systemMessage |-> FALSE, developerMessage |-> FALSE]
<1>1. in \in Inputs
  BY ProbesAssumption DEF Inputs, Judgeable
<1> HIDE DEF in
<1>2. NoLessRisk(assess(in, old), assess(in, new))
  BY <1>1, RiskNeverFalls
<1> QED
  BY <1>2 DEF NoLessRisk, RiskOf, in

LEMMA ActionOf ==
    ASSUME NEW e
    PROVE  evaluate(e).action \in {"allow", "allow_with_restrictions", "deny", "challenge"}
  BY RulesInOrder DEF Deny, Challenge, Limited, Decision

LEMMA Severities ==
    /\ Severity["normal"] = 0 /\ Severity["elevated"] = 1
    /\ Severity["restricted"] = 2 /\ Severity["blocked"] = 3
    /\ \A state \in RiskStates : Severity[state] \in 0..3
  BY DEF Severity, RiskStates

-----------------------------------------------------------------------------
(* One request, two verdicts *)

\* The risk of the session moves the class only between suspicious and benign.
LEMMA ClassByRisk ==
    ASSUME NEW p, NEW guard, NEW r, NEW t
    PROVE  \/ classify(Raw(p, guard, t)) = classify(Raw(p, guard, r))
           \/ /\ classify(Raw(p, guard, r)).label \in {"suspicious", "benign"}
              /\ classify(Raw(p, guard, t)).label \in {"suspicious", "benign"}
<1> DEFINE d == Raw(p, guard, r)
           e == Raw(p, guard, t)
<1>1. /\ d.scan = p.scan /\ d.dlp = p.dlp /\ d.guard = guard
      /\ e.scan = p.scan /\ e.dlp = p.dlp /\ e.guard = guard
  BY DEF Raw
<1> HIDE DEF d, e
<1>2. /\ PlainSubmission(d) <=> PlainSubmission(e)
      /\ Unconfirmed(d) <=> Unconfirmed(e)
      /\ GuardDecides(d) <=> GuardDecides(e)
      /\ HoldsSensitiveData(d) <=> HoldsSensitiveData(e)
  BY <1>1 DEF PlainSubmission, Unconfirmed, GuardDecides, HoldsSensitiveData, Corroborated,
              Conflict
<1>3. \/ ByScanners(d) = ByScanners(e)
      \/ /\ ByScanners(d).label \in {"suspicious", "benign"}
         /\ ByScanners(e).label \in {"suspicious", "benign"}
  BY <1>1, ScannersInOrder DEF Class
<1>4. \/ classify(e) = classify(d)
      \/ classify(e) = ByScanners(e) /\ classify(d) = ByScanners(d)
  <2>1. CASE PlainSubmission(d)
    BY <1>1, <1>2, <2>1 DEF classify
  <2>2. CASE ~ PlainSubmission(d) /\ Unconfirmed(d)
    BY <1>1, <1>2, <2>2 DEF classify
  <2>3. CASE ~ PlainSubmission(d) /\ ~ Unconfirmed(d) /\ GuardDecides(d)
    BY <1>1, <1>2, <2>3 DEF classify
  <2>4. CASE ~ PlainSubmission(d) /\ ~ Unconfirmed(d) /\ ~ GuardDecides(d)
    BY <1>2, <2>4 DEF classify
  <2> QED
    BY <2>1, <2>2, <2>3, <2>4
<1> QED
  BY <1>3, <1>4 DEF d, e

\* But for the contents judged by degree, a rising risk eases no deny.
LEMMA DenyStays ==
    ASSUME NEW p, NEW guard, NEW r \in RiskStates, NEW t \in RiskStates,
           Severity[r] <= Severity[t],
           ByDegree \cap p.scan.labels = {},
           evaluate(Classified(p, guard, r)).action = "deny"
    PROVE  evaluate(Classified(p, guard, t)).action = "deny"
<1> DEFINE d == Classified(p, guard, r)
           e == Classified(p, guard, t)
<1>1. /\ d.scan = p.scan /\ d.dlp = p.dlp /\ d.permitted = p.permitted /\ d.risk = r
      /\ e.scan = p.scan /\ e.dlp = p.dlp /\ e.permitted = p.permitted /\ e.risk = t
      /\ \/ e.class = d.class
         \/ /\ d.class.label \in {"suspicious", "benign"}
            /\ e.class.label \in {"suspicious", "benign"}
  BY ClassByRisk DEF Classified
<1>2. "hate_content" \notin p.scan.labels /\ "discriminatory_content" \notin p.scan.labels
  BY DEF ByDegree
<1>3. r = "blocked" => t = "blocked"
  BY Severities DEF RiskStates
<1>4. r = "blocked" => e = d
  BY <1>3
<1>5. evaluate(d).action = "deny"
  OBVIOUS
<1> HIDE DEF d, e
<1>6. Denying(d) => Denying(e)
  BY <1>1, <1>2 DEF Denying
<1>7. Denying(d) \/ r = "blocked"
  BY <1>1, <1>5, RulesInOrder DEF Challenge, Limited, Decision
<1>8. evaluate(e).action = "deny"
  BY <1>4, <1>5, <1>6, <1>7, RulesInOrder DEF Deny, Decision
<1> QED
  BY <1>8 DEF e

\* The rules look at nothing the guard said but by its class.
LEMMA EvaluateByClass ==
    ASSUME NEW d, NEW e, d.scan = e.scan, d.dlp = e.dlp, d.risk = e.risk,
           d.permitted = e.permitted, d.stepUp = e.stepUp, d.class = e.class
    PROVE  evaluate(d) = evaluate(e)
<1>1. \A key, expected : Holds(key, expected, d) = Holds(key, expected, e)
  BY DEF Holds
<1>2. \A condition : Matches(condition, d) = Matches(condition, e)
  BY <1>1 DEF Matches
<1> DEFINE I(x) == {i \in 1..Len(rules) : Matches(rules[i].when, x)}
           first(x) == SelectInSeq(rules, LAMBDA r : Matches(r.when, x))
<1>3. first(d) = (IF I(d) # {} THEN Min(I(d)) ELSE 0)
      /\ first(e) = (IF I(e) # {} THEN Min(I(e)) ELSE 0)
  BY DEF SelectInSeq
<1>4. I(d) = I(e)
  BY <1>2
<1>5. /\ evaluate(d) = IF first(d) = 0 THEN default_decision ELSE rules[first(d)].decision
      /\ evaluate(e) = IF first(e) = 0 THEN default_decision ELSE rules[first(e)].decision
  BY DEF evaluate
<1> HIDE DEF first, I
<1> QED
  BY <1>3, <1>4, <1>5

-----------------------------------------------------------------------------
(* The inductive invariant *)

\* The decision kept is the verdict under the risk kept with it.
AsJudged == IF judged THEN last.decision = Verdict(probe, last.risk) ELSE last = Unjudged

\* The session has only become a greater risk since.
RiskRises == Severity[last.risk] <= Severity[RiskOf(probe, session)]

IInv == TypeOK /\ AsJudged /\ RiskRises /\ RetryNeverHelps

LEMMA IInvInit == Init => IInv
<1> SUFFICES ASSUME Init PROVE IInv
  OBVIOUS
<1>1. probe \in Probes /\ session \in Session
  BY HistoriesAssumption DEF Init
<1>2. last = Unjudged /\ last.risk = "normal" /\ last.decision.action = "allow"
  BY DEF Init, Unjudged, default_decision, Decision
<1>3. TypeOK
  <2>1. last.risk \in RiskStates
    BY <1>2 DEF RiskStates
  <2>2. judged \in BOOLEAN /\ wasDenied \in BOOLEAN
    BY DEF Init
  <2>3. steps \in 0..MaxSteps
    BY StepsAssumption DEF Init
  <2> QED
    BY <1>1, <1>2, <2>1, <2>2, <2>3 DEF TypeOK
<1>4. RiskRises
  <2>1. RiskOf(probe, session) \in RiskStates
    BY <1>1, RiskIsState
  <2> QED
    BY <1>2, <2>1, Severities DEF RiskRises
<1> QED
  BY <1>2, <1>3, <1>4 DEF Init, IInv, AsJudged, RetryNeverHelps

\* What a judgement leaves of the session: it has grown.
LEMMA JudgedSession ==
    ASSUME NEW s \in Session, NEW risk \in RiskStates, NEW score \in Int
    PROVE  /\ Assessed(s, risk) \in Session /\ Grown(s, Assessed(s, risk))
           /\ Attempted(Refused(Assessed(s, risk)), score) \in Session
           /\ Grown(s, Attempted(Refused(Assessed(s, risk)), score))
<1>1. Assessed(s, risk) \in Session /\ Grown(s, Assessed(s, risk))
  BY MethodsGrow
<1> DEFINE a == Assessed(s, risk)
<1> HIDE DEF a
<1>2. Refused(a) \in Session /\ Grown(a, Refused(a))
  BY <1>1, MethodsGrow DEF a
<1> DEFINE b == Refused(a)
<1> HIDE DEF b
<1>3. Attempted(b, score) \in Session /\ Grown(b, Attempted(b, score))
  BY <1>2, MethodsGrow DEF b
<1> DEFINE c == Attempted(b, score)
<1> HIDE DEF c
<1>4. Grown(s, c)
  <2>1. a \in Session /\ b \in Session /\ c \in Session
    BY <1>1, <1>2, <1>3 DEF a, b, c
  <2>2. \A n \in Counters : /\ s[n] \in Nat /\ a[n] \in Nat /\ b[n] \in Nat /\ c[n] \in Nat
    BY <2>1 DEF Session, Counters
  <2>3. \A n \in Counters : s[n] <= a[n] /\ a[n] <= b[n] /\ b[n] <= c[n]
    BY <1>1, <1>2, <1>3 DEF Grown, a, b, c
  <2> QED
    BY <2>2, <2>3 DEF Grown
<1> QED
  BY <1>1, <1>3, <1>4 DEF a, b, c

\* A session that has grown is still no less risk than last was.
LEMMA RiskKept ==
    ASSUME IInv, UNCHANGED <<probe, last>>, session' \in Session, Grown(session, session')
    PROVE  RiskRises'
<1>1. /\ probe \in Probes /\ session \in Session /\ last.risk \in RiskStates
      /\ probe' = probe /\ last' = last
  BY DEF IInv, TypeOK
<1>2. Severity[RiskOf(probe, session)] <= Severity[RiskOf(probe, session')]
  BY <1>1, RiskOfGrows
<1>3. /\ Severity[last.risk] \in 0..3
      /\ Severity[RiskOf(probe, session)] \in 0..3
      /\ Severity[RiskOf(probe, session')] \in 0..3
  BY <1>1, RiskIsState, Severities
<1>4. Severity[last.risk] <= Severity[RiskOf(probe, session)]
  BY DEF IInv, RiskRises
<1>5. Severity[last.risk] <= Severity[RiskOf(probe, session')]
  BY <1>2, <1>3, <1>4
<1> QED
  BY <1>1, <1>5 DEF RiskRises

LEMMA IInvJudge == IInv /\ Judge => IInv'
<1> SUFFICES ASSUME IInv, Judge PROVE IInv'
  OBVIOUS
<1> DEFINE s == Requested(session)
           risk == RiskOf(probe, s)
           decision == Verdict(probe, risk)
<1>1. /\ probe \in Probes /\ session \in Session /\ last.risk \in RiskStates
      /\ wasDenied \in BOOLEAN /\ steps \in 0..MaxSteps
  BY DEF IInv, TypeOK
<1>2. s \in Session /\ Grown(session, s)
  BY <1>1, MethodsGrow DEF RiskStates
<1>3. risk \in RiskStates
  BY <1>1, <1>2, RiskIsState
<1>4. probe.scan.score \in Int
  BY <1>1, ProbesAssumption DEF Judgeable
<1>5. /\ probe' = probe
      /\ steps < MaxSteps /\ steps' = steps + 1
      /\ last' = [risk |-> risk, decision |-> decision] /\ judged' = TRUE
      /\ decision.action = "deny" =>
             /\ session' = Attempted(Refused(Assessed(s, risk)), probe.scan.score)
             /\ wasDenied' = TRUE
      /\ decision.action # "deny" =>
             session' = Assessed(s, risk) /\ wasDenied' = wasDenied
  BY DEF Judge, Step
<1>6. decision.action \in {"allow", "allow_with_restrictions", "deny", "challenge"}
  BY ActionOf, VerdictOf
<1> HIDE DEF s, risk, decision
<1>7. session' \in Session /\ Grown(s, session')
  BY <1>2, <1>3, <1>4, <1>5, JudgedSession
<1>8. /\ last'.risk = risk /\ last'.decision = decision
  BY <1>5
<1>9. TypeOK'
  <2>1. probe' \in Probes /\ steps' \in 0..MaxSteps
    BY <1>1, <1>5, StepsAssumption
  <2>2. judged' \in BOOLEAN /\ wasDenied' \in BOOLEAN
    BY <1>1, <1>5
  <2>3. last'.risk \in RiskStates
    BY <1>3, <1>8
  <2>4. last'.decision.action \in {"allow", "allow_with_restrictions", "deny", "challenge"}
    BY <1>6, <1>8
  <2> QED
    BY <1>7, <2>1, <2>2, <2>3, <2>4 DEF TypeOK
<1>10. AsJudged'
  <2>1. decision = Verdict(probe, risk)
    BY DEF decision
  <2> QED
    BY <1>5, <1>8, <2>1 DEF AsJudged
<1>11. RiskRises'
  <2>1. risk = RiskOf(probe, s)
    BY DEF risk
  <2>2. Severity[RiskOf(probe, s)] <= Severity[RiskOf(probe, session')]
    BY <1>1, <1>2, <1>7, RiskOfGrows
  <2> QED
    BY <1>5, <1>8, <2>1, <2>2 DEF RiskRises
<1>12. RetryNeverHelps'
  <2> SUFFICES ASSUME wasDenied', ByDegree \cap probe.scan.labels = {}
               PROVE  decision.action = "deny"
    BY <1>5, <1>8 DEF RetryNeverHelps
  <2>1. CASE ~ wasDenied
    BY <1>5, <2>1
  <2>2. CASE wasDenied
    <3>1. last.decision.action = "deny"
      BY <2>2 DEF IInv, RetryNeverHelps
    <3>2. last # Unjudged
      BY <3>1 DEF Unjudged, default_decision, Decision
    <3>3. last.decision = evaluate(Classified(probe, analysis(probe.reply), last.risk))
      BY <3>2, VerdictOf DEF IInv, AsJudged
    <3>4. Severity[last.risk] <= Severity[risk]
      <4>1. Severity[last.risk] <= Severity[RiskOf(probe, session)]
        BY DEF IInv, RiskRises
      <4>2. Severity[RiskOf(probe, session)] <= Severity[RiskOf(probe, s)]
        BY <1>1, <1>2, RiskOfGrows
      <4>3. /\ Severity[last.risk] \in 0..3
            /\ Severity[RiskOf(probe, session)] \in 0..3
            /\ Severity[RiskOf(probe, s)] \in 0..3
        BY <1>1, <1>2, RiskIsState, Severities
      <4> QED
        BY <4>1, <4>2, <4>3 DEF risk
    <3>5. evaluate(Classified(probe, analysis(probe.reply), risk)).action = "deny"
      BY <1>1, <1>3, <3>1, <3>3, <3>4, DenyStays
    <3> QED
      BY <3>5, VerdictOf DEF decision
  <2> QED
    BY <1>1, <2>1, <2>2
<1> QED
  BY <1>9, <1>10, <1>11, <1>12 DEF IInv

LEMMA IInvNext == IInv /\ [Next]_vars => IInv'
<1> SUFFICES ASSUME IInv, [Next]_vars PROVE IInv'
  OBVIOUS
<1>1. /\ probe \in Probes /\ session \in Session /\ last.risk \in RiskStates
      /\ steps \in 0..MaxSteps
  BY DEF IInv, TypeOK
<1>2. ASSUME UNCHANGED <<probe, last, judged, wasDenied>>, session' \in Session,
             Grown(session, session'), steps' \in 0..MaxSteps
      PROVE  IInv'
  <2>1. RiskRises'
    BY <1>2, RiskKept
  <2>2. TypeOK'
    BY <1>2 DEF IInv, TypeOK
  <2>3. AsJudged' /\ RetryNeverHelps'
    BY <1>2 DEF IInv, AsJudged, RetryNeverHelps, Verdict
  <2> QED
    BY <2>1, <2>2, <2>3 DEF IInv
<1>3. Step => steps' \in 0..MaxSteps /\ probe' = probe
  BY <1>1, StepsAssumption DEF Step
<1>4. CASE Judge
  BY <1>4, IInvJudge
<1>5. CASE AnotherDenied
  <2>1. PICK score \in {0, 60} :
            session' = Attempted(Refused(Requested(session)), score)
    BY <1>5 DEF AnotherDenied
  <2> DEFINE a == Requested(session)
             b == Refused(a)
             c == Attempted(b, score)
  <2>2. a \in Session /\ Grown(session, a)
    BY <1>1, MethodsGrow DEF RiskStates
  <2> HIDE DEF a
  <2>3. b \in Session /\ Grown(a, b)
    BY <2>2, MethodsGrow DEF RiskStates
  <2> HIDE DEF b
  <2>4. c \in Session /\ Grown(b, c)
    BY <2>3, MethodsGrow DEF RiskStates
  <2> HIDE DEF c
  <2>5. Grown(session, c)
    <3>1. \A n \in Counters : /\ session[n] \in Nat /\ a[n] \in Nat
                              /\ b[n] \in Nat /\ c[n] \in Nat
      BY <1>1, <2>2, <2>3, <2>4 DEF Session, Counters
    <3>2. \A n \in Counters : session[n] <= a[n] /\ a[n] <= b[n] /\ b[n] <= c[n]
      BY <2>2, <2>3, <2>4 DEF Grown
    <3> QED
      BY <3>1, <3>2 DEF Grown
  <2>6. session' = c
    BY <2>1 DEF a, b, c
  <2>7. UNCHANGED <<probe, last, judged, wasDenied>> /\ steps' \in 0..MaxSteps
    BY <1>3, <1>5 DEF AnotherDenied
  <2> QED
    BY <1>2, <2>4, <2>5, <2>6, <2>7
<1>6. CASE AnotherRanTool
  <2> DEFINE a == Requested(session)
             b == ToolUsed(a)
  <2>1. a \in Session /\ Grown(session, a)
    BY <1>1, MethodsGrow DEF RiskStates
  <2> HIDE DEF a
  <2>2. b \in Session /\ Grown(a, b)
    BY <2>1, MethodsGrow DEF RiskStates
  <2> HIDE DEF b
  <2>3. Grown(session, b)
    <3>1. \A n \in Counters : session[n] \in Nat /\ a[n] \in Nat /\ b[n] \in Nat
      BY <1>1, <2>1, <2>2 DEF Session, Counters
    <3>2. \A n \in Counters : session[n] <= a[n] /\ a[n] <= b[n]
      BY <2>1, <2>2 DEF Grown
    <3> QED
      BY <3>1, <3>2 DEF Grown
  <2>4. session' = b
    BY <1>6 DEF AnotherRanTool, a, b
  <2>5. UNCHANGED <<probe, last, judged, wasDenied>> /\ steps' \in 0..MaxSteps
    BY <1>3, <1>6 DEF AnotherRanTool
  <2> QED
    BY <1>2, <2>2, <2>3, <2>4, <2>5
<1>7. CASE UNCHANGED vars
  <2>1. Grown(session, session)
    BY <1>1 DEF Grown, Counters, Session
  <2> QED
    BY <1>1, <1>2, <1>7, <2>1 DEF vars
<1> QED
  BY <1>4, <1>5, <1>6, <1>7 DEF Next

LEMMA IInvAlways == Spec => []IInv
<1>1. IInv /\ [Next]_vars => IInv'
  BY IInvNext
<1> QED
  BY IInvInit, <1>1, PTL DEF Spec

-----------------------------------------------------------------------------
(* What the runs check, for every instance *)

\* Types, for any requests, histories and number of steps.
THEOREM VerdictTypeCorrect == Spec => []TypeOK
<1>1. IInv => TypeOK
  BY DEF IInv
<1> QED
  BY IInvAlways, <1>1, PTL

\* However often a request is sent again, and whatever else its session does
\* in between: once denied, it stays denied, unless it is hate or
\* discriminatory content (content_classifier.py, risk_engine.py and the order
\* of default_policy.json together).
THEOREM RetrySafety == Spec => []RetryNeverHelps
<1>1. IInv => RetryNeverHelps
  BY DEF IInv
<1> QED
  BY IInvAlways, <1>1, PTL

\* A request that carries a secret gets neither tools nor retrieval, under any
\* risk and whatever the guard replies.
THEOREM SecretSafety == Spec => []NoContextForSecrets
<1>1. IInv => NoContextForSecrets
  <2> SUFFICES ASSUME IInv, "secret" \in probe.dlp.labels, judged
               PROVE  ~ last.decision.tools /\ ~ last.decision.retrieval
    BY DEF NoContextForSecrets
  <2> DEFINE e == Classified(probe, analysis(probe.reply), last.risk)
  <2>1. last.decision = evaluate(e)
    BY VerdictOf DEF IInv, AsJudged
  <2>2. e.dlp = probe.dlp
    BY DEF Classified
  <2> HIDE DEF e
  <2>3. Closing(e)
    BY <2>2 DEF Closing
  <2>4. evaluate(e) \in {Deny, Challenge, Limited}
    BY <2>3, RulesInOrder
  <2> QED
    BY <2>1, <2>4 DEF Deny, Challenge, Limited, Decision
<1> QED
  BY IInvAlways, <1>1, PTL

\* The class of a request the scanners find nothing in and the policy permits.
LEMMA QuietClass ==
    ASSUME NEW p \in Probes, NEW guard, NEW risk, Quiet(p)
    PROVE  classify(Raw(p, guard, risk)).label \in
               {"sensitive_data_submission", "suspicious", "benign"}
<1> DEFINE d == Raw(p, guard, risk)
<1>1. d.scan = p.scan /\ d.dlp = p.dlp
  BY DEF Raw
<1> HIDE DEF d
<1>2. p.scan.labels = {} /\ p.scan.score = 0
  BY ProbesAssumption DEF Quiet, Judgeable
<1>3. ~ Corroborated(d)
  BY <1>1, <1>2 DEF Corroborated
<1>4. ByScanners(d).label \in {"sensitive_data_submission", "suspicious", "benign"}
  BY <1>1, <1>2, ScannersInOrder DEF Class
<1>5. CASE PlainSubmission(d)
  BY <1>5 DEF classify, Class, d
<1>6. CASE ~ PlainSubmission(d) /\ Unconfirmed(d)
  BY <1>6 DEF classify, Class, d
<1>7. CASE ~ PlainSubmission(d) /\ ~ Unconfirmed(d) /\ GuardDecides(d)
  <2>1. d.guard.label = "sensitive_data_submission"
    BY <1>3, <1>7 DEF GuardDecides, Unconfirmed
  <2> QED
    BY <1>7, <2>1 DEF classify, Class, d
<1>8. CASE ~ PlainSubmission(d) /\ ~ Unconfirmed(d) /\ ~ GuardDecides(d)
  BY <1>4, <1>8 DEF classify, d
<1> QED
  BY <1>5, <1>6, <1>7, <1>8

\* Whatever the guard replies, it alone gets no request denied or challenged.
THEOREM GuardAloneSafety == Spec => []GuardAloneNeverDenies
<1>1. IInv => GuardAloneNeverDenies
  <2> SUFFICES ASSUME IInv, Quiet(probe), last.risk # "blocked"
               PROVE  last.decision.action \notin {"deny", "challenge"}
    BY DEF GuardAloneNeverDenies
  <2> DEFINE guard == analysis(probe.reply)
             e == Classified(probe, guard, last.risk)
  <2>1. probe \in Probes
    BY DEF IInv, TypeOK
  <2>2. last = Unjudged \/ last.decision = evaluate(e)
    BY VerdictOf DEF IInv, AsJudged
  <2>3. e.class.label \in {"sensitive_data_submission", "suspicious", "benign"}
    BY <2>1, QuietClass DEF Classified
  <2>4. /\ e.scan = probe.scan /\ e.dlp = probe.dlp /\ e.permitted = probe.permitted
        /\ e.risk = last.risk
    BY DEF Classified
  <2> HIDE DEF guard, e
  <2>5. /\ probe.permitted /\ probe.scan.labels = {} /\ probe.scan.score = 0
        /\ probe.dlp.score \in 0..100 /\ probe.dlp.score < 60
        /\ "metadata_injection" \notin probe.dlp.labels
    BY <2>1, ProbesAssumption DEF Quiet, Judgeable
  <2>6. ~ Denying(e) /\ ~ Challenging(e)
    BY <2>3, <2>4, <2>5 DEF Denying, Challenging
  <2>7. evaluate(e) = Limited \/ evaluate(e).action \in {"allow", "allow_with_restrictions"}
    BY <2>4, <2>6, RulesInOrder
  <2> QED
    BY <2>2, <2>7 DEF Limited, Decision, Unjudged, default_decision
<1> QED
  BY IInvAlways, <1>1, PTL

\* Guards that accuse of nothing make no difference to the class.
LEMMA UnaccusedClass ==
    ASSUME NEW p, NEW guard, NEW other, NEW risk,
           guard.label \notin Accusations, other.label \notin Accusations
    PROVE  classify(Raw(p, guard, risk)) = classify(Raw(p, other, risk))
<1> DEFINE d == Raw(p, guard, risk)
           e == Raw(p, other, risk)
<1>1. /\ d.scan = p.scan /\ d.dlp = p.dlp /\ d.guard = guard /\ d.risk = risk
      /\ e.scan = p.scan /\ e.dlp = p.dlp /\ e.guard = other /\ e.risk = risk
  BY DEF Raw
<1> HIDE DEF d, e
<1>2. /\ ~ PlainSubmission(d) /\ ~ Unconfirmed(d) /\ ~ GuardDecides(d)
      /\ ~ PlainSubmission(e) /\ ~ Unconfirmed(e) /\ ~ GuardDecides(e)
  BY <1>1 DEF PlainSubmission, Unconfirmed, GuardDecides, Accusations, HardLabels
<1>3. classify(d) = ByScanners(d) /\ classify(e) = ByScanners(e)
  BY <1>2 DEF classify
<1>4. ByScanners(d) = ByScanners(e)
  BY <1>1, ScannersInOrder
<1> QED
  BY <1>3, <1>4 DEF d, e

\* Neither an outage of the guard nor a reply without an accusation changes the
\* verdict, for any request under any risk.
THEOREM OutageSafety == Spec => []OutageIsNeutral
<1>1. IInv => OutageIsNeutral
  <2> SUFFICES ASSUME IInv PROVE OutageIsNeutral
    OBVIOUS
  <2>1. probe \in Probes
    BY DEF IInv, TypeOK
  <2>2. analysis(NotAsked) = NoGuard /\ analysis(Raises) = GuardFallback
    BY DEF analysis, NotAsked, Raises
  <2>3. NoGuard.label \notin Accusations /\ GuardFallback.label \notin Accusations
    BY DEF NoGuard, GuardFallback, GuardAnalysis, Accusations, HardLabels
  <2>4. ASSUME NEW reply, analysis(reply).label \notin Accusations
        PROVE  With(reply) = With(NotAsked)
    <3> DEFINE d == Classified(probe, analysis(reply), last.risk)
               e == Classified(probe, NoGuard, last.risk)
    <3>1. d.class = e.class
      BY <2>3, <2>4, UnaccusedClass DEF Classified
    <3>2. /\ d.scan = e.scan /\ d.dlp = e.dlp /\ d.risk = e.risk
          /\ d.permitted = e.permitted /\ d.stepUp = e.stepUp
      BY DEF Classified
    <3>3. With(reply) = evaluate(d) /\ With(NotAsked) = evaluate(e)
      BY <2>1, <2>2, WithOf
    <3> HIDE DEF d, e
    <3> QED
      BY <3>1, <3>2, <3>3, EvaluateByClass
  <2> QED
    BY <2>2, <2>3, <2>4 DEF OutageIsNeutral
<1> QED
  BY IInvAlways, <1>1, PTL

\* What the scanners alone would have denied is at least cut off from tools and
\* retrieval, whatever the guard replies.
LEMMA EasedSoFar ==
    ASSUME NEW p, NEW guard, NEW risk,
           p.dlp.score \in Nat,
           evaluate(Classified(p, NoGuard, risk)).action = "deny"
    PROVE  evaluate(Classified(p, guard, risk)) \in {Deny, Challenge, Limited}
<1> DEFINE d == Classified(p, NoGuard, risk)
           e == Classified(p, guard, risk)
           r == Raw(p, guard, risk)
           n == Raw(p, NoGuard, risk)
<1>1. /\ d.scan = p.scan /\ d.dlp = p.dlp /\ d.permitted = p.permitted /\ d.risk = risk
      /\ e.scan = p.scan /\ e.dlp = p.dlp /\ e.permitted = p.permitted /\ e.risk = risk
      /\ r.scan = p.scan /\ r.dlp = p.dlp /\ r.risk = risk /\ r.guard = guard
      /\ n.scan = p.scan /\ n.dlp = p.dlp /\ n.risk = risk /\ n.guard = NoGuard
      /\ e.class = classify(r) /\ d.class = classify(n)
  BY DEF Classified, Raw
<1>2. evaluate(d).action = "deny"
  OBVIOUS
<1> SUFFICES evaluate(e) \in {Deny, Challenge, Limited}
  OBVIOUS
<1> HIDE DEF d, e, r, n
<1>3. d.class = ByScanners(n)
  BY <1>1 DEF classify, PlainSubmission, Unconfirmed, GuardDecides, NoGuard, GuardAnalysis,
              HardLabels
<1>4. ByScanners(r) = ByScanners(n)
  BY <1>1, ScannersInOrder
<1>5. \/ PlainSubmission(r) /\ e.class.label = "sensitive_data_submission"
      \/ /\ ~ PlainSubmission(r) /\ Unconfirmed(r)
      \/ /\ ~ PlainSubmission(r) /\ ~ Unconfirmed(r) /\ GuardDecides(r)
         /\ e.class.label \in HardLabels \cup {"sensitive_data_submission"}
      \/ e.class = d.class
  <2>1. CASE PlainSubmission(r)
    BY <1>1, <2>1 DEF classify, Class
  <2>2. CASE ~ PlainSubmission(r) /\ ~ Unconfirmed(r) /\ GuardDecides(r)
    <3>1. e.class.label = r.guard.label
      BY <1>1, <2>2 DEF classify, Class
    <3> QED
      BY <2>2, <3>1 DEF GuardDecides
  <2>3. CASE ~ PlainSubmission(r) /\ ~ Unconfirmed(r) /\ ~ GuardDecides(r)
    BY <1>1, <1>3, <1>4, <2>3 DEF classify
  <2> QED
    BY <2>1, <2>2, <2>3
<1>6. Denying(d) \/ risk = "blocked"
  BY <1>1, <1>2, RulesInOrder DEF Challenge, Limited, Decision
<1>7. CASE risk = "blocked"
  BY <1>1, <1>7, RulesInOrder
<1>8. CASE Denying(e) \/ Closing(e)
  BY <1>8, RulesInOrder
<1>9. CASE Denying(d) /\ ~ Denying(e)
  <2>1. \/ d.class.label \in {"prompt_injection", "jailbreak_attempt"}
        \/ d.class.label = "secret_exfiltration_intent"
        \/ d.class.label = "exploit_or_malware_intent"
        \/ p.dlp.score >= 60
    BY <1>1, <1>9 DEF Denying
  <2>2. CASE p.dlp.score >= 60
    <3>1. Closing(e)
      BY <1>1, <2>2 DEF Closing
    <3> QED
      BY <1>8, <3>1
  <2>3. CASE d.class.label \in {"prompt_injection", "jailbreak_attempt",
                 "secret_exfiltration_intent", "exploit_or_malware_intent"}
    <3>1. Corroborated(r) \/ "prompt_leakage" \in p.scan.labels
      BY <1>1, <1>3, <2>3, ScannersInOrder DEF Corroborated, Class
    <3>2. "prompt_leakage" \notin p.scan.labels
      BY <1>1, <1>9 DEF Denying
    <3>3. ~ Unconfirmed(r)
      BY <3>1, <3>2 DEF Unconfirmed
    <3>4. e.class # d.class
      BY <1>1, <1>3, <1>9, <2>3, <3>2, ScannersInOrder DEF Denying, Class
    <3>5. e.class.label \in HardLabels \cup {"sensitive_data_submission"}
      BY <1>5, <3>3, <3>4
    <3>6. Denying(e) \/ Closing(e)
      BY <3>5 DEF HardLabels, Denying, Closing
    <3> QED
      BY <1>8, <3>6
  <2> QED
    BY <2>1, <2>2, <2>3
<1> QED
  BY <1>6, <1>7, <1>8, <1>9

\* The guard eases a deny of the scanners only so far (content_classifier.py:97
\* and the order of the rules).
THEOREM EasedSafety == Spec => []EasedOnlySoFar
<1>1. IInv => EasedOnlySoFar
  <2> SUFFICES ASSUME IInv, With(NotAsked).action = "deny"
               PROVE  ~ With(probe.reply).tools /\ ~ With(probe.reply).retrieval
    BY DEF EasedOnlySoFar
  <2>1. probe \in Probes /\ probe.dlp.score \in Nat
    BY ProbesAssumption DEF IInv, TypeOK, Judgeable
  <2>2. analysis(NotAsked) = NoGuard
    BY DEF analysis, NotAsked
  <2>3. /\ With(NotAsked) = evaluate(Classified(probe, NoGuard, last.risk))
        /\ With(probe.reply) = evaluate(Classified(probe, analysis(probe.reply), last.risk))
    BY <2>1, <2>2, WithOf
  <2>4. With(probe.reply) \in {Deny, Challenge, Limited}
    BY <2>1, <2>3, EasedSoFar
  <2> QED
    BY <2>4 DEF Deny, Challenge, Limited, Decision
<1> QED
  BY IInvAlways, <1>1, PTL
=============================================================================
