---------------------------- MODULE Adjudication ----------------------------
(***************************************************************************)
(* The verdicts a request gets, sent again and again while its session     *)
(* ages.  Each time it is scanned, its risk assessed against the session   *)
(* as it has become, the guard's answer classified with the rest and the   *)
(* policy asked (SessionPolicyStep of app/chat_pipeline.py); a deny feeds  *)
(* back into the session, and through the risk into later verdicts.        *)
(*                                                                         *)
(* The other requests of the session are seen by what they leave in it.    *)
(* Requests do not overlap here and the limiter lets them through: their   *)
(* interleaving is the matter of ChatPipeline.                             *)
(***************************************************************************)
EXTENDS ContentPolicy, SessionRisk

CONSTANTS
    Probes,          \* the requests followed
    Histories,       \* sessions at the start
    MaxSteps         \* bound: how many requests the session gets

\* What the scanners and the guard client make of any request.
Judgeable(p) ==
    /\ DOMAIN p = {"scan", "dlp", "reply", "permitted", "stepUp"}
    /\ p.scan.score \in 0..100 /\ p.dlp.score \in 0..100
    /\ p.scan.labels = {} => p.scan.score = 0
    /\ analysis(p.reply).label \in AllowedLabels \cup {NoGuard.label}
    /\ analysis(p.reply).action \in AllowedActions \cup {NoGuard.action}
    /\ {analysis(p.reply).confidence, analysis(p.reply).risk} \subseteq 0..100
    /\ p.permitted \in BOOLEAN /\ p.stepUp \in BOOLEAN

ASSUME ProbesAssumption == \A p \in Probes : Judgeable(p)
ASSUME HistoriesAssumption == Histories \subseteq Session
ASSUME StepsAssumption == MaxSteps \in Nat

VARIABLES
    probe,         \* the request
    session,       \* its session
    last,          \* the decision it got last, and the risk it was judged by
    judged,        \* history: it was judged, so last is a verdict
    wasDenied,     \* history: it was denied before
    steps

vars == <<probe, session, last, judged, wasDenied, steps>>

Unjudged == [risk |-> "normal", decision |-> default_decision]

RiskOf(p, s) ==
    assess([scan |-> p.scan.score, controlChars |-> FALSE,
            systemMessage |-> FALSE, developerMessage |-> FALSE], s).state

\* The decision on p, judged by the risk of its session.
Verdict(p, risk) ==
    LET e == [scan |-> p.scan, dlp |-> p.dlp, guard |-> analysis(p.reply), risk |-> risk,
              permitted |-> p.permitted, stepUp |-> p.stepUp, class |-> Unclassified]
    IN  evaluate([e EXCEPT !.class = classify(e)])

TypeOK ==
    /\ probe \in Probes
    /\ session \in Session
    /\ last.risk \in RiskStates
    /\ last.decision.action \in {"allow", "allow_with_restrictions", "deny", "challenge"}
    /\ judged \in BOOLEAN /\ wasDenied \in BOOLEAN
    /\ steps \in 0..MaxSteps

Init ==
    /\ probe \in Probes
    /\ session \in Histories
    /\ last = Unjudged
    /\ judged = FALSE /\ wasDenied = FALSE
    /\ steps = 0

Step == steps < MaxSteps /\ steps' = steps + 1 /\ UNCHANGED probe

Judge ==
    LET s == Requested(session)
        risk == RiskOf(probe, s)
        decision == Verdict(probe, risk)
    IN  /\ Step
        /\ last' = [risk |-> risk, decision |-> decision]
        /\ judged' = TRUE
        /\ IF decision.action = "deny"
           THEN /\ session' = Attempted(Refused(Assessed(s, risk)), probe.scan.score)
                /\ wasDenied' = TRUE
           ELSE /\ session' = Assessed(s, risk)
                /\ UNCHANGED wasDenied

\* Another request of the session is denied, with a low or a high scan score.
AnotherDenied ==
    /\ Step
    /\ \E score \in {0, 60} : session' = Attempted(Refused(Requested(session)), score)
    /\ UNCHANGED <<last, judged, wasDenied>>

\* Another request is let through and runs a tool.
AnotherRanTool ==
    /\ Step
    /\ session' = ToolUsed(Requested(session))
    /\ UNCHANGED <<last, judged, wasDenied>>

Next == Judge \/ AnotherDenied \/ AnotherRanTool

Spec == Init /\ [][Next]_vars

-----------------------------------------------------------------------------
(* Properties *)

\* Rules that depend on the degree of the risk judge these contents.
ByDegree == {"hate_content", "discriminatory_content"}

\* A request that was denied is denied whenever it is sent again and the guard
\* answers alike, however the session has aged: later rules and rising risk
\* never turn a deny into less.
\* Hate and discriminatory content is left out: it is denied in a restricted
\* session and only restricted in a blocked one (default_policy.json:201-251,
\* 304-319 stands before deny_blocked_session).
RetryNeverHelps ==
    wasDenied /\ ByDegree \cap probe.scan.labels = {} => last.decision.action = "deny"

\* "Guard-only hard-attack labels must be corroborated by deterministic
\* signals" (content_classifier.py:56): whatever the guard answers, a request
\* the scanners find nothing in is not denied or challenged for it.
Quiet(p) == p.permitted /\ p.scan.labels = {} /\ p.dlp.score < 60
                /\ "metadata_injection" \notin p.dlp.labels

GuardAloneNeverDenies ==
    Quiet(probe) /\ last.risk # "blocked" => last.decision.action \notin {"deny", "challenge"}

With(reply) == Verdict([probe EXCEPT !.reply = reply], last.risk)
Accusations == HardLabels \cup {"sensitive_data_submission"}

\* An outage of the guard costs nothing but the guard: the fallback answer is
\* judged like no answer, for every request and every state of its session, and
\* so is every reply, readable or not, that accuses the request of nothing.
OutageIsNeutral ==
    LET unheard == With(NotAsked)
    IN  /\ With(Raises) = unheard
        /\ analysis(probe.reply).label \notin Accusations => With(probe.reply) = unheard

\* The guard can ease a deny of the scanners (its accusation takes the place of
\* theirs, content_classifier.py:97), but only so far: whatever it replies,
\* such a request gets neither tools nor retrieval.
EasedOnlySoFar ==
    LET decision == With(probe.reply)
    IN  With(NotAsked).action = "deny" => ~ decision.tools /\ ~ decision.retrieval

\* A request that carries a secret reaches neither tools nor retrieval, and the
\* default allow of a session at normal risk least of all.
NoContextForSecrets ==
    "secret" \in probe.dlp.labels /\ judged =>
        ~ last.decision.tools /\ ~ last.decision.retrieval

\* docs/architecture/overview.md: abusive session behavior is answered by the
\* risk engine and the policy with "Restrict / block".
RestrictedSessionRestricted ==
    last.risk \in {"restricted", "blocked"} => last.decision.action # "allow"
=============================================================================
