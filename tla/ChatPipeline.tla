---------------------------- MODULE ChatPipeline ----------------------------
(***************************************************************************)
(* The chat pipeline (app/chat_pipeline.py, app/chat_orchestrator.py) with *)
(* several requests under way at once, over the shared rate limiter and    *)
(* the shared sessions.  On the single event loop the code between two     *)
(* awaits is atomic, so a request takes one step from each await to the    *)
(* next:                                                                   *)
(*                                                                         *)
(*   FetchKeys        token, no fresh keys                ..  key set      *)
(*   Receive          preflight, session, limiter, risk   ..  input guard  *)
(*   GuardAnswered    classification, policy, deny/challenge .. redaction  *)
(*   Redacted                                             ..  retrieval    *)
(*   Retrieved                                            ..  redaction    *)
(*   RedactedAgain    tools, prompt, token budget         ..  forwarding   *)
(*   Forwarded        output text                         ..  output guard *)
(*   OutputInspected  output guard, audit, log, response                   *)
(*                                                                         *)
(* What the policy decides is left open: any action may follow any guard   *)
(* answer.  So is what a deny adds to the attacker profile: any of the     *)
(* Multipliers may hold for a later request.  An await the settings skip   *)
(* is a step taken at once; with fresh keys, or without verification, a    *)
(* request is received at once.  The limiter and the key cache read one    *)
(* clock.                                                                  *)
(*                                                                         *)
(* Within a step the session is saved several times, and each save commits *)
(* on its own.  Nobody else sees the values between them, but a save that  *)
(* raises, or a stop of the process, ends the step there: ReceiveRaised,   *)
(* DenyRaised and ToolCountRaised are the steps that raise, Stopped... the *)
(* stops between two saves, Crash a stop at the awaits.                    *)
(***************************************************************************)
EXTENDS SessionRisk, KeyCache, Sequences, FiniteSets

CONSTANTS
    SessionIds,        \* session ids, sent by clients or drawn by uuid4
    Absent,            \* no session under an id
    Histories,         \* sessions the store may hold at the start
    RequestInputs,     \* scan scores and facts of the requests
    EnforceTokenBudget,  \* the budget is enforced, by the settings or the policy
    TruncatePrompt,      \* settings.token_budget_mode is "truncate"
    Keys, MaxRequests, Window, CooldownSeconds, StateBackends,
    StoreMayFail, Severities, InjectionCounts, Multipliers, MaxTime, MaxRestarts,
    VerifySignature,     \* settings.jwt_verify_signature
    MaxFaults            \* bound on saves that raise and stops between saves

ASSUME InputsAssumption == RequestInputs \subseteq Inputs
ASSUME HistoriesAssumption == Histories \subseteq Session
ASSUME AbsentAssumption == Absent \notin Session /\ Absent \notin SessionIds
ASSUME SettingsAssumption ==
    {EnforceTokenBudget, TruncatePrompt, VerifySignature} \subseteq BOOLEAN
ASSUME FaultsAssumption == MaxFaults \in Nat

VARIABLES
    call,              \* what the pipeline holds for each request
    session,           \* the sessions as the session manager loads them
    rows,              \* the rows of namespace "session" in the store
    faults,            \* saves that raised and stops between saves, so far
    atStart,           \* history: the sessions at the start
    stateBackend, storeOpen, restarts, bucket, memCooldown, hitRows,
    nextRow, dbCooldown, verdict, log, base, promised

Limiter == INSTANCE RateLimiter

limiterVars == <<now, stateBackend, storeOpen, restarts, bucket, memCooldown, hitRows,
                 nextRow, dbCooldown, verdict, log, base, promised>>
services == <<limiterVars, keyVars>>
sessionVars == <<session, rows, faults, atStart>>
vars == <<call, sessionVars, services>>

Phases == {"new", "keys", "input_guard", "redaction", "retrieval", "second_redaction",
           "upstream", "output_guard", "answered", "lost"}
Waiting == Phases \ {"new", "answered", "lost"}
Actions == {"allow", "allow_with_restrictions", "deny", "challenge"}
NoAnswer == 0
Statuses == {NoAnswer, 200, 401, 403, 413, 429, 500, 502}
NoRisk == [score |-> 0, state |-> "normal"]

NewCall == [phase |-> "new", id |-> Absent, key |-> Absent, input |-> Absent, admitted |-> FALSE, action |-> "none",
            risk |-> NoRisk, status |-> NoAnswer, audits |-> 0, logs |-> 0]

TypeOK ==
    /\ \A r \in Requests :
           /\ call[r].phase \in Phases
           /\ call[r].admitted \in BOOLEAN
           /\ call[r].action \in Actions \cup {"none"}
           /\ call[r].risk \in [score : 0..100, state : RiskStates]
           /\ call[r].status \in Statuses
           /\ call[r].audits \in 0..1 /\ call[r].logs \in 0..1
           /\ call[r].admitted \/ call[r].status = 429 =>
                  /\ call[r].id \in SessionIds
                  /\ call[r].key \in Keys
                  /\ call[r].input \in RequestInputs
    /\ session \in [SessionIds -> Session \cup {Absent}]
    /\ rows \in [SessionIds -> Session \cup {Absent}]
    /\ faults \in Nat

\* What a process that has just started loads: the rows, if it has the store.
LoadedFrom(left, open) == IF open THEN left ELSE [id \in SessionIds |-> Absent]

Init ==
    /\ call = [r \in Requests |-> NewCall]
    /\ Limiter!Init
    /\ rows \in [SessionIds -> Histories \cup {Absent}]
    /\ session = LoadedFrom(rows, storeOpen)
    /\ atStart = session
    /\ faults = 0
    /\ KeyInit

-----------------------------------------------------------------------------
Answer(c, code) == [c EXCEPT !.phase = "answered", !.status = code]
Audited(c) == [c EXCEPT !.audits = @ + 1]
\* Variant: the record written twice.
LoggedTwice(c) == [c EXCEPT !.logs = @ + 2]

Logged(c) == [c EXCEPT !.logs = @ + 1]
Await(c, phase) == [c EXCEPT !.phase = phase]

\* A save: the object of this process and, with a store, its row.
Put(id, s) ==
    /\ session' = [session EXCEPT ![id] = s]
    /\ rows' = IF storeOpen THEN [rows EXCEPT ![id] = s] ELSE rows
    /\ UNCHANGED faults

\* A save that raises has changed the object; the row is the one before, or
\* the new one, brought to disk by the next commit (see SessionStore).
PutRaises(id, s, before) ==
    /\ storeOpen
    /\ faults < MaxFaults
    /\ faults' = faults + 1
    /\ session' = [session EXCEPT ![id] = s]
    /\ \E row \in {before, s} : rows' = [rows EXCEPT ![id] = row]

\* A token is verified with the keys in the cache, or else with fetched ones.
Authenticated(r) ==
    \/ /\ ~ VerifySignature /\ call[r].phase = "new"
       /\ UNCHANGED keyVars
    \/ /\ VerifySignature /\ call[r].phase = "new"
       /\ \E key \in Tokens : FromCache(r, key, "accepted")
    \/ /\ call[r].phase = "keys"
       /\ Fetched(r, "accepted")

FetchKeys(r) ==
    /\ VerifySignature /\ call[r].phase = "new"
    /\ \E key \in Tokens : BeginFetch(r, key)
    /\ call' = [call EXCEPT ![r] = Await(@, "keys")]
    /\ UNCHANGED <<sessionVars, limiterVars>>

KeysServed(r) ==
    /\ Serve(r)
    /\ UNCHANGED <<call, sessionVars, limiterVars>>

Unauthorized(r) ==
    /\ \/ /\ VerifySignature /\ call[r].phase = "new"
          /\ \E key \in Tokens : FromCache(r, key, "refused")
       \/ /\ call[r].phase = "keys"
          /\ Fetched(r, "refused") \/ FetchFailed(r)
    /\ call' = [call EXCEPT ![r] = Answer(@, 401)]
    /\ UNCHANGED <<sessionVars, limiterVars>>

KeyRotated ==
    /\ VerifySignature
    /\ Rotate
    /\ UNCHANGED <<call, sessionVars, limiterVars>>

\* content-length above max_request_bytes: refused before anything is read.
TooLarge(r) ==
    /\ Authenticated(r)
    /\ call' = [call EXCEPT ![r] = Answer(@, 413)]
    /\ UNCHANGED <<sessionVars, limiterVars>>

\* Variant: the wrong counter of the session read.
Escalations(s) == s.escalations

\* What the limiter is told of the session.
get_injection_attempt_count(s) == s.injections

\* Variant: a request over its limit goes on.
AdmittedAnyway(key, in, s, mult) ==
    \/ Limiter!Allowed(key, in.scan, get_injection_attempt_count(s), mult)
    \/ Limiter!LimitExceeded(key, in.scan, get_injection_attempt_count(s), mult)

Admitted(key, in, s, mult) ==
    Limiter!Allowed(key, in.scan, get_injection_attempt_count(s), mult)

RateLimited(key, in, s, mult) ==
    \/ Limiter!RefusedInCooldown(key)
    \/ Limiter!CooldownStarted(key, get_injection_attempt_count(s))
    \/ Limiter!LimitExceeded(key, in.scan, get_injection_attempt_count(s), mult)

\* get_or_create_session.
Found(id) == IF session[id] = Absent THEN Fresh ELSE session[id]

\* The session is found or made and counts the request before the limiter is
\* asked; the risk is assessed and stored only for a request it allows.
Receive(r, id, key, in, mult) ==
    LET s == Requested(Found(id))
        risk == assess(in, s)
        received == [call[r] EXCEPT !.id = id, !.key = key, !.input = in]
    IN  /\ Authenticated(r)
        /\ \/ /\ RateLimited(key, in, s, mult)
              /\ Put(id, s)
              /\ call' = [call EXCEPT ![r] = Answer(received, 429)]
           \/ /\ Admitted(key, in, s, mult)
              /\ Put(id, Assessed(s, risk.state))
              /\ call' = [call EXCEPT ![r] =
                              [Await(received, "input_guard") EXCEPT !.admitted = TRUE,
                                                                     !.risk = risk]]
        /\ UNCHANGED atStart

\* One of the saves on the way raises: of the session found or made, of the
\* request counted, or of the risk of a request the limiter let in.
ReceiveRaised(r, id, key, in, mult) ==
    LET s == Requested(Found(id))
        raised == [Answer(call[r], 500) EXCEPT !.id = id, !.key = key, !.input = in]
    IN  /\ Authenticated(r)
        /\ \/ /\ \/ PutRaises(id, Found(id), rows[id])
                 \/ PutRaises(id, s, Found(id))
              /\ call' = [call EXCEPT ![r] = raised]
              /\ UNCHANGED limiterVars
           \/ /\ Admitted(key, in, s, mult)
              /\ PutRaises(id, Assessed(s, assess(in, s).state), s)
              /\ call' = [call EXCEPT ![r] = [raised EXCEPT !.admitted = TRUE]]
        /\ UNCHANGED atStart

\* Variant: the attempt recorded without the refusal.
DenialWithoutRefusal(s, scan) == Attempted(s, scan)

\* A deny feeds back into the session, in two saves: of the refusal, then of
\* the attempt.
Denial(s, scan) == Attempted(Refused(s), scan)

\* The guard's answer (or its fallback) is classified and put to the policy,
\* with the risk assessed before the await.
GuardAnswered(r, action) ==
    LET c  == [call[r] EXCEPT !.action = action]
        id == call[r].id
    IN  /\ call[r].phase = "input_guard"
        /\ \/ /\ action = "deny"
              /\ Put(id, Denial(session[id], c.input.scan))
              /\ call' = [call EXCEPT ![r] = Answer(Logged(Audited(c)), 403)]
           \/ /\ action = "challenge"
              /\ call' = [call EXCEPT ![r] = Answer(Logged(Audited(c)), 403)]
              /\ UNCHANGED <<session, rows, faults>>
           \/ /\ action \notin {"deny", "challenge"}
              /\ call' = [call EXCEPT ![r] = Await(c, "redaction")]
              /\ UNCHANGED <<session, rows, faults>>
        /\ UNCHANGED <<atStart, services>>

\* A deny that raises: in the save of the refusal, or in that of the attempt
\* or of the attacker profile after it.  Neither audit nor log is written.
DenyRaised(r) ==
    LET id == call[r].id
        refused == Refused(session[id])
    IN  /\ call[r].phase = "input_guard"
        /\ \/ PutRaises(id, refused, rows[id])
           \/ PutRaises(id, Denial(session[id], call[r].input.scan), refused)
        /\ call' = [call EXCEPT ![r] = [Answer(@, 500) EXCEPT !.action = "deny"]]
        /\ UNCHANGED <<atStart, services>>

Redacted(r) ==
    /\ call[r].phase = "redaction"
    /\ call' = [call EXCEPT ![r] = Await(@, "retrieval")]
    /\ UNCHANGED <<sessionVars, services>>

\* Variant: after retrieval the first redaction once more.
RetrievedAndBack(r) ==
    /\ call[r].phase = "retrieval"
    /\ call' = [call EXCEPT ![r] = Await(@, "redaction")]
    /\ UNCHANGED <<sessionVars, services>>

\* A backend that cannot be reached is replaced by two stub chunks; a chunk
\* that does not validate raises out of the pipeline.
Retrieved(r) ==
    /\ call[r].phase = "retrieval"
    /\ call' = [call EXCEPT ![r] = Await(@, "second_redaction")]
    /\ UNCHANGED <<sessionVars, services>>

RetrievalRaised(r) ==
    /\ call[r].phase = "retrieval"
    /\ call' = [call EXCEPT ![r] = Answer(@, 500)]
    /\ UNCHANGED <<sessionVars, services>>

\* Tools run and are counted before the token budget is looked at.
RedactedAgain(r, toolRan, overBudget) ==
    LET id == call[r].id
    IN  /\ call[r].phase = "second_redaction"
        /\ Put(id, IF toolRan THEN ToolUsed(session[id]) ELSE session[id])
        /\ call' = [call EXCEPT ![r] =
                        IF overBudget /\ EnforceTokenBudget /\ ~ TruncatePrompt
                        THEN Answer(@, 413)
                        ELSE Await(@, "upstream")]
        /\ UNCHANGED <<atStart, services>>

ToolCountRaised(r) ==
    LET id == call[r].id
    IN  /\ call[r].phase = "second_redaction"
        /\ PutRaises(id, ToolUsed(session[id]), rows[id])
        /\ call' = [call EXCEPT ![r] = Answer(@, 500)]
        /\ UNCHANGED <<atStart, services>>

\* A tool request named null cannot be recorded, a reply that is no text
\* cannot be put to the guard: both raise out of the pipeline.
ToolsRaised(r) ==
    /\ call[r].phase = "second_redaction"
    /\ call' = [call EXCEPT ![r] = Answer(@, 500)]
    /\ UNCHANGED <<sessionVars, services>>

ReplyRaised(r) ==
    /\ call[r].phase = "upstream"
    /\ call' = [call EXCEPT ![r] = Answer(@, 500)]
    /\ UNCHANGED <<sessionVars, services>>

Forwarded(r) ==
    /\ call[r].phase = "upstream"
    /\ call' = [call EXCEPT ![r] = Await(@, "output_guard")]
    /\ UNCHANGED <<sessionVars, services>>

\* The forwarder fails closed.
ForwardFailed(r) ==
    /\ call[r].phase = "upstream"
    /\ call' = [call EXCEPT ![r] = Answer(@, 502)]
    /\ UNCHANGED <<sessionVars, services>>

OutputInspected(r, outputAction) ==
    /\ call[r].phase = "output_guard"
    /\ call' = [call EXCEPT ![r] =
                    Answer(Logged(Audited(@)), IF outputAction = "block" THEN 502 ELSE 200)]
    /\ UNCHANGED <<sessionVars, services>>

\* The process stops with these rows left and starts again: the requests under
\* way get no answer, the sessions are read back from the store.
Restarted(left) ==
    /\ Limiter!Restart
    /\ KeyRestart
    /\ rows' = left
    /\ session' = LoadedFrom(left, storeOpen')
    /\ UNCHANGED atStart

Lost == [r \in Requests |->
            IF call[r].phase \in Waiting THEN Await(call[r], "lost") ELSE call[r]]

\* At the awaits of the requests under way.
Crash ==
    /\ Restarted(rows)
    /\ call' = Lost
    /\ UNCHANGED faults

\* Between two saves that write the row of a session.
StoppedSaving(id, written) ==
    /\ storeOpen
    /\ faults < MaxFaults
    /\ faults' = faults + 1
    /\ \E row \in written : Restarted([rows EXCEPT ![id] = row])

StoppedInReceive(r, id) ==
    /\ \/ ~ VerifySignature /\ call[r].phase = "new"
       \/ VerifySignature /\ call[r].phase = "new" /\ KeysFresh
       \/ /\ call[r].phase = "keys" /\ check[r].phase = "served"
          /\ Verified(check[r].key, check[r].served)
    /\ StoppedSaving(id, {Found(id), Requested(Found(id))})
    /\ call' = [Lost EXCEPT ![r] = [Await(@, "lost") EXCEPT !.id = id]]

StoppedInDeny(r) ==
    LET id == call[r].id
    IN  /\ call[r].phase = "input_guard"
        /\ StoppedSaving(id, {Refused(session[id]),
                              Denial(session[id], call[r].input.scan)})
        /\ call' = [Lost EXCEPT ![r].action = "deny"]

Tick ==
    /\ Limiter!Tick
    /\ UNCHANGED <<call, sessionVars, keyVars>>

\* A request goes on when what it awaits answers or times out.
ReceiveAny(r) ==
    \/ TooLarge(r)
    \/ \E id \in SessionIds, key \in Keys, in \in RequestInputs, mult \in Multipliers :
           Receive(r, id, key, in, mult) \/ ReceiveRaised(r, id, key, in, mult)

Resume(r) ==
    \/ call[r].phase = "keys" /\ (Unauthorized(r) \/ ReceiveAny(r))
    \/ \E action \in Actions : GuardAnswered(r, action)
    \/ DenyRaised(r)
    \/ Redacted(r)
    \/ Retrieved(r)
    \/ RetrievalRaised(r)
    \/ \E toolRan, overBudget \in BOOLEAN : RedactedAgain(r, toolRan, overBudget)
    \/ ToolCountRaised(r)
    \/ ToolsRaised(r)
    \/ Forwarded(r)
    \/ ForwardFailed(r)
    \/ ReplyRaised(r)
    \/ \E outputAction \in {"allow", "redact", "block"} : OutputInspected(r, outputAction)

Next ==
    \/ \E r \in Requests :
           \/ ReceiveAny(r)
           \/ FetchKeys(r)
           \/ KeysServed(r)
           \/ Unauthorized(r)
           \/ Resume(r)
           \/ \E id \in SessionIds : StoppedInReceive(r, id)
           \/ StoppedInDeny(r)
    \/ KeyRotated
    \/ Crash
    \/ Tick

Spec == Init /\ [][Next]_vars

\* Every await ends: the guard, retrieval, upstream and key clients have timeouts,
\* and what they raise is handled on the way or ends the request.
FairSpec == Spec /\ \A r \in Requests : WF_vars(Resume(r))

-----------------------------------------------------------------------------
(* Properties *)

Of(id) == {r \in Requests : call[r].id = id}
Undecided(id) == {r \in Of(id) : call[r].phase = "input_guard"}
Denied(id) == {r \in Of(id) : call[r].action = "deny"}

Counted(s) == IF s = Absent THEN Fresh ELSE s

\* No update of a session is lost or made twice however requests interleave,
\* in memory or on disk: it has counted every request that reached it, refused
\* ones too, and every deny as one refusal and one attempt, but for one update
\* at most for every save that raised and every stop between two saves; a stop
\* at the awaits loses none.  (It presumes a store that opens at every start, as
\* the run's constants say: without one a crash forgets.)
SessionLedger ==
    \A id \in SessionIds : \A s \in {session[id], rows[id]} :
        LET before == Counted(atStart[id])
            missing == 0..faults
        IN  /\ before.requests + Cardinality(Of(id)) - Counted(s).requests \in missing
            /\ before.refusals + Cardinality(Denied(id)) - Counted(s).refusals \in missing
            /\ before.injections + Cardinality(Denied(id)) - Counted(s).injections \in missing

\* The limiter reads the attempts of a session before the requests under way
\* are decided, so a burst can outrun it; but from the third attempt on the
\* burst only drains: attempts plus undecided requests never grow again.
BurstDrains ==
    [][\A id \in SessionIds :
           session[id] # Absent /\ session'[id] # Absent /\ session[id].injections >= 3 =>
               session'[id].injections + Cardinality(Undecided(id)')
                   <= session[id].injections + Cardinality(Undecided(id))]_vars

\* Every request past the limiter has paid with one admission of its key, and
\* every admission was spent on one request.
AdmissionsPaid ==
    \A key \in Keys :
        Cardinality({r \in Requests : call[r].key = key /\ call[r].admitted}) = Len(log[key])

\* The risk a request waits with was assessed before the await and may be
\* stale; it can then only be too low for the session as it has become.
StaleRiskIsLower ==
    \A r \in Requests : call[r].phase = "input_guard" =>
        NoLessRisk(call[r].risk, assess(call[r].input, session[call[r].id]))

\* Every request that was let in is answered, or lost in a crash.
EveryCallEnds ==
    \A r \in Requests : call[r].phase \in Waiting ~> call[r].phase \in {"answered", "lost"}

\* docs/architecture/components.md:258: a decision record for every request;
\* asked here only of those the rate limiter let in.
EveryRequestLogged ==
    \A r \in Requests :
        call[r].phase = "answered" /\ call[r].admitted => call[r].logs = 1
=============================================================================
