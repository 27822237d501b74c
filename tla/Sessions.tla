------------------------------ MODULE Sessions ------------------------------
(***************************************************************************)
(* A session and what each method of the session manager does to it        *)
(* (app/models.py SessionState, app/session_manager.py).  Message and      *)
(* attachment totals and time stamps are left out: nothing decides on them.*)
(***************************************************************************)
EXTENDS Integers

RiskStates == {"normal", "elevated", "restricted", "blocked"}
Counters == {"requests", "refusals", "toolRequests", "injections", "escalations"}

Session == [requests : Nat, refusals : Nat, toolRequests : Nat,
            injections : Nat, escalations : Nat, state : RiskStates]

Fresh == [requests |-> 0, refusals |-> 0, toolRequests |-> 0,
          injections |-> 0, escalations |-> 0, state |-> "normal"]

Requested(s) == [s EXCEPT !.requests = @ + 1]

Assessed(s, stateName) == [s EXCEPT !.state = stateName]

\* Variant: the sign of the increment wrong.
RefusedDown(s) == [s EXCEPT !.refusals = @ - 1]

Refused(s) == [s EXCEPT !.refusals = @ + 1]

ToolUsed(s) == [s EXCEPT !.toolRequests = @ + 1]

\* Variant: the very first attempt counts as an escalation.
EscalatesAtOnce(s, deterministicScore) ==
    /\ s.injections + 1 >= 1
    /\ deterministicScore >= 60

\* An attempt of a high-scoring input after an earlier one is an escalation.
Escalates(s, deterministicScore) ==
    /\ s.injections + 1 >= 2
    /\ deterministicScore >= 60

Attempted(s, deterministicScore) ==
    [s EXCEPT !.injections = @ + 1,
              !.escalations = IF Escalates(s, deterministicScore) THEN @ + 1 ELSE @]

\* No counter of a session is ever lowered.
Grown(old, new) == \A c \in Counters : old[c] <= new[c]
=============================================================================
