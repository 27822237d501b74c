---------------------------- MODULE SessionStore ----------------------------
(***************************************************************************)
(* The session manager (app/session_manager.py): a dictionary of session   *)
(* objects written through to the table state_kv (app/sqlite_store.py),    *)
(* over crashes of the process and saves that raise.  A save changes the   *)
(* object before it writes the row, so a save that raises may leave memory *)
(* ahead of the disk until the next save of that session.                  *)
(*                                                                         *)
(* Each method is one action: none holds an await.  record_refusal is only *)
(* called by the deny branch of the pipeline, which calls                  *)
(* record_injection_attempt right after it (app/chat_pipeline.py); the two *)
(* save separately, so midDeny marks the point between them.               *)
(***************************************************************************)
EXTENDS Sessions

CONSTANTS
    SessionIds,    \* ids sent by clients or drawn by uuid4
    Absent,        \* no object, no row
    MaxCount,      \* bound on every counter of a session
    MaxFaults      \* bound on crashes and failing saves

ASSUME BoundsAssumption == MaxCount \in Nat /\ MaxFaults \in Nat

VARIABLES
    storeOpen,     \* get_state_store gives this deployment a store, at every start
    sessions,      \* _sessions: the objects of this process
    rows,          \* the rows of namespace "session"
    midDeny,       \* the session between the two saves of a deny
    faults,        \* crashes and failed saves so far
    outcome        \* what the caller saw of the last method: its return, or an exception

vars == <<storeOpen, sessions, rows, midDeny, faults, outcome>>

ASSUME AbsentAssumption == Absent \notin Session /\ Absent \notin SessionIds

TypeOK ==
    /\ storeOpen \in BOOLEAN
    /\ sessions \in [SessionIds -> Session \cup {Absent}]
    /\ rows \in [SessionIds -> Session \cup {Absent}]
    /\ midDeny \in SessionIds \cup {Absent}
    /\ faults \in 0..MaxFaults
    /\ outcome \in {"none", "returned", "raised", "crashed"}

Init ==
    /\ storeOpen \in BOOLEAN
    /\ sessions = [id \in SessionIds |-> Absent]
    /\ rows = [id \in SessionIds |-> Absent]
    /\ midDeny = Absent
    /\ faults = 0
    /\ outcome = "none"

-----------------------------------------------------------------------------
(* Loading and saving *)

\* The object of this process, else the row: None when there is neither.
Loaded(id) ==
    IF sessions[id] = Absent /\ storeOpen THEN rows[id] ELSE sessions[id]

\* Variant: put_json forgotten.
SavedInMemoryOnly(id, s) ==
    /\ sessions' = [sessions EXCEPT ![id] = s]
    /\ outcome' = "returned"
    /\ UNCHANGED <<storeOpen, rows, faults>>

Saved(id, s) ==
    /\ sessions' = [sessions EXCEPT ![id] = s]
    /\ outcome' = "returned"
    /\ rows' = IF storeOpen THEN [rows EXCEPT ![id] = s] ELSE rows
    /\ UNCHANGED <<storeOpen, faults>>

\* put_json raises and the object has changed.  Raised by the INSERT the row
\* stays; raised by the commit, the INSERT is left in the open transaction, and
\* the next commit of the connection brings it to disk unless a crash is first.
\* Nobody reads the row meanwhile, so which of the two it will be is chosen here.
SaveRaises(id, s) ==
    /\ storeOpen
    /\ faults < MaxFaults
    /\ sessions' = [sessions EXCEPT ![id] = s]
    /\ rows' \in {rows, [rows EXCEPT ![id] = s]}
    /\ faults' = faults + 1
    /\ outcome' = "raised"
    /\ UNCHANGED storeOpen

\* A method that saves and is the last call before its caller goes on, so
\* that an exception changes nothing else.
SaveOrRaise(id, s) ==
    /\ Saved(id, s) \/ SaveRaises(id, s)
    /\ UNCHANGED midDeny

-----------------------------------------------------------------------------
(* The methods *)

\* last_seen_at is left out, but the save of a session that was found is not:
\* it writes the whole object over the row.
get_or_create_session(id) ==
    /\ midDeny = Absent
    /\ SaveOrRaise(id, IF Loaded(id) = Absent THEN Fresh ELSE Loaded(id))

\* The caller holds the object get_or_create_session returned.
update_from_request(id) ==
    /\ midDeny = Absent
    /\ sessions[id] # Absent
    /\ sessions[id].requests < MaxCount
    /\ SaveOrRaise(id, Requested(sessions[id]))

append_risk_score(id, stateName) ==
    /\ midDeny = Absent
    /\ sessions[id] # Absent
    /\ SaveOrRaise(id, Assessed(Loaded(id), stateName))

record_tool_request(id) ==
    /\ midDeny = Absent
    /\ sessions[id] # Absent
    /\ Loaded(id).toolRequests < MaxCount
    /\ SaveOrRaise(id, ToolUsed(Loaded(id)))

\* Variant: the attempt counted with the refusal already.
record_refusal_and_attempt(id) ==
    /\ midDeny = Absent
    /\ sessions[id] # Absent
    /\ Loaded(id).refusals < MaxCount
    /\ LET s == Attempted(Refused(Loaded(id)), 0)
       IN  \/ Saved(id, s) /\ midDeny' = id
           \/ SaveRaises(id, s) /\ UNCHANGED midDeny

record_refusal(id) ==
    /\ midDeny = Absent
    /\ sessions[id] # Absent
    /\ Loaded(id).refusals < MaxCount
    /\ LET s == Refused(Loaded(id))
       IN  \/ Saved(id, s) /\ midDeny' = id
           \/ SaveRaises(id, s) /\ UNCHANGED midDeny

record_injection_attempt(id, deterministicScore) ==
    /\ midDeny = id
    /\ LET s == Attempted(Loaded(id), deterministicScore)
       IN  Saved(id, s) \/ SaveRaises(id, s)
    /\ midDeny' = Absent

\* The process dies and is started again: the objects are gone, the
\* committed rows are not.
Crash ==
    /\ faults < MaxFaults
    /\ faults' = faults + 1
    /\ sessions' = [id \in SessionIds |-> Absent]
    /\ midDeny' = Absent
    /\ outcome' = "crashed"
    /\ UNCHANGED <<storeOpen, rows>>

Next ==
    \/ \E id \in SessionIds :
           \/ get_or_create_session(id)
           \/ update_from_request(id)
           \/ \E stateName \in RiskStates : append_risk_score(id, stateName)
           \/ record_tool_request(id)
           \/ record_refusal(id)
           \/ \E score \in {0, 60} : record_injection_attempt(id, score)
    \/ Crash

Spec == Init /\ [][Next]_vars

-----------------------------------------------------------------------------
(* Properties *)

\* Each deny counts once as a refusal and once as an attempt: the counters of
\* a session part by no more than the denies under way and the faults so far,
\* in memory and on disk, and attempts never outrun refusals.
DenyCountedTwice ==
    \A id \in SessionIds : \A s \in {sessions[id], rows[id]} \ {Absent} :
        LET underWay == IF midDeny = id THEN 1 ELSE 0
        IN  s.refusals - s.injections \in 0..(faults + underWay)

\* An escalation needs an earlier attempt: the first never counts as one.
EscalationNeedsRepeat ==
    \A id \in SessionIds : \A s \in {sessions[id], rows[id]} \ {Absent} :
        s.escalations > 0 => s.escalations < s.injections

\* The write-through cache keeps the promise of DurableSessions: what a caller
\* sees is the object or, before it is loaded again, the row, and a method that
\* returned to its caller has its change on disk.
Promise == INSTANCE DurableSessions WITH
               keeps <- storeOpen,
               value <- [id \in SessionIds |-> Loaded(id)],
               durable <- rows,
               outcome <- outcome

ImplementsDurableSessions == Promise!Spec
=============================================================================
