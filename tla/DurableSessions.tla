-------------------------- MODULE DurableSessions --------------------------
(***************************************************************************)
(* What the session manager promises its callers, with no cache and no     *)
(* table: a session, once created, only grows; a change whose save         *)
(* returned is durable, one whose save raised may be; a crash takes every  *)
(* session back to its last durable value, and never to an older one.      *)
(***************************************************************************)
EXTENDS Sessions

CONSTANTS SessionIds, Absent

VARIABLES
    keeps,      \* there is a disk to save to
    value,      \* the sessions as callers see them
    durable,    \* what a crash goes back to
    outcome     \* how the last call ended: "returned", "raised" or "crashed"

vars == <<keeps, value, durable, outcome>>

Init ==
    /\ keeps \in BOOLEAN
    /\ value = [id \in SessionIds |-> Absent]
    /\ durable = [id \in SessionIds |-> Absent]
    /\ outcome = "none"

Returned(id) ==
    /\ outcome' = "returned"
    /\ durable' = IF keeps THEN [durable EXCEPT ![id] = value'[id]] ELSE durable

Raised(id) ==
    /\ keeps
    /\ outcome' = "raised"
    /\ durable' \in {durable, [durable EXCEPT ![id] = value'[id]]}

Written(id) ==
    /\ \A other \in SessionIds \ {id} : value'[other] = value[other]
    /\ Returned(id) \/ Raised(id)
    /\ UNCHANGED keeps

Create(id) ==
    /\ value[id] = Absent
    /\ value'[id] = Fresh
    /\ Written(id)

Change(id) ==
    /\ value[id] # Absent
    /\ value'[id] # Absent
    /\ Grown(value[id], value'[id])
    /\ Written(id)

Crash ==
    /\ value' = durable
    /\ outcome' = "crashed"
    /\ UNCHANGED <<keeps, durable>>

Next == \/ \E id \in SessionIds : Create(id) \/ Change(id)
        \/ Crash

Spec == Init /\ [][Next]_vars
=============================================================================
