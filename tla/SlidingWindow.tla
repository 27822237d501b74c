--------------------------- MODULE SlidingWindow ---------------------------
(***************************************************************************)
(* What the rate limiter promises, with no data structure: the verdict of  *)
(* a call is a function of the admissions remembered for its key, the end  *)
(* of the key's cooldown and the clock.  A restart forgets both unless the *)
(* limiter is durable.                                                     *)
(***************************************************************************)
EXTENDS Integers, Sequences, FiniteSets

CONSTANTS Keys, MaxRequests, Window, CooldownSeconds,
          Severities, InjectionCounts, Multipliers

VARIABLES now, durable, verdict, admitted, until

vars == <<now, durable, verdict, admitted, until>>

NoVerdict == [reason |-> "none"]

Init ==
    /\ now = 0
    /\ durable \in BOOLEAN
    /\ verdict = NoVerdict
    /\ admitted = [k \in Keys |-> <<>>]
    /\ until = [k \in Keys |-> 0]

InWindow(k) == Cardinality({i \in 1..Len(admitted[k]) : admitted[k][i] + Window >= now})

\* The bands of the scan score, each with the share of MaxRequests it leaves.
Bands == {[from |-> 0, upto |-> 29, share |-> 1], [from |-> 30, upto |-> 49, share |-> 2],
          [from |-> 50, upto |-> 79, share |-> 5], [from |-> 80, upto |-> 100, share |-> 10]}

\* A limit never falls below one request.
Quota(sev, inj, mult) ==
    LET share  == (CHOOSE b \in Bands : sev \in b.from..b.upto).share
        halved == IF inj = 2 THEN 2 ELSE 1
        limit  == ((MaxRequests \div share) \div mult) \div halved
    IN  IF limit = 0 THEN 1 ELSE limit

Say(k, reason) == verdict' = [key |-> k, reason |-> reason]

Call(k, sev, inj, mult) ==
    /\ UNCHANGED <<now, durable>>
    /\ \/ /\ until[k] > now
          /\ Say(k, "cooldown_active")
          /\ UNCHANGED <<admitted, until>>
       \/ /\ until[k] <= now /\ inj >= 3
          /\ Say(k, "aggressive_attacker_cooldown")
          /\ until' = [until EXCEPT ![k] = now + CooldownSeconds]
          /\ UNCHANGED admitted
       \/ /\ until[k] <= now /\ inj < 3
          /\ InWindow(k) >= Quota(sev, inj, mult)
          /\ Say(k, "rate_limit_exceeded")
          /\ UNCHANGED <<admitted, until>>
       \/ /\ until[k] <= now /\ inj < 3
          /\ InWindow(k) < Quota(sev, inj, mult)
          /\ Say(k, "allowed")
          /\ admitted' = [admitted EXCEPT ![k] = Append(@, now)]
          /\ UNCHANGED until

Pass == now' = now + 1 /\ verdict' = NoVerdict /\ UNCHANGED <<durable, admitted, until>>

Forget ==
    /\ verdict' = NoVerdict
    /\ UNCHANGED <<now, durable>>
    /\ IF durable
       THEN UNCHANGED <<admitted, until>>
       ELSE admitted' = [k \in Keys |-> <<>>] /\ until' = [k \in Keys |-> 0]

Next ==
    \/ \E k \in Keys, sev \in Severities, inj \in InjectionCounts, mult \in Multipliers :
           Call(k, sev, inj, mult)
    \/ Pass
    \/ Forget

Spec == Init /\ [][Next]_vars
=============================================================================
