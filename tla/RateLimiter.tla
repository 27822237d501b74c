---------------------------- MODULE RateLimiter ----------------------------
(***************************************************************************)
(* The adaptive sliding-window rate limiter (app/rate_limit.py) and the    *)
(* three tables or structures it decides from.  allow() holds no await, so *)
(* on the single event loop every call is one atomic action.               *)
(*                                                                         *)
(* The hits and cooldowns live in the SQLite store when one could be       *)
(* opened at start-up and in process memory otherwise (get_state_store     *)
(* returns None when the database cannot be opened): storeOpen says which. *)
(* Time is time.time() in whole units, assumed not to step backwards.      *)
(***************************************************************************)
EXTENDS Integers, Sequences, FiniteSets

CONSTANTS
    Keys,             \* rate-limit keys, "<client>:<subject>"
    MaxRequests,      \* max_requests
    Window,           \* window_seconds
    CooldownSeconds,  \* the 3600 of the aggressive-attacker cooldown
    StateBackends,    \* values settings.state_backend may have
    StoreMayFail,     \* opening the database may fail at a start
    Severities,       \* input-scan scores a request may carry
    InjectionCounts,  \* injection_attempt_count values of its session
    Multipliers,      \* adaptive multipliers of the attacker profile
    MaxTime,          \* bound on the clock
    MaxRestarts       \* bound on the restarts

ASSUME MaxRequestsAssumption == MaxRequests \in Nat \ {0}
ASSUME DurationsAssumption == Window \in Nat /\ CooldownSeconds \in Nat
ASSUME BackendAssumption ==
    StateBackends \subseteq {"memory", "sqlite"} /\ StoreMayFail \in BOOLEAN
ASSUME SignalsAssumption ==
    /\ Severities \subseteq 0..100
    /\ InjectionCounts \subseteq Nat
    /\ Multipliers \subseteq Nat \ {0}
ASSUME BoundsAssumption == MaxTime \in Nat /\ MaxRestarts \in Nat

VARIABLES
    now,           \* the wall clock
    stateBackend,  \* settings.state_backend, the same at every start
    storeOpen,     \* this process has the SQLite store
    restarts,      \* how often the process was restarted
    bucket,        \* _hits: the in-memory deque of a key
    memCooldown,   \* _cooldown_until
    hitRows,       \* table rate_limit_hits, with its rowid
    nextRow,       \* the next rowid
    dbCooldown,    \* table rate_limit_cooldowns
    verdict,       \* what the last call returned, until the clock moves
    log,           \* history: every admission of a key, in order
    base,          \* history: admissions made before the hits were last lost
    promised       \* history: end of the last cooldown promised and not lost

limiterVars == <<bucket, memCooldown, hitRows, nextRow, dbCooldown>>
histories   == <<log, base, promised>>
process == <<stateBackend, storeOpen, restarts>>
vars == <<now, process, limiterVars, verdict, histories>>

Reasons == {"cooldown_active", "aggressive_attacker_cooldown",
            "rate_limit_exceeded", "allowed"}
NoVerdict == [reason |-> "none"]

Row == [id : Nat, key : Keys, ts : Nat]

TypeOK ==
    /\ now \in Nat
    /\ stateBackend \in StateBackends
    /\ storeOpen \in BOOLEAN
    /\ restarts \in Nat
    /\ bucket \in [Keys -> Seq(Nat)]
    /\ memCooldown \in [Keys -> Nat]
    /\ hitRows \in SUBSET Row /\ IsFiniteSet(hitRows)
    /\ nextRow \in Nat
    /\ dbCooldown \in [Keys -> Nat]
    /\ verdict \in [key : Keys, reason : Reasons] \cup {NoVerdict}
    /\ log \in [Keys -> Seq([id : Nat, ts : Nat])]
    /\ base \in [Keys -> Nat]
    /\ promised \in [Keys -> Nat]

-----------------------------------------------------------------------------
(* The limit in force for a request *)

\* Variant: the max(1, ...) forgotten.
AtLeastZero(n) == n

AtLeastOne(n) == IF n >= 1 THEN n ELSE 1

SeverityDivisor(sev) ==
    CASE sev >= 80 -> 10
      [] sev \in 50..79 -> 5
      [] sev \in 30..49 -> 2
      [] OTHER -> 1

EffectiveMax(sev, inj, mult) ==
    LET bySeverity == AtLeastOne(MaxRequests \div SeverityDivisor(sev))
        byProfile  == AtLeastOne(bySeverity \div mult)
    IN  IF inj >= 2 THEN AtLeastOne(byProfile \div 2) ELSE byProfile

(* What the limiter reads from whichever backend is in use *)

CooldownUntil(k) == IF storeOpen THEN dbCooldown[k] ELSE memCooldown[k]

\* Variant: the DELETE takes the hits at the edge of the window too.
RowsKeptStrict(k) == {r \in hitRows : ~ (r.key = k /\ r.ts <= now - Window)}

RowsKept(k) == {r \in hitRows : ~ (r.key = k /\ r.ts < now - Window)}
RowsCounted(k) == {r \in RowsKept(k) : r.key = k /\ r.ts >= now - Window}

\* Variant: the loop takes the hits at the edge of the window too.
PoppedAtEdge(k, d) ==
    /\ \A i \in 1..d : now - bucket[k][i] >= Window
    /\ d < Len(bucket[k]) => ~ (now - bucket[k][d + 1] >= Window)

\* The loop pops the expired hits at the head of the deque: d of them.
Popped(k, d) ==
    /\ \A i \in 1..d : now - bucket[k][i] > Window
    /\ d < Len(bucket[k]) => ~ (now - bucket[k][d + 1] > Window)

BucketKept(k, d) == SubSeq(bucket[k], d + 1, Len(bucket[k]))

-----------------------------------------------------------------------------
\* Whether a starting process gets a store: a database that cannot be opened
\* is logged and the process runs on memory.
get_state_store ==
    CASE stateBackend # "sqlite" -> {FALSE}
      [] stateBackend = "sqlite" /\ ~ StoreMayFail -> {TRUE}
      [] OTHER -> BOOLEAN

Init ==
    /\ now = 0
    /\ stateBackend \in StateBackends
    /\ storeOpen \in get_state_store
    /\ restarts = 0
    /\ bucket = [k \in Keys |-> <<>>]
    /\ memCooldown = [k \in Keys |-> 0]
    /\ hitRows = {}
    /\ nextRow = 0
    /\ dbCooldown = [k \in Keys |-> 0]
    /\ verdict = NoVerdict
    /\ log = [k \in Keys |-> <<>>]
    /\ base = [k \in Keys |-> 0]
    /\ promised = [k \in Keys |-> 0]

RefusedInCooldown(k) ==
    /\ now < CooldownUntil(k)
    /\ verdict' = [key |-> k, reason |-> "cooldown_active"]
    /\ UNCHANGED <<now, process, limiterVars, histories>>

\* Pruning happens before the limit is known, so it is part of every call
\* that gets past the cooldown check.
PruneStore(k) ==
    /\ storeOpen
    /\ UNCHANGED bucket

PruneMemory(k, d) ==
    /\ ~ storeOpen
    /\ Popped(k, d)
    /\ UNCHANGED <<hitRows, nextRow>>

\* Variant: the cooldown kept in memory whatever the backend.
SetCooldownInMemory(k) ==
    /\ memCooldown' = [memCooldown EXCEPT ![k] = now + CooldownSeconds]
    /\ UNCHANGED dbCooldown
    /\ promised' = [promised EXCEPT ![k] = now + CooldownSeconds]

SetCooldown(k) ==
    /\ IF storeOpen
       THEN /\ dbCooldown' = [dbCooldown EXCEPT ![k] = now + CooldownSeconds]
            /\ UNCHANGED memCooldown
       ELSE /\ memCooldown' = [memCooldown EXCEPT ![k] = now + CooldownSeconds]
            /\ UNCHANGED dbCooldown
    /\ promised' = [promised EXCEPT ![k] = now + CooldownSeconds]

\* The pruned hits of k with no hit added.
OnlyPrune(k) ==
    \/ /\ PruneStore(k)
       /\ hitRows' = RowsKept(k)
       /\ UNCHANGED nextRow
    \/ \E d \in 0..Len(bucket[k]) :
           /\ PruneMemory(k, d)
           /\ bucket' = [bucket EXCEPT ![k] = BucketKept(k, d)]

CooldownStarted(k, inj) ==
    /\ now >= CooldownUntil(k)
    /\ inj >= 3
    /\ OnlyPrune(k)
    /\ SetCooldown(k)
    /\ verdict' = [key |-> k, reason |-> "aggressive_attacker_cooldown"]
    /\ UNCHANGED <<now, process, log, base>>

AtLimit(k, max) ==
    \/ storeOpen /\ Cardinality(RowsCounted(k)) >= max
    \/ /\ ~ storeOpen
       /\ \E d \in 0..Len(bucket[k]) : Popped(k, d) /\ Len(bucket[k]) - d >= max

LimitExceeded(k, sev, inj, mult) ==
    /\ now >= CooldownUntil(k)
    /\ inj < 3
    /\ AtLimit(k, EffectiveMax(sev, inj, mult))
    /\ OnlyPrune(k)
    /\ verdict' = [key |-> k, reason |-> "rate_limit_exceeded"]
    /\ UNCHANGED <<now, process, memCooldown, dbCooldown, histories>>

\* Variant: the row stamped with the start of the window.
AddHitAtWindowStart(k) ==
    \/ /\ PruneStore(k)
       /\ hitRows' = RowsKept(k) \cup {[id |-> nextRow, key |-> k, ts |-> now - Window]}
       /\ nextRow' = nextRow + 1
    \/ \E d \in 0..Len(bucket[k]) :
           /\ PruneMemory(k, d)
           /\ bucket' = [bucket EXCEPT ![k] = Append(BucketKept(k, d), now)]

\* The admission is counted: a row or a deque entry stamped with the clock.
AddHit(k) ==
    \/ /\ PruneStore(k)
       /\ hitRows' = RowsKept(k) \cup {[id |-> nextRow, key |-> k, ts |-> now]}
       /\ nextRow' = nextRow + 1
    \/ \E d \in 0..Len(bucket[k]) :
           /\ PruneMemory(k, d)
           /\ bucket' = [bucket EXCEPT ![k] = Append(BucketKept(k, d), now)]

Allowed(k, sev, inj, mult) ==
    /\ now >= CooldownUntil(k)
    /\ inj < 3
    /\ ~ AtLimit(k, EffectiveMax(sev, inj, mult))
    /\ AddHit(k)
    /\ verdict' = [key |-> k, reason |-> "allowed"]
    /\ log' = [log EXCEPT ![k] = Append(@, [id |-> nextRow, ts |-> now])]
    /\ UNCHANGED <<now, process, memCooldown, dbCooldown, base, promised>>

allow(k, sev, inj, mult) ==
    \/ RefusedInCooldown(k)
    \/ CooldownStarted(k, inj)
    \/ LimitExceeded(k, sev, inj, mult)
    \/ Allowed(k, sev, inj, mult)

Tick ==
    /\ now < MaxTime
    /\ now' = now + 1
    /\ verdict' = NoVerdict
    /\ UNCHANGED <<process, limiterVars, histories>>

\* The process stops and starts again.  The tables are on disk, every write
\* committed before allow() returns; the deques and the in-memory cooldowns
\* are gone.  State counts as lost unless it was and still is on disk.
Restart ==
    /\ restarts < MaxRestarts
    /\ restarts' = restarts + 1
    /\ storeOpen' \in get_state_store
    /\ bucket' = [k \in Keys |-> <<>>]
    /\ memCooldown' = [k \in Keys |-> 0]
    /\ verdict' = NoVerdict
    /\ IF storeOpen /\ storeOpen'
       THEN UNCHANGED <<base, promised>>
       ELSE /\ base' = [k \in Keys |-> Len(log[k])]
            /\ promised' = [k \in Keys |-> 0]
    /\ UNCHANGED <<now, stateBackend, hitRows, nextRow, dbCooldown, log>>

Next ==
    \/ \E k \in Keys, sev \in Severities, inj \in InjectionCounts, mult \in Multipliers :
           allow(k, sev, inj, mult)
    \/ Tick
    \/ Restart

Spec == Init /\ [][Next]_vars

-----------------------------------------------------------------------------
(* Properties *)

\* Any MaxRequests + 1 admissions of a key that the limiter has not lost span
\* more than Window: the adaptive divisors, the pruning and the two backends
\* never let a full window overflow (allow, count against effective_max).
WindowBound ==
    \A k \in Keys : \A i \in (base[k] + 1)..Len(log[k]) :
        i + MaxRequests <= Len(log[k]) =>
            log[k][i + MaxRequests].ts - log[k][i].ts > Window

(* What the backend in use remembers of the history, the strengthening that *)
(* makes WindowBound inductive.                                             *)

Since(k) == (base[k] + 1)..Len(log[k])

LogInOrder ==
    \A k \in Keys :
        /\ base[k] <= Len(log[k])
        /\ \A i \in 1..Len(log[k]) : log[k][i].ts <= now
        /\ \A i, j \in 1..Len(log[k]) : i <= j => log[k][i].ts <= log[k][j].ts

RowOf(k, i) == [id |-> log[k][i].id, key |-> k, ts |-> log[k][i].ts]

TableRemembers ==
    storeOpen =>
        \A k \in Keys :
            /\ \A i \in Since(k) : log[k][i].id < nextRow
            /\ \A i, j \in Since(k) : i < j => log[k][i].id < log[k][j].id
            /\ \A i \in Since(k) : log[k][i].ts >= now - Window => RowOf(k, i) \in hitRows

Forgotten(k) == Len(log[k]) - Len(bucket[k])

DequeRemembers ==
    ~ storeOpen =>
        \A k \in Keys :
            /\ base[k] <= Forgotten(k)
            /\ \A j \in 1..Len(bucket[k]) : bucket[k][j] = log[k][Forgotten(k) + j].ts
            /\ \A i \in (base[k] + 1)..Forgotten(k) : log[k][i].ts < now - Window

\* The cooldown in force ends no earlier than the one promised.
CooldownKept == \A k \in Keys : promised[k] <= CooldownUntil(k)

\* Every row of the table stands for an admission in the history.
RowsAreAdmissions ==
    \A r \in hitRows : \E i \in 1..Len(log[r.key]) : log[r.key][i].ts = r.ts

\* The deque is exactly the unexpired end of the key's history, every
\* unexpired admission has a row of its own in the table, no row counts that
\* was not an admission, and the cooldown in force covers the promised one:
\* what a backend holds is enough to decide as the whole history would.
HistoryKept ==
    /\ LogInOrder
    /\ TableRemembers
    /\ DequeRemembers
    /\ CooldownKept
    /\ RowsAreAdmissions

\* A key refused for its rate did have an admission within the last Window,
\* in this process or an earlier one: no divisor drives the limit to zero and
\* no expired hit is still counted.
RefusedOnlyWhenBusy ==
    verdict.reason = "rate_limit_exceeded" =>
        \E i \in 1..Len(log[verdict.key]) :
            log[verdict.key][i].ts >= now - Window

\* While a cooldown it promised has not ended, the limiter admits nothing for
\* that key, over restarts too when the store is on disk.
NoAdmissionInCooldown ==
    [][\A k \in Keys : Len(log'[k]) > Len(log[k]) => now >= promised[k]]_vars

-----------------------------------------------------------------------------
(* Refinement: what the limiter promises, read off the history alone.      *)

Remembered(k) == [i \in 1..(Len(log[k]) - base[k]) |-> log[k][base[k] + i].ts]

Promise == INSTANCE SlidingWindow WITH
               durable <- stateBackend = "sqlite",
               admitted <- [k \in Keys |-> Remembered(k)],
               until <- promised

\* Whatever the backend, each verdict is the one the abstract sliding window
\* gives: the deque loop with its strict comparison and the three SQL
\* statements decide alike (allow, prune_hits, count_hits, add_hit).
ImplementsSlidingWindow == Promise!Spec
=============================================================================
