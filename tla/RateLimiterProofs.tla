------------------------- MODULE RateLimiterProofs -------------------------
(***************************************************************************)
(* Proofs about the rate limiter, for any keys, limit, window, cooldown    *)
(* and set of signals, with the store open or not and lost at any restart. *)
(*                                                                         *)
(* The invariant is inductive with HistoryKept: the deque, or the rows of  *)
(* the table, hold every admission of the last Window, so that the count   *)
(* compared with the limit is no smaller than what the history says.  The  *)
(* last section shows that it is no larger either, wherever the store      *)
(* opens at every start or there is none: the limiter then implements      *)
(* SlidingWindow.                                                          *)
(***************************************************************************)
EXTENDS RateLimiter, SequenceTheorems, FiniteSetTheorems, TLAPS

\* The limit in force lies between one request and MaxRequests, whatever the
\* signals: the divisors only lower it and never to zero.
LEMMA LimitRange ==
    ASSUME NEW sev \in Int, NEW inj \in Nat, NEW mult \in Nat \ {0}
    PROVE  /\ EffectiveMax(sev, inj, mult) \in Nat
           /\ EffectiveMax(sev, inj, mult) >= 1
           /\ EffectiveMax(sev, inj, mult) <= MaxRequests
<1> DEFINE bySeverity == AtLeastOne(MaxRequests \div SeverityDivisor(sev))
           byProfile == AtLeastOne(bySeverity \div mult)
<1>1. SeverityDivisor(sev) \in {1, 2, 5, 10}
  BY DEF SeverityDivisor
<1>2. bySeverity \in 1..MaxRequests
  BY <1>1, MaxRequestsAssumption DEF AtLeastOne
<1>3. byProfile \in 1..MaxRequests
  <2>1. \A n \in Nat : n \div mult \in Nat /\ n \div mult <= n
    OBVIOUS
  <2> QED
    BY <1>2, <2>1, MaxRequestsAssumption DEF AtLeastOne
<1>4. AtLeastOne(byProfile \div 2) \in 1..MaxRequests
  BY <1>3, MaxRequestsAssumption DEF AtLeastOne
<1> QED
  BY <1>3, <1>4, MaxRequestsAssumption DEF EffectiveMax

\* Dividing what is left of the limit, and never to zero, in three turns is
\* dividing it in one and looking at zero last: the adaptive limit is the
\* abstract one, in every band of the score.
LEMMA LimitIsQuota ==
    ASSUME NEW sev \in 0..100, NEW inj \in 0..2, NEW mult \in Nat \ {0}
    PROVE  EffectiveMax(sev, inj, mult) = Promise!Quota(sev, inj, mult)
<1> DEFINE band == CHOOSE b \in Promise!Bands : sev \in b.from..b.upto
           share == SeverityDivisor(sev)
           halved == IF inj = 2 THEN 2 ELSE 1
           first == MaxRequests \div share
           second == AtLeastOne(first) \div mult
<1>1. band.share = share
  <2>1. \E b \in Promise!Bands : sev \in b.from..b.upto
    BY DEF Promise!Bands
  <2>2. band \in Promise!Bands /\ sev \in band.from..band.upto
    BY <2>1
  <2> HIDE DEF band
  <2> QED
    BY <2>2 DEF Promise!Bands, SeverityDivisor
<1>2. share \in {1, 2, 5, 10}
  BY DEF SeverityDivisor
<1>3. first \in Nat
  BY <1>2, MaxRequestsAssumption
<1>4. Promise!Quota(sev, inj, mult)
          = IF (first \div mult) \div halved = 0 THEN 1 ELSE (first \div mult) \div halved
  BY <1>1 DEF Promise!Quota
<1>5. EffectiveMax(sev, inj, mult)
          = IF inj >= 2 THEN AtLeastOne(AtLeastOne(second) \div 2) ELSE AtLeastOne(second)
  BY DEF EffectiveMax
<1> HIDE DEF first
<1>6. first \div mult \in Nat /\ (first = 0 => first \div mult = 0)
  BY <1>3
<1>7. 1 \div mult \in {0, 1}
  OBVIOUS
<1>8. second = first \div mult \/ (first = 0 /\ second \in {0, 1})
  BY <1>3, <1>7 DEF AtLeastOne
<1>9. AtLeastOne(second) = IF first \div mult = 0 THEN 1 ELSE first \div mult
  BY <1>6, <1>8 DEF AtLeastOne
<1> DEFINE q == first \div mult
<1>10. q \in Nat
  BY <1>6
<1> HIDE DEF q, second
<1>11. CASE inj = 2
  BY <1>4, <1>5, <1>9, <1>10, <1>11 DEF AtLeastOne, q
<1>12. CASE inj # 2
  BY <1>4, <1>5, <1>9, <1>10, <1>12 DEF AtLeastOne, q
<1> QED
  BY <1>11, <1>12

\* A process starts with a store or without one.
LEMMA StoreOrNot == get_state_store \subseteq BOOLEAN
  BY DEF get_state_store

\* Initially nothing is remembered and the state is well typed.
LEMMA InitTypeOK == Init => TypeOK
  BY FS_EmptySet, StoreOrNot DEF Init, TypeOK, NoVerdict, Row

\* The limiter's own steps on its two backends keep them well typed.
LEMMA PruneTypeOK ==
    ASSUME TypeOK, NEW k \in Keys, OnlyPrune(k)
    PROVE  /\ bucket' \in [Keys -> Seq(Nat)]
           /\ hitRows' \in SUBSET Row /\ IsFiniteSet(hitRows')
           /\ nextRow' = nextRow
<1>1. CASE PruneStore(k) /\ hitRows' = RowsKept(k) /\ nextRow' = nextRow
  BY <1>1, FS_Subset DEF PruneStore, RowsKept, TypeOK
<1>2. CASE \E d \in 0..Len(bucket[k]) :
              /\ PruneMemory(k, d)
              /\ bucket' = [bucket EXCEPT ![k] = BucketKept(k, d)]
  <2>1. PICK d \in 0..Len(bucket[k]) :
              /\ PruneMemory(k, d)
              /\ bucket' = [bucket EXCEPT ![k] = BucketKept(k, d)]
    BY <1>2
  <2>2. BucketKept(k, d) \in Seq(Nat)
    BY DEF BucketKept, TypeOK
  <2> QED
    BY <2>1, <2>2 DEF PruneMemory, TypeOK
<1> QED
  BY <1>1, <1>2 DEF OnlyPrune

\* An admission keeps both backends well typed.
LEMMA AddHitTypeOK ==
    ASSUME TypeOK, NEW k \in Keys, AddHit(k)
    PROVE  /\ bucket' \in [Keys -> Seq(Nat)]
           /\ hitRows' \in SUBSET Row /\ IsFiniteSet(hitRows')
           /\ nextRow' \in Nat
<1>1. CASE /\ PruneStore(k)
           /\ hitRows' = RowsKept(k) \cup {[id |-> nextRow, key |-> k, ts |-> now]}
           /\ nextRow' = nextRow + 1
  <2>1. [id |-> nextRow, key |-> k, ts |-> now] \in Row
    BY DEF Row, TypeOK
  <2>2. RowsKept(k) \subseteq hitRows /\ IsFiniteSet(RowsKept(k))
    BY FS_Subset DEF RowsKept, TypeOK
  <2>3. hitRows' \subseteq Row /\ IsFiniteSet(hitRows')
    BY <1>1, <2>1, <2>2, FS_AddElement DEF TypeOK
  <2> QED
    BY <1>1, <2>3 DEF PruneStore, TypeOK
<1>2. CASE \E d \in 0..Len(bucket[k]) :
              /\ PruneMemory(k, d)
              /\ bucket' = [bucket EXCEPT ![k] = Append(BucketKept(k, d), now)]
  <2>1. PICK d \in 0..Len(bucket[k]) :
              /\ PruneMemory(k, d)
              /\ bucket' = [bucket EXCEPT ![k] = Append(BucketKept(k, d), now)]
    BY <1>2
  <2>2. Append(BucketKept(k, d), now) \in Seq(Nat)
    BY DEF BucketKept, TypeOK
  <2> QED
    BY <2>1, <2>2 DEF PruneMemory, TypeOK
<1> QED
  BY <1>1, <1>2 DEF AddHit

\* Every step keeps the state well typed.
LEMMA StepTypeOK == TypeOK /\ [Next]_vars => TypeOK'
<1> SUFFICES ASSUME TypeOK, [Next]_vars
             PROVE  TypeOK'
  OBVIOUS
<1>1. ASSUME NEW k \in Keys, RefusedInCooldown(k)
      PROVE  TypeOK'
  BY <1>1 DEF RefusedInCooldown, TypeOK, Reasons, process, limiterVars, histories
<1>2. ASSUME NEW k \in Keys, NEW inj \in InjectionCounts, CooldownStarted(k, inj)
      PROVE  TypeOK'
  <2>1. now + CooldownSeconds \in Nat
    BY DurationsAssumption DEF TypeOK
  <2> QED
    BY <1>2, <2>1, PruneTypeOK
    DEF CooldownStarted, SetCooldown, TypeOK, Reasons, process
<1>3. ASSUME NEW k \in Keys, NEW sev \in Severities, NEW inj \in InjectionCounts,
             NEW mult \in Multipliers, LimitExceeded(k, sev, inj, mult)
      PROVE  TypeOK'
  BY <1>3, PruneTypeOK DEF LimitExceeded, TypeOK, Reasons, process, histories
<1>4. ASSUME NEW k \in Keys, NEW sev \in Severities, NEW inj \in InjectionCounts,
             NEW mult \in Multipliers, Allowed(k, sev, inj, mult)
      PROVE  TypeOK'
  <2>1. Append(log[k], [id |-> nextRow, ts |-> now]) \in Seq([id : Nat, ts : Nat])
    BY DEF TypeOK
  <2>2. log' \in [Keys -> Seq([id : Nat, ts : Nat])]
    BY <1>4, <2>1 DEF Allowed, TypeOK
  <2> QED
    BY <1>4, <2>2, AddHitTypeOK DEF Allowed, TypeOK, Reasons, process
<1>5. CASE Tick
  BY <1>5 DEF Tick, TypeOK, process, limiterVars, histories
<1>6. CASE Restart
  <2>1. \A k \in Keys : Len(log[k]) \in Nat
    BY DEF TypeOK
  <2> QED
    BY <1>6, <2>1, StoreOrNot DEF Restart, TypeOK
<1>7. CASE UNCHANGED vars
  BY <1>7 DEF TypeOK, vars, process, limiterVars, histories
<1> QED
  BY <1>1, <1>2, <1>3, <1>4, <1>5, <1>6, <1>7 DEF Next, allow

\* The variables of the limiter keep their types in every behaviour.
THEOREM TypeCorrect == Spec => []TypeOK
  BY InitTypeOK, StepTypeOK, PTL DEF Spec

-----------------------------------------------------------------------------
Hit == [id : Nat, ts : Nat]

\* A key's history is a sequence of hits.
LEMMA LogEntry ==
    ASSUME TypeOK, NEW k \in Keys
    PROVE  /\ log[k] \in Seq(Hit)
           /\ Len(log[k]) \in Nat
           /\ base[k] \in Nat
           /\ \A i \in 1..Len(log[k]) :
                  log[k][i] \in Hit /\ log[k][i].id \in Nat /\ log[k][i].ts \in Nat
<1>1. log[k] \in Seq(Hit) /\ base[k] \in Nat
  BY DEF TypeOK, Hit
<1>2. Len(log[k]) \in Nat /\ \A i \in 1..Len(log[k]) : log[k][i] \in Hit
  BY <1>1, LenProperties, ElementOfSeq
<1>3. \A h \in Hit : h.id \in Nat /\ h.ts \in Nat
  BY DEF Hit
<1> QED
  BY <1>1, <1>2, <1>3

\* The unlost admissions of a key are hits of its history.
LEMMA SinceEntry ==
    ASSUME TypeOK, NEW k \in Keys
    PROVE  \A i \in Since(k) :
               /\ i \in 1..Len(log[k]) /\ base[k] < i
               /\ log[k][i].id \in Nat /\ log[k][i].ts \in Nat
<1>1. Since(k) \subseteq 1..Len(log[k])
  BY LogEntry DEF Since
<1>2. \A i \in Since(k) : base[k] < i
  BY LogEntry DEF Since
<1> QED
  BY <1>1, <1>2, LogEntry

\* A deque is a sequence of times.
LEMMA BucketEntry ==
    ASSUME TypeOK, NEW k \in Keys
    PROVE  /\ bucket[k] \in Seq(Nat)
           /\ Len(bucket[k]) \in Nat
           /\ \A i \in 1..Len(bucket[k]) : bucket[k][i] \in Nat
  BY LenProperties, ElementOfSeq DEF TypeOK

(* What the history says of a key is never more than what is counted for it *)

\* Over the store: each admission from i on, if i is unexpired, is counted.
LEMMA TableCounts ==
    ASSUME TypeOK, HistoryKept, storeOpen, NEW k \in Keys, NEW i \in Since(k),
           log[k][i].ts >= now - Window
    PROVE  Cardinality(RowsCounted(k)) >= Len(log[k]) - i + 1
<1> DEFINE late == i..Len(log[k])
           f == [j \in late |-> RowOf(k, j)]
<1>1. i \in Nat /\ Len(log[k]) \in Nat /\ base[k] \in Nat /\ i <= Len(log[k]) /\ base[k] < i
  BY LogEntry DEF Since
<1>2. late \subseteq Since(k) /\ late \subseteq 1..Len(log[k])
  BY <1>1 DEF Since
<1>3. ASSUME NEW j \in late
      PROVE  RowOf(k, j) \in RowsCounted(k)
  <2>1. /\ log[k][j].id \in Nat /\ log[k][j].ts \in Nat /\ log[k][i].ts \in Nat
        /\ now \in Nat
    <3>1. i \in 1..Len(log[k]) /\ j \in 1..Len(log[k])
      BY <1>1, <1>2
    <3>2. now \in Nat
      BY DEF TypeOK
    <3> QED
      BY <3>1, <3>2, LogEntry
  <2>2. log[k][i].ts <= log[k][j].ts
    BY <1>1, <1>2 DEF HistoryKept, LogInOrder
  <2>3. log[k][j].ts >= now - Window
    BY <2>1, <2>2, DurationsAssumption
  <2>4. RowOf(k, j) \in hitRows
    BY <1>2, <2>3 DEF HistoryKept, TableRemembers
  <2> QED
    BY <2>1, <2>3, <2>4, DurationsAssumption DEF RowsCounted, RowsKept, RowOf
<1>4. ASSUME NEW a \in late, NEW b \in late, f[a] = f[b]
      PROVE  a = b
  <2>1. log[k][a].id \in Nat /\ log[k][b].id \in Nat
    BY <1>2, LogEntry
  <2>2. log[k][a].id = log[k][b].id
    BY <1>4 DEF RowOf
  <2>3. a < b => log[k][a].id < log[k][b].id
    BY <1>2 DEF HistoryKept, TableRemembers
  <2>4. b < a => log[k][b].id < log[k][a].id
    BY <1>2 DEF HistoryKept, TableRemembers
  <2> QED
    BY <1>1, <2>1, <2>2, <2>3, <2>4
<1>5. f \in Injection(late, RowsCounted(k))
  <2>1. f \in [late -> RowsCounted(k)]
    BY <1>3
  <2> HIDE DEF f
  <2> QED
    BY <1>4, <2>1 DEF Injection, IsInjective
<1>6. IsFiniteSet(RowsCounted(k))
  BY FS_Subset DEF RowsCounted, RowsKept, TypeOK
<1>7. Cardinality(late) = Len(log[k]) - i + 1
  <2>1. i \in Int /\ Len(log[k]) \in Int /\ ~ (i > Len(log[k]))
    BY <1>1
  <2> QED
    BY <2>1, FS_Interval
<1>8. Cardinality(late) <= Cardinality(RowsCounted(k))
  BY <1>5, <1>6, FS_Injection
<1> QED
  BY <1>7, <1>8

\* In memory: the hits left by the pruning loop hold each admission from i on.
LEMMA DequeCounts ==
    ASSUME TypeOK, HistoryKept, ~ storeOpen, NEW k \in Keys, NEW i \in Since(k),
           log[k][i].ts >= now - Window,
           NEW d \in 0..Len(bucket[k]), Popped(k, d)
    PROVE  Len(bucket[k]) - d >= Len(log[k]) - i + 1
<1> DEFINE n == Len(log[k])
           m == Len(bucket[k])
           f == Forgotten(k)
           t == log[k][i].ts
           j == i - f
<1>1. n \in Nat /\ m \in Nat /\ t \in Nat /\ now \in Nat
  BY LogEntry, SinceEntry, BucketEntry DEF TypeOK
<1>2. i \in Nat /\ i <= n /\ base[k] < i /\ base[k] \in Nat
  BY LogEntry, SinceEntry
<1>3. d \in Nat /\ d <= m
  BY BucketEntry
<1>4. f = n - m /\ base[k] <= f
  BY DEF Forgotten, HistoryKept, DequeRemembers
<1>5. t >= now - Window
  OBVIOUS
<1>6. i \in (base[k] + 1)..f => t < now - Window
  BY DEF HistoryKept, DequeRemembers
<1>7. j \in 1..m => bucket[k][j] = log[k][f + j].ts
  BY DEF HistoryKept, DequeRemembers
<1>8. j \in 1..d => now - bucket[k][j] > Window
  BY DEF Popped
<1>9. f + j = i => log[k][f + j].ts = t
  OBVIOUS
<1> HIDE DEF n, m, f, t
<1>10. i > f
  BY <1>1, <1>2, <1>4, <1>5, <1>6, DurationsAssumption
<1>11. j \in 1..m /\ f + j = i
  BY <1>1, <1>2, <1>4, <1>10
<1>12. bucket[k][j] = t
  BY <1>7, <1>9, <1>11
<1>13. ~ (j \in 1..d)
  BY <1>1, <1>5, <1>8, <1>12, DurationsAssumption
<1>14. m - d >= n - i + 1
  BY <1>1, <1>2, <1>3, <1>4, <1>11, <1>13
<1> QED
  BY <1>14 DEF n, m

\* When a request is allowed, fewer than MaxRequests unlost admissions of its
\* key are unexpired.
LEMMA AllowedFindsRoom ==
    ASSUME TypeOK, HistoryKept, NEW k \in Keys, NEW sev \in Severities,
           NEW inj \in InjectionCounts, NEW mult \in Multipliers,
           Allowed(k, sev, inj, mult),
           NEW i \in Since(k), i + MaxRequests = Len(log[k]) + 1
    PROVE  log[k][i].ts < now - Window
<1> SUFFICES ASSUME log[k][i].ts >= now - Window
             PROVE  FALSE
  <2>1. log[k][i].ts \in Nat /\ now \in Nat
    BY SinceEntry DEF TypeOK
  <2> QED
    BY <2>1, DurationsAssumption
<1> DEFINE max == EffectiveMax(sev, inj, mult)
<1>1. max \in Nat /\ max <= MaxRequests
  <2>1. sev \in Int /\ inj \in Nat /\ mult \in Nat \ {0}
    BY SignalsAssumption
  <2> QED
    BY <2>1, LimitRange
<1>2. Len(log[k]) - i + 1 = MaxRequests
  <2>1. i \in Nat /\ Len(log[k]) \in Nat
    BY LogEntry, SinceEntry
  <2> QED
    BY <2>1, MaxRequestsAssumption
<1>3. ~ AtLimit(k, max)
  BY DEF Allowed
<1>4. CASE storeOpen
  <2>1. Cardinality(RowsCounted(k)) >= MaxRequests
    BY <1>2, <1>4, TableCounts
  <2>2. Cardinality(RowsCounted(k)) \in Nat
    BY FS_Subset, FS_CardinalityType DEF RowsCounted, RowsKept, TypeOK
  <2>3. Cardinality(RowsCounted(k)) >= max
    BY <1>1, <2>1, <2>2, MaxRequestsAssumption
  <2> HIDE DEF max
  <2> QED
    BY <1>3, <1>4, <2>3 DEF AtLimit
<1>5. CASE ~ storeOpen
  <2>1. PICK d \in 0..Len(bucket[k]) : PruneMemory(k, d)
    BY <1>5 DEF Allowed, AddHit, PruneStore
  <2>2. Popped(k, d)
    BY <2>1 DEF PruneMemory
  <2>3. Len(bucket[k]) - d >= MaxRequests
    BY <1>2, <1>5, <2>2, DequeCounts
  <2>4. Len(bucket[k]) - d \in Int
    BY DEF TypeOK
  <2>5. Len(bucket[k]) - d >= max
    BY <1>1, <2>3, <2>4, MaxRequestsAssumption
  <2> HIDE DEF max
  <2> QED
    BY <1>3, <1>5, <2>2, <2>5 DEF AtLimit
<1> QED
  BY <1>4, <1>5

-----------------------------------------------------------------------------
(* Every step keeps what the backends remember *)

\* What is left of a deque after the pruning loop is still the unexpired end
\* of the history.
LEMMA DequePruned ==
    ASSUME TypeOK, HistoryKept, ~ storeOpen, NEW k \in Keys,
           NEW d \in 0..Len(bucket[k]), Popped(k, d)
    PROVE  /\ BucketKept(k, d) \in Seq(Nat)
           /\ Len(BucketKept(k, d)) = Len(bucket[k]) - d
           /\ \A j \in 1..(Len(bucket[k]) - d) :
                  BucketKept(k, d)[j] = log[k][Forgotten(k) + d + j].ts
           /\ \A i \in (base[k] + 1)..(Forgotten(k) + d) : log[k][i].ts < now - Window
<1> DEFINE b == bucket[k]
           n == Len(log[k])
           m == Len(b)
           f == Forgotten(k)
           kept == BucketKept(k, d)
<1>1. /\ n \in Nat /\ m \in Nat /\ now \in Nat /\ base[k] \in Nat
      /\ b \in Seq(Nat) /\ \A j \in 1..m : b[j] \in Nat
  BY LogEntry, BucketEntry DEF TypeOK
<1>2. d \in Nat /\ d <= m
  BY <1>1
<1>3. f = n - m /\ base[k] <= f
  BY DEF Forgotten, HistoryKept, DequeRemembers
<1>4. \A j \in 1..m : b[j] = log[k][f + j].ts
  BY DEF HistoryKept, DequeRemembers
<1>5. \A i \in (base[k] + 1)..f : log[k][i].ts < now - Window
  BY DEF HistoryKept, DequeRemembers
<1>6. \A j \in 1..d : now - b[j] > Window
  BY DEF Popped
<1>7. kept = SubSeq(b, d + 1, m)
  BY DEF BucketKept
<1>8. /\ kept \in Seq(Nat)
      /\ Len(kept) = IF d + 1 <= m THEN m - (d + 1) + 1 ELSE 0
      /\ \A j \in 1..(m - (d + 1) + 1) : kept[j] = b[d + 1 + j - 1]
  <2> HIDE DEF b, m, kept
  <2>1. d + 1 \in Int /\ m \in Int /\ \A j \in (d + 1)..m : b[j] \in Nat
    BY <1>1, <1>2
  <2> QED
    BY <1>7, <2>1, SubSeqProperties
<1> HIDE DEF b, n, m, f, kept
<1>9. Len(kept) = m - d /\ \A j \in 1..(m - d) : kept[j] = b[d + j]
  BY <1>1, <1>2, <1>8
<1>10. ASSUME NEW j \in 1..(m - d)
       PROVE  kept[j] = log[k][f + d + j].ts
  <2>1. d + j \in 1..m /\ f + (d + j) = f + d + j
    BY <1>1, <1>2, <1>3
  <2>2. b[d + j] = log[k][f + (d + j)].ts
    BY <1>4, <2>1
  <2> QED
    BY <1>9, <2>1, <2>2
<1>11. ASSUME NEW i \in (base[k] + 1)..(f + d)
       PROVE  log[k][i].ts < now - Window
  <2>1. CASE i <= f
    BY <1>1, <1>3, <1>5, <2>1
  <2>2. CASE ~ (i <= f)
    <3>1. i - f \in 1..d /\ i - f \in 1..m /\ f + (i - f) = i
      BY <1>1, <1>2, <1>3, <2>2
    <3>2. b[i - f] = log[k][f + (i - f)].ts /\ b[i - f] \in Nat
      BY <1>1, <1>4, <3>1
    <3>3. now - b[i - f] > Window
      BY <1>6, <3>1
    <3>4. log[k][f + (i - f)].ts = log[k][i].ts
      BY <3>1
    <3> QED
      BY <1>1, <3>2, <3>3, <3>4, DurationsAssumption
  <2> QED
    BY <2>1, <2>2
<1> QED
  BY <1>8, <1>9, <1>10, <1>11 DEF b, m, f, kept

\* A pruning that adds no hit keeps every admission the window still needs.
LEMMA PruneKeeps ==
    ASSUME TypeOK, HistoryKept, NEW k \in Keys, OnlyPrune(k),
           UNCHANGED <<now, storeOpen, log, base>>
    PROVE  LogInOrder' /\ TableRemembers' /\ DequeRemembers' /\ RowsAreAdmissions'
<1>1. LogInOrder'
  BY DEF HistoryKept, LogInOrder
<1>2. CASE storeOpen
  <2>1. hitRows' = RowsKept(k) /\ UNCHANGED <<bucket, nextRow>>
    BY <1>2 DEF OnlyPrune, PruneStore, PruneMemory
  <2>2. ASSUME NEW l \in Keys, NEW i \in Since(l), log[l][i].ts >= now - Window
        PROVE  RowOf(l, i) \in hitRows'
    <3>1. RowOf(l, i) \in hitRows
      BY <1>2, <2>2 DEF HistoryKept, TableRemembers
    <3>2. RowOf(l, i).ts = log[l][i].ts
      BY DEF RowOf
    <3>3. ~ (log[l][i].ts < now - Window)
      <4>1. log[l][i].ts \in Nat /\ now \in Nat
        BY SinceEntry DEF TypeOK
      <4> QED
        BY <2>2, <4>1, DurationsAssumption
    <3> QED
      BY <2>1, <3>1, <3>2, <3>3 DEF RowsKept
  <2>3. TableRemembers'
    BY <1>2, <2>1, <2>2 DEF HistoryKept, TableRemembers, Since, RowOf
  <2>4. DequeRemembers'
    BY <1>2 DEF DequeRemembers
  <2>5. RowsAreAdmissions'
    BY <2>1 DEF HistoryKept, RowsAreAdmissions, RowsKept
  <2> QED
    BY <1>1, <2>3, <2>4, <2>5
<1>3. CASE ~ storeOpen
  <2>1. PICK d \in 0..Len(bucket[k]) :
            PruneMemory(k, d) /\ bucket' = [bucket EXCEPT ![k] = BucketKept(k, d)]
    BY <1>3 DEF OnlyPrune, PruneStore
  <2>2. ASSUME NEW l \in Keys
        PROVE  /\ base[l] <= Forgotten(l)'
               /\ \A j \in 1..Len(bucket'[l]) : bucket'[l][j] = log[l][Forgotten(l)' + j].ts
               /\ \A i \in (base[l] + 1)..Forgotten(l)' : log[l][i].ts < now - Window
    <3>1. CASE l # k
      <4>1. bucket'[l] = bucket[l]
        BY <2>1, <3>1 DEF TypeOK
      <4>2. Forgotten(l)' = Forgotten(l)
        BY <4>1 DEF Forgotten
      <4> QED
        BY <1>3, <4>1, <4>2 DEF HistoryKept, DequeRemembers
    <3>2. CASE l = k
      <4> DEFINE n == Len(log[k])
                 m == Len(bucket[k])
      <4>1. bucket'[k] = BucketKept(k, d)
        BY <2>1 DEF TypeOK
      <4>2. Popped(k, d)
        BY <2>1 DEF PruneMemory
      <4>3. Len(bucket'[k]) = m - d
        BY <1>3, <4>1, <4>2, DequePruned
      <4>4. n \in Nat /\ m \in Nat /\ d \in Nat /\ d <= m /\ base[k] \in Nat
        BY LogEntry, BucketEntry
      <4>5. Forgotten(k)' = n - (m - d) /\ Forgotten(k) = n - m
        BY <4>3 DEF Forgotten
      <4>6. base[k] <= Forgotten(k)
        BY <1>3 DEF HistoryKept, DequeRemembers
      <4> HIDE DEF n, m
      <4>7. Forgotten(k)' = Forgotten(k) + d
        BY <4>4, <4>5
      <4>8. base[k] <= Forgotten(k)'
        BY <4>4, <4>5, <4>6
      <4>9. /\ \A j \in 1..(m - d) : BucketKept(k, d)[j] = log[k][Forgotten(k) + d + j].ts
            /\ \A i \in (base[k] + 1)..(Forgotten(k) + d) : log[k][i].ts < now - Window
        BY <1>3, <4>2, DequePruned DEF m
      <4> QED
        BY <3>2, <4>1, <4>3, <4>7, <4>8, <4>9
    <3> QED
      BY <3>1, <3>2
  <2>3. DequeRemembers'
    BY <2>2 DEF DequeRemembers
  <2>4. TableRemembers'
    BY <1>3 DEF TableRemembers
  <2>5. RowsAreAdmissions'
    BY <2>1 DEF PruneMemory, HistoryKept, RowsAreAdmissions
  <2> QED
    BY <1>1, <2>3, <2>4, <2>5
<1> QED
  BY <1>2, <1>3

\* How an admission extends the history of its key, and of no other.
LEMMA AllowedExtends ==
    ASSUME TypeOK, NEW k \in Keys, NEW sev, NEW inj, NEW mult,
           Allowed(k, sev, inj, mult)
    PROVE  /\ Len(log[k]) \in Nat /\ base[k] \in Nat
           /\ Len(log'[k]) = Len(log[k]) + 1
           /\ \A i \in 1..Len(log[k]) : log'[k][i] = log[k][i]
           /\ log'[k][Len(log[k]) + 1] = [id |-> nextRow, ts |-> now]
           /\ \A l \in Keys : l # k => log'[l] = log[l]
           /\ UNCHANGED <<now, storeOpen, memCooldown, dbCooldown, base, promised>>
<1> DEFINE h == [id |-> nextRow, ts |-> now]
<1>1. h \in Hit
  BY DEF Hit, TypeOK
<1>2. log[k] \in Seq(Hit) /\ Len(log[k]) \in Nat /\ base[k] \in Nat
  BY LogEntry
<1>3. log'[k] = Append(log[k], h) /\ \A l \in Keys : l # k => log'[l] = log[l]
  BY DEF Allowed, TypeOK
<1>4. UNCHANGED <<now, storeOpen, memCooldown, dbCooldown, base, promised>>
  BY DEF Allowed, process
<1> HIDE DEF h
<1>5. /\ Len(Append(log[k], h)) = Len(log[k]) + 1
      /\ \A i \in 1..Len(log[k]) : Append(log[k], h)[i] = log[k][i]
      /\ Append(log[k], h)[Len(log[k]) + 1] = h
  BY <1>1, <1>2, AppendProperties
<1> QED
  BY <1>2, <1>3, <1>4, <1>5 DEF h

\* An admission is stamped with the clock: the history stays in order.
LEMMA AllowedInOrder ==
    ASSUME TypeOK, HistoryKept, NEW k \in Keys, NEW sev, NEW inj, NEW mult,
           Allowed(k, sev, inj, mult)
    PROVE  LogInOrder'
<1> DEFINE n == Len(log[k])
<1>1. ASSUME NEW l \in Keys, l # k
      PROVE  /\ base'[l] <= Len(log'[l])
             /\ \A i \in 1..Len(log'[l]) : log'[l][i].ts <= now'
             /\ \A i, j \in 1..Len(log'[l]) : i <= j => log'[l][i].ts <= log'[l][j].ts
  BY <1>1, AllowedExtends DEF HistoryKept, LogInOrder
<1>2. /\ n \in Nat /\ now \in Nat /\ base[k] \in Nat
      /\ Len(log'[k]) = n + 1 /\ log'[k][n + 1].ts = now
      /\ now' = now /\ base' = base
      /\ \A i \in 1..n : log'[k][i] = log[k][i]
  <2>1. now \in Nat
    BY DEF TypeOK
  <2>2. /\ n \in Nat /\ base[k] \in Nat /\ Len(log'[k]) = n + 1
        /\ log'[k][n + 1] = [id |-> nextRow, ts |-> now]
        /\ now' = now /\ base' = base
        /\ \A i \in 1..n : log'[k][i] = log[k][i]
    BY AllowedExtends
  <2> QED
    BY <2>1, <2>2
<1>3. /\ base[k] <= n
      /\ \A i \in 1..n : log[k][i].ts <= now
      /\ \A i, j \in 1..n : i <= j => log[k][i].ts <= log[k][j].ts
  BY DEF HistoryKept, LogInOrder
<1> HIDE DEF n
<1>4. base'[k] <= Len(log'[k])
  BY <1>2, <1>3
<1>5. ASSUME NEW i \in 1..(n + 1)
      PROVE  log'[k][i].ts <= now'
  <2>1. i \in 1..n \/ i = n + 1
    BY <1>2
  <2> QED
    BY <1>2, <1>3, <2>1
<1>6. ASSUME NEW i \in 1..(n + 1), NEW j \in 1..(n + 1), i <= j
      PROVE  log'[k][i].ts <= log'[k][j].ts
  <2>1. CASE j = n + 1
    BY <1>2, <1>5, <2>1
  <2>2. CASE j # n + 1
    <3>1. i \in 1..n /\ j \in 1..n
      BY <1>2, <1>6, <2>2
    <3> QED
      BY <1>2, <1>3, <1>6, <3>1
  <2> QED
    BY <2>1, <2>2
<1> QED
  BY <1>1, <1>2, <1>4, <1>5, <1>6 DEF LogInOrder

\* With the store open, an admission gets a row of its own.
LEMMA AllowedInTable ==
    ASSUME TypeOK, HistoryKept, storeOpen, NEW k \in Keys, NEW sev, NEW inj, NEW mult,
           Allowed(k, sev, inj, mult)
    PROVE  TableRemembers' /\ DequeRemembers' /\ RowsAreAdmissions'
<1> DEFINE n == Len(log[k])
           new == [id |-> nextRow, key |-> k, ts |-> now]
<1>1. hitRows' = RowsKept(k) \cup {new} /\ nextRow' = nextRow + 1
  BY DEF Allowed, AddHit, PruneStore, PruneMemory
<1>2. /\ n \in Nat /\ base[k] \in Nat /\ Len(log'[k]) = n + 1
      /\ \A i \in 1..n : log'[k][i] = log[k][i]
      /\ log'[k][n + 1] = [id |-> nextRow, ts |-> now]
      /\ \A l \in Keys : l # k => log'[l] = log[l]
      /\ now' = now /\ base' = base /\ storeOpen' = storeOpen
  BY AllowedExtends
<1>3. nextRow \in Nat /\ now \in Nat
  BY DEF TypeOK
<1>4. ASSUME NEW l \in Keys
      PROVE  /\ \A i \in Since(l) : log[l][i].id < nextRow
             /\ \A i, j \in Since(l) : i < j => log[l][i].id < log[l][j].id
             /\ \A i \in Since(l) : log[l][i].ts >= now - Window => RowOf(l, i) \in hitRows'
  <2>1. ASSUME NEW i \in Since(l), log[l][i].ts >= now - Window
        PROVE  RowOf(l, i) \in hitRows'
    <3>1. RowOf(l, i) \in hitRows /\ RowOf(l, i).ts = log[l][i].ts
      BY <2>1 DEF HistoryKept, TableRemembers, RowOf
    <3>2. log[l][i].ts \in Nat
      BY SinceEntry
    <3>3. ~ (log[l][i].ts < now - Window)
      BY <1>3, <2>1, <3>2, DurationsAssumption
    <3> QED
      BY <1>1, <3>1, <3>3 DEF RowsKept
  <2> QED
    BY <2>1 DEF HistoryKept, TableRemembers
<1>5. ASSUME NEW l \in Keys
      PROVE  /\ \A i \in Since(l)' : log'[l][i].id < nextRow'
             /\ \A i, j \in Since(l)' : i < j => log'[l][i].id < log'[l][j].id
             /\ \A i \in Since(l)' : log'[l][i].ts >= now' - Window => RowOf(l, i)' \in hitRows'
  <2>1. CASE l # k
    <3>1. log'[l] = log[l] /\ Since(l)' = Since(l) /\ \A i : RowOf(l, i)' = RowOf(l, i)
      BY <1>2, <2>1 DEF Since, RowOf
    <3>2. \A i \in Since(l) : log[l][i].id \in Nat /\ log[l][i].id < nextRow'
      BY <1>1, <1>3, <1>4, SinceEntry
    <3> QED
      BY <1>2, <1>4, <3>1, <3>2
  <2>2. CASE l = k
    <3>1. \A i \in Since(k)' : i \in Since(k) \/ i = n + 1
      BY <1>2 DEF Since
    <3>2. \A i \in Since(k) :
              /\ i \in 1..n /\ log'[k][i] = log[k][i] /\ RowOf(k, i)' = RowOf(k, i)
              /\ log[k][i].id \in Nat
      BY <1>2, SinceEntry DEF RowOf
    <3>3. \A i : i = n + 1 => RowOf(k, i)' = new
      BY <1>2 DEF RowOf
    <3>4. log'[k][n + 1].id = nextRow
      BY <1>2
    <3>5. ASSUME NEW i \in Since(k)'
          PROVE  log'[k][i].id < nextRow'
      BY <1>1, <1>3, <1>4, <3>1, <3>2, <3>4
    <3>6. ASSUME NEW i \in Since(k)', NEW j \in Since(k)', i < j
          PROVE  log'[k][i].id < log'[k][j].id
      <4>1. CASE j = n + 1
        <5>1. i \in Since(k)
          <6>1. n \in Nat /\ i < n + 1
            BY <1>2, <3>6, <4>1
          <6>2. i # n + 1
            <7> HIDE DEF n
            <7> QED
              BY <6>1
          <6> QED
            BY <3>1, <6>2
        <5> QED
          BY <1>4, <3>2, <3>4, <4>1, <5>1
      <4>2. CASE j \in Since(k)
        <5>1. i \in Since(k)
          <6>1. j \in 1..n
            BY <3>2, <4>2
          <6>2. i # n + 1
            BY <1>2, <3>6, <6>1
          <6> QED
            BY <3>1, <6>2
        <5> QED
          BY <1>4, <3>2, <3>6, <4>2, <5>1
      <4> QED
        BY <3>1, <4>1, <4>2
    <3>7. ASSUME NEW i \in Since(k)', log'[k][i].ts >= now' - Window
          PROVE  RowOf(k, i)' \in hitRows'
      <4>1. CASE i = n + 1
        BY <1>1, <3>3, <4>1
      <4>2. CASE i \in Since(k)
        BY <1>2, <1>4, <3>2, <3>7, <4>2
      <4> QED
        BY <3>1, <4>1, <4>2
    <3> QED
      BY <2>2, <3>5, <3>6, <3>7
  <2> QED
    BY <2>1, <2>2
<1>6. TableRemembers'
  BY <1>5 DEF TableRemembers
<1>7. DequeRemembers'
  BY <1>2 DEF DequeRemembers
<1>8. ASSUME NEW r \in hitRows'
      PROVE  \E i \in 1..Len(log'[r.key]) : log'[r.key][i].ts = r.ts
  <2>1. CASE r = new
    <3>1. r.key = k /\ r.ts = now /\ n + 1 \in 1..Len(log'[k]) /\ log'[k][n + 1].ts = now
      BY <1>2, <2>1
    <3> QED
      BY <3>1
  <2>2. CASE r \in hitRows
    <3>1. PICK i \in 1..Len(log[r.key]) : log[r.key][i].ts = r.ts
      BY <2>2 DEF HistoryKept, RowsAreAdmissions
    <3>2. r.key \in Keys
      BY <2>2 DEF TypeOK, Row
    <3>3. i \in 1..Len(log'[r.key]) /\ log'[r.key][i] = log[r.key][i]
      BY <1>2, <3>2
    <3> QED
      BY <3>1, <3>3
  <2> QED
    BY <1>1, <2>1, <2>2 DEF RowsKept
<1> QED
  BY <1>6, <1>7, <1>8 DEF RowsAreAdmissions

\* In memory, an admission is appended to the unexpired end of the history.
LEMMA AllowedInDeque ==
    ASSUME TypeOK, HistoryKept, ~ storeOpen, NEW k \in Keys, NEW sev, NEW inj, NEW mult,
           Allowed(k, sev, inj, mult)
    PROVE  TableRemembers' /\ DequeRemembers' /\ RowsAreAdmissions'
<1>1. PICK d \in 0..Len(bucket[k]) :
          /\ PruneMemory(k, d)
          /\ bucket' = [bucket EXCEPT ![k] = Append(BucketKept(k, d), now)]
  BY DEF Allowed, AddHit, PruneStore
<1> DEFINE n == Len(log[k])
           m == Len(bucket[k])
           f == Forgotten(k)
           kept == BucketKept(k, d)
<1>2. /\ n \in Nat /\ base[k] \in Nat /\ Len(log'[k]) = n + 1
      /\ \A i \in 1..n : log'[k][i] = log[k][i]
      /\ log'[k][n + 1].ts = now
      /\ \A l \in Keys : l # k => log'[l] = log[l]
      /\ now' = now /\ base' = base /\ storeOpen' = storeOpen
  BY AllowedExtends
<1>3. m \in Nat /\ now \in Nat /\ d \in Nat /\ d <= m
  BY BucketEntry DEF TypeOK
<1>4. /\ kept \in Seq(Nat) /\ Len(kept) = m - d
      /\ \A j \in 1..(m - d) : kept[j] = log[k][f + d + j].ts
      /\ \A i \in (base[k] + 1)..(f + d) : log[k][i].ts < now - Window
  <2>1. Popped(k, d)
    BY <1>1 DEF PruneMemory
  <2> QED
    BY <2>1, DequePruned
<1>5. bucket'[k] = Append(kept, now) /\ \A l \in Keys : l # k => bucket'[l] = bucket[l]
  BY <1>1 DEF TypeOK
<1>6. f = n - m /\ base[k] <= f
  BY DEF Forgotten, HistoryKept, DequeRemembers
<1>7. Forgotten(k)' = Len(log'[k]) - Len(bucket'[k])
  BY DEF Forgotten
<1>8. /\ Len(Append(kept, now)) = Len(kept) + 1
      /\ \A j \in 1..Len(kept) : Append(kept, now)[j] = kept[j]
      /\ Append(kept, now)[Len(kept) + 1] = now
  <2>1. kept \in Seq(Nat) /\ now \in Nat
    BY <1>3, <1>4
  <2> HIDE DEF kept
  <2> QED
    BY <2>1, AppendProperties
<1>9. ASSUME NEW l \in Keys
      PROVE  /\ base'[l] <= Forgotten(l)'
             /\ \A j \in 1..Len(bucket'[l]) : bucket'[l][j] = log'[l][Forgotten(l)' + j].ts
             /\ \A i \in (base'[l] + 1)..Forgotten(l)' : log'[l][i].ts < now' - Window
  <2>1. CASE l # k
    <3>1. bucket'[l] = bucket[l] /\ log'[l] = log[l] /\ Forgotten(l)' = Forgotten(l)
      BY <1>2, <1>5, <2>1 DEF Forgotten
    <3> QED
      BY <1>2, <3>1 DEF HistoryKept, DequeRemembers
  <2>2. CASE l = k
    <3> HIDE DEF n, m, f, kept
    <3>0. /\ n \in Nat /\ m \in Nat /\ d \in Nat /\ f \in Nat
          /\ d <= m /\ f = n - m
      BY <1>2, <1>3, <1>6
    <3>1. Len(bucket'[k]) = m - d + 1
      BY <1>4, <1>5, <1>8
    <3>2. Forgotten(k)' = f + d
      BY <1>2, <1>3, <1>6, <1>7, <3>1
    <3>3. ASSUME NEW j \in 1..(m - d + 1)
          PROVE  bucket'[k][j] = log'[k][f + d + j].ts
      <4>1. CASE j = m - d + 1
        <5>1. f + d + j = n + 1
          BY <1>2, <1>3, <1>6, <4>1
        <5> QED
          BY <1>2, <1>4, <1>5, <1>8, <4>1, <5>1
      <4>2. CASE j # m - d + 1
        <5>1. j \in 1..(m - d) /\ f + d + j \in 1..n
          BY <3>0, <4>2
        <5>2. Append(kept, now)[j] = kept[j]
          BY <1>4, <1>8, <5>1
        <5>3. log'[k][f + d + j] = log[k][f + d + j]
          BY <1>2, <5>1
        <5> QED
          BY <1>4, <1>5, <5>1, <5>2, <5>3
      <4> QED
        BY <4>1, <4>2
    <3>4. ASSUME NEW i \in (base[k] + 1)..(f + d)
          PROVE  log'[k][i].ts < now - Window
      <4>1. i \in 1..n
        BY <1>2, <1>3, <1>6
      <4> QED
        BY <1>2, <1>4, <4>1
    <3>5. base[k] <= f + d
      BY <1>2, <1>3, <1>6
    <3> QED
      BY <1>2, <2>2, <3>1, <3>2, <3>3, <3>4, <3>5
  <2> QED
    BY <2>1, <2>2
<1>10. DequeRemembers'
  BY <1>9 DEF DequeRemembers
<1>11. TableRemembers'
  BY <1>2 DEF TableRemembers
<1>12. ASSUME NEW r \in hitRows'
       PROVE  \E i \in 1..Len(log'[r.key]) : log'[r.key][i].ts = r.ts
  <2>1. r \in hitRows /\ r.key \in Keys
    BY <1>1 DEF PruneMemory, TypeOK, Row
  <2>2. PICK i \in 1..Len(log[r.key]) : log[r.key][i].ts = r.ts
    BY <2>1 DEF HistoryKept, RowsAreAdmissions
  <2>3. i \in 1..Len(log'[r.key]) /\ log'[r.key][i] = log[r.key][i]
    BY <1>2, <2>1
  <2> QED
    BY <2>2, <2>3
<1> QED
  BY <1>10, <1>11, <1>12 DEF RowsAreAdmissions

\* A cooldown is started in the backend in use, so it is in force there.
LEMMA CooldownStartedKeeps ==
    ASSUME TypeOK, HistoryKept, NEW k \in Keys, NEW inj, CooldownStarted(k, inj)
    PROVE  HistoryKept'
<1>1. OnlyPrune(k) /\ SetCooldown(k) /\ UNCHANGED <<now, storeOpen, log, base>>
  BY DEF CooldownStarted, process
<1>2. CooldownKept'
  BY <1>1, DurationsAssumption DEF SetCooldown, HistoryKept, CooldownKept, CooldownUntil, TypeOK
<1> QED
  BY <1>1, <1>2, PruneKeeps DEF HistoryKept

\* A refusal for the rate only prunes.
LEMMA LimitExceededKeeps ==
    ASSUME TypeOK, HistoryKept, NEW k \in Keys, NEW sev, NEW inj, NEW mult,
           LimitExceeded(k, sev, inj, mult)
    PROVE  HistoryKept'
<1>1. /\ OnlyPrune(k)
      /\ UNCHANGED <<now, storeOpen, log, base, promised, memCooldown, dbCooldown>>
  BY DEF LimitExceeded, process, histories
<1>2. CooldownKept'
  BY <1>1 DEF HistoryKept, CooldownKept, CooldownUntil
<1> QED
  BY <1>1, <1>2, PruneKeeps DEF HistoryKept

\* An admission keeps the backend equal to the history, whichever it is.
LEMMA AllowedKeeps ==
    ASSUME TypeOK, HistoryKept, NEW k \in Keys, NEW sev, NEW inj, NEW mult,
           Allowed(k, sev, inj, mult)
    PROVE  HistoryKept'
<1>1. UNCHANGED <<storeOpen, memCooldown, dbCooldown, promised>>
  BY AllowedExtends
<1>2. CooldownKept'
  BY <1>1 DEF HistoryKept, CooldownKept, CooldownUntil
<1>3. storeOpen \in BOOLEAN
  BY DEF TypeOK
<1> QED
  BY <1>2, <1>3, AllowedInOrder, AllowedInTable, AllowedInDeque DEF HistoryKept

\* The clock only makes more of the history expire.
LEMMA TickKeeps ==
    ASSUME TypeOK, HistoryKept, Tick
    PROVE  HistoryKept'
<1>1. /\ now' = now + 1 /\ now \in Nat
      /\ UNCHANGED <<storeOpen, bucket, memCooldown, hitRows, nextRow, dbCooldown,
                     log, base, promised>>
  BY DEF Tick, process, limiterVars, histories, TypeOK
<1>2. LogInOrder'
  <2>1. ASSUME NEW k \in Keys, NEW i \in 1..Len(log[k])
        PROVE  log[k][i].ts <= now'
    <3>1. log[k][i].ts \in Nat /\ log[k][i].ts <= now
      BY LogEntry DEF HistoryKept, LogInOrder
    <3> QED
      BY <1>1, <3>1
  <2> QED
    BY <1>1, <2>1 DEF HistoryKept, LogInOrder
<1>3. TableRemembers'
  <2>1. ASSUME storeOpen, NEW k \in Keys, NEW i \in Since(k),
               log[k][i].ts >= now' - Window
        PROVE  RowOf(k, i) \in hitRows
    <3>1. log[k][i].ts \in Nat
      BY SinceEntry
    <3>2. log[k][i].ts >= now - Window
      BY <1>1, <2>1, <3>1, DurationsAssumption
    <3> QED
      BY <2>1, <3>2 DEF HistoryKept, TableRemembers
  <2> QED
    BY <1>1, <2>1 DEF HistoryKept, TableRemembers, Since, RowOf
<1>4. DequeRemembers'
  <2>1. ASSUME ~ storeOpen, NEW k \in Keys, NEW i \in (base[k] + 1)..Forgotten(k)
        PROVE  log[k][i].ts < now' - Window
    <3>1. i \in 1..Len(log[k])
      <4> DEFINE n == Len(log[k])
                 m == Len(bucket[k])
      <4>1. n \in Nat /\ m \in Nat /\ base[k] \in Nat /\ Forgotten(k) = n - m
        BY LogEntry, BucketEntry DEF Forgotten
      <4> HIDE DEF n, m
      <4>2. i \in 1..n
        BY <4>1
      <4> QED
        BY <4>2 DEF n
    <3>2. log[k][i].ts \in Nat
      BY <3>1, LogEntry
    <3>3. log[k][i].ts < now - Window
      BY <2>1 DEF HistoryKept, DequeRemembers
    <3> QED
      BY <1>1, <3>2, <3>3, DurationsAssumption
  <2> QED
    BY <1>1, <2>1 DEF HistoryKept, DequeRemembers, Forgotten
<1>5. CooldownKept'
  BY <1>1 DEF HistoryKept, CooldownKept, CooldownUntil
<1>6. RowsAreAdmissions'
  BY <1>1 DEF HistoryKept, RowsAreAdmissions
<1> QED
  BY <1>2, <1>3, <1>4, <1>5, <1>6 DEF HistoryKept

\* A restart keeps the tables, or counts the whole history as lost.
LEMMA RestartKeeps ==
    ASSUME TypeOK, HistoryKept, Restart
    PROVE  HistoryKept'
<1>1. /\ UNCHANGED <<now, hitRows, nextRow, dbCooldown, log>>
      /\ bucket' = [k \in Keys |-> <<>>] /\ memCooldown' = [k \in Keys |-> 0]
      /\ storeOpen' \in BOOLEAN /\ storeOpen \in BOOLEAN
  BY StoreOrNot DEF Restart, TypeOK
<1>2. RowsAreAdmissions'
  BY <1>1 DEF HistoryKept, RowsAreAdmissions
<1>3. CASE storeOpen /\ storeOpen'
  <2>1. UNCHANGED <<base, promised>>
    BY <1>3 DEF Restart
  <2>2. LogInOrder' /\ CooldownKept'
    BY <1>1, <1>3, <2>1 DEF HistoryKept, LogInOrder, CooldownKept, CooldownUntil
  <2>3. TableRemembers' /\ DequeRemembers'
    BY <1>1, <1>3, <2>1 DEF HistoryKept, TableRemembers, DequeRemembers, Since, RowOf
  <2> QED
    BY <1>2, <2>2, <2>3 DEF HistoryKept
<1>4. CASE ~ (storeOpen /\ storeOpen')
  <2>1. base' = [k \in Keys |-> Len(log[k])] /\ promised' = [k \in Keys |-> 0]
    BY <1>4 DEF Restart
  <2>2. \A k \in Keys : Len(log[k]) \in Nat /\ Len(log[k]) <= Len(log[k])
    BY LogEntry
  <2>3. LogInOrder'
    BY <1>1, <2>1, <2>2 DEF HistoryKept, LogInOrder
  <2>4. CooldownKept'
    BY <1>1, <2>1 DEF CooldownKept, CooldownUntil, TypeOK
  <2>5. \A k \in Keys : Since(k)' = {}
    BY <1>1, <2>1, <2>2 DEF Since
  <2>6. TableRemembers'
    BY <2>5 DEF TableRemembers
  <2>7. ASSUME NEW k \in Keys
        PROVE  /\ base'[k] = Len(log[k]) /\ Len(bucket'[k]) = 0
               /\ Forgotten(k)' = Len(log[k]) /\ Len(log[k]) \in Nat
    <3>1. Len(bucket'[k]) = 0
      BY <1>1
    <3> QED
      BY <1>1, <2>1, <2>2, <3>1 DEF Forgotten
  <2>8. DequeRemembers'
    <3>1. ASSUME NEW k \in Keys
          PROVE  /\ base'[k] <= Forgotten(k)'
                 /\ 1..Len(bucket'[k]) = {}
                 /\ (base'[k] + 1)..Forgotten(k)' = {}
      BY <2>7
    <3> QED
      BY <3>1 DEF DequeRemembers
  <2> QED
    BY <1>2, <2>3, <2>4, <2>6, <2>8 DEF HistoryKept
<1> QED
  BY <1>3, <1>4

-----------------------------------------------------------------------------
(* The inductive invariant *)

IInv == TypeOK /\ HistoryKept /\ WindowBound

\* The inductive invariant holds initially.
LEMMA InitIInv == Init => IInv
<1> SUFFICES ASSUME Init
             PROVE  IInv
  OBVIOUS
<1>1. TypeOK
  BY InitTypeOK
<1>2. \A k \in Keys : Len(log[k]) = 0 /\ Len(bucket[k]) = 0 /\ base[k] = 0
  BY DEF Init
<1>3. \A k \in Keys : 1..Len(log[k]) = {} /\ Since(k) = {} /\ Forgotten(k) = 0
  BY <1>2 DEF Since, Forgotten
<1>4. LogInOrder /\ TableRemembers /\ RowsAreAdmissions
  BY <1>2, <1>3 DEF Init, LogInOrder, TableRemembers, RowsAreAdmissions
<1>5. DequeRemembers
  BY <1>2, <1>3 DEF DequeRemembers
<1>6. CooldownKept
  BY DEF Init, CooldownKept, CooldownUntil
<1>7. WindowBound
  BY <1>2 DEF WindowBound
<1> QED
  BY <1>1, <1>4, <1>5, <1>6, <1>7 DEF IInv, HistoryKept

\* The window bound survives a step that admits nothing.
LEMMA QuietStepWindow ==
    ASSUME TypeOK, WindowBound, log' = log,
           base' = base \/ base' = [k \in Keys |-> Len(log[k])]
    PROVE  WindowBound'
<1>1. CASE base' = base
  BY <1>1 DEF WindowBound
<1>2. CASE base' = [k \in Keys |-> Len(log[k])]
  <2>1. \A k \in Keys : (base'[k] + 1)..Len(log'[k]) = {}
    BY <1>2, LogEntry
  <2> QED
    BY <2>1 DEF WindowBound
<1> QED
  BY <1>1, <1>2

\* The window bound survives an admission.
LEMMA AllowedWindow ==
    ASSUME TypeOK, HistoryKept, WindowBound, NEW k \in Keys, NEW sev \in Severities,
           NEW inj \in InjectionCounts, NEW mult \in Multipliers,
           Allowed(k, sev, inj, mult)
    PROVE  WindowBound'
<1> DEFINE n == Len(log[k])
<1>1. /\ n \in Nat /\ base[k] \in Nat /\ Len(log'[k]) = n + 1
      /\ \A i \in 1..n : log'[k][i] = log[k][i]
      /\ log'[k][n + 1].ts = now /\ base' = base /\ now \in Nat
      /\ \A l \in Keys : l # k => log'[l] = log[l]
  <2>1. now \in Nat
    BY DEF TypeOK
  <2> QED
    BY <2>1, AllowedExtends
<1>2. ASSUME NEW l \in Keys, l # k, NEW i \in (base'[l] + 1)..Len(log'[l]),
             i + MaxRequests <= Len(log'[l])
      PROVE  log'[l][i + MaxRequests].ts - log'[l][i].ts > Window
  BY <1>1, <1>2 DEF WindowBound
<1>3. ASSUME NEW i \in (base[k] + 1)..(n + 1), i + MaxRequests <= n + 1
      PROVE  log'[k][i + MaxRequests].ts - log'[k][i].ts > Window
  <2>1. i \in (base[k] + 1)..n /\ i \in 1..n /\ i \in Nat
    <3> HIDE DEF n
    <3> QED
      BY <1>1, <1>3, MaxRequestsAssumption
  <2>2. CASE i + MaxRequests = n + 1
    <3>1. i \in Since(k)
      BY <2>1 DEF Since
    <3>2. log[k][i].ts < now - Window
      BY <2>2, <3>1, AllowedFindsRoom
    <3>3. log[k][i].ts \in Nat
      BY <2>1, LogEntry
    <3>4. log'[k][i] = log[k][i] /\ log'[k][i + MaxRequests].ts = now
      BY <1>1, <2>1, <2>2
    <3> QED
      BY <1>1, <3>2, <3>3, <3>4, DurationsAssumption
  <2>3. CASE i + MaxRequests # n + 1
    <3>1. i + MaxRequests <= n /\ i + MaxRequests \in 1..n
      <4>1. n \in Nat /\ i \in Nat /\ i >= 1 /\ MaxRequests \in Nat
            /\ i + MaxRequests <= n + 1 /\ i + MaxRequests # n + 1
        BY <1>1, <1>3, <2>1, <2>3, MaxRequestsAssumption
      <4> HIDE DEF n
      <4> QED
        BY <4>1
    <3>2. log[k][i + MaxRequests].ts - log[k][i].ts > Window
      BY <2>1, <3>1 DEF WindowBound
    <3> QED
      BY <1>1, <2>1, <3>1, <3>2
  <2> QED
    BY <2>2, <2>3
<1> QED
  BY <1>1, <1>2, <1>3 DEF WindowBound

\* Every step keeps the inductive invariant: what the backend remembers
\* (HistoryKept) is what makes the window bound inductive.
LEMMA StepIInv == IInv /\ [Next]_vars => IInv'
<1> SUFFICES ASSUME IInv, [Next]_vars
             PROVE  IInv'
  OBVIOUS
<1>1. TypeOK /\ HistoryKept /\ WindowBound /\ TypeOK'
  BY StepTypeOK DEF IInv
<1>2. ASSUME NEW k \in Keys, RefusedInCooldown(k)
      PROVE  HistoryKept' /\ WindowBound'
  <2>1. UNCHANGED <<now, storeOpen, bucket, memCooldown, hitRows, nextRow, dbCooldown,
                    log, base, promised>>
    BY <1>2 DEF RefusedInCooldown, process, limiterVars, histories
  <2>2. HistoryKept'
    BY <1>1, <2>1 DEF HistoryKept, LogInOrder, TableRemembers, DequeRemembers, CooldownKept,
                      RowsAreAdmissions, CooldownUntil, Since, RowOf, Forgotten
  <2> QED
    BY <1>1, <2>1, <2>2, QuietStepWindow
<1>3. ASSUME NEW k \in Keys, NEW inj \in InjectionCounts, CooldownStarted(k, inj)
      PROVE  HistoryKept' /\ WindowBound'
  <2>1. log' = log /\ base' = base
    BY <1>3 DEF CooldownStarted
  <2> QED
    BY <1>1, <1>3, <2>1, CooldownStartedKeeps, QuietStepWindow
<1>4. ASSUME NEW k \in Keys, NEW sev \in Severities, NEW inj \in InjectionCounts,
             NEW mult \in Multipliers, LimitExceeded(k, sev, inj, mult)
      PROVE  HistoryKept' /\ WindowBound'
  <2>1. log' = log /\ base' = base
    BY <1>4 DEF LimitExceeded, histories
  <2> QED
    BY <1>1, <1>4, <2>1, LimitExceededKeeps, QuietStepWindow
<1>5. ASSUME NEW k \in Keys, NEW sev \in Severities, NEW inj \in InjectionCounts,
             NEW mult \in Multipliers, Allowed(k, sev, inj, mult)
      PROVE  HistoryKept' /\ WindowBound'
  BY <1>1, <1>5, AllowedKeeps, AllowedWindow
<1>6. ASSUME Tick
      PROVE  HistoryKept' /\ WindowBound'
  <2>1. log' = log /\ base' = base
    BY <1>6 DEF Tick, histories
  <2> QED
    BY <1>1, <1>6, <2>1, TickKeeps, QuietStepWindow
<1>7. ASSUME Restart
      PROVE  HistoryKept' /\ WindowBound'
  <2>1. log' = log /\ (base' = base \/ base' = [k \in Keys |-> Len(log[k])])
    BY <1>7 DEF Restart
  <2> QED
    BY <1>1, <1>7, <2>1, RestartKeeps, QuietStepWindow
<1>8. ASSUME UNCHANGED vars
      PROVE  HistoryKept' /\ WindowBound'
  <2>1. UNCHANGED <<now, storeOpen, bucket, memCooldown, hitRows, nextRow, dbCooldown,
                    log, base, promised>>
    BY <1>8 DEF vars, process, limiterVars, histories
  <2>2. HistoryKept'
    BY <1>1, <2>1 DEF HistoryKept, LogInOrder, TableRemembers, DequeRemembers, CooldownKept,
                      RowsAreAdmissions, CooldownUntil, Since, RowOf, Forgotten
  <2> QED
    BY <1>1, <2>1, <2>2, QuietStepWindow
<1> QED
  BY <1>1, <1>2, <1>3, <1>4, <1>5, <1>6, <1>7, <1>8 DEF Next, allow, IInv

\* Any MaxRequests + 1 unlost admissions of a key span more than Window.
THEOREM WindowSafety == Spec => []WindowBound
<1>1. IInv => WindowBound
  BY DEF IInv
<1> QED
  BY InitIInv, StepIInv, <1>1, PTL DEF Spec

\* The backend in use always holds what the window and the cooldown need.
THEOREM HistorySafety == Spec => []HistoryKept
<1>1. IInv => HistoryKept
  BY DEF IInv
<1> QED
  BY InitIInv, StepIInv, <1>1, PTL DEF Spec

\* Nothing is admitted for a key during a cooldown promised to it.
THEOREM CooldownSafety == Spec => NoAdmissionInCooldown
<1>1. ASSUME IInv, [Next]_vars, NEW k \in Keys, Len(log'[k]) > Len(log[k])
      PROVE  now >= promised[k]
  <2>1. TypeOK /\ HistoryKept /\ Len(log[k]) \in Nat
    BY <1>1, LogEntry DEF IInv
  <2>2. log' # log
    BY <1>1, <2>1
  <2>3. PICK l \in Keys, sev \in Severities, inj \in InjectionCounts, mult \in Multipliers :
            Allowed(l, sev, inj, mult)
    BY <1>1, <2>2 DEF Next, allow, RefusedInCooldown, CooldownStarted, LimitExceeded,
                      Tick, Restart, histories, vars
  <2>4. l = k
    <3>1. l # k => log'[k] = log[k]
      BY <2>1, <2>3, AllowedExtends
    <3> QED
      BY <1>1, <2>1, <3>1
  <2>5. now >= CooldownUntil(k)
    BY <2>3, <2>4 DEF Allowed
  <2>6. promised[k] <= CooldownUntil(k)
    BY <2>1 DEF HistoryKept, CooldownKept
  <2>7. now \in Nat /\ promised[k] \in Nat /\ CooldownUntil(k) \in Nat
    BY <2>1 DEF TypeOK, CooldownUntil
  <2> QED
    BY <2>5, <2>6, <2>7
<1>2. IInv /\ [Next]_vars =>
          [\A k \in Keys : Len(log'[k]) > Len(log[k]) => now >= promised[k]]_vars
  BY <1>1
<1> QED
  BY InitIInv, StepIInv, <1>2, PTL DEF Spec, NoAdmissionInCooldown

-----------------------------------------------------------------------------
(* A refusal for the rate has a cause *)

\* A full table or deque holds an unexpired hit, and a hit was an admission.
LEMMA LimitExceededIsBusy ==
    ASSUME TypeOK, HistoryKept, NEW k \in Keys, NEW sev \in Severities,
           NEW inj \in InjectionCounts, NEW mult \in Multipliers,
           LimitExceeded(k, sev, inj, mult)
    PROVE  \E i \in 1..Len(log[k]) : log[k][i].ts >= now - Window
<1> DEFINE max == EffectiveMax(sev, inj, mult)
<1>1. max \in Nat /\ max >= 1
  <2>1. sev \in Int /\ inj \in Nat /\ mult \in Nat \ {0}
    BY SignalsAssumption
  <2> QED
    BY <2>1, LimitRange
<1>2. AtLimit(k, max)
  BY DEF LimitExceeded
<1> HIDE DEF max
<1>3. CASE storeOpen /\ Cardinality(RowsCounted(k)) >= max
  <2>1. RowsCounted(k) # {}
    BY <1>1, <1>3, FS_EmptySet
  <2>2. PICK r \in RowsCounted(k) : TRUE
    BY <2>1
  <2>3. r \in hitRows /\ r.key = k /\ r.ts >= now - Window
    BY <2>2 DEF RowsCounted, RowsKept
  <2>4. PICK i \in 1..Len(log[k]) : log[k][i].ts = r.ts
    BY <2>3 DEF HistoryKept, RowsAreAdmissions
  <2> QED
    BY <2>3, <2>4
<1>4. CASE /\ ~ storeOpen
           /\ \E d \in 0..Len(bucket[k]) : Popped(k, d) /\ Len(bucket[k]) - d >= max
  <2>1. PICK d \in 0..Len(bucket[k]) : Popped(k, d) /\ Len(bucket[k]) - d >= max
    BY <1>4
  <2> DEFINE n == Len(log[k])
             m == Len(bucket[k])
             f == Forgotten(k)
             head == bucket[k][d + 1]
  <2>2. n \in Nat /\ m \in Nat /\ base[k] \in Nat /\ now \in Nat
    BY LogEntry, BucketEntry DEF TypeOK
  <2>3. f = n - m /\ base[k] <= f
    BY <1>4 DEF Forgotten, HistoryKept, DequeRemembers
  <2>4. d \in 0..m /\ m - d >= max
    BY <2>1
  <2>5. d < m => ~ (now - head > Window)
    BY <2>1 DEF Popped
  <2>6. d + 1 \in 1..m => head = log[k][f + (d + 1)].ts /\ head \in Nat
    BY <1>4, BucketEntry DEF HistoryKept, DequeRemembers
  <2> HIDE DEF n, m, f, head
  <2>7. d < m /\ d + 1 \in 1..m /\ f + (d + 1) \in 1..n
    BY <1>1, <2>2, <2>3, <2>4
  <2>8. log[k][f + (d + 1)].ts >= now - Window
    BY <2>2, <2>5, <2>6, <2>7, DurationsAssumption
  <2> QED
    BY <2>7, <2>8 DEF n
<1> QED
  BY <1>2, <1>3, <1>4 DEF AtLimit

\* Every step keeps RefusedOnlyWhenBusy: only LimitExceeded says that a key was
\* refused for its rate, and the clock takes the verdict away.
LEMMA StepBusy ==
    IInv /\ RefusedOnlyWhenBusy /\ [Next]_vars => RefusedOnlyWhenBusy'
<1> SUFFICES ASSUME IInv, RefusedOnlyWhenBusy, [Next]_vars
             PROVE  RefusedOnlyWhenBusy'
  OBVIOUS
<1>1. TypeOK /\ HistoryKept
  BY DEF IInv
<1>2. ASSUME NEW k \in Keys, RefusedInCooldown(k)
      PROVE  RefusedOnlyWhenBusy'
  BY <1>2 DEF RefusedInCooldown, RefusedOnlyWhenBusy
<1>3. ASSUME NEW k \in Keys, NEW inj \in InjectionCounts, CooldownStarted(k, inj)
      PROVE  RefusedOnlyWhenBusy'
  BY <1>3 DEF CooldownStarted, RefusedOnlyWhenBusy
<1>4. ASSUME NEW k \in Keys, NEW sev \in Severities, NEW inj \in InjectionCounts,
             NEW mult \in Multipliers, LimitExceeded(k, sev, inj, mult)
      PROVE  RefusedOnlyWhenBusy'
  <2>1. verdict'.key = k /\ now' = now /\ log' = log
    BY <1>4 DEF LimitExceeded, histories
  <2> QED
    BY <1>1, <1>4, <2>1, LimitExceededIsBusy DEF RefusedOnlyWhenBusy
<1>5. ASSUME NEW k \in Keys, NEW sev \in Severities, NEW inj \in InjectionCounts,
             NEW mult \in Multipliers, Allowed(k, sev, inj, mult)
      PROVE  RefusedOnlyWhenBusy'
  BY <1>5 DEF Allowed, RefusedOnlyWhenBusy
<1>6. ASSUME Tick \/ Restart
      PROVE  RefusedOnlyWhenBusy'
  BY <1>6 DEF Tick, Restart, NoVerdict, RefusedOnlyWhenBusy
<1>7. ASSUME UNCHANGED vars
      PROVE  RefusedOnlyWhenBusy'
  BY <1>7 DEF vars, histories, RefusedOnlyWhenBusy
<1> QED
  BY <1>2, <1>3, <1>4, <1>5, <1>6, <1>7 DEF Next, allow

\* A key is refused for its rate only when it was admitted within the window.
THEOREM BusySafety == Spec => []RefusedOnlyWhenBusy
<1>1. Init => RefusedOnlyWhenBusy
  BY DEF Init, NoVerdict, RefusedOnlyWhenBusy
<1> QED
  BY InitIInv, StepIInv, StepBusy, <1>1, PTL DEF Spec

-----------------------------------------------------------------------------
(* The refinement of SlidingWindow *)

\* The limiter implements SlidingWindow wherever the store opens at every
\* start or there is none: what is counted is exactly what the history
\* remembers.
USE DurationsAssumption

\* The backend in use holds no more than was admitted and promised since the
\* history was last forgotten; HistoryKept says that it holds no less.
Exact ==
    /\ storeOpen <=> stateBackend = "sqlite"
    /\ \A k \in Keys : CooldownUntil(k) = promised[k]
    /\ storeOpen => \A r \in hitRows : \E i \in Since(r.key) : r = RowOf(r.key, i)

\* The unexpired admissions not forgotten.
Recent(k) == {i \in Since(k) : log[k][i].ts >= now - Window}

LEMMA RecentFinite ==
    ASSUME TypeOK, NEW k \in Keys
    PROVE  IsFiniteSet(Recent(k)) /\ Cardinality(Recent(k)) \in Nat
<1>1. Recent(k) \subseteq 1..Len(log[k])
  BY SinceEntry DEF Recent
<1>2. IsFiniteSet(1..Len(log[k]))
  BY LogEntry, FS_Interval
<1> QED
  BY <1>1, <1>2, FS_Subset, FS_CardinalityType

-----------------------------------------------------------------------------
(* What the limiter counts *)

\* Over the store: a row for each of them, and no other.
LEMMA RowsAreRecent ==
    ASSUME TypeOK, HistoryKept, Exact, storeOpen, NEW k \in Keys
    PROVE  Cardinality(RowsCounted(k)) = Cardinality(Recent(k))
<1> DEFINE f == [i \in Recent(k) |-> RowOf(k, i)]
<1>1. ASSUME NEW i \in Recent(k) PROVE RowOf(k, i) \in RowsCounted(k)
  <2>1. i \in Since(k) /\ log[k][i].ts >= now - Window /\ log[k][i].ts \in Nat /\ now \in Nat
    BY SinceEntry DEF Recent, TypeOK
  <2>2. RowOf(k, i) \in hitRows
    BY <2>1 DEF HistoryKept, TableRemembers
  <2> QED
    BY <2>1, <2>2 DEF RowsCounted, RowsKept, RowOf
<1>2. ASSUME NEW a \in Recent(k), NEW b \in Recent(k), f[a] = f[b] PROVE a = b
  <2>1. a \in Since(k) /\ b \in Since(k)
    BY DEF Recent
  <2>2. log[k][a].id \in Nat /\ log[k][b].id \in Nat /\ a \in Nat /\ b \in Nat
    BY <2>1, SinceEntry
  <2>3. log[k][a].id = log[k][b].id
    BY <1>2 DEF RowOf
  <2>4. /\ a < b => log[k][a].id < log[k][b].id
        /\ b < a => log[k][b].id < log[k][a].id
    BY <2>1 DEF HistoryKept, TableRemembers
  <2> QED
    BY <2>2, <2>3, <2>4
<1>3. ASSUME NEW r \in RowsCounted(k) PROVE \E i \in Recent(k) : f[i] = r
  <2>1. r \in hitRows /\ r.key = k /\ r.ts >= now - Window
    BY DEF RowsCounted, RowsKept
  <2>2. PICK i \in Since(k) : r = RowOf(k, i)
    BY <2>1 DEF Exact
  <2>3. i \in Recent(k)
    BY <2>1, <2>2 DEF Recent, RowOf
  <2> QED
    BY <2>2, <2>3
<1>4. f \in [Recent(k) -> RowsCounted(k)]
  BY <1>1
<1> HIDE DEF f
<1>5. f \in Injection(Recent(k), RowsCounted(k)) /\ f \in Surjection(Recent(k), RowsCounted(k))
  BY <1>2, <1>3, <1>4 DEF Injection, IsInjective, Surjection
<1>6. ExistsBijection(Recent(k), RowsCounted(k))
  BY <1>5 DEF ExistsBijection, Bijection
<1> QED
  BY <1>6, RecentFinite, FS_Bijection

\* In memory: what the pruning loop leaves of the deque.
LEMMA QueuedAreRecent ==
    ASSUME TypeOK, HistoryKept, ~ storeOpen, NEW k \in Keys,
           NEW d \in 0..Len(bucket[k]), Popped(k, d)
    PROVE  Len(bucket[k]) - d = Cardinality(Recent(k))
<1> DEFINE n == Len(log[k])
           m == Len(bucket[k])
           f == Forgotten(k)
<1>1. n \in Nat /\ m \in Nat /\ now \in Nat /\ d \in Nat /\ d <= m /\ base[k] \in Nat
  BY LogEntry, BucketEntry DEF TypeOK
<1>2. f = n - m /\ base[k] <= f /\ f \in Int
  <2>1. f = n - m /\ base[k] <= f
    BY DEF Forgotten, HistoryKept, DequeRemembers
  <2>2. n - m \in Int
    BY <1>1
  <2> HIDE DEF n, m, f
  <2> QED
    BY <2>1, <2>2
<1>3. ASSUME NEW i \in Recent(k) PROVE i \in (f + d + 1)..n
  <2>1. i \in Since(k) /\ log[k][i].ts >= now - Window
    BY DEF Recent
  <2>2. i \in Nat /\ i <= n
    BY <2>1, SinceEntry, LogEntry
  <2>3. m - d >= n - i + 1
    BY <2>1, DequeCounts
  <2> HIDE DEF n, m, f
  <2> QED
    BY <1>1, <1>2, <2>2, <2>3
<1>4. ASSUME NEW i \in (f + d + 1)..n PROVE i \in Recent(k)
  <2> DEFINE j == f + d + 1
  <2>1. d + 1 \in 1..m /\ d < m /\ j \in 1..n /\ i \in 1..n /\ j <= i /\ base[k] < i
    <3> HIDE DEF n, m
    <3> QED
      BY <1>1, <1>2, <1>4
  <2>2. bucket[k][d + 1] = log[k][f + (d + 1)].ts
    BY <2>1 DEF HistoryKept, DequeRemembers
  <2>3. f + (d + 1) = j
    <3>1. f \in Int /\ d \in Int
      BY <1>1, <1>2
    <3> HIDE DEF f
    <3> QED
      BY <3>1
  <2>4. ~ (now - bucket[k][d + 1] > Window)
    BY <2>1 DEF Popped
  <2>5. log[k][j].ts <= log[k][i].ts
    BY <2>1 DEF HistoryKept, LogInOrder
  <2>6. log[k][j].ts \in Nat /\ log[k][i].ts \in Nat
    BY <2>1, LogEntry
  <2>7. bucket[k][d + 1] = log[k][j].ts
    BY <2>2, <2>3
  <2>8. log[k][i].ts >= now - Window
    <3> DEFINE first == log[k][j].ts
               later == log[k][i].ts
    <3>1. ~ (now - first > Window) /\ first <= later /\ first \in Nat /\ later \in Nat
      BY <2>4, <2>5, <2>6, <2>7
    <3> HIDE DEF first, later
    <3>2. later >= now - Window
      BY <1>1, <3>1
    <3> QED
      BY <3>2 DEF later
  <2>9. i \in Since(k)
    BY <1>1, <2>1 DEF Since
  <2> QED
    BY <2>8, <2>9 DEF Recent
<1>5. Recent(k) = (f + d + 1)..n
  BY <1>3, <1>4
<1> HIDE DEF n, m, f
<1>6. Cardinality((f + d + 1)..n) = IF f + d + 1 > n THEN 0 ELSE n - (f + d + 1) + 1
  BY <1>1, <1>2, FS_Interval
<1>7. Cardinality((f + d + 1)..n) = m - d
  BY <1>1, <1>2, <1>6
<1> QED
  BY <1>5, <1>7 DEF m

LEMMA RememberedLen ==
    ASSUME TypeOK, HistoryKept, NEW k \in Keys
    PROVE  Len(log[k]) - base[k] \in Nat /\ Len(Remembered(k)) = Len(log[k]) - base[k]
<1>1. Len(log[k]) - base[k] \in Nat
  BY LogEntry DEF HistoryKept, LogInOrder
<1> QED
  BY <1>1 DEF Remembered

\* The abstract count is of the same admissions, numbered from the first
\* remembered one.
LEMMA InWindowIsRecent ==
    ASSUME TypeOK, HistoryKept, NEW k \in Keys
    PROVE  Promise!InWindow(k) = Cardinality(Recent(k))
<1> DEFINE S == {i \in 1..Len(Remembered(k)) : Remembered(k)[i] + Window >= now}
           g == [i \in Recent(k) |-> i - base[k]]
           len == Len(log[k]) - base[k]
<1>1. Promise!InWindow(k) = Cardinality(S)
  <2>1. [l \in Keys |-> Remembered(l)][k] = Remembered(k)
    OBVIOUS
  <2> QED
    BY <2>1 DEF Promise!InWindow, Promise!Cardinality, Cardinality
<1>2. len \in Nat /\ Len(Remembered(k)) = len /\ base[k] \in Nat /\ Len(log[k]) \in Nat
      /\ now \in Nat
  BY RememberedLen, LogEntry DEF TypeOK
<1>3. ASSUME NEW i \in 1..len
      PROVE  Remembered(k)[i] = log[k][base[k] + i].ts /\ base[k] + i \in Since(k)
             /\ log[k][base[k] + i].ts \in Nat
  <2>1. base[k] + i \in Since(k)
    BY <1>2 DEF Since
  <2>2. Remembered(k)[i] = log[k][base[k] + i].ts
    BY DEF Remembered
  <2> QED
    BY <2>1, <2>2, SinceEntry
<1>4. ASSUME NEW i \in Recent(k)
      PROVE  i - base[k] \in 1..len /\ base[k] + (i - base[k]) = i /\ i \in Nat
  <2>1. i \in Since(k)
    BY DEF Recent
  <2> QED
    BY <1>2, <2>1 DEF Since
<1>5. ASSUME NEW i \in Recent(k) PROVE i - base[k] \in S
  <2>1. Remembered(k)[i - base[k]] = log[k][i].ts /\ log[k][i].ts \in Nat
    BY <1>3, <1>4
  <2>2. log[k][i].ts >= now - Window
    BY DEF Recent
  <2>3. Remembered(k)[i - base[k]] + Window >= now
    BY <1>2, <2>1, <2>2
  <2> QED
    BY <1>2, <1>4, <2>3
<1>6. ASSUME NEW j \in S PROVE \E i \in Recent(k) : g[i] = j
  <2>1. j \in 1..len
    BY <1>2
  <2>2. log[k][base[k] + j].ts >= now - Window
    BY <1>2, <1>3, <2>1
  <2>3. base[k] + j \in Recent(k)
    BY <1>3, <2>1, <2>2 DEF Recent
  <2>4. g[base[k] + j] = (base[k] + j) - base[k]
    BY <2>3
  <2>5. (base[k] + j) - base[k] = j
    BY <1>2, <2>1
  <2> QED
    BY <2>3, <2>4, <2>5
<1>7. \A a, b \in Recent(k) : g[a] = g[b] => a = b
  BY <1>2, <1>4
<1>8. g \in [Recent(k) -> S]
  BY <1>5
<1> HIDE DEF g, S
<1>9. g \in Injection(Recent(k), S) /\ g \in Surjection(Recent(k), S)
  BY <1>6, <1>7, <1>8 DEF Injection, IsInjective, Surjection
<1>10. ExistsBijection(Recent(k), S)
  BY <1>9 DEF ExistsBijection, Bijection
<1> QED
  BY <1>1, <1>10, RecentFinite, FS_Bijection

-----------------------------------------------------------------------------
(* What is exact stays exact *)

LEMMA InitExact == ASSUME ~ StoreMayFail, Init PROVE Exact
<1>1. storeOpen <=> stateBackend = "sqlite"
  BY DEF Init, get_state_store
<1> QED
  BY <1>1 DEF Init, Exact, CooldownUntil

\* A step that adds no row, forgets nothing and leaves the cooldowns.
LEMMA QuietExact ==
    ASSUME Exact, UNCHANGED <<storeOpen, stateBackend, dbCooldown, memCooldown, promised, log, base>>,
           hitRows' \subseteq hitRows
    PROVE  Exact'
BY DEF Exact, CooldownUntil, Since, RowOf

LEMMA PruneRows ==
    ASSUME NEW k \in Keys, OnlyPrune(k) PROVE hitRows' \subseteq hitRows
BY DEF OnlyPrune, PruneStore, PruneMemory, RowsKept

LEMMA CooldownStartedExact ==
    ASSUME TypeOK, Exact, NEW k \in Keys, NEW inj, CooldownStarted(k, inj) PROVE Exact'
<1>1. UNCHANGED <<storeOpen, stateBackend, log, base>> /\ hitRows' \subseteq hitRows
  BY PruneRows DEF CooldownStarted, process
<1>2. SetCooldown(k)
  BY DEF CooldownStarted
<1>3. promised' = [promised EXCEPT ![k] = now + CooldownSeconds]
  BY <1>2 DEF SetCooldown
<1>4. \A l \in Keys : CooldownUntil(l)' = IF l = k THEN now + CooldownSeconds ELSE CooldownUntil(l)
  BY <1>1, <1>2 DEF SetCooldown, CooldownUntil, TypeOK
<1>5. \A l \in Keys : CooldownUntil(l)' = promised'[l]
  BY <1>3, <1>4 DEF Exact, TypeOK
<1>6. storeOpen' => \A r \in hitRows' : \E i \in Since(r.key)' : r = RowOf(r.key, i)'
  BY <1>1 DEF Exact, Since, RowOf
<1> QED
  BY <1>1, <1>5, <1>6 DEF Exact, Since, RowOf, CooldownUntil

LEMMA AllowedExact ==
    ASSUME TypeOK, HistoryKept, Exact, NEW k \in Keys, NEW sev, NEW inj, NEW mult,
           Allowed(k, sev, inj, mult)
    PROVE  Exact'
<1> DEFINE new == [id |-> nextRow, key |-> k, ts |-> now]
<1>0. PICK last : last = Len(log[k]) + 1
  OBVIOUS
<1>1. UNCHANGED <<storeOpen, stateBackend, dbCooldown, memCooldown, promised, base>>
  BY DEF Allowed, process
<1>2. /\ Len(log[k]) \in Nat /\ base[k] \in Nat /\ base[k] <= Len(log[k])
      /\ Len(log'[k]) = last /\ log'[k][last] = [id |-> nextRow, ts |-> now]
      /\ \A i \in 1..Len(log[k]) : log'[k][i] = log[k][i]
      /\ \A l \in Keys : l # k => log'[l] = log[l]
  BY <1>0, AllowedExtends DEF HistoryKept, LogInOrder
<1>3. ASSUME NEW l \in Keys, NEW i \in Since(l)
      PROVE  i \in Since(l)' /\ RowOf(l, i)' = RowOf(l, i)
  <2>1. CASE l = k
    <3>1. i \in 1..Len(log[k]) /\ i \in (base[k] + 1)..Len(log[k])
      BY <2>1, SinceEntry DEF Since
    <3>2. log'[k][i] = log[k][i] /\ i \in (base[k] + 1)..Len(log'[k])
      BY <1>0, <1>2, <3>1
    <3> QED
      BY <1>1, <2>1, <3>2 DEF Since, RowOf
  <2>2. CASE l # k
    BY <1>1, <1>2, <2>2 DEF Since, RowOf
  <2> QED
    BY <2>1, <2>2
<1>4. last \in Since(k)' /\ RowOf(k, last)' = new
  <2>1. last \in (base[k] + 1)..last
    BY <1>0, <1>2
  <2> QED
    BY <1>1, <1>2, <2>1 DEF Since, RowOf
<1>5. ASSUME storeOpen', NEW r \in hitRows'
      PROVE  \E i \in Since(r.key)' : r = RowOf(r.key, i)'
  <2>1. hitRows' = RowsKept(k) \cup {new}
    BY <1>1, <1>5 DEF Allowed, AddHit, PruneMemory
  <2>2. CASE r = new
    <3>1. r.key = k /\ r = RowOf(k, last)'
      BY <1>4, <2>2
    <3> QED
      BY <1>4, <3>1
  <2>3. CASE r \in hitRows
    <3>1. PICK i \in Since(r.key) : r = RowOf(r.key, i)
      BY <1>1, <1>5, <2>3 DEF Exact
    <3>2. r.key \in Keys
      BY <2>3 DEF TypeOK, Row
    <3> QED
      BY <1>3, <3>1, <3>2
  <2> QED
    BY <2>1, <2>2, <2>3 DEF RowsKept
<1>6. \A l \in Keys : CooldownUntil(l)' = promised'[l]
  BY <1>1 DEF Exact, CooldownUntil
<1>7. storeOpen' <=> stateBackend' = "sqlite"
  BY <1>1 DEF Exact
<1> QED
  BY <1>5, <1>6, <1>7 DEF Exact, CooldownUntil, Since, RowOf

LEMMA RestartExact ==
    ASSUME ~ StoreMayFail, TypeOK, Exact, Restart PROVE Exact'
<1>1. /\ stateBackend' = stateBackend /\ UNCHANGED <<hitRows, dbCooldown, log>>
      /\ memCooldown' = [k \in Keys |-> 0]
      /\ storeOpen' <=> stateBackend = "sqlite"
  BY DEF Restart, get_state_store
<1>2. storeOpen' = storeOpen
  BY <1>1, StoreOrNot DEF Exact, TypeOK, Restart
<1>3. CASE storeOpen
  <2>1. UNCHANGED <<base, promised>>
    BY <1>2, <1>3 DEF Restart
  <2> QED
    BY <1>1, <1>2, <1>3, <2>1 DEF Exact, CooldownUntil, Since, RowOf
<1>4. CASE ~ storeOpen
  <2>1. promised' = [k \in Keys |-> 0]
    BY <1>4 DEF Restart
  <2> QED
    BY <1>1, <1>2, <1>4, <2>1 DEF Exact, CooldownUntil, Since, RowOf
<1> QED
  BY <1>3, <1>4

LEMMA StepExact ==
    ASSUME ~ StoreMayFail, IInv, Exact, [Next]_vars PROVE Exact'
<1>1. TypeOK /\ HistoryKept
  BY DEF IInv
<1>2. ASSUME NEW k \in Keys, RefusedInCooldown(k) PROVE Exact'
  BY <1>2, QuietExact DEF RefusedInCooldown, process, limiterVars, histories
<1>3. ASSUME NEW k \in Keys, NEW sev, NEW inj, NEW mult, LimitExceeded(k, sev, inj, mult)
      PROVE  Exact'
  <2>1. UNCHANGED <<storeOpen, stateBackend, dbCooldown, memCooldown, promised, log, base>>
        /\ OnlyPrune(k)
    BY <1>3 DEF LimitExceeded, process, histories
  <2> QED
    BY <2>1, PruneRows, QuietExact
<1>4. CASE Tick
  BY <1>4, QuietExact DEF Tick, process, limiterVars, histories
<1>5. CASE UNCHANGED vars
  BY <1>5, QuietExact DEF vars, process, limiterVars, histories
<1> QED
  BY <1>1, <1>2, <1>3, <1>4, <1>5, CooldownStartedExact, AllowedExact, RestartExact
     DEF Next, allow
-----------------------------------------------------------------------------
(* Each step is one of the abstract limiter, or none *)

\* What the backend in use counts, once pruned, is what the abstract one does.
LEMMA FullIsFull ==
    ASSUME TypeOK, HistoryKept, Exact, NEW k \in Keys, NEW max \in Nat, AtLimit(k, max)
    PROVE  Promise!InWindow(k) >= max
BY RowsAreRecent, QueuedAreRecent, InWindowIsRecent DEF AtLimit

LEMMA RoomIsRoom ==
    ASSUME TypeOK, HistoryKept, Exact, NEW k \in Keys, NEW max \in Nat, ~ AtLimit(k, max),
           AddHit(k)
    PROVE  Promise!InWindow(k) < max
<1>1. Cardinality(Recent(k)) \in Nat
  BY RecentFinite
<1>2. CASE storeOpen
  BY <1>1, <1>2, RowsAreRecent, InWindowIsRecent DEF AtLimit
<1>3. CASE ~ storeOpen
  <2>1. PICK d \in 0..Len(bucket[k]) : Popped(k, d)
    BY <1>3 DEF AddHit, PruneStore, PruneMemory
  <2>2. ~ (Len(bucket[k]) - d >= max)
    BY <1>3, <2>1 DEF AtLimit
  <2> QED
    BY <1>1, <1>3, <2>1, <2>2, QueuedAreRecent, InWindowIsRecent
<1> QED
  BY <1>2, <1>3

\* The histories alone decide what is remembered.
LEMMA RememberedKept ==
    ASSUME UNCHANGED <<log, base>>
    PROVE  UNCHANGED [k \in Keys |-> Remembered(k)]
BY DEF Remembered

\* An admission is remembered after the others.
LEMMA RememberedGrows ==
    ASSUME TypeOK, HistoryKept, NEW k \in Keys, NEW sev, NEW inj, NEW mult,
           Allowed(k, sev, inj, mult)
    PROVE  [l \in Keys |-> Remembered(l)]'
               = [[l \in Keys |-> Remembered(l)] EXCEPT ![k] = Append(@, now)]
<1> DEFINE n == Len(log[k]) - base[k]
<1>1. /\ Len(log[k]) \in Nat /\ base[k] \in Nat /\ n \in Nat
      /\ Len(log'[k]) = Len(log[k]) + 1 /\ base' = base
      /\ \A i \in 1..Len(log[k]) : log'[k][i] = log[k][i]
      /\ log'[k][Len(log[k]) + 1].ts = now
      /\ \A l \in Keys : l # k => log'[l] = log[l]
  BY AllowedExtends, RememberedLen
<1>2. Remembered(k)' = [i \in 1..(n + 1) |-> log'[k][base[k] + i].ts]
  BY <1>1 DEF Remembered
<1>3. Append(Remembered(k), now)
          = [i \in 1..(n + 1) |-> IF i = n + 1 THEN now ELSE Remembered(k)[i]]
  <2>1. Remembered(k) = [i \in 1..n |-> log[k][base[k] + i].ts] /\ Len(Remembered(k)) = n
    BY RememberedLen DEF Remembered
  <2> QED
    BY <1>1, <2>1
<1>4. ASSUME NEW i \in 1..(n + 1)
      PROVE  log'[k][base[k] + i].ts = IF i = n + 1 THEN now ELSE Remembered(k)[i]
  <2>1. CASE i = n + 1
    <3>1. base[k] + i = Len(log[k]) + 1
      BY <1>1, <2>1
    <3> QED
      BY <1>1, <2>1, <3>1
  <2>2. CASE i # n + 1
    <3>1. i \in 1..n /\ base[k] + i \in 1..Len(log[k])
      BY <1>1, <2>2
    <3> QED
      BY <1>1, <2>2, <3>1 DEF Remembered
  <2> QED
    BY <2>1, <2>2
<1>5. Remembered(k)' = Append(Remembered(k), now)
  <2> HIDE DEF n
  <2> QED
    BY <1>2, <1>3, <1>4
<1>6. ASSUME NEW l \in Keys, l # k PROVE Remembered(l)' = Remembered(l)
  BY <1>1, <1>6 DEF Remembered
<1> QED
  BY <1>5, <1>6

LEMMA CallIsCall ==
    ASSUME TypeOK, HistoryKept, Exact, NEW k \in Keys, NEW sev \in Severities,
           NEW inj \in InjectionCounts, NEW mult \in Multipliers, allow(k, sev, inj, mult)
    PROVE  Promise!Call(k, sev, inj, mult)
<1>1. /\ now \in Nat /\ promised[k] \in Nat /\ CooldownUntil(k) = promised[k]
      /\ inj \in Nat /\ sev \in 0..100 /\ mult \in Nat \ {0}
  BY SignalsAssumption DEF TypeOK, Exact
<1>2. EffectiveMax(sev, inj, mult) \in Nat
  BY <1>1, LimitRange
<1>3. inj < 3 => EffectiveMax(sev, inj, mult) = Promise!Quota(sev, inj, mult)
  BY <1>1, LimitIsQuota
<1>4. CASE RefusedInCooldown(k)
  <2>1. UNCHANGED <<now, stateBackend, promised, log, base>>
    BY <1>4 DEF RefusedInCooldown, process, histories
  <2>2. UNCHANGED [l \in Keys |-> Remembered(l)]
    BY <2>1, RememberedKept
  <2>3. promised[k] > now /\ verdict' = [key |-> k, reason |-> "cooldown_active"]
    BY <1>1, <1>4 DEF RefusedInCooldown
  <2> QED
    BY <2>1, <2>2, <2>3 DEF Promise!Call, Promise!Say
<1>5. CASE CooldownStarted(k, inj)
  <2>1. UNCHANGED <<now, stateBackend, log, base>>
        /\ promised' = [promised EXCEPT ![k] = now + CooldownSeconds]
    BY <1>5 DEF CooldownStarted, process, SetCooldown
  <2>2. UNCHANGED [l \in Keys |-> Remembered(l)]
    BY <2>1, RememberedKept
  <2>3. promised[k] <= now /\ inj >= 3
        /\ verdict' = [key |-> k, reason |-> "aggressive_attacker_cooldown"]
    BY <1>1, <1>5 DEF CooldownStarted
  <2> QED
    BY <2>1, <2>2, <2>3 DEF Promise!Call, Promise!Say
<1>6. CASE LimitExceeded(k, sev, inj, mult)
  <2>1. UNCHANGED <<now, stateBackend, promised, log, base>>
    BY <1>6 DEF LimitExceeded, process, histories
  <2>2. UNCHANGED [l \in Keys |-> Remembered(l)]
    BY <2>1, RememberedKept
  <2>3. promised[k] <= now /\ inj < 3
        /\ verdict' = [key |-> k, reason |-> "rate_limit_exceeded"]
    BY <1>1, <1>6 DEF LimitExceeded
  <2>4. Promise!InWindow(k) >= Promise!Quota(sev, inj, mult)
    BY <1>2, <1>3, <1>6, <2>3, FullIsFull DEF LimitExceeded
  <2> QED
    BY <2>1, <2>2, <2>3, <2>4 DEF Promise!Call, Promise!Say
<1>7. CASE Allowed(k, sev, inj, mult)
  <2>1. UNCHANGED <<now, stateBackend, promised>>
    BY <1>7 DEF Allowed, process
  <2>2. promised[k] <= now /\ inj < 3
        /\ verdict' = [key |-> k, reason |-> "allowed"]
    BY <1>1, <1>7 DEF Allowed
  <2>3. Promise!InWindow(k) < Promise!Quota(sev, inj, mult)
    BY <1>2, <1>3, <1>7, <2>2, RoomIsRoom DEF Allowed
  <2> QED
    BY <1>7, <2>1, <2>2, <2>3, RememberedGrows DEF Promise!Call, Promise!Say
<1> QED
  BY <1>4, <1>5, <1>6, <1>7 DEF allow

LEMMA RestartIsForget ==
    ASSUME ~ StoreMayFail, TypeOK, HistoryKept, Exact, Restart PROVE Promise!Forget
<1>1. UNCHANGED <<now, stateBackend, log>> /\ verdict' = NoVerdict
      /\ (storeOpen' <=> stateBackend = "sqlite")
  BY DEF Restart, get_state_store
<1>2. CASE stateBackend = "sqlite"
  <2>1. UNCHANGED <<base, promised>>
    BY <1>1, <1>2 DEF Exact, Restart
  <2>2. UNCHANGED [k \in Keys |-> Remembered(k)]
    BY <1>1, <2>1, RememberedKept
  <2> QED
    BY <1>1, <1>2, <2>1, <2>2 DEF Promise!Forget, Promise!NoVerdict, NoVerdict
<1>3. CASE stateBackend # "sqlite"
  <2>1. base' = [k \in Keys |-> Len(log[k])] /\ promised' = [k \in Keys |-> 0]
    BY <1>3 DEF Exact, Restart
  <2>2. ASSUME NEW k \in Keys PROVE Remembered(k)' = <<>>
    <3>1. Len(log[k]) \in Nat /\ Len(log'[k]) - base'[k] = 0
      BY <1>1, <2>1, LogEntry
    <3> QED
      BY <3>1 DEF Remembered
  <2>3. [k \in Keys |-> Remembered(k)]' = [k \in Keys |-> <<>>]
    BY <2>2
  <2> QED
    BY <1>1, <1>3, <2>1, <2>3 DEF Promise!Forget, Promise!NoVerdict, NoVerdict
<1> QED
  BY <1>2, <1>3

LEMMA StepPromised ==
    ASSUME ~ StoreMayFail, IInv, Exact, [Next]_vars PROVE [Promise!Next]_(Promise!vars)
<1>1. TypeOK /\ HistoryKept
  BY DEF IInv
<1>2. ASSUME NEW k \in Keys, NEW sev \in Severities, NEW inj \in InjectionCounts,
             NEW mult \in Multipliers, allow(k, sev, inj, mult)
      PROVE  Promise!Next
  BY <1>1, <1>2, CallIsCall DEF Promise!Next
<1>3. CASE Tick
  <2>1. UNCHANGED <<stateBackend, log, base, promised>> /\ now' = now + 1
        /\ verdict' = NoVerdict
    BY <1>3 DEF Tick, process, histories
  <2>2. UNCHANGED [k \in Keys |-> Remembered(k)]
    BY <2>1, RememberedKept
  <2> QED
    BY <2>1, <2>2 DEF Promise!Next, Promise!Pass, Promise!NoVerdict, NoVerdict
<1>4. CASE Restart
  BY <1>1, <1>4, RestartIsForget DEF Promise!Next
<1>5. CASE UNCHANGED vars
  <2>1. UNCHANGED <<now, stateBackend, verdict, log, base, promised>>
    BY <1>5 DEF vars, process, histories
  <2> QED
    BY <2>1, RememberedKept DEF Promise!vars
<1> QED
  BY <1>2, <1>3, <1>4, <1>5 DEF Next

LEMMA InitPromised == Init => Promise!Init
<1> SUFFICES ASSUME Init PROVE Promise!Init
  OBVIOUS
<1>1. ASSUME NEW k \in Keys PROVE Remembered(k) = <<>>
  BY DEF Init, Remembered
<1>2. (stateBackend = "sqlite") \in BOOLEAN
  OBVIOUS
<1> QED
  BY <1>1, <1>2 DEF Init, Promise!Init, Promise!NoVerdict, NoVerdict

\* Where the store opens at every start, or there is none, every verdict of
\* the limiter is the one the abstract sliding window gives.
THEOREM PromiseSafety ==
    ASSUME ~ StoreMayFail
    PROVE  Spec => ImplementsSlidingWindow
<1>1. Init => Promise!Init /\ IInv /\ Exact
  BY InitPromised, InitIInv, InitExact
<1>2. IInv /\ Exact /\ [Next]_vars => (IInv /\ Exact)' /\ [Promise!Next]_(Promise!vars)
  BY StepIInv, StepExact, StepPromised
<1> QED
  BY <1>1, <1>2, PTL DEF Spec, ImplementsSlidingWindow, Promise!Spec
=============================================================================
