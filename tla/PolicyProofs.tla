---------------------------- MODULE PolicyProofs ----------------------------
(***************************************************************************)
(* Proofs about what a request is judged by, for every session, every      *)
(* finding of the scanners and every answer of the guard: the risk engine, *)
(* which is never milder to a session that has grown, the classifier and   *)
(* the ordered rules.  All of it is computed; the theorems about states    *)
(* are in ChatPipelineProofs, AdjudicationProofs and RequestPathProofs,    *)
(* which rest on the facts here.                                           *)
(***************************************************************************)
EXTENDS ContentPolicy, SessionRisk, WellFoundedInduction, SequenceTheorems,
        FiniteSetTheorems, TLAPS

-----------------------------------------------------------------------------
(* The risk of a session *)

\* A weight whose condition is only ever gained never falls.
LEMMA WeightGrows ==
    ASSUME NEW before \in BOOLEAN, NEW after \in BOOLEAN, before => after,
           NEW points \in Nat
    PROVE  /\ Weight(before, points) \in Nat /\ Weight(after, points) \in Nat
           /\ Weight(before, points) <= Weight(after, points)
  BY DEF Weight

\* The score of the history rises with its counters.
LEMMA HistoryScoreGrows ==
    ASSUME NEW old \in Session, NEW new \in Session, Grown(old, new)
    PROVE  /\ HistoryScore(old) \in Nat /\ HistoryScore(new) \in Nat
           /\ HistoryScore(old) <= HistoryScore(new)
<1>1. /\ old.requests \in Nat /\ old.refusals \in Nat /\ old.toolRequests \in Nat
      /\ old.injections \in Nat /\ old.escalations \in Nat
      /\ new.requests \in Nat /\ new.refusals \in Nat /\ new.toolRequests \in Nat
      /\ new.injections \in Nat /\ new.escalations \in Nat
  BY DEF Session
<1>2. /\ old.requests <= new.requests /\ old.refusals <= new.refusals
      /\ old.toolRequests <= new.toolRequests /\ old.injections <= new.injections
      /\ old.escalations <= new.escalations
  <2>1. old["requests"] <= new["requests"] /\ old["refusals"] <= new["refusals"]
        /\ old["toolRequests"] <= new["toolRequests"] /\ old["injections"] <= new["injections"]
        /\ old["escalations"] <= new["escalations"]
    BY DEF Grown, Counters
  <2> QED
    BY <2>1
<1> QED
  BY <1>1, <1>2 DEF HistoryScore, Weight

\* What a request adds to the score is between 0 and 60.
LEMMA InputScoreRange ==
    ASSUME NEW in \in Inputs
    PROVE  InputScore(in) \in 0..60
  BY DEF Inputs, InputScore, Weight

\* A higher sum is never a milder state.
LEMMA RiskStateGrows ==
    ASSUME NEW m \in Nat, NEW n \in Nat, m <= n
    PROVE  /\ RiskState(m) \in RiskStates /\ RiskState(n) \in RiskStates
           /\ Severity[RiskState(m)] <= Severity[RiskState(n)]
<1>1. RiskState(m) \in RiskStates /\ RiskState(n) \in RiskStates
  BY DEF RiskState, RiskStates
<1>2. /\ Severity["normal"] = 0 /\ Severity["elevated"] = 1
      /\ Severity["restricted"] = 2 /\ Severity["blocked"] = 3
  BY DEF Severity, RiskStates
<1>3. CASE m >= 80
  BY <1>1, <1>2, <1>3 DEF RiskState
<1>4. CASE m \in 50..79
  BY <1>1, <1>2, <1>4 DEF RiskState
<1>5. CASE m \in 20..49
  BY <1>1, <1>2, <1>5 DEF RiskState
<1>6. CASE m < 20
  BY <1>1, <1>2, <1>6 DEF RiskState
<1> QED
  BY <1>1, <1>3, <1>4, <1>5, <1>6

\* For one request, a session that has grown is no less risk than it was, in
\* its score, which is capped, and in its state, which is read before the cap.
THEOREM RiskNeverFalls ==
    ASSUME NEW in \in Inputs, NEW old \in Session, NEW new \in Session, Grown(old, new)
    PROVE  NoLessRisk(assess(in, old), assess(in, new))
<1> DEFINE m == HistoryScore(old) + InputScore(in)
           n == HistoryScore(new) + InputScore(in)
<1>1. m \in Nat /\ n \in Nat /\ m <= n
  BY HistoryScoreGrows, InputScoreRange
<1>2. Severity[RiskState(m)] <= Severity[RiskState(n)]
  BY <1>1, RiskStateGrows
<1>3. (IF m < 100 THEN m ELSE 100) <= (IF n < 100 THEN n ELSE 100)
  BY <1>1
<1> QED
  BY <1>2, <1>3 DEF NoLessRisk, assess

\* The five methods that change a counter, and the one that changes the state,
\* keep a session a session and lower no counter.
THEOREM MethodsGrow ==
    ASSUME NEW s \in Session, NEW score \in Int, NEW state \in RiskStates
    PROVE  \A t \in {Requested(s), Refused(s), ToolUsed(s), Attempted(s, score),
                     Assessed(s, state)} :
               t \in Session /\ Grown(s, t)
<1>1. Requested(s) \in Session /\ Grown(s, Requested(s))
  BY DEF Requested, Session, Grown, Counters
<1>2. Refused(s) \in Session /\ Grown(s, Refused(s))
  BY DEF Refused, Session, Grown, Counters
<1>3. ToolUsed(s) \in Session /\ Grown(s, ToolUsed(s))
  BY DEF ToolUsed, Session, Grown, Counters
<1>4. Attempted(s, score) \in Session /\ Grown(s, Attempted(s, score))
  <2> DEFINE e == IF Escalates(s, score) THEN s.escalations + 1 ELSE s.escalations
             i == s.injections + 1
  <2>1. s.escalations \in Nat /\ s.injections \in Nat
    BY DEF Session
  <2>2. e \in Nat /\ s.escalations <= e /\ i \in Nat /\ s.injections <= i
    BY <2>1
  <2>3. Attempted(s, score) = [s EXCEPT !.injections = i, !.escalations = e]
    BY DEF Attempted
  <2> HIDE DEF e, i
  <2>4. Attempted(s, score) \in Session
    BY <2>2, <2>3 DEF Session
  <2>5. \A c \in Counters : s[c] <= Attempted(s, score)[c]
    <3>1. ASSUME NEW c \in Counters, c \notin {"injections", "escalations"}
          PROVE  Attempted(s, score)[c] = s[c] /\ s[c] \in Nat
      BY <2>3, <3>1 DEF Session, Counters
    <3>2. s["injections"] <= Attempted(s, score)["injections"]
      BY <2>2, <2>3 DEF Session
    <3>3. s["escalations"] <= Attempted(s, score)["escalations"]
      BY <2>2, <2>3 DEF Session
    <3> QED
      BY <3>1, <3>2, <3>3
  <2> QED
    BY <2>4, <2>5 DEF Grown
<1>5. Assessed(s, state) \in Session /\ Grown(s, Assessed(s, state))
  BY DEF Assessed, Session, Grown, Counters
<1> QED
  BY <1>1, <1>2, <1>3, <1>4, <1>5

-----------------------------------------------------------------------------
(* The first of a list *)

\* A set of natural numbers has a least one, and Min is it.
LEMMA LeastOf ==
    ASSUME NEW I \in SUBSET Nat, I # {}
    PROVE  Min(I) \in I /\ \A j \in I : Min(I) <= j
<1> DEFINE R == OpToRel(<, Nat)
<1>1. IsWellFoundedOn(R, Nat)
  BY NatLessThanWellFounded
<1>2. \A x, y \in Nat : <<y, x>> \in R <=> y < x
  BY DEF OpToRel
<1> HIDE DEF R
<1>3. \E x \in I : \A y \in I : ~ (<<y, x>> \in R)
  BY <1>1, WFMin
<1>4. \E x \in I : \A y \in I : x <= y
  <2>1. PICK x \in I : \A y \in I : ~ (<<y, x>> \in R)
    BY <1>3
  <2>2. ASSUME NEW y \in I PROVE x <= y
    <3>1. x \in Nat /\ y \in Nat
      OBVIOUS
    <3>2. ~ (<<y, x>> \in R)
      BY <2>1
    <3>3. ~ (y < x)
      BY <1>2, <3>1, <3>2, Zenon
    <3> QED BY <3>1, <3>3
  <2> QED BY <2>1, <2>2
<1> QED
  BY <1>4 DEF Min

\* What SelectInSeq picks: the least index of those that pass, 0 if none does.
LEMMA FirstOf ==
    ASSUME NEW n \in Nat, NEW I \in SUBSET (1..n),
           NEW k, k = IF I # {} THEN Min(I) ELSE 0
    PROVE  /\ I = {} => k = 0
           /\ I # {} => k \in I /\ \A j \in I : k <= j
<1>1. CASE I = {}
  BY <1>1
<1>2. CASE I # {}
  <2>1. I \in SUBSET Nat
    OBVIOUS
  <2>2. Min(I) \in I /\ \A j \in I : Min(I) <= j
    BY <1>2, <2>1, LeastOf
  <2> QED
    BY <1>2, <2>2
<1> QED
  BY <1>1, <1>2

\* The elements of two lists put together.
LEMMA Joined ==
    ASSUME NEW S, NEW s \in Seq(S), NEW t \in Seq(S)
    PROVE  /\ s \o t \in Seq(S)
           /\ Len(s \o t) = Len(s) + Len(t)
           /\ \A i \in 1..Len(s) : (s \o t)[i] = s[i]
           /\ \A i \in Len(s) + 1..Len(s) + Len(t) : (s \o t)[i] = t[i - Len(s)]
<1>1. /\ s \o t \in Seq(S) /\ Len(s \o t) = Len(s) + Len(t)
      /\ \A i \in 1..Len(s) + Len(t) :
             (s \o t)[i] = IF i <= Len(s) THEN s[i] ELSE t[i - Len(s)]
  BY ConcatProperties, Zenon
<1> DEFINE st == s \o t
<1> HIDE DEF st
<1>0. /\ \A i \in 1..Len(s) + Len(t) :
             st[i] = IF i <= Len(s) THEN s[i] ELSE t[i - Len(s)]
  BY <1>1, Zenon DEF st
<1>01. Len(s) \in Nat /\ Len(t) \in Nat
  OBVIOUS
<1>2. ASSUME NEW i \in 1..Len(s) PROVE st[i] = s[i]
  BY <1>0, <1>01, <1>2
<1>3. ASSUME NEW i \in Len(s) + 1..Len(s) + Len(t) PROVE st[i] = t[i - Len(s)]
  BY <1>0, <1>01, <1>3
<1> QED BY <1>1, <1>2, <1>3, Zenon DEF st

-----------------------------------------------------------------------------
(* Induction and folds.  A property of all natural numbers is shown by the  *)
(* least number without it.                                                 *)

\* A finite set of natural numbers has a greatest one, and Max is it.
LEMMA GreatestOf ==
    ASSUME NEW n \in Nat, NEW I \in SUBSET (0..n), I # {}
    PROVE  Max(I) \in I /\ \A j \in I : j <= Max(I)
<1> DEFINE B == {n - i : i \in I}
<1>1. B \in SUBSET Nat
  OBVIOUS
<1>2. B # {}
  <2>1. PICK i \in I : TRUE
    OBVIOUS
  <2>2. n - i \in B
    OBVIOUS
  <2> QED
    BY <2>2
<1>3. PICK m \in B : \A j \in B : m <= j
  <2> HIDE DEF B
  <2> QED
    BY <1>1, <1>2, LeastOf
<1>4. PICK i \in I : m = n - i
  BY <1>3
<1>5. ASSUME NEW j \in I PROVE j <= i
  <2>1. n - j \in B
    OBVIOUS
  <2>2. n - i <= n - j
    BY <1>3, <1>4, <2>1
  <2>3. i \in 0..n /\ j \in 0..n
    OBVIOUS
  <2> QED
    BY <2>2, <2>3
<1>6. \A j \in I : i >= j
  <2>1. ASSUME NEW j \in I PROVE i >= j
    <3>1. i \in 0..n /\ j \in 0..n
      OBVIOUS
    <3> QED
      BY <1>5, <3>1
  <2> QED
    BY <2>1
<1> DEFINE Bounds(x) == \A j \in I : x >= j
<1>7. \E x \in I : Bounds(x)
  BY <1>6
<1>8. Max(I) = CHOOSE x \in I : Bounds(x)
  BY DEF Max
<1>9. Max(I) \in I /\ Bounds(Max(I))
  <2> HIDE DEF Bounds
  <2> QED
    BY <1>7, <1>8
<1>10. ASSUME NEW j \in I PROVE j <= Max(I)
  <2>1. Max(I) >= j
    BY <1>9
  <2>2. Max(I) \in 0..n /\ j \in 0..n
    BY <1>9
  <2> QED
    BY <2>1, <2>2
<1> QED
  BY <1>9, <1>10

\* f is a at 0, and g says how it goes on from n to n + 1.
Follows(f, a, g) == f[0] = a /\ \A n \in Nat : f[n + 1] = g[<<n, f[n]>>]

\* There is such a function.
LEMMA RecursionOnNat ==
    ASSUME NEW V, NEW a \in V, NEW g \in [Nat \X V -> V]
    PROVE  \E f \in [Nat -> V] : Follows(f, a, g)
<1> DEFINE Upto(n) == {h \in [0..n -> V] :
                          h[0] = a /\ \A i \in 0..n - 1 : h[i + 1] = g[<<i, h[i]>>]}
<1>1. Upto(0) # {}
  <2>1. [i \in 0..0 |-> a] \in Upto(0)
    OBVIOUS
  <2> QED
    BY <2>1
<1>2. ASSUME NEW n \in Nat, Upto(n) # {}
      PROVE  Upto(n + 1) # {}
  <2>1. PICK h \in Upto(n) : TRUE
    BY <1>2
  <2> DEFINE k == [i \in 0..n + 1 |-> IF i = n + 1 THEN g[<<n, h[n]>>] ELSE h[i]]
  <2>2. h[n] \in V /\ \A i \in 0..n : h[i] \in V
    BY <2>1
  <2>3. g[<<n, h[n]>>] \in V
    BY <2>2
  <2>4. k \in [0..n + 1 -> V] /\ k[0] = a
    BY <2>1, <2>2, <2>3
  <2>5. ASSUME NEW i \in 0..(n + 1) - 1
        PROVE  k[i + 1] = g[<<i, k[i]>>]
    <3>1. CASE i = n
      <4>1. n + 1 \in 0..n + 1 /\ n \in 0..n + 1 /\ n # n + 1
        OBVIOUS
      <4>2. k[n + 1] = g[<<n, h[n]>>] /\ k[n] = h[n]
        BY <4>1
      <4> HIDE DEF k
      <4> QED
        BY <3>1, <4>2
    <3>2. CASE i \in 0..n - 1
      <4>1. h[i + 1] = g[<<i, h[i]>>]
        BY <2>1, <3>2
      <4>2. k[i + 1] = h[i + 1] /\ k[i] = h[i]
        BY <3>2
      <4> QED
        BY <4>1, <4>2
    <3> QED
      BY <3>1, <3>2
  <2> HIDE DEF k
  <2>6. k \in Upto(n + 1)
    BY <2>4, <2>5
  <2> QED
    BY <2>6
<1>3. ASSUME NEW n \in Nat, NEW h \in Upto(n), NEW k \in Upto(n + 1)
      PROVE  \A i \in 0..n : h[i] = k[i]
  <2> DEFINE B == {i \in 0..n : h[i] # k[i]}
  <2>1. SUFFICES ASSUME B # {} PROVE FALSE
    OBVIOUS
  <2>2. B \in SUBSET Nat
    OBVIOUS
  <2>3. PICK m \in B : \A j \in B : m <= j
    BY <2>1, <2>2, LeastOf
  <2>4. m \in 0..n /\ h[m] # k[m]
    BY <2>3
  <2>5. h[0] = a /\ k[0] = a
    OBVIOUS
  <2>6. m # 0
    BY <2>4, <2>5
  <2>7. m - 1 \in 0..n - 1 /\ m - 1 \in 0..(n + 1) - 1 /\ (m - 1) + 1 = m
    BY <2>4, <2>6
  <2>8. h[m] = g[<<m - 1, h[m - 1]>>] /\ k[m] = g[<<m - 1, k[m - 1]>>]
    <3>1. \A i \in 0..n - 1 : h[i + 1] = g[<<i, h[i]>>]
      OBVIOUS
    <3>2. \A i \in 0..(n + 1) - 1 : k[i + 1] = g[<<i, k[i]>>]
      OBVIOUS
    <3> QED
      BY <2>7, <3>1, <3>2
  <2>9. m - 1 \notin B
    BY <2>3, <2>4
  <2>10. h[m - 1] = k[m - 1]
    BY <2>4, <2>6, <2>9
  <2> QED
    BY <2>4, <2>8, <2>10
<1>4. ASSUME NEW n \in Nat PROVE Upto(n) # {}
  <2> DEFINE B == {i \in Nat : Upto(i) = {}}
  <2> HIDE DEF Upto
  <2>1. SUFFICES ASSUME B # {} PROVE FALSE
    OBVIOUS
  <2>2. PICK m \in B : \A j \in B : m <= j
    BY <2>1, LeastOf
  <2>3. m \in Nat /\ Upto(m) = {}
    BY <2>2
  <2>4. m # 0
    BY <1>1, <2>3
  <2>5. m - 1 \in Nat /\ (m - 1) + 1 = m
    BY <2>3, <2>4
  <2>6. Upto(m - 1) = {}
    BY <1>2, <2>3, <2>5
  <2>7. m - 1 \in B
    BY <2>5, <2>6
  <2> QED
    BY <2>2, <2>3, <2>7
<1> DEFINE H(n) == CHOOSE h \in Upto(n) : TRUE
           f == [n \in Nat |-> H(n)[n]]
<1>5. \A n \in Nat : H(n) \in Upto(n)
  BY <1>4
<1>6. ASSUME NEW n \in Nat PROVE H(n)[n] \in V
  <2>1. H(n) \in Upto(n)
    BY <1>5
  <2> QED
    BY <2>1
<1>7. f \in [Nat -> V]
  <2> HIDE DEF H
  <2> QED
    BY <1>6
<1>8. f[0] = a
  <2>0. 0 \in Nat
    OBVIOUS
  <2>1. H(0) \in Upto(0)
    BY <1>5, <2>0, Zenon
  <2> HIDE DEF H
  <2> QED
    BY <2>1
<1>9. ASSUME NEW n \in Nat PROVE f[n + 1] = g[<<n, f[n]>>]
  <2>0. n + 1 \in Nat
    OBVIOUS
  <2>1. H(n) \in Upto(n) /\ H(n + 1) \in Upto(n + 1)
    BY <1>5, <2>0, Zenon
  <2> HIDE DEF H
  <2>2. H(n)[n] = H(n + 1)[n]
    <3>1. \A i \in 0..n : H(n)[i] = H(n + 1)[i]
      <4> HIDE DEF Upto
      <4> QED
        BY <1>3, <2>1, Zenon
    <3>2. n \in 0..n
      OBVIOUS
    <3> QED
      BY <3>1, <3>2, Zenon
  <2>3. \A i \in 0..(n + 1) - 1 : H(n + 1)[i + 1] = g[<<i, H(n + 1)[i]>>]
    BY <2>1
  <2>4. H(n + 1)[n + 1] = g[<<n, H(n + 1)[n]>>]
    BY <2>3
  <2> QED
    BY <2>2, <2>4
<1> HIDE DEF f
<1> QED
  BY <1>7, <1>8, <1>9 DEF Follows

\* iter gives every part of S what g makes of it, one element after the other,
\* in the order of a choice function c.
Folds(iter, S, V, base, g, c) ==
    /\ iter \in [SUBSET S -> V]
    /\ \A T \in SUBSET S :
           iter[T] = IF T = {} THEN base ELSE g[<<c[T], iter[T \ {c[T]}]>>]

\* The folds of the community modules are well defined: a value for every set,
\* taking the elements in the order of a choice function.
LEMMA FoldExists ==
    ASSUME NEW S, IsFiniteSet(S), NEW V, NEW base \in V, NEW g \in [S \X V -> V],
           NEW c, \A T \in SUBSET S : T # {} => c[T] \in T
    PROVE  \E iter : Folds(iter, S, V, base, g, c)
<1> DEFINE W == [SUBSET S -> V]
           Round(h) == [T \in SUBSET S |->
                           IF T = {} THEN base ELSE g[<<c[T], h[T \ {c[T]}]>>]]
           first == [T \in SUBSET S |-> base]
           step == [p \in Nat \X W |-> Round(p[2])]
<1>1. ASSUME NEW h \in W PROVE Round(h) \in W
  <2>1. ASSUME NEW T \in SUBSET S, T # {}
        PROVE  g[<<c[T], h[T \ {c[T]}]>>] \in V
    <3>1. c[T] \in S /\ T \ {c[T]} \in SUBSET S
      BY <2>1
    <3> QED
      BY <3>1
  <2> QED
    BY <2>1
<1>2. first \in W
  OBVIOUS
<1>3. step \in [Nat \X W -> W]
  <2> HIDE DEF Round, W
  <2> QED
    BY <1>1
<1>4. PICK F \in [Nat -> W] : Follows(F, first, step)
  <2> HIDE DEF W, first, step, Round
  <2> QED
    BY <1>2, <1>3, RecursionOnNat, Zenon
<1>5. \A n \in Nat : F[n] \in W /\ F[n + 1] = Round(F[n])
  <2> HIDE DEF W, Round
  <2> QED
    BY <1>4 DEF Follows
<1>6. \A T \in SUBSET S : IsFiniteSet(T) /\ Cardinality(T) \in Nat
  BY FS_Subset, FS_CardinalityType
<1> DEFINE Stable(n) == \A T \in SUBSET S : Cardinality(T) <= n => F[n + 1][T] = F[n][T]
<1>7. Stable(0)
  <2>1. ASSUME NEW T \in SUBSET S, Cardinality(T) <= 0
        PROVE  F[0 + 1][T] = F[0][T]
    <3>1. T = {}
      BY <1>6, <2>1, FS_EmptySet
    <3>2. F[0 + 1] = Round(F[0])
      BY <1>5
    <3>3. Round(F[0])[T] = base
      BY <3>1
    <3>4. F[0][T] = base
      BY <1>4 DEF Follows
    <3> QED
      BY <3>2, <3>3, <3>4
  <2> QED
    BY <2>1
<1>8. ASSUME NEW n \in Nat, Stable(n)
      PROVE  Stable(n + 1)
  <2> SUFFICES ASSUME NEW T \in SUBSET S, Cardinality(T) <= n + 1
               PROVE  F[(n + 1) + 1][T] = F[n + 1][T]
    OBVIOUS
  <2>1. n + 1 \in Nat
    OBVIOUS
  <2>2. F[(n + 1) + 1] = Round(F[n + 1]) /\ F[n + 1] = Round(F[n])
    BY <1>5, <2>1
  <2>3. CASE T = {}
    BY <2>2, <2>3, ZenonT(60)
  <2>4. CASE T # {}
    <3> DEFINE U == T \ {c[T]}
    <3>1. c[T] \in T
      BY <2>4
    <3>2. U \in SUBSET S /\ Cardinality(U) = Cardinality(T) - 1
      BY <1>6, <3>1, FS_RemoveElement
    <3>3. Cardinality(U) <= n
      BY <1>6, <3>2
    <3>4. F[n + 1][U] = F[n][U]
      BY <1>8, <3>2, <3>3
    <3>5. /\ Round(F[n + 1])[T] = g[<<c[T], F[n + 1][U]>>]
          /\ Round(F[n])[T] = g[<<c[T], F[n][U]>>]
      BY <2>4
    <3> QED
      BY <2>2, <3>4, <3>5
  <2> QED
    BY <2>3, <2>4
<1>9. ASSUME NEW n \in Nat PROVE Stable(n)
  <2> HIDE DEF Stable
  <2> DEFINE B == {i \in Nat : ~ Stable(i)}
  <2>1. SUFFICES ASSUME B # {} PROVE FALSE
    OBVIOUS
  <2>2. PICK m \in B : \A j \in B : m <= j
    BY <2>1, LeastOf
  <2>3. m \in Nat /\ ~ Stable(m)
    BY <2>2
  <2>4. m # 0
    BY <1>7, <2>3
  <2>5. m - 1 \in Nat /\ (m - 1) + 1 = m
    BY <2>3, <2>4
  <2>6. ~ Stable(m - 1)
    BY <1>8, <2>3, <2>5
  <2>7. m - 1 \in B
    BY <2>5, <2>6
  <2> QED
    BY <2>2, <2>3, <2>7
<1> DEFINE n == Cardinality(S)
           iter == F[n]
<1>10. n \in Nat
  BY <1>6
<1>11. ASSUME NEW T \in SUBSET S PROVE F[n + 1][T] = F[n][T]
  <2>1. Cardinality(T) <= n
    BY FS_Subset
  <2>2. Stable(n)
    BY <1>9, <1>10
  <2> QED
    BY <2>1, <2>2
<1>12. iter \in W /\ F[n + 1] = Round(iter) /\ F[n + 1] \in W
  <2>1. n + 1 \in Nat
    BY <1>10
  <2> HIDE DEF W, Round, n
  <2> QED
    BY <1>5, <1>10, <2>1
<1>13. F[n + 1] = iter
  <2> DEFINE next == F[n + 1]
  <2>1. iter = [T \in SUBSET S |-> iter[T]] /\ next = [T \in SUBSET S |-> next[T]]
    <3> HIDE DEF n, next, iter, Round
    <3> QED
      BY <1>12 DEF next
  <2>2. \A T \in SUBSET S : iter[T] = next[T]
    BY <1>11
  <2> HIDE DEF n, next, iter
  <2>3. iter = next
    BY <2>1, <2>2, Zenon
  <2> QED
    BY <2>3 DEF next
<1>14. iter = Round(iter)
  BY <1>12, <1>13
<1> HIDE DEF iter, n
<1> QED
  <2>1. Folds(iter, S, V, base, g, c)
    BY <1>12, <1>14, Zenon DEF Folds
  <2> QED
    BY <2>1, Zenon

-----------------------------------------------------------------------------
(* The rules *)

\* Which rule stands where.
LEMMA RulesAre ==
  /\ Len(rules) = 29 /\ DOMAIN rules = 1..29
  /\ \A i \in 1..9 : rules[i] = DenyAttacks[i]
  /\ \A i \in 10..16 : rules[i] = DenyOrChallengeDegrees[i - 9]
  /\ \A i \in 17..24 : rules[i] = RestrictContent[i - 16]
  /\ \A i \in 25..29 : rules[i] = RestrictSession[i - 24]
<1> DEFINE a == DenyAttacks
           b == DenyOrChallengeDegrees
           c == RestrictContent
           d == RestrictSession
<1>1. a = [i \in 1..9 |-> a[i]] /\ b = [i \in 1..7 |-> b[i]]
  BY DEF DenyAttacks, DenyOrChallengeDegrees
<1>2. c = [i \in 1..8 |-> c[i]] /\ d = [i \in 1..5 |-> d[i]]
  BY DEF RestrictContent, RestrictSession
<1>3. rules = a \o b \o c \o d
  BY DEF rules
<1> HIDE DEF a, b, c, d
<1> DEFINE Clauses == {a[i] : i \in 1..9} \cup {b[i] : i \in 1..7}
                      \cup {c[i] : i \in 1..8} \cup {d[i] : i \in 1..5}
<1>4. /\ a \in Seq(Clauses) /\ Len(a) = 9 /\ b \in Seq(Clauses) /\ Len(b) = 7
      /\ c \in Seq(Clauses) /\ Len(c) = 8 /\ d \in Seq(Clauses) /\ Len(d) = 5
  BY <1>1, <1>2
<1> HIDE DEF Clauses
<1> DEFINE ab == a \o b
           abc == ab \o c
           abcd == abc \o d
<1>5. /\ ab \in Seq(Clauses) /\ Len(ab) = 16
      /\ \A i \in 1..9 : ab[i] = a[i]
      /\ \A i \in 10..16 : ab[i] = b[i - 9]
  <2> HIDE DEF ab
  <2>1. /\ ab \in Seq(Clauses) /\ Len(ab) = Len(a) + Len(b)
        /\ \A i \in 1..Len(a) : ab[i] = a[i]
        /\ \A i \in Len(a) + 1..Len(a) + Len(b) : ab[i] = b[i - Len(a)]
    BY <1>4, Joined, ZenonT(60) DEF ab
  <2> QED BY <2>1, <1>4
<1> HIDE DEF ab
<1>6. /\ abc \in Seq(Clauses) /\ Len(abc) = 24
      /\ \A i \in 1..16 : abc[i] = ab[i]
      /\ \A i \in 17..24 : abc[i] = c[i - 16]
  <2> HIDE DEF abc
  <2>0. ab \in Seq(Clauses) /\ c \in Seq(Clauses)
    BY <1>4, <1>5
  <2>1. /\ abc \in Seq(Clauses) /\ Len(abc) = Len(ab) + Len(c)
        /\ \A i \in 1..Len(ab) : abc[i] = ab[i]
        /\ \A i \in Len(ab) + 1..Len(ab) + Len(c) : abc[i] = c[i - Len(ab)]
    BY <2>0, Joined, Zenon DEF abc
  <2> QED BY <2>1, <1>4, <1>5
<1> HIDE DEF abc
<1>7. /\ abcd \in Seq(Clauses) /\ Len(abcd) = 29
      /\ \A i \in 1..24 : abcd[i] = abc[i]
      /\ \A i \in 25..29 : abcd[i] = d[i - 24]
  <2> HIDE DEF abcd
  <2>0. abc \in Seq(Clauses) /\ d \in Seq(Clauses)
    BY <1>4, <1>6
  <2>1. /\ abcd \in Seq(Clauses) /\ Len(abcd) = Len(abc) + Len(d)
        /\ \A i \in 1..Len(abc) : abcd[i] = abc[i]
        /\ \A i \in Len(abc) + 1..Len(abc) + Len(d) : abcd[i] = d[i - Len(abc)]
    BY <2>0, Joined, Zenon DEF abcd
  <2> QED BY <2>1, <1>4, <1>6
<1> HIDE DEF abcd
<1>8. rules = abcd
  BY <1>3, Zenon DEF abcd, abc, ab
<1>9. Len(rules) = 29 /\ DOMAIN rules = 1..29
  BY <1>7, <1>8, LenProperties
<1>r. /\ \A i \in 1..24 : rules[i] = abc[i]
      /\ \A i \in 25..29 : rules[i] = d[i - 24]
  BY <1>7, <1>8
<1>s. /\ \A i \in 1..16 : abc[i] = ab[i]
      /\ \A i \in 17..24 : abc[i] = c[i - 16]
      /\ \A i \in 1..9 : ab[i] = a[i]
      /\ \A i \in 10..16 : ab[i] = b[i - 9]
  BY <1>5, <1>6
<1>10. \A i \in 1..9 : rules[i] = a[i]
  BY <1>r, <1>s
<1>11. \A i \in 10..16 : rules[i] = b[i - 9]
  BY <1>r, <1>s
<1>12. \A i \in 17..24 : rules[i] = c[i - 16]
  BY <1>r, <1>s
<1> QED BY <1>9, <1>10, <1>11, <1>12, <1>r DEF a, b, c, d

\* What the rules before the fifteenth ask for: any of it is denied.
Denying(e) ==
    \/ ~ e.permitted
    \/ "metadata_injection" \in e.dlp.labels
    \/ "secret_exfiltration" \in e.scan.labels
    \/ "prompt_leakage" \in e.scan.labels
    \/ "moderation_bypass" \in e.scan.labels
    \/ e.class.label \in {"prompt_injection", "jailbreak_attempt"}
    \/ e.class.label = "secret_exfiltration_intent" /\ e.class.confidence >= 90
    \/ e.class.label = "exploit_or_malware_intent" /\ e.class.confidence >= 85
    \/ e.class.label = "sensitive_data_submission" /\ e.dlp.score >= 60
    \/ "hate_content" \in e.scan.labels /\ e.risk = "restricted"
    \/ "discriminatory_content" \in e.scan.labels /\ e.risk = "restricted"

\* The next three: challenged, unless it is denied.
Challenging(e) ==
    \/ "hate_content" \in e.scan.labels /\ e.risk = "elevated"
    \/ "discriminatory_content" \in e.scan.labels /\ e.risk = "elevated"
    \/ /\ e.class.label = "suspicious" /\ e.class.confidence >= 90
       /\ e.scan.score >= 50

\* The eight after them: let in without tools and retrieval.
Closing(e) ==
    \/ "hate_content" \in e.scan.labels
    \/ "discriminatory_content" \in e.scan.labels
    \/ "insult_content" \in e.scan.labels
    \/ e.class.label = "secret_exfiltration_intent"
    \/ e.class.label = "exploit_or_malware_intent"
    \/ "secret" \in e.dlp.labels
    \/ e.class.label = "sensitive_data_submission"
    \/ e.dlp.score >= 40

\* The conditions of the first nine rules.
LEMMA AttackConditions ==
    ASSUME NEW e
    PROVE  /\ Matches(DenyAttacks[1].when, e) <=> ~ e.permitted
           /\ Matches(DenyAttacks[2].when, e) <=> "metadata_injection" \in e.dlp.labels
           /\ Matches(DenyAttacks[3].when, e) <=> "secret_exfiltration" \in e.scan.labels
           /\ Matches(DenyAttacks[4].when, e) <=> "prompt_leakage" \in e.scan.labels
           /\ Matches(DenyAttacks[5].when, e) <=> e.class.label = "prompt_injection"
           /\ Matches(DenyAttacks[6].when, e) <=> e.class.label = "jailbreak_attempt"
           /\ Matches(DenyAttacks[7].when, e) <=> "moderation_bypass" \in e.scan.labels
           /\ Matches(DenyAttacks[8].when, e) => e.class.label = "prompt_injection"
           /\ Matches(DenyAttacks[9].when, e) => e.class.label = "jailbreak_attempt"
<1>1. /\ DenyAttacks[1].when = [missing_permission |-> "llm:chat"]
      /\ DenyAttacks[2].when = [dlp_has_label |-> "metadata_injection"]
      /\ DenyAttacks[3].when = [input_scan_has_label |-> "secret_exfiltration"]
      /\ DenyAttacks[4].when = [input_scan_has_label |-> "prompt_leakage"]
      /\ DenyAttacks[5].when = [classification_label |-> "prompt_injection"]
      /\ DenyAttacks[6].when = [classification_label |-> "jailbreak_attempt"]
      /\ DenyAttacks[7].when = [input_scan_has_label |-> "moderation_bypass"]
      /\ DenyAttacks[8].when = [classification_label |-> "prompt_injection",
                                input_scan_has_label |-> "obfuscation"]
      /\ DenyAttacks[9].when = [classification_label |-> "jailbreak_attempt",
                                input_scan_has_label |-> "obfuscation"]
  BY DEF DenyAttacks, Rule
<1>2. Matches([missing_permission |-> "llm:chat"], e) <=> ~ e.permitted
  BY DEF Matches, Holds
<1>3. \A label : Matches([input_scan_has_label |-> label], e) <=> label \in e.scan.labels
  BY DEF Matches, Holds
<1>4. \A label : Matches([classification_label |-> label], e) <=> e.class.label = label
  BY DEF Matches, Holds
<1>5. Matches([dlp_has_label |-> "metadata_injection"], e)
          <=> "metadata_injection" \in e.dlp.labels
  BY DEF Matches, Holds
<1>6. \A label : Matches([classification_label |-> label,
                          input_scan_has_label |-> "obfuscation"], e)
                     => e.class.label = label
  BY DEF Matches, Holds
<1> QED
  BY <1>1, <1>2, <1>3, <1>4, <1>5, <1>6

\* The conditions of the seven that follow.
LEMMA DegreeConditions ==
    ASSUME NEW e
    PROVE  /\ Matches(DenyOrChallengeDegrees[1].when, e) <=>
                  e.class.label = "secret_exfiltration_intent" /\ e.class.confidence >= 90
           /\ Matches(DenyOrChallengeDegrees[2].when, e) <=>
                  e.class.label = "exploit_or_malware_intent" /\ e.class.confidence >= 85
           /\ Matches(DenyOrChallengeDegrees[3].when, e) <=>
                  e.class.label = "sensitive_data_submission" /\ e.dlp.score >= 60
           /\ Matches(DenyOrChallengeDegrees[4].when, e) <=>
                  "hate_content" \in e.scan.labels /\ e.risk = "restricted"
           /\ Matches(DenyOrChallengeDegrees[5].when, e) <=>
                  "discriminatory_content" \in e.scan.labels /\ e.risk = "restricted"
           /\ Matches(DenyOrChallengeDegrees[6].when, e) <=>
                  "hate_content" \in e.scan.labels /\ e.risk = "elevated"
           /\ Matches(DenyOrChallengeDegrees[7].when, e) <=>
                  "discriminatory_content" \in e.scan.labels /\ e.risk = "elevated"
<1>1. /\ DenyOrChallengeDegrees[1].when =
             [classification_label |-> "secret_exfiltration_intent",
              classification_confidence_gte |-> 90]
      /\ DenyOrChallengeDegrees[2].when =
             [classification_label |-> "exploit_or_malware_intent",
              classification_confidence_gte |-> 85]
      /\ DenyOrChallengeDegrees[3].when =
             [classification_label |-> "sensitive_data_submission", dlp_score_gte |-> 60]
      /\ DenyOrChallengeDegrees[4].when =
             [input_scan_has_label |-> "hate_content", session_risk_state |-> "restricted"]
      /\ DenyOrChallengeDegrees[5].when =
             [input_scan_has_label |-> "discriminatory_content",
              session_risk_state |-> "restricted"]
      /\ DenyOrChallengeDegrees[6].when =
             [input_scan_has_label |-> "hate_content", session_risk_state |-> "elevated"]
      /\ DenyOrChallengeDegrees[7].when =
             [input_scan_has_label |-> "discriminatory_content",
              session_risk_state |-> "elevated"]
  BY DEF DenyOrChallengeDegrees, Rule
<1>2. \A label, least :
          Matches([classification_label |-> label,
                   classification_confidence_gte |-> least], e)
              <=> e.class.label = label /\ e.class.confidence >= least
  BY DEF Matches, Holds
<1>3. Matches([classification_label |-> "sensitive_data_submission",
               dlp_score_gte |-> 60], e)
          <=> e.class.label = "sensitive_data_submission" /\ e.dlp.score >= 60
  BY DEF Matches, Holds
<1>4. \A label, risk :
          Matches([input_scan_has_label |-> label, session_risk_state |-> risk], e)
              <=> label \in e.scan.labels /\ e.risk = risk
  BY DEF Matches, Holds
<1> QED
  BY <1>1, <1>2, <1>3, <1>4

\* The conditions of the rules on contents.
LEMMA ContentConditions ==
    ASSUME NEW e
    PROVE  /\ Matches(RestrictContent[1].when, e) <=>
                  /\ e.class.label = "suspicious" /\ e.class.confidence >= 90
                  /\ e.scan.score >= 50
           /\ Matches(RestrictContent[2].when, e) <=> "hate_content" \in e.scan.labels
           /\ Matches(RestrictContent[3].when, e) <=>
                  "discriminatory_content" \in e.scan.labels
           /\ Matches(RestrictContent[4].when, e) <=> "insult_content" \in e.scan.labels
           /\ Matches(RestrictContent[5].when, e) <=>
                  e.class.label = "secret_exfiltration_intent"
           /\ Matches(RestrictContent[6].when, e) <=>
                  e.class.label = "exploit_or_malware_intent"
           /\ Matches(RestrictContent[7].when, e) <=> "secret" \in e.dlp.labels
           /\ Matches(RestrictContent[8].when, e) <=>
                  e.class.label = "sensitive_data_submission"
<1>1. /\ RestrictContent[1].when =
             [classification_label |-> "suspicious",
              classification_confidence_gte |-> 90, input_scan_score_gte |-> 50]
      /\ RestrictContent[2].when = [input_scan_has_label |-> "hate_content"]
      /\ RestrictContent[3].when = [input_scan_has_label |-> "discriminatory_content"]
      /\ RestrictContent[4].when = [input_scan_has_label |-> "insult_content"]
      /\ RestrictContent[5].when = [classification_label |-> "secret_exfiltration_intent"]
      /\ RestrictContent[6].when = [classification_label |-> "exploit_or_malware_intent"]
      /\ RestrictContent[7].when = [dlp_has_label |-> "secret"]
      /\ RestrictContent[8].when = [classification_label |-> "sensitive_data_submission"]
  BY DEF RestrictContent, Rule
<1>2. Matches([classification_label |-> "suspicious",
               classification_confidence_gte |-> 90, input_scan_score_gte |-> 50], e)
          <=> /\ e.class.label = "suspicious" /\ e.class.confidence >= 90
              /\ e.scan.score >= 50
  BY DEF Matches, Holds
<1>3. \A label : Matches([input_scan_has_label |-> label], e) <=> label \in e.scan.labels
  BY DEF Matches, Holds
<1>4. \A label : Matches([classification_label |-> label], e) <=> e.class.label = label
  BY DEF Matches, Holds
<1>5. Matches([dlp_has_label |-> "secret"], e) <=> "secret" \in e.dlp.labels
  BY DEF Matches, Holds
<1> QED
  BY <1>1, <1>2, <1>3, <1>4, <1>5

\* The first two of the rules on the session.
LEMMA SessionConditions ==
    ASSUME NEW e
    PROVE  /\ Matches(RestrictSession[1].when, e) <=> e.dlp.score >= 40
           /\ Matches(RestrictSession[2].when, e) <=> e.risk = "blocked"
<1>1. /\ RestrictSession[1].when = [dlp_score_gte |-> 40]
      /\ RestrictSession[2].when = [session_risk_state |-> "blocked"]
  BY DEF RestrictSession, Rule
<1>2. Matches([dlp_score_gte |-> 40], e) <=> e.dlp.score >= 40
  BY DEF Matches, Holds
<1>3. Matches([session_risk_state |-> "blocked"], e) <=> e.risk = "blocked"
  BY DEF Matches, Holds
<1> QED
  BY <1>1, <1>2, <1>3

\* What each group of rules decides.
LEMMA GroupDecisions ==
    /\ \A i \in 1..14 : rules[i].decision = Deny
    /\ \A i \in 15..17 : rules[i].decision = Challenge
    /\ \A i \in 18..25 : rules[i].decision = Limited
    /\ rules[26].decision = Deny
    /\ \A i \in 27..29 : /\ rules[i].decision.action = "allow_with_restrictions"
                         /\ ~ rules[i].decision.tools
                         /\ rules[i].decision.sensitivity \in {"public", "internal"}
<1>1. \A i \in 1..9 : DenyAttacks[i].decision = Deny
  BY DEF DenyAttacks, Rule
<1>2. /\ \A i \in 1..5 : DenyOrChallengeDegrees[i].decision = Deny
      /\ \A i \in 6..7 : DenyOrChallengeDegrees[i].decision = Challenge
  BY DEF DenyOrChallengeDegrees, Rule
<1>3. /\ RestrictContent[1].decision = Challenge
      /\ \A i \in 2..8 : RestrictContent[i].decision = Limited
  BY DEF RestrictContent, Rule
<1>4. /\ RestrictSession[1].decision = Limited
      /\ RestrictSession[2].decision = Deny
      /\ \A i \in 3..5 : /\ RestrictSession[i].decision.action = "allow_with_restrictions"
                         /\ ~ RestrictSession[i].decision.tools
                         /\ RestrictSession[i].decision.sensitivity \in {"public", "internal"}
  BY DEF RestrictSession, Rule, Decision
<1>5. ASSUME NEW i \in 1..14
      PROVE  rules[i].decision = Deny
  <2>1. CASE i \in 1..9
    BY <1>1, <2>1, RulesAre
  <2>2. CASE i \in 10..14
    <3>1. rules[i] = DenyOrChallengeDegrees[i - 9] /\ i - 9 \in 1..5
      BY <2>2, RulesAre
    <3> QED
      BY <1>2, <3>1
  <2> QED
    BY <2>1, <2>2
<1>6. ASSUME NEW i \in 15..17
      PROVE  rules[i].decision = Challenge
  <2>1. CASE i \in 15..16
    <3>1. rules[i] = DenyOrChallengeDegrees[i - 9] /\ i - 9 \in 6..7
      BY <2>1, RulesAre
    <3> QED
      BY <1>2, <3>1
  <2>2. CASE i = 17
    <3>1. rules[i] = RestrictContent[1]
      BY <2>2, RulesAre
    <3> QED
      BY <1>3, <3>1
  <2> QED
    BY <2>1, <2>2
<1>7. ASSUME NEW i \in 18..25
      PROVE  rules[i].decision = Limited
  <2>1. CASE i \in 18..24
    <3>1. rules[i] = RestrictContent[i - 16] /\ i - 16 \in 2..8
      BY <2>1, RulesAre
    <3> QED
      BY <1>3, <3>1
  <2>2. CASE i = 25
    <3>1. rules[i] = RestrictSession[1]
      BY <2>2, RulesAre
    <3> QED
      BY <1>4, <3>1
  <2> QED
    BY <2>1, <2>2
<1>8. rules[26].decision = Deny
  <2>1. rules[26] = RestrictSession[2]
    BY RulesAre
  <2> QED
    BY <1>4, <2>1
<1>9. ASSUME NEW i \in 27..29
      PROVE  /\ rules[i].decision.action = "allow_with_restrictions"
             /\ ~ rules[i].decision.tools
             /\ rules[i].decision.sensitivity \in {"public", "internal"}
  <2>1. rules[i] = RestrictSession[i - 24] /\ i - 24 \in 3..5
    BY RulesAre
  <2> QED
    BY <1>4, <2>1
<1> QED
  BY <1>5, <1>6, <1>7, <1>8, <1>9

\* The conditions of each group.
LEMMA GroupConditions ==
    ASSUME NEW e
    PROVE  /\ Denying(e) <=> \E i \in 1..14 : Matches(rules[i].when, e)
           /\ Challenging(e) <=> \E i \in 15..17 : Matches(rules[i].when, e)
           /\ Closing(e) <=> \E i \in 18..25 : Matches(rules[i].when, e)
           /\ Matches(rules[26].when, e) <=> e.risk = "blocked"
<1> DEFINE M(i) == Matches(rules[i].when, e)
<1>1. /\ M(1) <=> ~ e.permitted
      /\ M(2) <=> "metadata_injection" \in e.dlp.labels
      /\ M(3) <=> "secret_exfiltration" \in e.scan.labels
      /\ M(4) <=> "prompt_leakage" \in e.scan.labels
      /\ M(5) <=> e.class.label = "prompt_injection"
      /\ M(6) <=> e.class.label = "jailbreak_attempt"
      /\ M(7) <=> "moderation_bypass" \in e.scan.labels
      /\ M(8) => e.class.label = "prompt_injection"
      /\ M(9) => e.class.label = "jailbreak_attempt"
  BY RulesAre, AttackConditions
<1>2. /\ M(10) <=> e.class.label = "secret_exfiltration_intent" /\ e.class.confidence >= 90
      /\ M(11) <=> e.class.label = "exploit_or_malware_intent" /\ e.class.confidence >= 85
      /\ M(12) <=> e.class.label = "sensitive_data_submission" /\ e.dlp.score >= 60
      /\ M(13) <=> "hate_content" \in e.scan.labels /\ e.risk = "restricted"
      /\ M(14) <=> "discriminatory_content" \in e.scan.labels /\ e.risk = "restricted"
      /\ M(15) <=> "hate_content" \in e.scan.labels /\ e.risk = "elevated"
      /\ M(16) <=> "discriminatory_content" \in e.scan.labels /\ e.risk = "elevated"
  <2>1. /\ rules[10] = DenyOrChallengeDegrees[1] /\ rules[11] = DenyOrChallengeDegrees[2]
        /\ rules[12] = DenyOrChallengeDegrees[3] /\ rules[13] = DenyOrChallengeDegrees[4]
        /\ rules[14] = DenyOrChallengeDegrees[5] /\ rules[15] = DenyOrChallengeDegrees[6]
        /\ rules[16] = DenyOrChallengeDegrees[7]
    BY RulesAre
  <2> QED
    BY <2>1, DegreeConditions
<1>3. /\ M(17) <=> /\ e.class.label = "suspicious" /\ e.class.confidence >= 90
                   /\ e.scan.score >= 50
      /\ M(18) <=> "hate_content" \in e.scan.labels
      /\ M(19) <=> "discriminatory_content" \in e.scan.labels
      /\ M(20) <=> "insult_content" \in e.scan.labels
      /\ M(21) <=> e.class.label = "secret_exfiltration_intent"
      /\ M(22) <=> e.class.label = "exploit_or_malware_intent"
      /\ M(23) <=> "secret" \in e.dlp.labels
      /\ M(24) <=> e.class.label = "sensitive_data_submission"
  <2>1. /\ rules[17] = RestrictContent[1] /\ rules[18] = RestrictContent[2]
        /\ rules[19] = RestrictContent[3] /\ rules[20] = RestrictContent[4]
        /\ rules[21] = RestrictContent[5] /\ rules[22] = RestrictContent[6]
        /\ rules[23] = RestrictContent[7] /\ rules[24] = RestrictContent[8]
    BY RulesAre
  <2> QED
    BY <2>1, ContentConditions
<1>4. /\ M(25) <=> e.dlp.score >= 40
      /\ M(26) <=> e.risk = "blocked"
  <2>1. rules[25] = RestrictSession[1] /\ rules[26] = RestrictSession[2]
    BY RulesAre
  <2> QED
    BY <2>1, SessionConditions
<1> HIDE DEF M
<1>5. /\ Denying(e) <=> M(1) \/ M(2) \/ M(3) \/ M(4) \/ M(5) \/ M(6) \/ M(7) \/ M(8)
                            \/ M(9) \/ M(10) \/ M(11) \/ M(12) \/ M(13) \/ M(14)
      /\ Challenging(e) <=> M(15) \/ M(16) \/ M(17)
      /\ Closing(e) <=> M(18) \/ M(19) \/ M(20) \/ M(21) \/ M(22) \/ M(23) \/ M(24)
                            \/ M(25)
  BY <1>1, <1>2, <1>3, <1>4 DEF Denying, Challenging, Closing
<1>6. /\ (\E i \in 1..14 : M(i)) <=> M(1) \/ M(2) \/ M(3) \/ M(4) \/ M(5) \/ M(6) \/ M(7)
                            \/ M(8) \/ M(9) \/ M(10) \/ M(11) \/ M(12) \/ M(13) \/ M(14)
      /\ (\E i \in 15..17 : M(i)) <=> M(15) \/ M(16) \/ M(17)
      /\ (\E i \in 18..25 : M(i)) <=> M(18) \/ M(19) \/ M(20) \/ M(21) \/ M(22) \/ M(23)
                            \/ M(24) \/ M(25)
  OBVIOUS
<1>7. /\ Denying(e) <=> \E i \in 1..14 : M(i)
      /\ Challenging(e) <=> \E i \in 15..17 : M(i)
      /\ Closing(e) <=> \E i \in 18..25 : M(i)
      /\ M(26) <=> e.risk = "blocked"
  BY <1>4, <1>5, <1>6
<1> QED
  BY <1>7, Zenon DEF M

\* The first rule that matches decides, and the last word is the default's.
LEMMA FirstDecides ==
    ASSUME NEW e
    PROVE  \/ /\ evaluate(e) = default_decision
              /\ \A i \in 1..29 : ~ Matches(rules[i].when, e)
           \/ \E i \in 1..29 :
                 /\ evaluate(e) = rules[i].decision
                 /\ Matches(rules[i].when, e)
                 /\ \A j \in 1..29 : Matches(rules[j].when, e) => i <= j
<1> DEFINE I == {i \in 1..Len(rules) : Matches(rules[i].when, e)}
           first == SelectInSeq(rules, LAMBDA r : Matches(r.when, e))
<1>1. first = IF I # {} THEN Min(I) ELSE 0
  BY DEF SelectInSeq
<1>2. evaluate(e) = IF first = 0 THEN default_decision ELSE rules[first].decision
  BY DEF evaluate
<1>3. I = {i \in 1..29 : Matches(rules[i].when, e)}
  BY RulesAre
<1> HIDE DEF first, I
<1>4. I \in SUBSET (1..29)
  BY <1>3
<1>5. (I = {} => first = 0) /\ (I # {} => first \in I /\ \A j \in I : first <= j)
  BY <1>1, <1>4, FirstOf
<1>6. CASE I = {}
  BY <1>2, <1>3, <1>5, <1>6
<1>7. CASE I # {}
  <2>1. first \in 1..29 /\ first # 0 /\ Matches(rules[first].when, e)
    BY <1>3, <1>5, <1>7
  <2>2. \A j \in 1..29 : Matches(rules[j].when, e) => first <= j
    BY <1>3, <1>5, <1>7
  <2> QED
    BY <1>2, <2>1, <2>2
<1> QED
  BY <1>6, <1>7

\* The bundle in closed form: what is denied, what else is challenged, what
\* else is let in without tools and retrieval; a blocked session is denied the
\* rest, and of what then remains nothing is turned away
\* (app/policies/default_policy.json, PolicyService.evaluate).
THEOREM RulesInOrder ==
    ASSUME NEW e
    PROVE  /\ Denying(e) => evaluate(e) = Deny
           /\ ~ Denying(e) /\ Challenging(e) => evaluate(e) = Challenge
           /\ ~ Denying(e) /\ ~ Challenging(e) /\ Closing(e) => evaluate(e) = Limited
           /\ ~ Denying(e) /\ ~ Challenging(e) /\ ~ Closing(e) =>
                  IF e.risk = "blocked" THEN evaluate(e) = Deny
                  ELSE evaluate(e).action \in {"allow", "allow_with_restrictions"}
<1> DEFINE M(i) == Matches(rules[i].when, e)
<1>1. /\ Denying(e) <=> \E i \in 1..14 : M(i)
      /\ Challenging(e) <=> \E i \in 15..17 : M(i)
      /\ Closing(e) <=> \E i \in 18..25 : M(i)
      /\ M(26) <=> e.risk = "blocked"
  BY GroupConditions, Zenon
<1>2. \/ evaluate(e) = default_decision /\ \A i \in 1..29 : ~ M(i)
      \/ \E i \in 1..29 : /\ evaluate(e) = rules[i].decision /\ M(i)
                          /\ \A j \in 1..29 : M(j) => i <= j
  BY FirstDecides, Zenon
<1> HIDE DEF M
<1>3. CASE evaluate(e) = default_decision /\ \A i \in 1..29 : ~ M(i)
  BY <1>1, <1>3 DEF default_decision, Decision
<1>4. ASSUME NEW i \in 1..29, evaluate(e) = rules[i].decision, M(i),
             \A j \in 1..29 : M(j) => i <= j
      PROVE  /\ Denying(e) => evaluate(e) = Deny
             /\ ~ Denying(e) /\ Challenging(e) => evaluate(e) = Challenge
             /\ ~ Denying(e) /\ ~ Challenging(e) /\ Closing(e) => evaluate(e) = Limited
             /\ ~ Denying(e) /\ ~ Challenging(e) /\ ~ Closing(e) =>
                    IF e.risk = "blocked" THEN evaluate(e) = Deny
                    ELSE evaluate(e).action \in {"allow", "allow_with_restrictions"}
  <2>1. CASE i \in 1..14
    BY <1>1, <1>4, <2>1, GroupDecisions
  <2>2. CASE i \in 15..17
    BY <1>1, <1>4, <2>2, GroupDecisions
  <2>3. CASE i \in 18..25
    BY <1>1, <1>4, <2>3, GroupDecisions
  <2>4. CASE i = 26
    BY <1>1, <1>4, <2>4, GroupDecisions
  <2>5. CASE i \in 27..29
    BY <1>1, <1>4, <2>5, GroupDecisions
  <2> QED
    BY <2>1, <2>2, <2>3, <2>4, <2>5
<1> QED
  BY <1>2, <1>3, <1>4

-----------------------------------------------------------------------------
(* The classifier *)

\* The scanners' classes in closed form.
LEMMA ScannersInOrder ==
    ASSUME NEW e
    PROVE  ByScanners(e) =
             IF "prompt_leakage" \in e.scan.labels THEN Class("prompt_injection", 95)
             ELSE IF "prompt_injection" \in e.scan.labels THEN Class("prompt_injection", 90)
             ELSE IF "jailbreak_attempt" \in e.scan.labels
               THEN Class("jailbreak_attempt", 90)
             ELSE IF "secret_exfiltration" \in e.scan.labels
               THEN Class("secret_exfiltration_intent", 95)
             ELSE IF "exploit_intent" \in e.scan.labels
               THEN Class("exploit_or_malware_intent", 90)
             ELSE IF {"secret", "financial"} \cap e.dlp.labels # {}
               THEN Class("sensitive_data_submission", 88)
             ELSE IF e.scan.score >= 50 THEN Class("jailbreak_attempt", 80)
             ELSE IF \/ e.scan.score >= 20 \/ e.dlp.score >= 20
                     \/ e.risk \in {"elevated", "restricted"}
               THEN Class("suspicious", 65)
             ELSE Class("benign", 90)
<1> DEFINE cases == ScannerClasses(e)
           I == {i \in 1..Len(cases) : cases[i].when}
           k == SelectInSeq(cases, LAMBDA c : c.when)
<1>1. k = IF I # {} THEN Min(I) ELSE 0
  BY DEF SelectInSeq
<1>2. ByScanners(e) = cases[k].is
  BY DEF ByScanners
<1>3. /\ Len(cases) = 9
      /\ cases[1].when <=> "prompt_leakage" \in e.scan.labels
      /\ cases[2].when <=> "prompt_injection" \in e.scan.labels
      /\ cases[3].when <=> "jailbreak_attempt" \in e.scan.labels
      /\ cases[4].when <=> "secret_exfiltration" \in e.scan.labels
      /\ cases[5].when <=> "exploit_intent" \in e.scan.labels
      /\ cases[6].when <=> {"secret", "financial"} \cap e.dlp.labels # {}
      /\ cases[7].when <=> e.scan.score >= 50
      /\ cases[8].when <=> \/ e.scan.score >= 20 \/ e.dlp.score >= 20
                           \/ e.risk \in {"elevated", "restricted"}
      /\ cases[9].when
  BY DEF ScannerClasses
<1>4. /\ cases[1].is = Class("prompt_injection", 95)
      /\ cases[2].is = Class("prompt_injection", 90)
      /\ cases[3].is = Class("jailbreak_attempt", 90)
      /\ cases[4].is = Class("secret_exfiltration_intent", 95)
      /\ cases[5].is = Class("exploit_or_malware_intent", 90)
      /\ cases[6].is = Class("sensitive_data_submission", 88)
      /\ cases[7].is = Class("jailbreak_attempt", 80)
      /\ cases[8].is = Class("suspicious", 65)
      /\ cases[9].is = Class("benign", 90)
  BY DEF ScannerClasses
<1> HIDE DEF cases, k
<1>5. I \in SUBSET (1..9) /\ 9 \in I
  BY <1>3
<1>6. k \in 1..9 /\ cases[k].when /\ \A j \in 1..9 : cases[j].when => k <= j
  <2> HIDE DEF I
  <2>1. k \in I /\ \A j \in I : k <= j
    BY <1>1, <1>5, FirstOf
  <2> QED
    BY <1>3, <2>1 DEF I
<1>7. k = IF cases[1].when THEN 1 ELSE IF cases[2].when THEN 2 ELSE IF cases[3].when THEN 3
          ELSE IF cases[4].when THEN 4 ELSE IF cases[5].when THEN 5
          ELSE IF cases[6].when THEN 6 ELSE IF cases[7].when THEN 7
          ELSE IF cases[8].when THEN 8 ELSE 9
  BY <1>6
<1> QED
  BY <1>2, <1>3, <1>4, <1>7
-----------------------------------------------------------------------------
(* The scanners and the guard's replies: what Adjudication asks of scores,   *)
(* labels and answers is what the code makes of any finding and any reply.  *)

\* Points times matches, summed over what was found: a natural number, and
\* nothing where nothing was found.
PointsOf(matches, points, S) == MapThenSumSet(LAMBDA f : matches[f] * points[f], S)

LEMMA PointsSum ==
    ASSUME NEW D, NEW S \in SUBSET D, IsFiniteSet(S),
           NEW matches \in [D -> Nat], NEW points \in [D -> Nat]
    PROVE  PointsOf(matches, points, S) \in Nat /\ (S = {} => PointsOf(matches, points, S) = 0)
<1> DEFINE some(T) == CHOOSE x \in T : TRUE
           c == [T \in SUBSET S |-> some(T)]
           g == [p \in S \X Nat |-> matches[p[1]] * points[p[1]] + p[2]]
           Body(it) == [T \in SUBSET S |->
                            IF T = {} THEN 0
                            ELSE matches[some(T)] * points[some(T)] + it[T \ {some(T)}]]
<1>1. g \in [S \X Nat -> Nat]
  <2>1. ASSUME NEW x \in S, NEW n \in Nat PROVE matches[x] * points[x] + n \in Nat
    <3>1. matches[x] \in Nat /\ points[x] \in Nat
      OBVIOUS
    <3>2. \A a, b \in Nat : a * b + n \in Nat
      OBVIOUS
    <3> QED
      BY <3>1, <3>2
  <2> QED
    BY <2>1
<1>2. \A T \in SUBSET S : T # {} => c[T] \in T /\ c[T] = some(T)
  OBVIOUS
<1>3. PICK iter : Folds(iter, S, Nat, 0, g, c)
  <2> HIDE DEF g, c
  <2> QED
    BY <1>1, <1>2, FoldExists
<1>4. iter = Body(iter)
  <2>1. ASSUME NEW T \in SUBSET S, T # {}
        PROVE  iter[T] = matches[some(T)] * points[some(T)] + iter[T \ {some(T)}]
    <3>1. c[T] = some(T) /\ some(T) \in S /\ T \ {some(T)} \in SUBSET S
      BY <1>2, <2>1
    <3> HIDE DEF some, c
    <3>2. iter[T \ {some(T)}] \in Nat
      BY <1>3, <3>1 DEF Folds
    <3>3. iter[T] = g[<<some(T), iter[T \ {some(T)}]>>]
      <4> HIDE DEF g
      <4> QED
        BY <1>3, <2>1, <3>1 DEF Folds
    <3> QED
      BY <3>1, <3>2, <3>3
  <2>2. iter[{}] = 0
    BY <1>3 DEF Folds
  <2>3. iter = [T \in SUBSET S |-> iter[T]]
    BY <1>3 DEF Folds
  <2> HIDE DEF some
  <2>4. \A T \in SUBSET S : iter[T] = Body(iter)[T]
    BY <2>1, <2>2
  <2>5. Body(iter) = [T \in SUBSET S |-> Body(iter)[T]]
    OBVIOUS
  <2> HIDE DEF Body
  <2> QED
    BY <2>3, <2>4, <2>5
<1> DEFINE sum == PointsOf(matches, points, S)
           F == CHOOSE it : it = Body(it)
<1>5. sum = F[S]
  BY DEF PointsOf, MapThenSumSet, MapThenFoldSet
<1>6. F = Body(F)
  <2> HIDE DEF Body
  <2> QED
    BY <1>4
<1> HIDE DEF F, sum
<1>7. F[{}] = 0
  BY <1>6
<1>8. ASSUME NEW T \in SUBSET S, F[T] \notin Nat
      PROVE  \E U \in SUBSET T : U # T /\ F[U] \notin Nat
  <2>1. T # {}
    BY <1>7, <1>8
  <2>2. F[T] = matches[some(T)] * points[some(T)] + F[T \ {some(T)}]
    BY <1>6, <2>1
  <2>3. some(T) \in T
    BY <2>1
  <2> HIDE DEF some
  <2>4. matches[some(T)] \in Nat /\ points[some(T)] \in Nat
    BY <2>3
  <2>5. \A a, b, r \in Nat : a * b + r \in Nat
    OBVIOUS
  <2>6. F[T \ {some(T)}] \notin Nat
    BY <1>8, <2>2, <2>4, <2>5
  <2> QED
    BY <2>3, <2>6
<1> DEFINE B == {n \in Nat : \E T \in SUBSET S : Cardinality(T) = n /\ F[T] \notin Nat}
<1>9. B = {}
  <2>1. SUFFICES ASSUME B # {} PROVE FALSE
    OBVIOUS
  <2>2. B \in SUBSET Nat
    OBVIOUS
  <2>3. PICK m \in B : \A n \in B : m <= n
    <3> HIDE DEF B
    <3> QED
      BY <2>1, <2>2, LeastOf
  <2>4. PICK T \in SUBSET S : Cardinality(T) = m /\ F[T] \notin Nat
    BY <2>3
  <2>5. PICK U \in SUBSET T : U # T /\ F[U] \notin Nat
    BY <1>8, <2>4
  <2>6. IsFiniteSet(T) /\ IsFiniteSet(U) /\ Cardinality(U) \in Nat /\ Cardinality(T) \in Nat
    BY FS_Subset, FS_CardinalityType
  <2>7. Cardinality(U) < Cardinality(T)
    BY <2>5, <2>6, FS_Subset
  <2>8. Cardinality(U) \in B
    BY <2>5, <2>6
  <2>9. m <= Cardinality(U)
    <3> HIDE DEF B
    <3> QED
      BY <2>3, <2>8
  <2> QED
    BY <2>4, <2>6, <2>7, <2>9
<1>10. F[S] \in Nat
  <2>1. Cardinality(S) \in Nat
    BY FS_CardinalityType
  <2> QED
    BY <1>9, <2>1
<1>11. sum \in Nat /\ (S = {} => sum = 0)
  BY <1>5, <1>7, <1>10
<1> QED
  BY <1>11 DEF sum

\* A set given element by element.
LEMMA FewAreFinite ==
    ASSUME NEW a, NEW b, NEW c, NEW d, NEW e, NEW f
    PROVE  IsFiniteSet({a, b, c, d, e, f})
<1>1. IsFiniteSet({a}) /\ IsFiniteSet({a} \cup {b})
  BY FS_Singleton, FS_AddElement
<1>2. IsFiniteSet({a, b} \cup {c}) /\ IsFiniteSet({a, b, c} \cup {d})
  <2>1. {a} \cup {b} = {a, b} /\ {a, b} \cup {c} = {a, b, c}
    OBVIOUS
  <2>2. IsFiniteSet({a, b} \cup {c})
    BY <1>1, <2>1, FS_AddElement
  <2> QED
    BY <2>1, <2>2, FS_AddElement
<1>3. IsFiniteSet({a, b, c, d} \cup {e})
  <2>1. {a, b, c} \cup {d} = {a, b, c, d}
    OBVIOUS
  <2> QED
    BY <1>2, <2>1, FS_AddElement
<1>4. IsFiniteSet({a, b, c, d, e} \cup {f})
  <2>1. {a, b, c, d} \cup {e} = {a, b, c, d, e}
    OBVIOUS
  <2> QED
    BY <1>3, <2>1, FS_AddElement
<1>5. {a, b, c, d, e} \cup {f} = {a, b, c, d, e, f}
  OBVIOUS
<1> QED
  BY <1>4, <1>5

\* A score is 0 to 100, and a request without a label of the input scanner has
\* none, whatever the scanners match and however often.
THEOREM ScoresInRange ==
    ASSUME NEW matches \in [ScanFindings -> Nat], NEW found \in [DlpFindings -> Nat]
    PROVE  /\ input_scan(matches).score \in 0..100
           /\ input_scan(matches).labels = {} => input_scan(matches).score = 0
           /\ dlp_scan(found).score \in 0..100
           /\ dlp_scan(found).labels = {} => dlp_scan(found).score = 0
<1>1. /\ ScanPoints \in [ScanFindings -> Nat] /\ DlpPoints \in [DlpFindings -> Nat]
      /\ IsFiniteSet(ScanFindings) /\ IsFiniteSet(DlpFindings)
  <2>1. /\ ScanFindings = {"nested_encoding", "obfuscation", "moderation_bypass",
               "hate_content", "discriminatory_content", "insult_content",
               "prompt_injection", "prompt_mention", "secret_exfiltration",
               "exploit_intent", "jailbreak_attempt"}
        /\ ScanPoints \in [ScanFindings -> Nat]
    BY DEF ScanFindings, ScanPoints
  <2>2. /\ DlpFindings = {"critical_secret", "secret", "credential", "pii", "financial",
               "metadata_injection"}
        /\ DlpPoints \in [DlpFindings -> Nat]
    BY DEF DlpFindings, DlpPoints
  <2>3. \A a, b, c, d, e, f : IsFiniteSet({a, b, c, d, e, f})
    BY FewAreFinite
  <2>4. IsFiniteSet(DlpFindings)
    BY <2>2, <2>3
  <2>5. IsFiniteSet(ScanFindings)
    <3> DEFINE A == {"nested_encoding", "obfuscation", "moderation_bypass", "hate_content",
                     "discriminatory_content", "insult_content"}
               B == {"prompt_injection", "prompt_mention", "secret_exfiltration",
                     "exploit_intent", "jailbreak_attempt"}
    <3>1. ScanFindings = A \cup B
      BY <2>1
    <3>2. IsFiniteSet(A)
      BY <2>3
    <3>3. B = {"prompt_injection", "prompt_mention", "secret_exfiltration",
               "exploit_intent", "jailbreak_attempt", "jailbreak_attempt"}
      OBVIOUS
    <3>4. IsFiniteSet(B)
      <4> HIDE DEF B
      <4> QED
        BY <2>3, <3>3
    <3> HIDE DEF A, B
    <3> QED
      BY <3>1, <3>2, <3>4, FS_Union
  <2> QED
    BY <2>1, <2>2, <2>4, <2>5
<1>2. \A n \in Nat : AtMost(n, 100) \in 0..100 /\ AtMost(0, 100) = 0
  BY DEF AtMost
<1>3. /\ input_scan(matches).score \in 0..100
      /\ input_scan(matches).labels = {} => input_scan(matches).score = 0
  <2> DEFINE S == {f \in ScanFindings : matches[f] > 0}
             sum == PointsOf(matches, ScanPoints, S)
  <2>1. IsFiniteSet(S)
    BY <1>1, FS_Subset
  <2>2. sum \in Nat /\ (S = {} => sum = 0)
    <3>1. S \in SUBSET ScanFindings
      OBVIOUS
    <3> HIDE DEF S
    <3> QED
      BY <1>1, <2>1, <3>1, PointsSum
  <2>3. /\ input_scan(matches).score = AtMost(sum, 100)
        /\ input_scan(matches).labels = UNION {ScanLabels(f) : f \in S}
    BY DEF input_scan, PointsOf
  <2>4. \A f \in S : ScanLabels(f) # {}
    BY DEF ScanLabels
  <2> HIDE DEF S, sum
  <2>5. input_scan(matches).labels = {} => S = {}
    BY <2>3, <2>4
  <2> QED
    BY <1>2, <2>2, <2>3, <2>5
<1>4. /\ dlp_scan(found).score \in 0..100
      /\ dlp_scan(found).labels = {} => dlp_scan(found).score = 0
  <2> DEFINE S == {f \in DlpFindings : found[f] > 0}
             sum == PointsOf(found, DlpPoints, S)
  <2>1. IsFiniteSet(S)
    BY <1>1, FS_Subset
  <2>2. sum \in Nat /\ (S = {} => sum = 0)
    <3>1. S \in SUBSET DlpFindings
      OBVIOUS
    <3> HIDE DEF S
    <3> QED
      BY <1>1, <2>1, <3>1, PointsSum
  <2>3. /\ dlp_scan(found).score = AtMost(sum, 100)
        /\ dlp_scan(found).labels = {DlpLabel(f) : f \in S}
    BY DEF dlp_scan, PointsOf
  <2> HIDE DEF S, sum
  <2>4. dlp_scan(found).labels = {} => S = {}
    BY <2>3
  <2> QED
    BY <1>2, <2>2, <2>3, <2>4
<1> QED
  BY <1>3, <1>4

\* What a guard model may reply: numbers that are none, labels and actions that
\* are not listed or not there, and any words.
Numbers == {Number(n) : n \in Int} \cup {NoNumber, NaN, Infinity}
BareReplies == {NotAsked, Raises, OtherJson}
ProseReplies == {Prose(words) : words \in SUBSET STRING}
ObjectReplies ==
    {GuardObject(label, confidence, risk, action, words) :
        label \in AllowedLabels \cup {NoName, OtherName},
        confidence \in Numbers, risk \in Numbers,
        action \in AllowedActions \cup {NoName, OtherName},
        words \in SUBSET STRING}
GuardReplies == BareReplies \cup ProseReplies \cup ObjectReplies

Analyses == [label : AllowedLabels, confidence : 0..100, risk : 0..100, action : AllowedActions]

\* A table of words names one of its names, or the other.
LEMMA NamedIs ==
    ASSUME NEW words, NEW otherwise, NEW table, Len(table) \in Nat
    PROVE  Named(table, words, otherwise) \in
               {otherwise} \cup {table[i].name : i \in 1..Len(table)}
<1> DEFINE I == {i \in 1..Len(table) : table[i].words \cap words # {}}
           k == SelectInSeq(table, LAMBDA entry : entry.words \cap words # {})
<1>1. k = IF I # {} THEN Min(I) ELSE 0
  BY DEF SelectInSeq
<1>2. Named(table, words, otherwise) = IF k = 0 THEN otherwise ELSE table[k].name
  BY DEF Named
<1>3. I # {} => Min(I) \in I
  <2>1. SUFFICES ASSUME I # {} PROVE Min(I) \in I
    OBVIOUS
  <2>2. I \in SUBSET Nat
    OBVIOUS
  <2> HIDE DEF I
  <2> QED
    BY <2>1, <2>2, LeastOf
<1> HIDE DEF k
<1> QED
  BY <1>1, <1>2, <1>3

\* The label read from the words of a reply.
LEMMA InferredLabel ==
    ASSUME NEW words
    PROVE  infer_label(words) \in
               {"benign", "suspicious", "jailbreak_attempt", "prompt_injection",
                "exploit_or_malware_intent", "secret_exfiltration_intent",
                "sensitive_data_submission", "policy_leakage", "encoding_obfuscation",
                "tool_abuse_attempt", "denial_of_service_attempt", "unsafe_output"}
<1>1. /\ Len(LabelWords) = 10
      /\ LabelWords[1].name = "jailbreak_attempt"
      /\ LabelWords[2].name = "prompt_injection"
      /\ LabelWords[3].name = "exploit_or_malware_intent"
      /\ LabelWords[4].name = "secret_exfiltration_intent"
      /\ LabelWords[5].name = "sensitive_data_submission"
      /\ LabelWords[6].name = "policy_leakage"
      /\ LabelWords[7].name = "encoding_obfuscation"
      /\ LabelWords[8].name = "tool_abuse_attempt"
      /\ LabelWords[9].name = "denial_of_service_attempt"
      /\ LabelWords[10].name = "unsafe_output"
  BY DEF LabelWords, Means
<1> DEFINE name == Named(LabelWords, words, "suspicious")
<1>2. name = "suspicious" \/ \E i \in 1..10 : name = LabelWords[i].name
  BY <1>1, NamedIs
<1>3. infer_label(words) \in {"benign", name}
  BY DEF infer_label
<1> HIDE DEF name
<1> QED
  BY <1>1, <1>2, <1>3

\* The action read from them.
LEMMA InferredAction ==
    ASSUME NEW words
    PROVE  infer_action(words) \in AllowedActions
<1>1. /\ Len(ActionWords) = 4
      /\ ActionWords[1].name = "block" /\ ActionWords[2].name = "deny"
      /\ ActionWords[3].name = "redact"
      /\ ActionWords[4].name = "allow_with_restrictions"
  BY DEF ActionWords, Means
<1> DEFINE otherwise == IF "allow" \in words /\ "disallow" \notin words
                        THEN "allow" ELSE "allow_with_restrictions"
           name == Named(ActionWords, words, otherwise)
<1>2. otherwise \in {"allow", "allow_with_restrictions"}
  OBVIOUS
<1>3. infer_action(words) = name
  BY DEF infer_action
<1> HIDE DEF otherwise
<1>4. name = otherwise \/ \E i \in 1..4 : name = ActionWords[i].name
  BY <1>1, NamedIs
<1> HIDE DEF name
<1> QED
  BY <1>1, <1>2, <1>3, <1>4 DEF AllowedActions

\* The labels and actions that prose is read as, and the numbers presumed of it.
LEMMA ProseIs ==
    ASSUME NEW words
    PROVE  normalize_prose(words) \in Analyses
<1>1. infer_label(words) \in
          {"benign", "suspicious", "jailbreak_attempt", "prompt_injection",
           "exploit_or_malware_intent", "secret_exfiltration_intent",
           "sensitive_data_submission", "policy_leakage", "encoding_obfuscation",
           "tool_abuse_attempt", "denial_of_service_attempt", "unsafe_output"}
  BY InferredLabel
<1>2. infer_label(words) \in AllowedLabels
  BY <1>1 DEF AllowedLabels
<1>3. infer_action(words) \in AllowedActions
  BY InferredAction
<1> DEFINE label == infer_label(words)
<1> HIDE DEF label
<1>4. risk_defaults(label) \in (0..100) \X (0..100)
  <2>1. CASE label = "benign"
    BY <2>1 DEF risk_defaults
  <2>2. CASE label = "suspicious"
    BY <2>2 DEF risk_defaults
  <2>3. CASE label = "jailbreak_attempt"
    BY <2>3 DEF risk_defaults
  <2>4. CASE label = "secret_exfiltration_intent"
    BY <2>4 DEF risk_defaults
  <2>5. CASE label = "exploit_or_malware_intent"
    BY <2>5 DEF risk_defaults
  <2>6. CASE label \in {"sensitive_data_submission", "policy_leakage"}
    BY <2>6 DEF risk_defaults
  <2>7. CASE label \in {"prompt_injection", "unsafe_output", "tool_abuse_attempt"}
    BY <2>7 DEF risk_defaults
  <2>8. CASE label = "denial_of_service_attempt"
    BY <2>8 DEF risk_defaults
  <2>9. CASE label = "encoding_obfuscation"
    BY <2>9 DEF risk_defaults
  <2> QED
    BY <1>1, <2>1, <2>2, <2>3, <2>4, <2>5, <2>6, <2>7, <2>8, <2>9 DEF label
<1>5. risk_defaults(label)[1] \in 0..100 /\ risk_defaults(label)[2] \in 0..100
  BY <1>4
<1> QED
  BY <1>2, <1>3, <1>5 DEF normalize_prose, GuardAnalysis, Analyses, label

\* A JSON object, whatever its fields hold, unless its risk score is infinite.
LEMMA ObjectIs ==
    ASSUME NEW object,
           object.label \in AllowedLabels \cup {NoName, OtherName},
           object.action \in AllowedActions \cup {NoName, OtherName},
           object.confidence \in Numbers, object.risk \in Numbers
    PROVE  normalize(object) \in Analyses
<1> DEFINE label == CASE object.label = NoName -> "suspicious"
                      [] object.label = OtherName -> infer_label(object.words)
                      [] OTHER -> object.label
           action == CASE object.action = NoName -> "allow_with_restrictions"
                       [] object.action = OtherName -> default_action(label)
                       [] OTHER -> object.action
<1>1. infer_label(object.words) \in AllowedLabels
  BY InferredLabel DEF AllowedLabels
<1>2. label \in AllowedLabels
  BY <1>1 DEF AllowedLabels, NoName, OtherName
<1>3. default_action(label) \in AllowedActions
  <2> HIDE DEF label
  <2> QED
    BY DEF default_action, AllowedActions
<1>4. action \in AllowedActions
  <2> HIDE DEF label
  <2> QED
    BY <1>3 DEF AllowedActions, NoName, OtherName
<1>5. ASSUME NEW x \in Numbers
      PROVE  confidence_of(x) \in 0..100 /\ risk_of(x) \in 0..100
  <2>1. CASE \E n \in Int : x = Number(n)
    <3>1. PICK n \in Int : x = Number(n)
      BY <2>1
    <3>2. x.kind = "number" /\ x.value = n
      BY <3>1 DEF Number
    <3>3. Within100(n) \in 0..100
      BY DEF Within100
    <3> QED
      BY <3>2, <3>3 DEF confidence_of, risk_of
  <2>2. CASE x \in {NoNumber, NaN, Infinity}
    <3>1. x.kind \in {"none", "nan", "infinity"}
      BY <2>2 DEF NoNumber, NaN, Infinity
    <3> QED
      BY <3>1 DEF confidence_of, risk_of
  <2> QED
    BY <2>1, <2>2 DEF Numbers
<1>6. confidence_of(object.confidence) \in 0..100 /\ risk_of(object.risk) \in 0..100
  BY <1>5
<1>7. normalize(object) = [label |-> label, confidence |-> confidence_of(object.confidence),
                           risk |-> risk_of(object.risk), action |-> action]
  BY DEF normalize, GuardAnalysis
<1> HIDE DEF label, action
<1> QED
  BY <1>2, <1>4, <1>6, <1>7 DEF Analyses

\* Any reply is read as a listed label and action and numbers of 0 to 100
\* (LLMGuardService._normalize and _normalize_text_response of llm_guard.py),
\* and nothing is read where the guard was not asked.
THEOREM EveryReplyRead ==
    ASSUME NEW reply \in GuardReplies
    PROVE  \/ analysis(reply) \in Analyses
           \/ reply = NotAsked /\ analysis(reply) = NoGuard
<1>1. GuardFallback \in Analyses
  BY DEF GuardFallback, GuardAnalysis, Analyses, AllowedLabels, AllowedActions
<1>2. CASE reply = NotAsked
  BY <1>2 DEF NotAsked, analysis
<1>3. CASE reply = Raises
  BY <1>1, <1>3 DEF Raises, analysis
<1>4. CASE reply = OtherJson
  <2> DEFINE object == GuardObject(NoName, NoNumber, NoNumber, NoName, {})
  <2>1. analysis(reply) = normalize(object)
    BY <1>4 DEF OtherJson, analysis
  <2>2. /\ object.label = NoName /\ object.action = NoName
        /\ object.confidence \in Numbers /\ object.risk \in Numbers
    BY DEF GuardObject, Numbers
  <2> HIDE DEF object
  <2> QED
    BY <2>1, <2>2, ObjectIs
<1>5. CASE \E words \in SUBSET STRING : reply = Prose(words)
  <2>1. reply.form = "prose" /\ analysis(reply) = normalize_prose(reply.words)
    BY <1>5 DEF Prose, analysis
  <2> QED
    BY <2>1, ProseIs
<1>6. CASE \E label \in AllowedLabels \cup {NoName, OtherName},
              action \in AllowedActions \cup {NoName, OtherName},
              confidence \in Numbers, risk \in Numbers, words \in SUBSET STRING :
                  reply = GuardObject(label, confidence, risk, action, words)
  <2>1. /\ reply.form = "object"
        /\ reply.label \in AllowedLabels \cup {NoName, OtherName}
        /\ reply.action \in AllowedActions \cup {NoName, OtherName}
        /\ reply.confidence \in Numbers /\ reply.risk \in Numbers
    BY <1>6 DEF GuardObject
  <2>2. analysis(reply) =
            IF reply.risk.kind = "infinity" THEN GuardFallback ELSE normalize(reply)
    BY <2>1 DEF analysis
  <2>3. normalize(reply) \in Analyses
    BY <2>1, ObjectIs
  <2> QED
    BY <1>1, <2>2, <2>3
<1>7. CASE reply \in BareReplies
  BY <1>2, <1>3, <1>4, <1>7 DEF BareReplies
<1>8. CASE reply \in ProseReplies
  BY <1>5, <1>8 DEF ProseReplies
<1>9. CASE reply \in ObjectReplies
  BY <1>6, <1>9 DEF ObjectReplies
<1> QED
  BY <1>7, <1>8, <1>9 DEF GuardReplies
=============================================================================
