------------------------- MODULE RequestPathProofs -------------------------
(***************************************************************************)
(* Theorems about RequestPath: what the retrieval and tool gateways let    *)
(* through, what is left of a prompt over its budget, what the audit trail *)
(* and the redaction keep to, and what a client is shown, for any          *)
(* scenarios and any settings.                                             *)
(*                                                                         *)
(* The lists the code filters, sums and reorders are of any length: what   *)
(* Kept and SizeOf return is shown first, by the least length at which it  *)
(* would fail (PolicyProofs).  Then come the parts a request goes through, *)
(* and last the inductive invariant, one lemma per action.                 *)
(***************************************************************************)
EXTENDS RequestPath, PolicyProofs

-----------------------------------------------------------------------------
(* Lists *)

\* What is summed, and kept, after the first i elements.
Adds(f, list) ==
    /\ f[0] = 0
    /\ \A i \in 1..Len(list) : f[i] = f[i - 1] + list[i].text.size

Keeps(f, list, good) ==
    /\ f[0] = <<>>
    /\ \A i \in 1..Len(list) :
           f[i] = IF list[i] \in good THEN Append(f[i - 1], list[i]) ELSE f[i - 1]

Largest(n) == [T \in SUBSET (1..n) |-> Max(T)]

\* FoldLeft takes the elements in their order.
LEMMA LeftFoldExists ==
    ASSUME NEW n \in Nat, NEW V, NEW base \in V, NEW g \in [(1..n) \X V -> V]
    PROVE  \E iter : Folds(iter, 1..n, V, base, g, Largest(n))
<1>1. \A T \in SUBSET (1..n) : T # {} => Largest(n)[T] \in T
  <2> SUFFICES ASSUME NEW T \in SUBSET (1..n), T # {} PROVE Max(T) \in T
    BY DEF Largest
  <2>1. T \in SUBSET (0..n)
    OBVIOUS
  <2> QED
    BY <2>1, GreatestOf
<1>2. IsFiniteSet(1..n)
  BY FS_Interval
<1> DEFINE S == 1..n
           c == Largest(n)
<1> HIDE DEF S, c
<1>3. IsFiniteSet(S) /\ g \in [S \X V -> V] /\ \A T \in SUBSET S : T # {} => c[T] \in T
  BY <1>1, <1>2 DEF S, c
<1>4. \E iter : Folds(iter, S, V, base, g, c)
  BY <1>3, FoldExists
<1> QED
  BY <1>4 DEF S, c

\* The first i of n numbers, and the greatest of them.
LEMMA Initial ==
    ASSUME NEW n \in Nat, NEW i \in 1..n
    PROVE  /\ 1..i \in SUBSET (1..n) /\ 1..i # {} /\ 1..(i - 1) \in SUBSET (1..n)
           /\ Max(1..i) = i /\ (1..i) \ {i} = 1..(i - 1)
<1>1. 1..i \in SUBSET (0..i) /\ 1..i # {} /\ i \in Nat
  OBVIOUS
<1>2. Max(1..i) \in 1..i /\ \A j \in 1..i : j <= Max(1..i)
  BY <1>1, GreatestOf
<1>3. i \in 1..i
  OBVIOUS
<1>4. i <= Max(1..i)
  BY <1>2, <1>3, Zenon
<1>5. Max(1..i) = i
  BY <1>2, <1>4
<1>6. 1..i \in SUBSET (1..n) /\ 1..(i - 1) \in SUBSET (1..n)
  OBVIOUS
<1>7. (1..i) \ {i} = 1..(i - 1)
  OBVIOUS
<1> QED
  BY <1>1, <1>5, <1>6, <1>7

\* A sum of sizes is added up one element at a time.
LEMMA SizeOfSteps ==
    ASSUME NEW n \in Nat, NEW s, DOMAIN s = 1..n, Len(s) = n,
           \A i \in 1..n : s[i].text.size \in Nat
    PROVE  \E f : Adds(f, s) /\ SizeOf(s) = f[n]
<1> DEFINE g == [p \in (1..n) \X Nat |-> p[2] + s[p[1]].text.size]
           Body(it) == [T \in SUBSET (1..n) |->
                             IF T = {} THEN 0
                             ELSE it[T \ {Max(T)}] + s[Max(T)].text.size]
<1>1. g \in [(1..n) \X Nat -> Nat]
  OBVIOUS
<1>2. PICK iter : Folds(iter, 1..n, Nat, 0, g, Largest(n))
  <2> HIDE DEF g
  <2> QED
    BY <1>1, LeftFoldExists
<1>3. iter = Body(iter)
  <2>1. ASSUME NEW T \in SUBSET (1..n), T # {}
        PROVE  iter[T] = iter[T \ {Max(T)}] + s[Max(T)].text.size
    <3>1. Max(T) \in T
      <4>1. T \in SUBSET (0..n)
        OBVIOUS
      <4> QED
        BY <2>1, <4>1, GreatestOf
    <3>2. Max(T) \in 1..n /\ T \ {Max(T)} \in SUBSET (1..n) /\ Largest(n)[T] = Max(T)
      BY <3>1 DEF Largest
    <3>3. iter[T \ {Max(T)}] \in Nat
      BY <1>2, <3>2 DEF Folds
    <3>4. iter[T] = g[<<Max(T), iter[T \ {Max(T)}]>>]
      <4> HIDE DEF g
      <4> QED
        BY <1>2, <2>1, <3>2 DEF Folds
    <3> QED
      BY <3>2, <3>3, <3>4
  <2>2. iter[{}] = 0
    BY <1>2 DEF Folds
  <2>3. iter = [T \in SUBSET (1..n) |-> iter[T]]
    BY <1>2 DEF Folds
  <2>4. \A T \in SUBSET (1..n) : iter[T] = Body(iter)[T]
    BY <2>1, <2>2
  <2>5. Body(iter) = [T \in SUBSET (1..n) |-> Body(iter)[T]]
    OBVIOUS
  <2> HIDE DEF Body
  <2> QED
    BY <2>3, <2>4, <2>5
<1>4. SizeOf(s) = (CHOOSE it : it = Body(it))[1..n]
  BY DEF SizeOf, FoldLeft, MapThenFoldSet
<1> DEFINE F == CHOOSE it : it = Body(it)
<1>5. F = Body(F)
  <2> HIDE DEF Body
  <2> QED
    BY <1>3
<1> HIDE DEF F
<1>6. F[{}] = 0
  BY <1>5
<1>7. ASSUME NEW i \in 1..n PROVE F[1..i] = F[1..(i - 1)] + s[i].text.size
  <2>1. /\ 1..i \in SUBSET (1..n) /\ 1..i # {}
        /\ Max(1..i) = i /\ (1..i) \ {i} = 1..(i - 1)
    BY Initial
  <2>2. Body(F)[1..i] = F[(1..i) \ {Max(1..i)}] + s[Max(1..i)].text.size
    BY <2>1
  <2> HIDE DEF Body
  <2> QED
    BY <1>5, <2>1, <2>2
<1> DEFINE f == [i \in 0..n |-> F[1..i]]
<1>8. f[0] = 0
  BY <1>6
<1>9. \A i \in 1..n : f[i] = f[i - 1] + s[i].text.size
  BY <1>7
<1>10. SizeOf(s) = f[n]
  BY <1>4 DEF F
<1> HIDE DEF f
<1>11. Adds(f, s)
  BY <1>8, <1>9 DEF Adds
<1> QED
  BY <1>10, <1>11

\* k is made of the good ones of the first m elements of a list, in their order.
Picked(k, S, list, good, m) ==
    /\ k \in Seq(S)
    /\ \A i \in 1..Len(k) : k[i] \in good /\ \E a \in 1..m : list[a] = k[i]
    /\ \A a \in 1..m : list[a] \in good => \E i \in 1..Len(k) : k[i] = list[a]
    /\ \A i, j \in 1..Len(k) : i < j =>
           \E a, b \in 1..m : a < b /\ list[a] = k[i] /\ list[b] = k[j]

\* One element more, kept or not.
LEMMA PickedMore ==
    ASSUME NEW S, NEW list \in Seq(S), NEW good, NEW m \in 1..Len(list),
           NEW k, Picked(k, S, list, good, m - 1)
    PROVE  Picked(IF list[m] \in good THEN Append(k, list[m]) ELSE k, S, list, good, m)
<1>1. /\ k \in Seq(S) /\ Len(k) \in Nat
      /\ \A i \in 1..Len(k) : k[i] \in good /\ \E a \in 1..(m - 1) : list[a] = k[i]
      /\ \A a \in 1..(m - 1) : list[a] \in good => \E i \in 1..Len(k) : k[i] = list[a]
      /\ \A i, j \in 1..Len(k) : i < j =>
             \E a, b \in 1..(m - 1) : a < b /\ list[a] = k[i] /\ list[b] = k[j]
  BY LenProperties DEF Picked
<1>2. \A a \in 1..m : a \in 1..(m - 1) \/ a = m
  OBVIOUS
<1>3. 1..(m - 1) \subseteq 1..m
  OBVIOUS
<1>4. CASE list[m] \notin good
  <2>1. \A i \in 1..Len(k) : k[i] \in good /\ \E a \in 1..m : list[a] = k[i]
    BY <1>1, <1>3
  <2>2. \A a \in 1..m : list[a] \in good => \E i \in 1..Len(k) : k[i] = list[a]
    BY <1>1, <1>2, <1>4
  <2>3. \A i, j \in 1..Len(k) : i < j =>
             \E a, b \in 1..m : a < b /\ list[a] = k[i] /\ list[b] = k[j]
    BY <1>1, <1>3
  <2> QED
    BY <1>1, <1>4, <2>1, <2>2, <2>3 DEF Picked
<1>5. CASE list[m] \in good
  <2> DEFINE l == Append(k, list[m])
  <2>1. list[m] \in S
    BY ElementOfSeq
  <2>2. /\ l \in Seq(S) /\ Len(l) = Len(k) + 1
        /\ \A i \in 1..Len(k) : l[i] = k[i]
        /\ l[Len(k) + 1] = list[m]
    BY <1>1, <2>1, AppendProperties
  <2> HIDE DEF l
  <2>3. \A i \in 1..Len(l) : i \in 1..Len(k) \/ i = Len(k) + 1
    BY <1>1, <2>2
  <2>4. 1..Len(k) \subseteq 1..Len(l) /\ Len(k) + 1 \in 1..Len(l) /\ m \in 1..m
    BY <1>1, <2>2
  <2>5. \A i \in 1..Len(l) : l[i] \in good /\ \E a \in 1..m : list[a] = l[i]
    <3> SUFFICES ASSUME NEW i \in 1..Len(l)
                 PROVE  l[i] \in good /\ \E a \in 1..m : list[a] = l[i]
      OBVIOUS
    <3>1. CASE i \in 1..Len(k)
      <4>1. k[i] \in good /\ \E a \in 1..(m - 1) : list[a] = k[i]
        BY <1>1, <3>1
      <4>2. l[i] = k[i]
        BY <2>2, <3>1
      <4> QED
        BY <1>3, <4>1, <4>2
    <3>2. CASE i = Len(k) + 1
      <4>1. l[i] = list[m]
        BY <2>2, <3>2
      <4> QED
        BY <1>5, <2>4, <4>1
    <3> QED
      BY <2>3, <3>1, <3>2
  <2>6. \A a \in 1..m : list[a] \in good => \E i \in 1..Len(l) : l[i] = list[a]
    <3> SUFFICES ASSUME NEW a \in 1..m, list[a] \in good
                 PROVE  \E i \in 1..Len(l) : l[i] = list[a]
      OBVIOUS
    <3>1. CASE a \in 1..(m - 1)
      <4>1. PICK i \in 1..Len(k) : k[i] = list[a]
        BY <1>1, <3>1
      <4>2. l[i] = list[a] /\ i \in 1..Len(l)
        BY <2>2, <2>4, <4>1
      <4> QED
        BY <4>2
    <3>2. CASE a = m
      BY <2>2, <2>4, <3>2
    <3> QED
      BY <1>2, <3>1, <3>2
  <2>7. ASSUME NEW i \in 1..Len(l), NEW j \in 1..Len(l), i < j
        PROVE  \E a, b \in 1..m : a < b /\ list[a] = l[i] /\ list[b] = l[j]
    <3>1. i \in 1..Len(k) /\ l[i] = k[i]
      BY <1>1, <2>2, <2>7
    <3>2. CASE j \in 1..Len(k)
      <4>1. PICK a \in 1..(m - 1), b \in 1..(m - 1) : a < b /\ list[a] = k[i] /\ list[b] = k[j]
        BY <1>1, <2>7, <3>1, <3>2
      <4>2. l[j] = k[j] /\ a \in 1..m /\ b \in 1..m
        BY <1>3, <2>2, <3>2
      <4> QED
        BY <3>1, <4>1, <4>2
    <3>3. CASE j = Len(k) + 1
      <4>1. PICK a \in 1..(m - 1) : list[a] = k[i]
        BY <1>1, <3>1
      <4>2. a < m /\ a \in 1..m /\ m \in 1..m /\ l[j] = list[m]
        BY <2>2, <3>3
      <4> QED
        BY <3>1, <4>1, <4>2
    <3> QED
      BY <2>3, <3>2, <3>3
  <2>8. Picked(l, S, list, good, m)
    BY <2>2, <2>5, <2>6, <2>7 DEF Picked
  <2> QED
    BY <1>5, <2>8 DEF l
<1> QED
  BY <1>4, <1>5

\* A list is filtered one element at a time.
LEMMA KeptSteps ==
    ASSUME NEW S, NEW list \in Seq(S), NEW good
    PROVE  \E f : Keeps(f, list, good) /\ Kept(list, good) = f[Len(list)]
<1> DEFINE n == Len(list)
           g == [p \in (1..n) \X Seq(S) |->
                    IF list[p[1]] \in good THEN Append(p[2], list[p[1]]) ELSE p[2]]
           Body(it) == [T \in SUBSET (1..n) |->
                           IF T = {} THEN <<>>
                           ELSE IF list[Max(T)] \in good
                                THEN Append(it[T \ {Max(T)}], list[Max(T)])
                                ELSE it[T \ {Max(T)}]]
<1>0. n \in Nat /\ DOMAIN list = 1..n /\ \A i \in 1..n : list[i] \in S
  BY LenProperties
<1> HIDE DEF n
<1>1. g \in [(1..n) \X Seq(S) -> Seq(S)]
  <2> SUFFICES ASSUME NEW i \in 1..n, NEW k \in Seq(S)
               PROVE  (IF list[i] \in good THEN Append(k, list[i]) ELSE k) \in Seq(S)
    OBVIOUS
  <2>1. Append(k, list[i]) \in Seq(S)
    BY <1>0, AppendProperties
  <2> QED
    BY <2>1
<1>2. PICK iter : Folds(iter, 1..n, Seq(S), <<>>, g, Largest(n))
  <2>1. <<>> \in Seq(S)
    BY EmptySeq
  <2> HIDE DEF g
  <2> QED
    BY <1>0, <1>1, <2>1, LeftFoldExists
<1>3. iter = Body(iter)
  <2>1. ASSUME NEW T \in SUBSET (1..n), T # {}
        PROVE  iter[T] = IF list[Max(T)] \in good
                         THEN Append(iter[T \ {Max(T)}], list[Max(T)])
                         ELSE iter[T \ {Max(T)}]
    <3>1. Max(T) \in T
      <4>1. T \in SUBSET (0..n)
        OBVIOUS
      <4> QED
        BY <1>0, <2>1, <4>1, GreatestOf
    <3>2. Max(T) \in 1..n /\ T \ {Max(T)} \in SUBSET (1..n) /\ Largest(n)[T] = Max(T)
      BY <3>1 DEF Largest
    <3>3. iter[T \ {Max(T)}] \in Seq(S)
      BY <1>2, <3>2 DEF Folds
    <3>4. iter[T] = g[<<Max(T), iter[T \ {Max(T)}]>>]
      <4> HIDE DEF g
      <4> QED
        BY <1>2, <2>1, <3>2 DEF Folds
    <3> QED
      BY <3>2, <3>3, <3>4
  <2>2. iter[{}] = <<>>
    BY <1>2 DEF Folds
  <2>3. iter = [T \in SUBSET (1..n) |-> iter[T]]
    BY <1>2 DEF Folds
  <2>4. \A T \in SUBSET (1..n) : iter[T] = Body(iter)[T]
    BY <2>1, <2>2
  <2>5. Body(iter) = [T \in SUBSET (1..n) |-> Body(iter)[T]]
    OBVIOUS
  <2> HIDE DEF Body
  <2> QED
    BY <2>3, <2>4, <2>5
<1>4. Kept(list, good) = (CHOOSE it : it = Body(it))[1..n]
  BY <1>0 DEF Kept, FoldLeft, MapThenFoldSet
<1> DEFINE F == CHOOSE it : it = Body(it)
<1>5. F = Body(F)
  <2> HIDE DEF Body
  <2> QED
    BY <1>3
<1> HIDE DEF F
<1>6. F[{}] = <<>>
  BY <1>5
<1>7. ASSUME NEW i \in 1..n
      PROVE  F[1..i] = IF list[i] \in good THEN Append(F[1..(i - 1)], list[i]) ELSE F[1..(i - 1)]
  <2>1. /\ 1..i \in SUBSET (1..n) /\ 1..i # {}
        /\ Max(1..i) = i /\ (1..i) \ {i} = 1..(i - 1)
    BY <1>0, Initial
  <2>2. Body(F)[1..i] = IF list[Max(1..i)] \in good
                        THEN Append(F[(1..i) \ {Max(1..i)}], list[Max(1..i)])
                        ELSE F[(1..i) \ {Max(1..i)}]
    BY <2>1
  <2> HIDE DEF Body
  <2> QED
    BY <1>5, <2>1, <2>2
<1> DEFINE f == [i \in 0..n |-> F[1..i]]
<1>8. f[0] = <<>>
  BY <1>0, <1>6
<1>9. \A i \in 1..n : f[i] = IF list[i] \in good THEN Append(f[i - 1], list[i]) ELSE f[i - 1]
  BY <1>0, <1>7
<1>10. Kept(list, good) = f[n]
  BY <1>0, <1>4 DEF F
<1> HIDE DEF f
<1>11. Keeps(f, list, good)
  BY <1>8, <1>9 DEF Keeps, n
<1> QED
  BY <1>10, <1>11 DEF n

\* What is kept of a list.
LEMMA KeptPicked ==
    ASSUME NEW S, NEW list \in Seq(S), NEW good
    PROVE  Picked(Kept(list, good), S, list, good, Len(list))
<1> DEFINE n == Len(list)
<1>1. n \in Nat
  BY LenProperties
<1>2. PICK f : Keeps(f, list, good) /\ Kept(list, good) = f[n]
  BY KeptSteps
<1> DEFINE B == {i \in 0..n : ~ Picked(f[i], S, list, good, i)}
<1>3. SUFFICES ASSUME B # {} PROVE FALSE
  <2>1. n \in 0..n
    BY <1>1
  <2> QED
    BY <1>2, <2>1
<1>4. B \in SUBSET Nat
  OBVIOUS
<1>5. PICK m \in B : \A j \in B : m <= j
  <2> HIDE DEF B
  <2> QED
    BY <1>3, <1>4, LeastOf
<1>6. m \in 0..n /\ ~ Picked(f[m], S, list, good, m)
  BY <1>5
<1>7. Picked(f[0], S, list, good, 0)
  <2>1. f[0] = <<>>
    BY <1>2 DEF Keeps
  <2>2. <<>> \in Seq(S) /\ Len(<<>>) = 0 /\ 1..0 = {}
    BY EmptySeq
  <2> QED
    BY <2>1, <2>2 DEF Picked
<1>8. m \in 1..n /\ m - 1 \in 0..n
  BY <1>6, <1>7
<1>9. m - 1 \notin B
  <2>1. ~ (m <= m - 1)
    BY <1>8
  <2> HIDE DEF B
  <2> QED
    BY <1>5, <2>1
<1>10. Picked(f[m - 1], S, list, good, m - 1)
  BY <1>8, <1>9
<1>11. f[m] = IF list[m] \in good THEN Append(f[m - 1], list[m]) ELSE f[m - 1]
  BY <1>2, <1>8 DEF Keeps
<1> HIDE DEF B
<1>12. Picked(f[m], S, list, good, m)
  BY <1>8, <1>10, <1>11, PickedMore
<1> QED
  BY <1>6, <1>12

\* The sum of sizes is a size.
LEMMA SizeIsNat ==
    ASSUME NEW S, NEW list \in Seq(S), \A x \in S : x.text.size \in Nat
    PROVE  SizeOf(list) \in Nat
<1> DEFINE n == Len(list)
<1>1. n \in Nat /\ DOMAIN list = 1..n /\ \A i \in 1..n : list[i] \in S
  BY LenProperties
<1>2. \A i \in 1..n : list[i].text.size \in Nat
  BY <1>1
<1>3. PICK f : Adds(f, list) /\ SizeOf(list) = f[n]
  <2> DEFINE l == n
  <2>1. /\ l \in Nat /\ DOMAIN list = 1..l /\ Len(list) = l
        /\ \A i \in 1..l : list[i].text.size \in Nat
    BY <1>1, <1>2
  <2>2. \E f : Adds(f, list) /\ SizeOf(list) = f[l]
    <3> HIDE DEF l
    <3> QED
      BY <2>1, SizeOfSteps
  <2> QED
    BY <2>2
<1> DEFINE B == {i \in 0..n : f[i] \notin Nat}
<1>4. SUFFICES ASSUME B # {} PROVE FALSE
  <2>1. n \in 0..n
    BY <1>1
  <2> QED
    BY <1>3, <2>1
<1>5. B \in SUBSET Nat
  OBVIOUS
<1>6. PICK m \in B : \A j \in B : m <= j
  <2> HIDE DEF B
  <2> QED
    BY <1>4, <1>5, LeastOf
<1>7. m \in 0..n /\ f[m] \notin Nat
  BY <1>6
<1>8. m \in 1..n /\ m - 1 \in 0..n
  BY <1>3, <1>7 DEF Adds
<1>9. m - 1 \notin B
  <2>1. ~ (m <= m - 1)
    BY <1>8
  <2> HIDE DEF B
  <2> QED
    BY <1>6, <2>1
<1>10. f[m - 1] \in Nat
  BY <1>8, <1>9
<1>11. f[m] = f[m - 1] + list[m].text.size
  BY <1>3, <1>8 DEF Adds
<1>12. list[m].text.size \in Nat
  BY <1>2, <1>8
<1> QED
  BY <1>7, <1>10, <1>11, <1>12

\* A list given element by element.
LEMMA ListOf ==
    ASSUME NEW S, NEW n \in Nat, NEW f \in [1..n -> S]
    PROVE  f \in Seq(S) /\ Len(f) = n /\ DOMAIN f = 1..n
<1>1. f \in Seq(S)
  BY SeqDef
<1>2. Len(f) \in Nat /\ DOMAIN f = 1..Len(f)
  BY <1>1, LenProperties
<1>3. DOMAIN f = 1..n
  OBVIOUS
<1>4. Len(f) = n
  BY <1>2, <1>3
<1> QED
  BY <1>1, <1>3, <1>4

-----------------------------------------------------------------------------
(* What there is of an envelope, a prompt and a reply *)

Speakers == {"user", "history", "content"}
TrustLevels == {"trusted", "semi_trusted", "untrusted"}
ArgumentKinds == {"plain", "injection", "tool_call", "tool_like"}
ToolVerdicts == [tool : STRING, allowed : BOOLEAN, arguments : ArgumentKinds \cup {"none"}]
SectionNames == {"TRUSTED_SYSTEM_POLICY", "DEVELOPER_TASK", "SEMI_TRUSTED_RETRIEVED_CONTEXT",
                 "SEMI_TRUSTED_ASSISTANT_HISTORY", "UNTRUSTED_USER_INPUT",
                 "UNTRUSTED_ATTACHMENTS_METADATA"}
PromptSections == [name : SectionNames, trust : TrustLevels, text : Texts]
Packages == [sections : Seq(PromptSections), size : Nat, residual : BOOLEAN, sliced : BOOLEAN]
Results == [action : {"none", "allow", "redact", "block"}, text : ReplyTexts \cup {NoValue}]
Envelopes == [texts : [Speakers -> Texts], chunks : Seq(Chunks), llmApplied : BOOLEAN,
              decisions : Seq(ToolVerdicts), records : Seq(ToolVerdicts),
              package : Packages, result : Results]

\* A text holds something the patterns can mask and the detectors count.
Open(text) == text.marks \cap {"pii", "key_by_pii"} # {}

\* A text with other marks.
LEMMA TextWithMarks ==
    ASSUME NEW text \in Texts, NEW marks \in SUBSET Marks
    PROVE  LET t == [text EXCEPT !.marks = marks]
           IN  t \in Texts /\ t.size = text.size /\ t.marks = marks
  BY DEF Texts

\* The patterns leave nothing they can mask, near a placeholder or not.
LEMMA PatternsMask ==
    ASSUME NEW text \in Texts, NEW t, t = redact_pii_for_prompt(text)
    PROVE  /\ t \in Texts /\ t.size = text.size
           /\ ~ Open(t) /\ "shielded_pii" \notin t.marks
<1> DEFINE marks == Unmaskable(text.marks)
<1>1. marks \in SUBSET {"key", "shielded_key"}
  BY DEF Unmaskable
<1>2. marks \in SUBSET Marks
  BY <1>1 DEF Marks
<1>3. t = [text EXCEPT !.marks = marks]
  BY DEF redact_pii_for_prompt
<1> HIDE DEF marks
<1>4. t \in Texts /\ t.size = text.size /\ t.marks = marks
  BY <1>2, <1>3, TextWithMarks
<1> QED
  BY <1>1, <1>4 DEF Open

\* The failsafe masks what the detectors count.
LEMMA FailsafeMasks ==
    ASSUME NEW text \in Texts, NEW t, t = apply_residual_failsafe_redaction(text)
    PROVE  t \in Texts /\ t.size = text.size /\ ~ Open(t)
<1>1. CASE detect_regex_residual_sensitive_patterns(text)
  <2>1. t = redact_pii_for_prompt(text)
    BY <1>1 DEF apply_residual_failsafe_redaction
  <2> QED
    BY <2>1, PatternsMask
<1>2. CASE ~ detect_regex_residual_sensitive_patterns(text)
  <2>1. t = text
    BY <1>2 DEF apply_residual_failsafe_redaction
  <2>2. ~ Open(text)
    BY <1>2 DEF detect_regex_residual_sensitive_patterns, Open
  <2> QED
    BY <2>1, <2>2
<1> QED
  BY <1>1, <1>2

\* A redaction leaves a text of the same size; one that gets no answer masks it.
LEMMA RedactionKeepsTexts ==
    ASSUME NEW text \in Texts, NEW call \in Calls
    PROVE  /\ redact_text_with_llm(text, call) \in Texts
           /\ redact_text_with_llm(text, call).size = text.size
           /\ call = "fails" => ~ Open(redact_text_with_llm(text, call))
<1>1. CASE call \in {"fails", "unmasked"}
  <2>1. redact_text_with_llm(text, call) = apply_residual_failsafe_redaction(text)
    BY <1>1 DEF redact_text_with_llm
  <2> QED
    BY <2>1, FailsafeMasks
<1>2. CASE call = "masked"
  <2>1. redact_text_with_llm(text, call) = [text EXCEPT !.marks = {}]
    BY <1>2 DEF redact_text_with_llm
  <2>2. LET t == [text EXCEPT !.marks = {}] IN t \in Texts /\ t.size = text.size
    BY TextWithMarks, {} \in SUBSET Marks
  <2> QED
    BY <1>2, <2>1, <2>2
<1>3. CASE call = "shielded"
  <2> DEFINE marks == Shielded(text.marks)
  <2>1. redact_text_with_llm(text, call) = [text EXCEPT !.marks = marks]
    BY <1>3 DEF redact_text_with_llm
  <2>2. marks \in SUBSET Marks
    BY DEF Shielded, Marks
  <2> HIDE DEF marks
  <2>3. LET t == [text EXCEPT !.marks = marks] IN t \in Texts /\ t.size = text.size
    BY <2>2, TextWithMarks
  <2> QED
    BY <1>3, <2>1, <2>3
<1>4. CASE call = "unflagged"
  BY <1>4 DEF redact_text_with_llm
<1> QED
  BY <1>1, <1>2, <1>3, <1>4 DEF Calls

\* Two chunks but for their texts.
Alike(c, d) ==
    /\ c.tenant = d.tenant /\ c.sensitivity = d.sensitivity /\ c.injection = d.injection
    /\ c.hash = d.hash /\ c.signature = d.signature

\* A chunk with another text.
LEMMA ChunkWithText ==
    ASSUME NEW c \in Chunks, NEW text \in Texts
    PROVE  LET d == [c EXCEPT !.text = text]
           IN  d \in Chunks /\ d.text = text /\ Alike(d, c)
  BY DEF Chunks, Alike

\* A pass of redaction changes texts and nothing else, and masks what the
\* patterns can mask when no call of the model is answered.
LEMMA RedactionPass ==
    ASSUME deployment.guardEnabled \in BOOLEAN, NEW e \in Envelopes, NEW calls \in Endings(e),
           NEW r, r = redact_envelope_pii(e, calls)
    PROVE  /\ r \in Envelopes
           /\ r.decisions = e.decisions /\ r.records = e.records
           /\ r.package = e.package /\ r.result = e.result
           /\ Len(r.chunks) = Len(e.chunks)
           /\ \A i \in 1..Len(e.chunks) : Alike(r.chunks[i], e.chunks[i])
           /\ deployment.guardEnabled /\ NoneAnswered(calls) =>
                  /\ \A k \in Speakers : Open(r.texts[k]) => r.texts[k].size = 0
                  /\ \A i \in 1..Len(e.chunks) : ~ Open(r.chunks[i].text)
<1> DEFINE n == Len(e.chunks)
<1>1. /\ e.texts \in [Speakers -> Texts] /\ e.chunks \in Seq(Chunks)
      /\ e.llmApplied \in BOOLEAN
  BY DEF Envelopes
<1>2. /\ n \in Nat /\ DOMAIN e.chunks = 1..n
      /\ \A i \in 1..n : e.chunks[i] \in Chunks
  BY <1>1, LenProperties
<1>3. Said(e) = {k \in Speakers : e.texts[k].size > 0}
  BY <1>1 DEF Said
<1>4. CASE ~ deployment.guardEnabled
  <2>1. r = [e EXCEPT !.llmApplied = FALSE]
    BY <1>4 DEF redact_envelope_pii
  <2>2. /\ r \in Envelopes
        /\ r.decisions = e.decisions /\ r.records = e.records
        /\ r.package = e.package /\ r.result = e.result /\ r.chunks = e.chunks
    BY <2>1 DEF Envelopes
  <2>3. \A i \in 1..n : Alike(r.chunks[i], e.chunks[i])
    BY <2>2 DEF Alike
  <2> QED
    BY <1>4, <2>2, <2>3
<1>5. CASE deployment.guardEnabled
  <2>1. calls \in [texts : [Said(e) -> Calls], chunks : [DOMAIN e.chunks -> Calls]]
    BY <1>5 DEF Endings
  <2> DEFINE texts == [k \in DOMAIN e.texts |->
                          IF k \in Said(e) THEN redact_text_with_llm(e.texts[k], calls.texts[k])
                                           ELSE e.texts[k]]
             chunks == [i \in DOMAIN e.chunks |->
                          [e.chunks[i] EXCEPT !.text = redact_text_with_llm(@, calls.chunks[i])]]
             Changed(call) == call \in {"masked", "shielded"}
             flagged == \/ \E k \in Said(e) :
                               Changed(calls.texts[k]) \/ texts[k] # e.texts[k]
                        \/ \E i \in DOMAIN chunks :
                               Changed(calls.chunks[i]) \/ chunks[i] # e.chunks[i]
  <2>2. r = [e EXCEPT !.texts = texts, !.chunks = chunks, !.llmApplied = @ \/ flagged]
    BY <1>5 DEF redact_envelope_pii
  <2>3. \A k \in Said(e) : e.texts[k] \in Texts /\ calls.texts[k] \in Calls
    BY <1>1, <1>3, <2>1
  <2>4. texts \in [Speakers -> Texts]
    <3>1. \A k \in Said(e) : redact_text_with_llm(e.texts[k], calls.texts[k]) \in Texts
      BY <2>3, RedactionKeepsTexts
    <3> QED
      BY <1>1, <3>1
  <2>5. \A i \in 1..n : /\ calls.chunks[i] \in Calls /\ e.chunks[i].text \in Texts
    BY <1>2, <2>1 DEF Chunks
  <2>6. \A i \in 1..n : redact_text_with_llm(e.chunks[i].text, calls.chunks[i]) \in Texts
    BY <2>5, RedactionKeepsTexts
  <2>7. /\ DOMAIN chunks = DOMAIN e.chunks /\ DOMAIN chunks = 1..n
        /\ \A i \in 1..n : chunks[i] = [e.chunks[i] EXCEPT
                !.text = redact_text_with_llm(e.chunks[i].text, calls.chunks[i])]
    BY <1>2
  <2>8. ASSUME NEW i \in 1..n
        PROVE  /\ chunks[i] \in Chunks /\ Alike(chunks[i], e.chunks[i])
               /\ chunks[i].text = redact_text_with_llm(e.chunks[i].text, calls.chunks[i])
    <3> DEFINE text == redact_text_with_llm(e.chunks[i].text, calls.chunks[i])
    <3>1. e.chunks[i] \in Chunks /\ text \in Texts
      BY <1>2, <2>6
    <3>2. chunks[i] = [e.chunks[i] EXCEPT !.text = text]
      BY <2>7
    <3> HIDE DEF text, chunks
    <3>3. chunks[i] \in Chunks /\ Alike(chunks[i], e.chunks[i]) /\ chunks[i].text = text
      BY <3>1, <3>2, ChunkWithText
    <3> QED
      BY <3>3 DEF text
  <2>9. chunks \in Seq(Chunks) /\ Len(chunks) = n
    <3>1. chunks \in [1..n -> Chunks]
      BY <1>2, <2>8
    <3> HIDE DEF chunks, n
    <3> QED
      BY <1>2, <3>1, ListOf
  <2>10. /\ r \in Envelopes
         /\ r.decisions = e.decisions /\ r.records = e.records
         /\ r.package = e.package /\ r.result = e.result
         /\ r.texts = texts /\ r.chunks = chunks
    <3> HIDE DEF texts, chunks, flagged
    <3>1. (e.llmApplied \/ flagged) \in BOOLEAN
      BY <1>1
    <3> QED
      BY <2>2, <2>4, <2>9, <3>1 DEF Envelopes
  <2>11. ASSUME NoneAnswered(calls)
         PROVE  /\ \A k \in Speakers : Open(r.texts[k]) => r.texts[k].size = 0
                /\ \A i \in 1..n : ~ Open(r.chunks[i].text)
    <3>1. /\ \A k \in Said(e) : calls.texts[k] = "fails"
          /\ \A i \in 1..n : calls.chunks[i] = "fails"
      BY <1>2, <2>1, <2>11 DEF NoneAnswered
    <3>2. ASSUME NEW k \in Speakers, Open(texts[k])
          PROVE  texts[k].size = 0
      <4>1. CASE k \in Said(e)
        <5>1. texts[k] = redact_text_with_llm(e.texts[k], calls.texts[k])
          BY <1>1, <4>1
        <5>2. ~ Open(texts[k])
          BY <2>3, <3>1, <4>1, <5>1, RedactionKeepsTexts
        <5> QED
          BY <3>2, <5>2
      <4>2. CASE k \notin Said(e)
        <5>1. texts[k] = e.texts[k]
          BY <1>1, <4>2
        <5>2. e.texts[k].size \in Nat /\ ~ (e.texts[k].size > 0)
          BY <1>1, <1>3, <4>2 DEF Texts
        <5> QED
          BY <5>1, <5>2
      <4> QED
        BY <4>1, <4>2
    <3>3. ASSUME NEW i \in 1..n PROVE ~ Open(chunks[i].text)
      <4>1. ~ Open(redact_text_with_llm(e.chunks[i].text, calls.chunks[i]))
        BY <2>5, <3>1, RedactionKeepsTexts
      <4>2. chunks[i].text = redact_text_with_llm(e.chunks[i].text, calls.chunks[i])
        BY <2>8
      <4> QED
        BY <4>1, <4>2
    <3> QED
      BY <2>10, <3>2, <3>3
  <2>12. \A i \in 1..n : Alike(r.chunks[i], e.chunks[i])
    <3> HIDE DEF chunks
    <3> QED
      BY <2>8, <2>10
  <2> QED
    BY <2>9, <2>10, <2>11, <2>12
<1> QED
  BY <1>4, <1>5

-----------------------------------------------------------------------------
(* The decisions that let a request in *)

\* None of them lets anything confidential through.
LEMMA LetInDecisions ==
    ASSUME NEW d \in LetIn
    PROVE  d.sensitivity \in {"public", "internal"}
<1>1. CASE d = default_decision
  BY <1>1 DEF default_decision, Decision
<1>2. CASE \E i \in DOMAIN rules : d = rules[i].decision
  <2>1. PICK i \in 1..29 : d = rules[i].decision
    BY <1>2, RulesAre
  <2>2. d.action \notin {"deny", "challenge"}
    BY DEF LetIn
  <2>3. d # Deny /\ d # Challenge
    BY <2>2 DEF Deny, Challenge, Decision
  <2>4. CASE i \in 18..25
    <3>1. d = Limited
      BY <2>1, <2>4, GroupDecisions
    <3> QED
      BY <3>1 DEF Limited, Decision
  <2>5. CASE i \in 27..29
    BY <2>1, <2>5, GroupDecisions
  <2>6. i \in 18..25 \/ i \in 27..29
    <3>1. i \notin 1..14 /\ i \notin 15..17 /\ i # 26
      BY <2>1, <2>3, GroupDecisions
    <3> QED
      BY <3>1
  <2> QED
    BY <2>4, <2>5, <2>6
<1>3. d = default_decision \/ \E i \in DOMAIN rules : d = rules[i].decision
  BY DEF LetIn
<1> QED
  BY <1>1, <1>2, <1>3

\* What such a decision caps.
LEMMA WithinLetIn ==
    ASSUME NEW d \in LetIn, NEW s \in DOMAIN sensitivity_rank
    PROVE  /\ Within(s, d) => s \in {"public", "internal"}
           /\ Within(s, d) /\ d.sensitivity = "public" => s = "public"
<1>1. d.sensitivity \in {"public", "internal"}
  BY LetInDecisions
<1> QED
  BY <1>1 DEF Within, sensitivity_rank

-----------------------------------------------------------------------------
(* Retrieval *)

\* A chunk that a request may see.
Admissible(c, tenant, decision, hasKey) ==
    /\ OfTenant(c, tenant)
    /\ Within(c.sensitivity, decision)
    /\ is_chunk_integrity_valid(c, hasKey)
    /\ ~ c.injection

\* Nothing else comes back from retrieval.
LEMMA Retrieved ==
    ASSUME NEW fetched \in Seq(Chunks), NEW tenant, NEW decision, NEW hasKey,
           NEW chunks, chunks = retrieve(fetched, tenant, decision, hasKey)
    PROVE  /\ chunks \in Seq(Chunks)
           /\ \A i \in 1..Len(chunks) : /\ decision.retrieval
                                        /\ Admissible(chunks[i], tenant, decision, hasKey)
<1>1. CASE ~ decision.retrieval
  <2>1. chunks = <<>>
    BY <1>1 DEF retrieve
  <2>2. <<>> \in Seq(Chunks) /\ Len(<<>>) = 0
    BY EmptySeq
  <2> QED
    BY <2>1, <2>2
<1>2. CASE decision.retrieval
  <2> DEFINE good == {c \in ToSet(fetched) : /\ OfTenant(c, tenant)
                                             /\ Within(c.sensitivity, decision)
                                             /\ is_chunk_integrity_valid(c, hasKey)}
             first == Kept(fetched, good)
             calm == {c \in ToSet(first) : ~ c.injection}
  <2>1. first = filter_chunks(fetched, tenant, decision, hasKey)
    BY DEF filter_chunks
  <2>2. chunks = Kept(first, calm)
    BY <1>2, <2>1 DEF retrieve, filter_chunks_for_injection
  <2>3. Picked(first, Chunks, fetched, good, Len(fetched))
    <3> HIDE DEF good
    <3> QED
      BY KeptPicked
  <2>4. first \in Seq(Chunks) /\ \A a \in 1..Len(first) : first[a] \in good
    <3> HIDE DEF first, good
    <3> QED
      BY <2>3 DEF Picked
  <2>5. Picked(chunks, Chunks, first, calm, Len(first))
    <3>1. first \in Seq(Chunks)
      BY <2>4
    <3> HIDE DEF first, calm
    <3> QED
      BY <2>2, <3>1, KeptPicked
  <2>6. /\ chunks \in Seq(Chunks)
        /\ \A i \in 1..Len(chunks) :
               chunks[i] \in calm /\ \E a \in 1..Len(first) : first[a] = chunks[i]
    <3> HIDE DEF first, calm
    <3> QED
      BY <2>5 DEF Picked
  <2>7. ASSUME NEW i \in 1..Len(chunks)
        PROVE  Admissible(chunks[i], tenant, decision, hasKey)
    <3>1. chunks[i] \in calm /\ chunks[i] \in good
      <4> HIDE DEF calm, good, first
      <4> QED
        BY <2>4, <2>6
    <3> QED
      BY <3>1 DEF Admissible
  <2> QED
    BY <1>2, <2>6, <2>7
<1> QED
  BY <1>1, <1>2

-----------------------------------------------------------------------------
(* Tools *)

\* The last of the decisions that is on a tool of that name.
IsLast(m, name, ds) ==
    /\ ds[m].tool = name
    /\ \A j \in 1..Len(ds) : ds[j].tool = name => j <= m

\* The decision that a tool is run by.
LEMMA LastOnIs ==
    ASSUME NEW ds, Len(ds) \in Nat, NEW i \in 1..Len(ds)
    PROVE  \E m \in 1..Len(ds) : LastOn(ds[i].tool, ds) = ds[m] /\ IsLast(m, ds[i].tool, ds)
<1> DEFINE n == Len(ds)
           name == ds[i].tool
           I == {j \in 1..n : ds[j].tool = name}
           m == Max(I)
<1>1. n \in Nat /\ I \in SUBSET (0..n) /\ I # {}
  OBVIOUS
<1>2. m \in I /\ \A j \in I : j <= m
  <2> HIDE DEF I, n
  <2> QED
    BY <1>1, GreatestOf
<1>3. LastOn(name, ds) = ds[m]
  BY <1>1 DEF LastOn, SelectLastInSeq
<1>4. m \in 1..n /\ IsLast(m, name, ds)
  <2>1. m \in I
    BY <1>2
  <2> HIDE DEF m
  <2> QED
    BY <1>2, <2>1 DEF IsLast
<1> HIDE DEF m
<1> QED
  BY <1>3, <1>4

\* What is decided on each tool asked for.
LEMMA ToolsDecided ==
    ASSUME NEW requests \in Seq(ToolRequests), NEW decision, NEW label, NEW permissions,
           NEW ds, ds = evaluate_requested_tools(requests, decision, label, permissions)
    PROVE  /\ ds \in Seq(ToolVerdicts) /\ Len(ds) = Len(requests)
           /\ \A i \in 1..Len(requests) :
                  /\ ds[i].tool = requests[i].name
                  /\ ds[i].allowed =>
                         /\ ToolAllowed(requests[i], decision, label, permissions)
                         /\ ds[i].arguments = requests[i].arguments
<1> DEFINE n == Len(requests)
           Allowed(i) == ToolAllowed(requests[i], decision, label, permissions)
<1>1. n \in Nat /\ DOMAIN requests = 1..n /\ \A i \in 1..n : requests[i] \in ToolRequests
  BY LenProperties
<1>2. ASSUME NEW i \in 1..n PROVE Allowed(i) \in BOOLEAN
  BY DEF ToolAllowed
<1>3. /\ DOMAIN ds = 1..n
      /\ ds = [i \in 1..n |-> ToolDecision(requests[i], Allowed(i))]
  BY <1>1 DEF evaluate_requested_tools
<1>4. ASSUME NEW i \in 1..n
      PROVE  /\ ds[i] \in ToolVerdicts
             /\ ds[i].tool = requests[i].name
             /\ ds[i].allowed => Allowed(i) /\ ds[i].arguments = requests[i].arguments
  <2>1. ds[i] = ToolDecision(requests[i], Allowed(i))
    BY <1>3
  <2>2. requests[i] \in ToolRequests /\ Allowed(i) \in BOOLEAN
    BY <1>1, <1>2
  <2>3. requests[i].name \in STRING /\ requests[i].arguments \in ArgumentKinds
    BY <2>2 DEF ToolRequests, ArgumentKinds
  <2> HIDE DEF Allowed, n
  <2>4. CASE Allowed(i) = TRUE
    <3>1. ds[i] = ToolDecision(requests[i], TRUE)
      BY <2>1, <2>4
    <3> QED
      BY <2>3, <2>4, <3>1 DEF ToolDecision, ToolVerdicts
  <2>5. CASE Allowed(i) = FALSE
    <3>1. ds[i] = ToolDecision(requests[i], FALSE)
      BY <2>1, <2>5
    <3> QED
      BY <2>3, <3>1 DEF ToolDecision, ToolVerdicts
  <2> QED
    BY <2>2, <2>4, <2>5
<1>5. ds \in [1..n -> ToolVerdicts]
  <2> HIDE DEF n, Allowed
  <2>1. \A i \in 1..n : ds[i] \in ToolVerdicts
    BY <1>4
  <2> QED
    BY <1>3, <2>1
<1>6. ds \in Seq(ToolVerdicts) /\ Len(ds) = n
  <2> HIDE DEF n, Allowed
  <2> QED
    BY <1>1, <1>5, ListOf
<1> QED
  BY <1>4, <1>6

\* A tool is run as the last decision on it says, unless its arguments look like
\* a call.
RunBy(record, name, ds) ==
    \E m \in 1..Len(ds) :
        /\ IsLast(m, name, ds)
        /\ record.allowed <=> ds[m].allowed /\ ds[m].arguments # "tool_like"
        /\ record.allowed => record.arguments = ds[m].arguments

\* What is run of it, and with what.
LEMMA ToolsRun ==
    ASSUME NEW n \in Nat, NEW requests, DOMAIN requests = 1..n,
           NEW ds \in Seq(ToolVerdicts), Len(ds) = n,
           \A i \in 1..n : ds[i].tool = requests[i].name,
           NEW rs, rs = execute_allowed_tools(requests, ds)
    PROVE  /\ rs \in Seq(ToolVerdicts) /\ Len(rs) = n
           /\ \A i \in 1..n : /\ rs[i].tool = requests[i].name
                             /\ RunBy(rs[i], requests[i].name, ds)
<1>1. rs = [i \in 1..n |->
              LET last == LastOn(requests[i].name, ds)
                  runs == last.allowed /\ last.arguments # "tool_like"
              IN  [tool |-> requests[i].name, allowed |-> runs,
                   arguments |-> IF runs THEN last.arguments ELSE "none"]]
  BY DEF execute_allowed_tools
<1>2. ASSUME NEW i \in 1..n
      PROVE  /\ rs[i] \in ToolVerdicts
             /\ rs[i].tool = requests[i].name
             /\ RunBy(rs[i], requests[i].name, ds)
  <2>1. ds[i].tool = requests[i].name
    OBVIOUS
  <2>2. PICK m \in 1..n : LastOn(ds[i].tool, ds) = ds[m] /\ IsLast(m, ds[i].tool, ds)
    BY LastOnIs
  <2> DEFINE runs == ds[m].allowed /\ ds[m].arguments # "tool_like"
  <2>3. rs[i] = [tool |-> ds[i].tool, allowed |-> runs,
                 arguments |-> IF runs THEN ds[m].arguments ELSE "none"]
    BY <1>1, <2>1, <2>2
  <2>4. ds[m] \in ToolVerdicts /\ ds[i] \in ToolVerdicts
    BY ElementOfSeq
  <2>5. runs \in BOOLEAN
    OBVIOUS
  <2>6. /\ rs[i] \in ToolVerdicts /\ rs[i].tool = ds[i].tool /\ (rs[i].allowed <=> runs)
        /\ rs[i].allowed => rs[i].arguments = ds[m].arguments
    <3>1. ds[i].tool \in STRING /\ ds[m].arguments \in ArgumentKinds \cup {"none"}
      BY <2>4 DEF ToolVerdicts
    <3> HIDE DEF runs
    <3>2. CASE runs = TRUE
      <4>1. rs[i] = [tool |-> ds[i].tool, allowed |-> TRUE, arguments |-> ds[m].arguments]
        BY <2>3, <3>2
      <4> QED
        BY <3>1, <3>2, <4>1 DEF ToolVerdicts
    <3>3. CASE runs = FALSE
      <4>1. rs[i] = [tool |-> ds[i].tool, allowed |-> FALSE, arguments |-> "none"]
        BY <2>3, <3>3
      <4> QED
        BY <3>1, <3>3, <4>1 DEF ToolVerdicts
    <3> QED
      BY <2>5, <3>2, <3>3
  <2>7. RunBy(rs[i], requests[i].name, ds)
    BY <2>1, <2>2, <2>6 DEF RunBy
  <2> QED
    BY <2>1, <2>6, <2>7
<1>3. rs \in [1..n -> ToolVerdicts]
  BY <1>1, <1>2
<1>4. rs \in Seq(ToolVerdicts) /\ Len(rs) = n
  BY <1>3, ListOf
<1> QED
  BY <1>2, <1>4

-----------------------------------------------------------------------------
(* The prompt *)

Rank(section) == trust_order[section.trust]
Rising(s) == \A i, j \in 1..Len(s) : i < j => Rank(s[i]) <= Rank(s[j])
Falling(s) == \A i, j \in 1..Len(s) : i < j => Rank(s[j]) <= Rank(s[i])

\* Every element of one list is one of the other.
From(s, t) == \A i \in 1..Len(s) : \E j \in 1..Len(t) : t[j] = s[i]

\* There are three levels of trust.
LEMMA RankRange ==
    ASSUME NEW s \in PromptSections
    PROVE  Rank(s) \in 0..2
  BY DEF PromptSections, TrustLevels, Rank, trust_order

\* Sections in order of trust, none without a text, of the texts they are built of.
BuiltOf(s, user, history, chunks) ==
    /\ s \in Seq(PromptSections)
    /\ Rising(s)
    /\ \A i \in 1..Len(s) :
           /\ s[i].text.size > 0
           /\ \/ s[i].text.marks = {}
              \/ s[i].text \in {user, history, chunks}
              \/ s[i].name = "UNTRUSTED_ATTACHMENTS_METADATA"

\* The sections of a prompt are.
LEMMA SectionsAre ==
    ASSUME NEW mode, NEW user \in Texts, NEW history \in Texts, NEW attachments \in Texts,
           NEW chunks \in Texts, NEW s, s = Sections(mode, user, history, attachments, chunks)
    PROVE  BuiltOf(s, user, history, chunks)
<1> DEFINE all == AllSections(mode, user, history, attachments, chunks)
           good == {x \in ToSet(all) : x.text.size > 0}
<1>1. PolicySize(mode) \in Nat
  BY DEF PolicySize
<1>2. /\ all \in Seq(PromptSections) /\ Len(all) = 6
      /\ \A i \in 1..6 : \/ all[i].text.marks = {}
                         \/ all[i].text \in {user, history, chunks}
                         \/ all[i].name = "UNTRUSTED_ATTACHMENTS_METADATA"
      /\ all[1].trust = "trusted" /\ all[2].trust = "trusted"
      /\ all[3].trust = "semi_trusted" /\ all[4].trust = "semi_trusted"
      /\ all[5].trust = "untrusted" /\ all[6].trust = "untrusted"
  <2> DEFINE said == IF mode = "restricted" THEN NoText ELSE history
             policy == Text({}, PolicySize(mode))
             task == Text({}, 1)
             a == Section("TRUSTED_SYSTEM_POLICY", "trusted", policy)
             b == Section("DEVELOPER_TASK", "trusted", task)
             c == Section("SEMI_TRUSTED_RETRIEVED_CONTEXT", "semi_trusted", chunks)
             d == Section("SEMI_TRUSTED_ASSISTANT_HISTORY", "semi_trusted", said)
             f == Section("UNTRUSTED_USER_INPUT", "untrusted", user)
             g == Section("UNTRUSTED_ATTACHMENTS_METADATA", "untrusted", attachments)
  <2>1. /\ policy \in Texts /\ policy.marks = {} /\ task \in Texts /\ task.marks = {}
        /\ said \in Texts /\ (said.marks = {} \/ said = history)
    BY <1>1 DEF Text, NoText, Texts, Marks
  <2>2. all = <<a, b, c, d, f, g>>
    BY DEF AllSections
  <2> HIDE DEF said, policy, task
  <2>3. /\ a \in PromptSections /\ a.text = policy /\ a.trust = "trusted"
        /\ b \in PromptSections /\ b.text = task /\ b.trust = "trusted"
        /\ c \in PromptSections /\ c.text = chunks /\ c.trust = "semi_trusted"
        /\ d \in PromptSections /\ d.text = said /\ d.trust = "semi_trusted"
        /\ f \in PromptSections /\ f.text = user /\ f.trust = "untrusted"
        /\ g \in PromptSections /\ g.trust = "untrusted"
        /\ g.name = "UNTRUSTED_ATTACHMENTS_METADATA"
    BY <2>1 DEF Section, PromptSections, SectionNames, TrustLevels
  <2> HIDE DEF a, b, c, d, f, g, all
  <2>4. all \in Seq(PromptSections) /\ Len(all) = 6
    BY <2>2, <2>3
  <2>5. all[1] = a /\ all[2] = b /\ all[3] = c /\ all[4] = d /\ all[5] = f /\ all[6] = g
    BY <2>2
  <2> QED
    BY <2>1, <2>3, <2>4, <2>5
<1>3. Rising(all)
  BY <1>2 DEF Rising, Rank, trust_order
<1>4. s = Kept(all, good)
  BY DEF Sections
<1>5. Picked(s, PromptSections, all, good, 6)
  <2>1. all \in Seq(PromptSections) /\ Len(all) = 6
    BY <1>2
  <2> HIDE DEF all, good
  <2> QED
    BY <1>4, <2>1, KeptPicked
<1> HIDE DEF all
<1>6. /\ s \in Seq(PromptSections)
      /\ \A i \in 1..Len(s) : s[i] \in good /\ \E a \in 1..6 : all[a] = s[i]
      /\ \A i, j \in 1..Len(s) : i < j =>
             \E a, b \in 1..6 : a < b /\ all[a] = s[i] /\ all[b] = s[j]
  <2> HIDE DEF good
  <2> QED
    BY <1>5 DEF Picked
<1>7. Rising(s)
  <2> SUFFICES ASSUME NEW i \in 1..Len(s), NEW j \in 1..Len(s), i < j
               PROVE  Rank(s[i]) <= Rank(s[j])
    BY DEF Rising
  <2>1. PICK a \in 1..6, b \in 1..6 : a < b /\ all[a] = s[i] /\ all[b] = s[j]
    BY <1>6
  <2>2. Rank(all[a]) <= Rank(all[b])
    BY <1>2, <1>3, <2>1 DEF Rising
  <2> QED
    BY <2>1, <2>2
<1> QED
  BY <1>2, <1>6, <1>7 DEF BuiltOf

\* The redaction of the prompt changes texts only, and only masks.
LEMMA TreatedAre ==
    ASSUME NEW s \in Seq(PromptSections), NEW llmApplied, NEW llmOnly,
           NEW t, t = Treated(s, llmApplied, llmOnly)
    PROVE  /\ t \in Seq(PromptSections) /\ Len(t) = Len(s)
           /\ \A i \in 1..Len(s) :
                  /\ t[i].trust = s[i].trust /\ t[i].name = s[i].name
                  /\ Open(t[i].text) => Open(s[i].text)
                  /\ llmApplied \/ llmOnly \/ "shielded_pii" \notin t[i].text.marks
<1>1. CASE llmApplied \/ llmOnly
  BY <1>1 DEF Treated
<1>2. CASE ~ (llmApplied \/ llmOnly)
  <2> DEFINE n == Len(s)
  <2>1. n \in Nat /\ DOMAIN s = 1..n /\ \A i \in 1..n : s[i] \in PromptSections
    BY LenProperties
  <2>2. t = [i \in 1..n |-> [s[i] EXCEPT !.text = redact_pii_for_prompt(s[i].text)]]
    BY <1>2, <2>1 DEF Treated
  <2> HIDE DEF n
  <2>3. ASSUME NEW x \in PromptSections,
               NEW y, y = [x EXCEPT !.text = redact_pii_for_prompt(x.text)]
        PROVE  /\ y \in PromptSections /\ y.trust = x.trust /\ y.name = x.name
               /\ ~ Open(y.text) /\ "shielded_pii" \notin y.text.marks
    <3> DEFINE r == redact_pii_for_prompt(x.text)
    <3>1. x.text \in Texts /\ r = redact_pii_for_prompt(x.text)
      BY DEF PromptSections
    <3>2. y = [x EXCEPT !.text = r]
      BY <2>3
    <3> HIDE DEF r
    <3>3. r \in Texts /\ ~ Open(r) /\ "shielded_pii" \notin r.marks
      BY <3>1, PatternsMask
    <3>4. y \in PromptSections /\ y.trust = x.trust /\ y.name = x.name /\ y.text = r
      BY <3>2, <3>3 DEF PromptSections
    <3> QED
      BY <3>3, <3>4
  <2>4. ASSUME NEW i \in 1..n
        PROVE  /\ t[i] \in PromptSections /\ t[i].trust = s[i].trust /\ t[i].name = s[i].name
               /\ ~ Open(t[i].text) /\ "shielded_pii" \notin t[i].text.marks
    <3>1. s[i] \in PromptSections /\ t[i] = [s[i] EXCEPT !.text = redact_pii_for_prompt(s[i].text)]
      BY <2>1, <2>2
    <3> QED
      BY <2>3, <3>1
  <2>5. t \in [1..n -> PromptSections]
    BY <2>2, <2>4
  <2>6. t \in Seq(PromptSections) /\ Len(t) = n
    BY <2>1, <2>5, ListOf
  <2> QED
    BY <2>4, <2>6 DEF n
<1> QED
  BY <1>1, <1>2

\* The chunks as one text.
LEMMA ChunkTextIs ==
    ASSUME NEW chunks \in Seq(Chunks), NEW text, text = ChunkText(chunks)
    PROVE  /\ text \in Texts
           /\ (\A i \in 1..Len(chunks) : ~ Open(chunks[i].text)) => ~ Open(text)
<1>1. \A x \in Chunks : x.text.size \in Nat /\ x.text.marks \in SUBSET Marks
  BY DEF Chunks, Texts
<1>2. SizeOf(chunks) \in Nat
  BY <1>1, SizeIsNat
<1>3. /\ DOMAIN chunks = 1..Len(chunks)
      /\ \A i \in 1..Len(chunks) : chunks[i] \in Chunks
  BY LenProperties
<1> DEFINE marks == UNION {c.text.marks : c \in ToSet(chunks)}
<1>4. text = Text(marks, SizeOf(chunks))
  BY DEF ChunkText
<1>5. \A m \in marks : \E i \in 1..Len(chunks) : m \in chunks[i].text.marks
  BY <1>3 DEF ToSet
<1> HIDE DEF marks
<1>6. marks \in SUBSET Marks
  BY <1>1, <1>3, <1>5
<1>7. text \in Texts /\ text.marks = marks
  BY <1>2, <1>4, <1>6 DEF Text, Texts
<1>8. Open(text) => \E i \in 1..Len(chunks) : Open(chunks[i].text)
  BY <1>5, <1>7 DEF Open
<1> QED
  BY <1>7, <1>8

\* What is sensitive in a prompt is known to be.
Marked(package) ==
    \A i \in 1..Len(package.sections) :
        detect_regex_residual_sensitive_patterns(package.sections[i].text) => package.residual

\* Nothing is left in a prompt that the patterns mask, but for attachments' names.
Masked(package) ==
    \A i \in 1..Len(package.sections) :
        Open(package.sections[i].text) =>
            package.sections[i].name = "UNTRUSTED_ATTACHMENTS_METADATA"

\* Nor, unless the sections are taken as they are, near a placeholder.
Unshielded(package) ==
    \A i \in 1..Len(package.sections) :
        "shielded_pii" \notin package.sections[i].text.marks

\* No chunk holds any of it.
NoPii(chunks) == \A i \in 1..Len(chunks) : ~ Open(chunks[i].text)

\* The prompt as built: its sections in order of trust, its size theirs, the
\* alert's flag up exactly if a section holds something sensitive; nothing the
\* patterns mask but where there was some.
LEMMA BuildIs ==
    ASSUME NEW mode, NEW user \in Texts, NEW history \in Texts, NEW attachments \in Texts,
           NEW chunks \in Seq(Chunks), NEW llmApplied, NEW llmOnly,
           NEW p, p = build(mode, user, history, attachments, chunks, llmApplied, llmOnly)
    PROVE  /\ p \in Packages
           /\ Rising(p.sections)
           /\ p.size = SizeOf(p.sections)
           /\ Marked(p)
           /\ llmApplied \/ llmOnly \/ Unshielded(p)
           /\ (/\ Open(user) => user.size = 0
               /\ Open(history) => history.size = 0
               /\ NoPii(chunks)) => Masked(p)
<1> DEFINE text == ChunkText(chunks)
           s == Sections(mode, user, history, attachments, text)
           t == Treated(s, llmApplied, llmOnly)
<1>1. p = [sections |-> t, size |-> SizeOf(t), residual |-> Residual(t), sliced |-> FALSE]
  BY DEF build
<1>2. /\ text \in Texts
      /\ (\A i \in 1..Len(chunks) : ~ Open(chunks[i].text)) => ~ Open(text)
  <2> HIDE DEF text
  <2>1. text = ChunkText(chunks)
    BY DEF text
  <2> QED
    BY <2>1, ChunkTextIs
<1>3. s = Sections(mode, user, history, attachments, text)
  OBVIOUS
<1>4. t = Treated(s, llmApplied, llmOnly)
  OBVIOUS
<1> HIDE DEF text, s, t
<1>5. /\ s \in Seq(PromptSections) /\ Rising(s)
      /\ \A i \in 1..Len(s) :
             /\ s[i].text.size > 0
             /\ \/ s[i].text.marks = {}
                \/ s[i].text \in {user, history, text}
                \/ s[i].name = "UNTRUSTED_ATTACHMENTS_METADATA"
  <2>1. BuiltOf(s, user, history, text)
    BY <1>2, <1>3, SectionsAre
  <2> QED
    BY <2>1 DEF BuiltOf
<1>6. /\ t \in Seq(PromptSections) /\ Len(t) = Len(s)
      /\ \A i \in 1..Len(s) :
             /\ t[i].trust = s[i].trust /\ t[i].name = s[i].name
             /\ Open(t[i].text) => Open(s[i].text)
             /\ llmApplied \/ llmOnly \/ "shielded_pii" \notin t[i].text.marks
  BY <1>4, <1>5, TreatedAre
<1>7. \A x \in PromptSections : x.text.size \in Nat
  BY DEF PromptSections, Texts
<1>8. SizeOf(t) \in Nat
  BY <1>6, <1>7, SizeIsNat
<1>9. DOMAIN t = 1..Len(t)
  BY <1>6, LenProperties
<1>10. Residual(t) \in BOOLEAN
  BY DEF Residual
<1>11. \A i \in 1..Len(t) : detect_regex_residual_sensitive_patterns(t[i].text) => Residual(t)
  BY <1>9 DEF Residual, ToSet
<1>12. p \in Packages /\ p.sections = t /\ p.size = SizeOf(t) /\ (p.residual <=> Residual(t))
  BY <1>1, <1>6, <1>8, <1>10 DEF Packages
<1>13. Rising(t)
  BY <1>5, <1>6 DEF Rising, Rank
<1>14. ASSUME Open(user) => user.size = 0, Open(history) => history.size = 0,
              NoPii(chunks),
              NEW i \in 1..Len(t), Open(t[i].text)
       PROVE  t[i].name = "UNTRUSTED_ATTACHMENTS_METADATA"
  <2>1. Open(s[i].text) /\ s[i].text.size > 0 /\ t[i].name = s[i].name
    BY <1>5, <1>6, <1>14
  <2>2. s[i].text \notin {user, history, text}
    BY <1>2, <1>14, <2>1 DEF NoPii
  <2>3. s[i].text.marks # {}
    BY <2>1 DEF Open
  <2> QED
    BY <1>5, <1>6, <2>1, <2>2, <2>3
<1>15. Marked(p)
  BY <1>11, <1>12 DEF Marked
<1>16. ASSUME Open(user) => user.size = 0, Open(history) => history.size = 0,
              NoPii(chunks)
       PROVE  Masked(p)
  BY <1>12, <1>14, <1>16 DEF Masked
<1>17. llmApplied \/ llmOnly \/ Unshielded(p)
  BY <1>6, <1>12 DEF Unshielded
<1> QED
  BY <1>12, <1>13, <1>15, <1>16, <1>17

-----------------------------------------------------------------------------
(* The budget *)

\* k is the sections of s of one trust.
OfLevel(k, s, l) ==
    /\ k \in Seq(PromptSections)
    /\ \A i \in 1..Len(k) : k[i].trust = l /\ \E a \in 1..Len(s) : s[a] = k[i]
    /\ \A a \in 1..Len(s) : s[a].trust = l => \E i \in 1..Len(k) : k[i] = s[a]

\* OfTrust picks them.
LEMMA OfTrustIs ==
    ASSUME NEW s \in Seq(PromptSections), NEW l
    PROVE  OfLevel(OfTrust(s, l), s, l)
<1> DEFINE good == {x \in ToSet(s) : x.trust = l}
           k == OfTrust(s, l)
<1>1. k = Kept(s, good)
  BY DEF OfTrust
<1> HIDE DEF k
<1>2. Picked(k, PromptSections, s, good, Len(s))
  <2> HIDE DEF good
  <2> QED
    BY <1>1, KeptPicked
<1>3. \A a \in 1..Len(s) : s[a] \in ToSet(s)
  BY LenProperties DEF ToSet
<1>4. /\ k \in Seq(PromptSections)
      /\ \A i \in 1..Len(k) : k[i] \in good /\ \E a \in 1..Len(s) : s[a] = k[i]
      /\ \A a \in 1..Len(s) : s[a] \in good => \E i \in 1..Len(k) : k[i] = s[a]
  <2> HIDE DEF good
  <2> QED
    BY <1>2 DEF Picked
<1>5. \A a \in 1..Len(s) : s[a].trust = l => s[a] \in good
  BY <1>3
<1>6. OfLevel(k, s, l)
  BY <1>4, <1>5 DEF OfLevel
<1> QED
  BY <1>6 DEF k

\* Three lists put together.
LEMMA ThreeJoined ==
    ASSUME NEW S, NEW a \in Seq(S), NEW b \in Seq(S), NEW c \in Seq(S),
           NEW w, w = a \o b \o c
    PROVE  /\ w \in Seq(S)
           /\ Len(a) \in Nat /\ Len(b) \in Nat /\ Len(c) \in Nat
           /\ Len(w) = Len(a) + Len(b) + Len(c)
           /\ \A i \in 1..Len(a) : w[i] = a[i]
           /\ \A i \in 1..Len(b) : w[Len(a) + i] = b[i]
           /\ \A i \in 1..Len(c) : w[Len(a) + Len(b) + i] = c[i]
<1> DEFINE u == a \o b
           la == Len(a)
           lb == Len(b)
           lc == Len(c)
<1>1. /\ u \in Seq(S) /\ Len(u) = la + lb
      /\ \A i \in 1..la : u[i] = a[i]
      /\ \A i \in la + 1..la + lb : u[i] = b[i - la]
  BY Joined, Zenon
<1> HIDE DEF u
<1>2. w = u \o c
  BY DEF u
<1>3. /\ u \o c \in Seq(S) /\ Len(u \o c) = Len(u) + Len(c)
      /\ \A i \in 1..Len(u) : (u \o c)[i] = u[i]
      /\ \A i \in Len(u) + 1..Len(u) + Len(c) : (u \o c)[i] = c[i - Len(u)]
  <2>1. u \in Seq(S)
    BY <1>1
  <2> QED
    BY <2>1, Joined, Zenon
<1>4. /\ w \in Seq(S) /\ Len(w) = la + lb + lc
      /\ \A i \in 1..la + lb : w[i] = u[i]
      /\ \A i \in la + lb + 1..la + lb + lc : w[i] = c[i - (la + lb)]
  BY <1>1, <1>2, <1>3, Zenon
<1>5. la \in Nat /\ lb \in Nat /\ lc \in Nat
  BY LenProperties
<1> HIDE DEF la, lb, lc
<1>6. ASSUME NEW i \in 1..la PROVE w[i] = a[i]
  <2>1. i \in 1..la + lb
    BY <1>5
  <2> QED
    BY <1>1, <1>4, <2>1
<1>7. ASSUME NEW i \in 1..lb PROVE w[la + i] = b[i]
  <2>1. la + i \in 1..la + lb /\ la + i \in la + 1..la + lb /\ (la + i) - la = i
    BY <1>5
  <2> QED
    BY <1>1, <1>4, <2>1
<1>8. ASSUME NEW i \in 1..lc PROVE w[la + lb + i] = c[i]
  <2>1. la + lb + i \in la + lb + 1..la + lb + lc /\ (la + lb + i) - (la + lb) = i
    BY <1>5
  <2> QED
    BY <1>4, <2>1
<1> QED
  BY <1>4, <1>5, <1>6, <1>7, <1>8 DEF la, lb, lc

\* All of one level of trust before all of the next.
InBlocks(w, l1, l2, l3) ==
    /\ \A i \in 1..Len(w) : w[i].trust \in {l1, l2, l3}
    /\ \A i, j \in 1..Len(w) : i < j =>
           /\ w[i].trust = l2 => w[j].trust # l1
           /\ w[i].trust = l3 => w[j].trust = l3

\* The sections put in order of trust, one level after the other.
LEMMA ThreeOf ==
    ASSUME NEW s \in Seq(PromptSections), NEW l1, NEW l2, NEW l3,
           TrustLevels \subseteq {l1, l2, l3}, l1 # l2, l1 # l3, l2 # l3,
           NEW w, w = OfTrust(s, l1) \o OfTrust(s, l2) \o OfTrust(s, l3)
    PROVE  /\ w \in Seq(PromptSections)
           /\ From(w, s) /\ From(s, w)
           /\ InBlocks(w, l1, l2, l3)
<1> DEFINE a == OfTrust(s, l1)
           b == OfTrust(s, l2)
           c == OfTrust(s, l3)
           la == Len(a)
           lb == Len(b)
           lc == Len(c)
<1>1. w = a \o b \o c
  OBVIOUS
<1>0. OfLevel(a, s, l1) /\ OfLevel(b, s, l2) /\ OfLevel(c, s, l3)
  BY OfTrustIs, Zenon
<1> HIDE DEF a, b, c
<1>2. /\ a \in Seq(PromptSections)
      /\ \A i \in 1..la : a[i].trust = l1 /\ \E x \in 1..Len(s) : s[x] = a[i]
      /\ \A x \in 1..Len(s) : s[x].trust = l1 => \E i \in 1..la : a[i] = s[x]
  BY <1>0 DEF OfLevel
<1>3. /\ b \in Seq(PromptSections)
      /\ \A i \in 1..lb : b[i].trust = l2 /\ \E x \in 1..Len(s) : s[x] = b[i]
      /\ \A x \in 1..Len(s) : s[x].trust = l2 => \E i \in 1..lb : b[i] = s[x]
  BY <1>0 DEF OfLevel
<1>4. /\ c \in Seq(PromptSections)
      /\ \A i \in 1..lc : c[i].trust = l3 /\ \E x \in 1..Len(s) : s[x] = c[i]
      /\ \A x \in 1..Len(s) : s[x].trust = l3 => \E i \in 1..lc : c[i] = s[x]
  BY <1>0 DEF OfLevel
<1>5. /\ w \in Seq(PromptSections)
      /\ la \in Nat /\ lb \in Nat /\ lc \in Nat
      /\ Len(w) = la + lb + lc
      /\ \A i \in 1..la : w[i] = a[i]
      /\ \A i \in 1..lb : w[la + i] = b[i]
      /\ \A i \in 1..lc : w[la + lb + i] = c[i]
  BY <1>1, <1>2, <1>3, <1>4, ThreeJoined
<1> HIDE DEF la, lb, lc
<1> DEFINE Is(i, l) == w[i].trust = l /\ \E x \in 1..Len(s) : s[x] = w[i]
<1>6. /\ \A i \in 1..la : Is(i, l1)
      /\ \A i \in la + 1..la + lb : Is(i, l2)
      /\ \A i \in la + lb + 1..la + lb + lc : Is(i, l3)
  <2>1. ASSUME NEW i \in 1..la PROVE Is(i, l1)
    <3>1. a[i].trust = l1 /\ \E x \in 1..Len(s) : s[x] = a[i]
      BY <1>2 DEF la
    <3>2. w[i] = a[i]
      BY <1>5
    <3> QED
      BY <3>1, <3>2
  <2>2. ASSUME NEW i \in la + 1..la + lb PROVE Is(i, l2)
    <3>1. i - la \in 1..lb /\ la + (i - la) = i
      BY <1>5
    <3>2. w[i] = b[i - la]
      BY <1>5, <3>1
    <3>3. b[i - la].trust = l2 /\ \E x \in 1..Len(s) : s[x] = b[i - la]
      BY <1>3, <3>1 DEF lb
    <3> QED
      BY <3>2, <3>3
  <2>3. ASSUME NEW i \in la + lb + 1..la + lb + lc PROVE Is(i, l3)
    <3>1. i - (la + lb) \in 1..lc /\ la + lb + (i - (la + lb)) = i
      BY <1>5
    <3>2. w[i] = c[i - (la + lb)]
      BY <1>5, <3>1
    <3>3. c[i - (la + lb)].trust = l3 /\ \E x \in 1..Len(s) : s[x] = c[i - (la + lb)]
      BY <1>4, <3>1 DEF lc
    <3> QED
      BY <3>2, <3>3
  <2> QED
    BY <2>1, <2>2, <2>3
<1>7. \A i \in 1..Len(w) : i \in 1..la \/ i \in la + 1..la + lb \/ i \in la + lb + 1..la + lb + lc
  BY <1>5
<1>8. From(w, s)
  <2>1. \A i \in 1..Len(w) : \E x \in 1..Len(s) : s[x] = w[i]
    BY <1>6, <1>7
  <2> QED
    BY <2>1 DEF From
<1>9. From(s, w)
  <2> SUFFICES ASSUME NEW x \in 1..Len(s) PROVE \E j \in 1..Len(w) : w[j] = s[x]
    BY DEF From
  <2>1. s[x] \in PromptSections
    BY ElementOfSeq
  <2>2. s[x].trust \in {l1, l2, l3}
    BY <2>1 DEF PromptSections
  <2>3. CASE s[x].trust = l1
    <3>1. PICK i \in 1..la : a[i] = s[x]
      BY <1>2, <2>3 DEF la
    <3>2. i \in 1..Len(w)
      BY <1>5
    <3>3. w[i] = s[x]
      BY <1>5, <3>1
    <3> QED
      BY <3>2, <3>3
  <2>4. CASE s[x].trust = l2
    <3>1. PICK i \in 1..lb : b[i] = s[x]
      BY <1>3, <2>4 DEF lb
    <3>2. la + i \in 1..Len(w)
      BY <1>5
    <3>3. w[la + i] = s[x]
      BY <1>5, <3>1
    <3> QED
      BY <3>2, <3>3
  <2>5. CASE s[x].trust = l3
    <3>1. PICK i \in 1..lc : c[i] = s[x]
      BY <1>4, <2>5 DEF lc
    <3>2. la + lb + i \in 1..Len(w)
      BY <1>5
    <3>3. w[la + lb + i] = s[x]
      BY <1>5, <3>1
    <3> QED
      BY <3>2, <3>3
  <2> QED
    BY <2>2, <2>3, <2>4, <2>5
<1>10. /\ \A i \in 1..la : w[i].trust = l1
       /\ \A i \in la + 1..la + lb : w[i].trust = l2
       /\ \A i \in la + lb + 1..la + lb + lc : w[i].trust = l3
  BY <1>6
<1>11. ASSUME NEW i \in 1..Len(w), NEW j \in 1..Len(w), i < j
       PROVE  /\ w[i].trust = l2 => w[j].trust # l1
              /\ w[i].trust = l3 => w[j].trust = l3
  <2>1. CASE i \in 1..la
    BY <1>10, <2>1
  <2>2. CASE i \in la + 1..la + lb
    <3>1. j \in la + 1..la + lb \/ j \in la + lb + 1..la + lb + lc
      BY <1>5, <1>11, <2>2
    <3> QED
      BY <1>10, <2>2, <3>1
  <2>3. CASE i \in la + lb + 1..la + lb + lc
    <3>1. j \in la + lb + 1..la + lb + lc
      BY <1>5, <1>11, <2>3
    <3> QED
      BY <1>10, <2>3, <3>1
  <2> QED
    BY <1>7, <2>1, <2>2, <2>3
<1>12. \A i \in 1..Len(w) : w[i].trust \in {l1, l2, l3}
  BY <1>7, <1>10
<1>13. InBlocks(w, l1, l2, l3)
  BY <1>11, <1>12 DEF InBlocks
<1> QED
  BY <1>5, <1>8, <1>9, <1>13

\* The prompt's order and the order sections are dropped in.
LEMMA TrustOrders ==
    ASSUME NEW s \in Seq(PromptSections),
           NEW up, up = ByTrust(s), NEW down, down = LeastTrustedFirst(s)
    PROVE  /\ up \in Seq(PromptSections) /\ From(up, s) /\ From(s, up) /\ Rising(up)
           /\ down \in Seq(PromptSections) /\ From(down, s) /\ From(s, down) /\ Falling(down)
<1>2. /\ TrustLevels \subseteq {"trusted", "semi_trusted", "untrusted"}
      /\ TrustLevels \subseteq {"untrusted", "semi_trusted", "trusted"}
  BY DEF TrustLevels
<1>3. /\ up = OfTrust(s, "trusted") \o OfTrust(s, "semi_trusted") \o OfTrust(s, "untrusted")
      /\ down = OfTrust(s, "untrusted") \o OfTrust(s, "semi_trusted") \o OfTrust(s, "trusted")
  BY DEF ByTrust, LeastTrustedFirst
<1>4. /\ up \in Seq(PromptSections) /\ From(up, s) /\ From(s, up)
      /\ InBlocks(up, "trusted", "semi_trusted", "untrusted")
  BY <1>2, <1>3, ThreeOf
<1>5. /\ down \in Seq(PromptSections) /\ From(down, s) /\ From(s, down)
      /\ InBlocks(down, "untrusted", "semi_trusted", "trusted")
  BY <1>2, <1>3, ThreeOf
<1>6. Rising(up)
  BY <1>4 DEF InBlocks, Rising, Rank, trust_order
<1>7. Falling(down)
  BY <1>5 DEF InBlocks, Falling, Rank, trust_order
<1> QED
  BY <1>4, <1>5, <1>6, <1>7

\* A list without its first n elements.
LEMMA WithoutFirstIs ==
    ASSUME NEW s \in Seq(PromptSections), NEW n \in 0..Len(s), NEW w, w = WithoutFirst(n, s)
    PROVE  /\ w \in Seq(PromptSections) /\ Len(w) = Len(s) - n
           /\ \A i \in 1..Len(w) : w[i] = s[n + i]
<1> DEFINE l == Len(s)
<1>1. l \in Nat /\ \A i \in 1..l : s[i] \in PromptSections
  BY LenProperties, ElementOfSeq
<1>2. w = SubSeq(s, n + 1, l)
  BY DEF WithoutFirst
<1>3. n \in 0..l
  OBVIOUS
<1> HIDE DEF l
<1> DEFINE m == n + 1
<1>4. m \in Int /\ l \in Int /\ \A i \in m..l : s[i] \in PromptSections
  BY <1>1, <1>3
<1>5. /\ SubSeq(s, m, l) \in Seq(PromptSections)
      /\ Len(SubSeq(s, m, l)) = IF m <= l THEN l - m + 1 ELSE 0
      /\ \A i \in 1..l - m + 1 : SubSeq(s, m, l)[i] = s[m + i - 1]
  <2> HIDE DEF m
  <2> QED
    BY <1>4, SubSeqProperties
<1>6. /\ w \in Seq(PromptSections)
      /\ Len(w) = IF n + 1 <= l THEN l - (n + 1) + 1 ELSE 0
      /\ \A i \in 1..l - (n + 1) + 1 : w[i] = s[n + 1 + i - 1]
  BY <1>2, <1>5, Zenon
<1>7. Len(w) = l - n
  BY <1>1, <1>3, <1>6
<1>8. ASSUME NEW i \in 1..Len(w) PROVE w[i] = s[n + i]
  <2>1. i \in 1..l - (n + 1) + 1 /\ n + 1 + i - 1 = n + i
    BY <1>1, <1>3, <1>7
  <2> QED
    BY <1>6, <2>1
<1> QED
  BY <1>6, <1>7, <1>8 DEF l

\* A section of a prompt is in what is left of it, or is trusted no more than
\* anything that is.
KeptOrLeast(left, all) ==
    \A a \in 1..Len(all) :
        \/ \E i \in 1..Len(left) : left[i] = all[a]
        \/ \A i \in 1..Len(left) : Rank(left[i]) <= Rank(all[a])

\* What is left when n sections are dropped.
LEMMA LeftIs ==
    ASSUME NEW s \in Seq(PromptSections), NEW n \in Nat,
           n < Len(LeastTrustedFirst(s)),
           NEW left, left = ByTrust(WithoutFirst(n, LeastTrustedFirst(s)))
    PROVE  /\ left \in Seq(PromptSections) /\ Rising(left) /\ From(left, s)
           /\ KeptOrLeast(left, s)
<1> DEFINE order == LeastTrustedFirst(s)
           rest == WithoutFirst(n, order)
<1>1. /\ order \in Seq(PromptSections) /\ From(order, s) /\ From(s, order) /\ Falling(order)
  BY TrustOrders
<1>2. n < Len(order) /\ rest = WithoutFirst(n, order) /\ left = ByTrust(rest)
  OBVIOUS
<1> HIDE DEF order, rest
<1>3. Len(order) \in Nat
  BY <1>1, LenProperties
<1>4. n \in 0..Len(order)
  BY <1>2, <1>3
<1>5. /\ rest \in Seq(PromptSections) /\ Len(rest) = Len(order) - n
      /\ \A i \in 1..Len(rest) : rest[i] = order[n + i]
  BY <1>1, <1>2, <1>4, WithoutFirstIs
<1>6. left \in Seq(PromptSections) /\ From(left, rest) /\ From(rest, left) /\ Rising(left)
  BY <1>2, <1>5, TrustOrders
<1>7. \A i \in 1..Len(left) : \E b \in n + 1..Len(order) : order[b] = left[i]
  <2> SUFFICES ASSUME NEW i \in 1..Len(left)
               PROVE  \E b \in n + 1..Len(order) : order[b] = left[i]
    OBVIOUS
  <2>1. PICK j \in 1..Len(rest) : rest[j] = left[i]
    BY <1>6 DEF From
  <2>2. n + j \in n + 1..Len(order) /\ order[n + j] = left[i]
    BY <1>3, <1>5, <2>1
  <2> QED
    BY <2>2
<1>8. From(left, s)
  <2> SUFFICES ASSUME NEW i \in 1..Len(left) PROVE \E j \in 1..Len(s) : s[j] = left[i]
    BY DEF From
  <2>1. PICK b \in n + 1..Len(order) : order[b] = left[i]
    BY <1>7
  <2>2. b \in 1..Len(order)
    BY <1>3, <2>1
  <2> QED
    BY <1>1, <2>1, <2>2 DEF From
<1>9. KeptOrLeast(left, s)
  <2> SUFFICES ASSUME NEW a \in 1..Len(s)
               PROVE  \/ \E i \in 1..Len(left) : left[i] = s[a]
                      \/ \A i \in 1..Len(left) : Rank(left[i]) <= Rank(s[a])
    BY DEF KeptOrLeast
  <2>1. PICK b \in 1..Len(order) : order[b] = s[a]
    BY <1>1 DEF From
  <2>2. CASE b > n
    <3>1. b - n \in 1..Len(rest) /\ n + (b - n) = b
      BY <1>3, <1>5, <2>2
    <3>2. rest[b - n] = s[a]
      BY <1>5, <2>1, <3>1
    <3>3. \E i \in 1..Len(left) : left[i] = rest[b - n]
      BY <1>6, <3>1 DEF From
    <3> QED
      BY <3>2, <3>3
  <2>3. CASE b <= n
    <3> SUFFICES ASSUME NEW i \in 1..Len(left) PROVE Rank(left[i]) <= Rank(s[a])
      OBVIOUS
    <3>1. PICK c \in n + 1..Len(order) : order[c] = left[i]
      BY <1>7
    <3>2. c \in 1..Len(order) /\ b < c
      BY <1>3, <2>3, <3>1
    <3>3. Rank(order[c]) <= Rank(order[b])
      BY <1>1, <3>2 DEF Falling
    <3> QED
      BY <2>1, <3>1, <3>3
  <2> QED
    BY <1>3, <2>2, <2>3
<1> QED
  BY <1>6, <1>8, <1>9

\* A prompt cut down to its budget.
LEMMA TruncatedIs ==
    ASSUME NEW p \in Packages, NEW maxChars \in Nat,
           NEW t, t = truncate_to_budget(p, maxChars)
    PROVE  /\ t \in Packages /\ t.residual = p.residual
           /\ t.size <= maxChars
           /\ Rising(t.sections) /\ From(t.sections, p.sections)
           /\ KeptOrLeast(t.sections, p.sections)
<1> DEFINE s == p.sections
           order == LeastTrustedFirst(s)
           Left(n) == ByTrust(WithoutFirst(n, order))
           fitting == {n \in 0..Len(order) - 1 : SizeOf(Left(n)) <= maxChars}
           m == Min(fitting)
           left == Left(m)
<1>1. t = IF fitting # {}
          THEN [p EXCEPT !.sections = left, !.size = SizeOf(left)]
          ELSE [p EXCEPT !.sections = <<>>, !.size = maxChars, !.sliced = TRUE]
  BY DEF truncate_to_budget
<1>2. s \in Seq(PromptSections)
  BY DEF Packages
<1>3. Len(order) \in Nat
  <2>1. order \in Seq(PromptSections)
    BY <1>2, TrustOrders
  <2> HIDE DEF order
  <2> QED
    BY <2>1, LenProperties
<1>4. fitting \in SUBSET Nat
  BY <1>3
<1>5. CASE fitting # {}
  <2>1. m \in fitting
    <3> HIDE DEF fitting
    <3> QED
      BY <1>4, <1>5, LeastOf
  <2>2. m \in Nat /\ m < Len(order) /\ SizeOf(left) <= maxChars
    <3> HIDE DEF m
    <3>1. m \in 0..Len(order) - 1
      BY <2>1
    <3> HIDE DEF fitting, order
    <3>2. m \in Nat /\ m < Len(order)
      BY <1>3, <3>1
    <3> QED
      BY <2>1, <3>2 DEF fitting
  <2> HIDE DEF m
  <2>3. /\ left \in Seq(PromptSections) /\ Rising(left) /\ From(left, s)
        /\ KeptOrLeast(left, s)
    <3>1. m < Len(LeastTrustedFirst(s)) /\ left = ByTrust(WithoutFirst(m, LeastTrustedFirst(s)))
      BY <2>2
    <3> HIDE DEF left, s
    <3> QED
      BY <1>2, <2>2, <3>1, LeftIs
  <2>4. \A x \in PromptSections : x.text.size \in Nat
    BY DEF PromptSections, Texts
  <2> HIDE DEF left, s, fitting
  <2>5. SizeOf(left) \in Nat
    BY <2>3, <2>4, SizeIsNat
  <2>6. t = [p EXCEPT !.sections = left, !.size = SizeOf(left)]
    BY <1>1, <1>5
  <2>7. t \in Packages /\ t.residual = p.residual /\ t.sections = left /\ t.size = SizeOf(left)
    BY <2>3, <2>5, <2>6 DEF Packages
  <2> QED
    BY <2>2, <2>3, <2>7 DEF s
<1>6. CASE fitting = {}
  <2>1. t = [p EXCEPT !.sections = <<>>, !.size = maxChars, !.sliced = TRUE]
    BY <1>1, <1>6
  <2>2. <<>> \in Seq(PromptSections) /\ Len(<<>>) = 0 /\ 1..0 = {}
    BY EmptySeq
  <2>3. t \in Packages /\ t.residual = p.residual /\ t.sections = <<>> /\ t.size = maxChars
    BY <2>1, <2>2 DEF Packages
  <2>4. Rising(<<>>) /\ From(<<>>, s) /\ KeptOrLeast(<<>>, s)
    BY <2>2 DEF Rising, From, KeptOrLeast
  <2> QED
    BY <2>3, <2>4
<1> QED
  BY <1>5, <1>6

-----------------------------------------------------------------------------
(* The output guard *)

Keys == {"answer", "message", "output_text"}

\* The keys a reply is read under.
LEMMA ReplyKeysAre ==
    /\ ToSet(ReplyKeys) = Keys /\ Len(ReplyKeys) = 3
    /\ \A i \in 1..3 : ReplyKeys[i] \in Keys
    /\ \A k \in Keys : \E i \in 1..3 : ReplyKeys[i] = k
    /\ "none" \notin Keys
<1>1. /\ DOMAIN ReplyKeys = 1..3 /\ Len(ReplyKeys) = 3
      /\ ReplyKeys[1] = "answer" /\ ReplyKeys[2] = "message" /\ ReplyKeys[3] = "output_text"
  BY DEF ReplyKeys
<1>2. 1..3 = {1, 2, 3}
  OBVIOUS
<1>3. \A i \in 1..3 : ReplyKeys[i] \in Keys
  BY <1>1, <1>2 DEF Keys
<1>4. \A k \in Keys : \E i \in 1..3 : ReplyKeys[i] = k
  BY <1>1, <1>2 DEF Keys
<1>5. ToSet(ReplyKeys) = Keys
  BY <1>1, <1>3, <1>4 DEF ToSet
<1> QED
  BY <1>1, <1>3, <1>4, <1>5 DEF Keys

\* The first of some of them.
LEMMA FirstKeyIs ==
    ASSUME NEW keys \in SUBSET Keys, NEW k, k = FirstKey(keys)
    PROVE  IF keys = {} THEN k = "none" ELSE k \in keys
<1> DEFINE I == {i \in 1..Len(ReplyKeys) : ReplyKeys[i] \in keys}
           first == SelectInSeq(ReplyKeys, LAMBDA key : key \in keys)
<1>1. first = IF I # {} THEN Min(I) ELSE 0
  BY DEF SelectInSeq
<1>2. k = IF first = 0 THEN "none" ELSE ReplyKeys[first]
  BY DEF FirstKey
<1>3. I = {i \in 1..3 : ReplyKeys[i] \in keys}
  BY ReplyKeysAre
<1> HIDE DEF first, I
<1>4. I \in SUBSET (1..3)
  BY <1>3
<1>5. (I = {} => first = 0) /\ (I # {} => first \in I)
  BY <1>1, <1>4, FirstOf
<1>6. CASE I = {}
  <2>1. keys = {}
    BY <1>3, <1>6, ReplyKeysAre
  <2> QED
    BY <1>2, <1>5, <1>6, <2>1
<1>7. CASE I # {}
  <2>1. first \in 1..3 /\ first # 0 /\ ReplyKeys[first] \in keys
    BY <1>3, <1>5, <1>7
  <2> QED
    BY <1>2, <2>1
<1> QED
  BY <1>6, <1>7

\* What the guard reads is a text.
LEMMA ReadText ==
    ASSUME NEW reply \in Replies
    PROVE  /\ extract_text(reply) \in ReplyTexts
           /\ \A k \in Keys : reply.values[k] \in {NoValue, NotText} \cup ReplyTexts
           /\ \A k \in Keys : IsText(reply.values[k]) <=> reply.values[k] \in ReplyTexts
<1>1. /\ reply.values \in [Keys -> {NoValue, NotText} \cup ReplyTexts]
      /\ reply.whole \in ReplyTexts
  BY ReplyKeysAre DEF Replies
<1>2. \A k \in Keys : reply.values[k] \in {NoValue, NotText} \cup ReplyTexts
  BY <1>1
<1>3. \A v \in {NoValue, NotText} \cup ReplyTexts : IsText(v) <=> v \in ReplyTexts
  BY DEF NoValue, NotText, ReplyTexts, IsText
<1> DEFINE keys == {k \in Keys : IsText(reply.values[k])}
           key == FirstKey(keys)
<1>4. extract_text(reply) = IF key = "none" THEN reply.whole ELSE reply.values[key]
  BY ReplyKeysAre DEF extract_text
<1>5. IF keys = {} THEN key = "none" ELSE key \in keys
  <2>1. keys \in SUBSET Keys /\ key = FirstKey(keys)
    OBVIOUS
  <2> HIDE DEF keys, key
  <2> QED
    BY <2>1, FirstKeyIs
<1> HIDE DEF key
<1>6. extract_text(reply) \in ReplyTexts
  <2>1. CASE keys = {}
    BY <1>1, <1>4, <1>5, <2>1
  <2>2. CASE keys # {}
    <3>1. key \in Keys /\ IsText(reply.values[key])
      BY <1>5, <2>2
    <3>2. key # "none"
      BY <3>1 DEF Keys
    <3> QED
      BY <1>2, <1>3, <1>4, <3>1, <3>2
  <2> QED
    BY <2>1, <2>2
<1> QED
  BY <1>2, <1>3, <1>6

\* A verdict of the guard on a text.
Verdict(result, text) ==
    /\ result.action \in {"allow", "redact", "block"}
    /\ result.action = "allow" => result.text = text
    /\ result.action = "redact" => result.text \in ReplyTexts
    /\ result \in Results

\* What the guard may do is a verdict.
LEMMA ResultIs ==
    ASSUME NEW text \in ReplyTexts, NEW other \in ReplyTexts
    PROVE  /\ Verdict(Result("allow", text), text)
           /\ Verdict(Result("redact", other), text)
           /\ Verdict(Result("block", NoValue), text)
  BY DEF Verdict, Result, Results

\* What the guard masks or cuts leaves a text.
LEMMA MarkedLess ==
    ASSUME NEW text \in ReplyTexts
    PROVE  /\ redact_text(text) \in ReplyTexts
           /\ redact_prompt_leakage(text) \in ReplyTexts
           /\ Beginning(text) \in ReplyTexts
<1>1. redact_text(text) \in ReplyTexts
  BY DEF redact_text, ReplyTexts
<1>2. redact_prompt_leakage(text) \in ReplyTexts
  BY DEF redact_prompt_leakage, ReplyTexts
<1>3. Beginning(text) \in ReplyTexts
  BY DEF Beginning, ReplyTexts, ShortText
<1> QED
  BY <1>1, <1>2, <1>3

\* Whatever the guard model answers, the guard gives a verdict on the text it reads.
LEMMA GuardOutputIs ==
    ASSUME NEW reply \in Replies, NEW promptSize, NEW answer, NEW mode,
           NEW result, result = guard_output(promptSize, answer, mode, reply)
    PROVE  Verdict(result, extract_text(reply))
<1> DEFINE text == extract_text(reply)
           checks == Checks(promptSize, answer, mode, text)
           I == {i \in 1..Len(checks) : checks[i].when}
           k == SelectInSeq(checks, LAMBDA c : c.when)
<1>1. k = IF I # {} THEN Min(I) ELSE 0
  BY DEF SelectInSeq
<1>2. result = checks[k].is
  BY DEF guard_output
<1>3. text \in ReplyTexts
  BY ReadText
<1> HIDE DEF text
<1>4. /\ Len(checks) = 7 /\ checks[7].when
      /\ checks[1].is = Result("redact", Beginning(text))
      /\ checks[2].is = Result("block", NoValue)
      /\ checks[3].is = Result("redact", redact_prompt_leakage(redact_text(text)))
      /\ checks[4].is = Result("redact", redact_text(text))
      /\ checks[5].is = Result("block", NoValue)
      /\ checks[6].is = Result("redact", redact_prompt_leakage(text))
      /\ checks[7].is = Result("allow", text)
  BY DEF Checks
<1> HIDE DEF checks, k
<1>5. I \in SUBSET (1..7) /\ 7 \in I
  BY <1>4
<1>6. k \in 1..7
  <2> HIDE DEF I
  <2>1. k \in I
    BY <1>1, <1>5, FirstOf
  <2> QED
    BY <1>5, <2>1
<1>7. /\ Beginning(text) \in ReplyTexts /\ redact_text(text) \in ReplyTexts
      /\ redact_prompt_leakage(redact_text(text)) \in ReplyTexts
      /\ redact_prompt_leakage(text) \in ReplyTexts
  BY <1>3, MarkedLess
<1>8. /\ Verdict(checks[1].is, text) /\ Verdict(checks[2].is, text)
      /\ Verdict(checks[3].is, text) /\ Verdict(checks[4].is, text)
      /\ Verdict(checks[5].is, text) /\ Verdict(checks[6].is, text)
      /\ Verdict(checks[7].is, text)
  BY <1>3, <1>4, <1>7, ResultIs
<1>9. k = 1 \/ k = 2 \/ k = 3 \/ k = 4 \/ k = 5 \/ k = 6 \/ k = 7
  BY <1>6
<1>10. Verdict(result, text)
  BY <1>2, <1>8, <1>9
<1> QED
  BY <1>10 DEF text

-----------------------------------------------------------------------------
(* What the client reads *)

\* Of a set with at most one element.
LEMMA AtMostOne ==
    ASSUME NEW T \in SUBSET Keys, Cardinality(T) <= 1, NEW j \in T, NEW k \in T
    PROVE  j = k
<1>1. IsFiniteSet(Keys)
  <2>1. Keys = ({"answer"} \cup {"message"}) \cup {"output_text"}
    BY DEF Keys
  <2>2. IsFiniteSet({"answer"}) /\ IsFiniteSet({"message"}) /\ IsFiniteSet({"output_text"})
    BY FS_Singleton
  <2>3. IsFiniteSet({"answer"} \cup {"message"})
    BY <2>2, FS_Union
  <2> QED
    BY <2>1, <2>2, <2>3, FS_Union
<1>2. IsFiniteSet(T)
  BY <1>1, FS_Subset
<1>3. T = {} \/ \E x : T = {x}
  <2>1. Cardinality(T) \in Nat
    BY <1>2, FS_CardinalityType
  <2>2. CASE Cardinality(T) = 0
    BY <1>2, <2>2, FS_EmptySet
  <2>3. CASE Cardinality(T) = 1
    BY <1>2, <2>3, FS_Singleton
  <2> QED
    BY <2>1, <2>2, <2>3
<1> QED
  BY <1>3

\* Of a reply with at most one value, and that a text, both endpoints show what
\* the guard left.
LEMMA ShownIs ==
    ASSUME NEW reply \in Replies, NEW result, Verdict(result, extract_text(reply)),
           result.action # "block",
           NEW shown, shown = apply_redaction(reply, result),
           NEW T, T = {k \in ToSet(ReplyKeys) : reply.values[k] # NoValue},
           Cardinality(T) <= 1, \A k \in T : IsText(reply.values[k]),
           NEW text \in ChatTexts(shown) \cup {extract_assistant_text(shown, result)}
    PROVE  text = result.text
<1>1. T = {k \in Keys : reply.values[k] # NoValue} /\ T \in SUBSET Keys
  BY ReplyKeysAre
<1>2. /\ \A k \in Keys : reply.values[k] \in {NoValue, NotText} \cup ReplyTexts
      /\ \A k \in Keys : IsText(reply.values[k]) <=> reply.values[k] \in ReplyTexts
  BY ReadText
<1>3. NoValue \notin ReplyTexts /\ ~ IsText(NoValue)
  BY DEF NoValue, ReplyTexts, IsText
<1> DEFINE Shows(k) == IsText(shown.values[k]) /\ ~ Blank(shown.values[k])
           loud == {k \in Keys : Shows(k)}
<1>4. extract_assistant_text(shown, result)
          = IF FirstKey(loud) = "none" THEN result.text ELSE shown.values[FirstKey(loud)]
  BY ReplyKeysAre DEF extract_assistant_text
<1>5. IF loud = {} THEN FirstKey(loud) = "none" ELSE FirstKey(loud) \in loud
  <2>1. loud \in SUBSET Keys
    OBVIOUS
  <2> HIDE DEF loud
  <2> QED
    BY <2>1, FirstKeyIs
<1>6. ChatTexts(shown) = {shown.values[k] : k \in Keys} \ {NoValue}
  BY ReplyKeysAre DEF ChatTexts
<1>7. \A k \in Keys : shown.values[k] = NoValue \/ shown.values[k] = result.text
  <2> SUFFICES ASSUME NEW k \in Keys
               PROVE  shown.values[k] = NoValue \/ shown.values[k] = result.text
    OBVIOUS
  <2> DEFINE key == FirstKey(T)
  <2>1. shown = IF result.action = "redact" /\ key # "none"
                 THEN [reply EXCEPT !.values[key] = result.text] ELSE reply
    BY DEF apply_redaction
  <2>2. IF T = {} THEN key = "none" ELSE key \in T
    BY <1>1, FirstKeyIs
  <2> HIDE DEF key
  <2>3. CASE T = {}
    <3>1. shown = reply
      BY <2>1, <2>2, <2>3
    <3> QED
      BY <1>1, <2>3, <3>1
  <2>4. CASE T # {}
    <3>1. key \in T /\ key \in Keys /\ key # "none" /\ IsText(reply.values[key])
      BY <1>1, <2>2, <2>4 DEF Keys
    <3>2. \A j \in Keys : j # key => reply.values[j] = NoValue
      BY <1>1, <3>1, AtMostOne
    <3>3. CASE result.action = "redact"
      <4>1. shown = [reply EXCEPT !.values[key] = result.text]
        BY <2>1, <3>1, <3>3
      <4>2. /\ reply.values \in [Keys -> {NoValue, NotText} \cup ReplyTexts]
            /\ reply \in [values : [Keys -> {NoValue, NotText} \cup ReplyTexts],
                          whole : ReplyTexts]
        BY ReplyKeysAre DEF Replies
      <4>3. shown.values[k] = IF k = key THEN result.text ELSE reply.values[k]
        BY <4>1, <4>2
      <4> QED
        BY <3>2, <4>3
    <3>4. CASE result.action = "allow"
      <4>1. shown = reply
        BY <2>1, <3>4
      <4>2. result.text = extract_text(reply)
        BY <3>4 DEF Verdict
      <4> DEFINE texts == {j \in Keys : IsText(reply.values[j])}
      <4>3. extract_text(reply) = IF FirstKey(texts) = "none" THEN reply.whole
                                  ELSE reply.values[FirstKey(texts)]
        BY ReplyKeysAre DEF extract_text
      <4>4. texts = {key}
        BY <1>2, <1>3, <3>1, <3>2
      <4>5. FirstKey(texts) = key
        <5>1. texts \in SUBSET Keys /\ texts # {}
          BY <4>4
        <5> HIDE DEF texts
        <5>2. FirstKey(texts) \in texts
          BY <5>1, FirstKeyIs
        <5> QED
          BY <4>4, <5>2
      <4>6. result.text = reply.values[key]
        BY <3>1, <4>2, <4>3, <4>5
      <4> QED
        BY <3>2, <4>1, <4>6
    <3>5. result.action = "redact" \/ result.action = "allow"
      BY DEF Verdict
    <3> QED
      BY <3>3, <3>4, <3>5
  <2> QED
    BY <2>3, <2>4
<1>8. CASE text \in ChatTexts(shown)
  BY <1>6, <1>7, <1>8
<1>9. CASE text = extract_assistant_text(shown, result)
  <2>1. CASE loud = {}
    BY <1>4, <1>5, <1>9, <2>1
  <2>2. CASE loud # {}
    <3> DEFINE first == FirstKey(loud)
    <3>1. first \in Keys /\ IsText(shown.values[first])
      BY <1>5, <2>2
    <3>2. first # "none"
      BY <3>1 DEF Keys
    <3>3. text = shown.values[first]
      BY <1>4, <1>9, <3>2
    <3> HIDE DEF first
    <3> QED
      BY <1>3, <1>7, <3>1, <3>3
  <2> QED
    BY <2>1, <2>2
<1> QED
  BY <1>8, <1>9

-----------------------------------------------------------------------------
(* The inductive invariant *)

Typed ==
    /\ scenario \in Scenarios /\ deployment \in Deployments
    /\ phase \in Phases
    /\ envelope \in Envelopes
    /\ modelDown \in BOOLEAN
    /\ upstream \in Replies
    /\ status \in {NoAnswer, 200, 413, 500, 502}
    /\ status = NoAnswer <=> phase # "answered"

\* What is not there yet.
NotYet ==
    /\ phase \in {"redaction", "retrieval", "second_redaction"} => envelope.package = NoPackage
    /\ phase # "answered" => envelope.result = NoResult /\ client = NoReply

\* The chunks an envelope may hold.
Seen(e) ==
    \A i \in 1..Len(e.chunks) :
        /\ scenario.decision.retrieval
        /\ Admissible(e.chunks[i], scenario.tenant, scenario.decision, deployment.hasKey)

\* Nothing is decided on the tools, or all of them are, and run.
Decided(e) ==
    \/ e.decisions = <<>> /\ e.records = <<>>
    \/ /\ e.decisions = evaluate_requested_tools(scenario.tools, scenario.decision,
                                                 scenario.label, scenario.permissions)
       /\ e.records = execute_allowed_tools(scenario.tools, e.decisions)

\* A prompt within its budget, and what it was cut down from.
Fits(package, all) ==
    /\ Rising(package.sections)
    /\ package.size <= deployment.maxChars
    /\ KeptOrLeast(package.sections, all.sections)

\* Who sees what of the answer.
Closed ==
    /\ envelope.result # NoResult =>
           (envelope.package.residual => "prompt_pii_residual_alert" \in events)
    /\ envelope.result.action = "block" => client = NoReply /\ status = 502
    /\ status = 200 =>
           /\ Verdict(envelope.result, extract_text(upstream))
           /\ envelope.result.action # "block"
           /\ client = apply_redaction(upstream, envelope.result)

\* Nothing near a placeholder is left but in sections taken as they are.
Bared == envelope.llmApplied \/ deployment.llmOnly \/ Unshielded(envelope.package)

Inv ==
    /\ Typed
    /\ NotYet
    /\ Seen(envelope)
    /\ Decided(envelope)
    /\ Marked(envelope.package)
    /\ deployment.guardEnabled /\ modelDown => Masked(envelope.package)
    /\ Bared
    /\ deployment.budget = "truncate" /\ phase \in {"upstream", "output_guard"} =>
           Fits(envelope.package, PackageOf(envelope))
    /\ Closed

\* What is known of a scenario.
LEMMA ScenarioFacts ==
    ASSUME Typed
    PROVE  /\ scenario.decision \in LetIn
           /\ scenario.texts \in [Speakers -> Texts]
           /\ scenario.attachments \in Texts
           /\ scenario.claimsRedacted \in BOOLEAN
           /\ scenario.tenant \in STRING
           /\ scenario.tools \in Seq(ToolRequests)
           /\ scenario.chunks \in {Down, Malformed} \/ scenario.chunks \in Seq(Chunks)
           /\ scenario.gatewayReply = Down \/ scenario.gatewayReply \in Replies
           /\ scenario.ollamaText = Down \/ scenario.ollamaText \in ReplyTexts
  BY ScenariosAssumption DEF Typed, Speakers

\* What is known of a deployment.
LEMMA DeploymentFacts ==
    ASSUME Typed
    PROVE  /\ deployment.guardEnabled \in BOOLEAN
           /\ deployment.budget \in {"off", "block", "truncate"}
           /\ deployment.maxChars \in Nat
  BY DeploymentsAssumption DEF Typed

\* What is there before there is anything.
LEMMA NothingIs ==
    /\ NoPackage \in Packages /\ NoPackage.sections = <<>>
    /\ NoResult \in Results /\ NoResult.action = "none"
    /\ EmptyText \in ReplyTexts
    /\ NoReply \in Replies /\ NoReply.values = [k \in Keys |-> NoValue]
    /\ Marked(NoPackage) /\ Masked(NoPackage) /\ Unshielded(NoPackage)
<1>1. <<>> \in Seq(PromptSections) /\ Len(<<>>) = 0 /\ 1..0 = {}
  BY EmptySeq
<1>2. NoPackage \in Packages /\ NoPackage.sections = <<>>
  BY <1>1 DEF NoPackage, Packages
<1>3. NoResult \in Results /\ NoResult.action = "none"
  BY DEF NoResult, Result, Results
<1>4. EmptyText \in ReplyTexts
  BY DEF EmptyText, ReplyText, ReplyTexts
<1>5. NoReply \in Replies /\ NoReply.values = [k \in Keys |-> NoValue]
  BY <1>4, ReplyKeysAre DEF NoReply, Reply, Replies
<1>6. Marked(NoPackage) /\ Masked(NoPackage) /\ Unshielded(NoPackage)
  BY <1>1, <1>2 DEF Marked, Masked, Unshielded
<1> QED
  BY <1>2, <1>3, <1>4, <1>5, <1>6

\* What a pass of redaction leaves of an envelope.
Pass(e, r, down) ==
    /\ r \in Envelopes
    /\ r.decisions = e.decisions /\ r.records = e.records
    /\ r.package = e.package /\ r.result = e.result
    /\ Len(r.chunks) = Len(e.chunks)
    /\ \A i \in 1..Len(e.chunks) : Alike(r.chunks[i], e.chunks[i])
    /\ down \in BOOLEAN
    /\ deployment.guardEnabled /\ down =>
           /\ \A k \in Speakers : Open(r.texts[k]) => r.texts[k].size = 0
           /\ NoPii(r.chunks)

\* Every pass is one.
LEMMA PassIs ==
    ASSUME Typed, NEW redacted \in Redactions(envelope)
    PROVE  Pass(envelope, redacted.envelope, redacted.down)
<1>1. PICK calls \in Endings(envelope) :
          redacted = [envelope |-> redact_envelope_pii(envelope, calls),
                      down |-> modelDown /\ NoneAnswered(calls)]
  BY DEF Redactions
<1> DEFINE r == redact_envelope_pii(envelope, calls)
           down == modelDown /\ NoneAnswered(calls)
<1>2. redacted.envelope = r /\ redacted.down = down
  BY <1>1
<1>3. deployment.guardEnabled \in BOOLEAN /\ envelope \in Envelopes
  BY DeploymentFacts DEF Typed
<1>4. r = redact_envelope_pii(envelope, calls)
  OBVIOUS
<1>5. down \in BOOLEAN /\ (down = TRUE => NoneAnswered(calls))
  OBVIOUS
<1> HIDE DEF r, down
<1>6. /\ r \in Envelopes
      /\ r.decisions = envelope.decisions /\ r.records = envelope.records
      /\ r.package = envelope.package /\ r.result = envelope.result
      /\ Len(r.chunks) = Len(envelope.chunks)
      /\ \A i \in 1..Len(envelope.chunks) : Alike(r.chunks[i], envelope.chunks[i])
      /\ deployment.guardEnabled /\ NoneAnswered(calls) =>
             /\ \A k \in Speakers : Open(r.texts[k]) => r.texts[k].size = 0
             /\ \A i \in 1..Len(envelope.chunks) : ~ Open(r.chunks[i].text)
  BY <1>3, <1>4, RedactionPass
<1>7. Pass(envelope, r, down)
  BY <1>5, <1>6 DEF Pass, NoPii
<1> QED
  BY <1>2, <1>7

\* A pass of redaction shows the request no other chunk.
LEMMA SeenAfterPass ==
    ASSUME NEW r, NEW down, Pass(envelope, r, down), Seen(envelope)
    PROVE  Seen(r)
<1> SUFFICES ASSUME NEW i \in 1..Len(r.chunks)
             PROVE  /\ scenario.decision.retrieval
                    /\ Admissible(r.chunks[i], scenario.tenant, scenario.decision,
                                  deployment.hasKey)
  BY DEF Seen
<1>1. i \in 1..Len(envelope.chunks) /\ Alike(r.chunks[i], envelope.chunks[i])
  BY DEF Pass
<1>2. /\ scenario.decision.retrieval
      /\ Admissible(envelope.chunks[i], scenario.tenant, scenario.decision, deployment.hasKey)
  BY <1>1 DEF Seen
<1> QED
  BY <1>1, <1>2 DEF Alike, Admissible, OfTenant, is_chunk_integrity_valid

\* The invariant holds of a request that has just been let in.
LEMMA InitInv ==
    Init => Inv
<1> SUFFICES ASSUME Init PROVE Inv
  OBVIOUS
<1>1. /\ scenario \in Scenarios /\ deployment \in Deployments
      /\ phase = "redaction" /\ modelDown = TRUE /\ status = NoAnswer
      /\ upstream = NoReply /\ client = NoReply
      /\ envelope = [texts |-> scenario.texts, chunks |-> <<>>,
                     llmApplied |-> scenario.claimsRedacted,
                     decisions |-> <<>>, records |-> <<>>,
                     package |-> NoPackage, result |-> NoResult]
  BY DEF Init
<1>2. scenario.texts \in [Speakers -> Texts] /\ scenario.claimsRedacted \in BOOLEAN
  BY <1>1, ScenariosAssumption DEF Speakers
<1>3. /\ <<>> \in Seq(Chunks) /\ <<>> \in Seq(ToolVerdicts)
      /\ Len(<<>>) = 0 /\ 1..0 = {}
  BY EmptySeq
<1>4. envelope \in Envelopes
  BY <1>1, <1>2, <1>3, NothingIs DEF Envelopes
<1>5. Typed
  BY <1>1, <1>4, NothingIs DEF Typed, Phases, NoAnswer
<1>6. NotYet
  BY <1>1 DEF NotYet
<1>7. Seen(envelope) /\ Decided(envelope)
  BY <1>1, <1>3 DEF Seen, Decided
<1>8. Marked(envelope.package) /\ Masked(envelope.package) /\ Bared
  BY <1>1, NothingIs DEF Bared
<1>9. Closed
  BY <1>1, NothingIs DEF Closed, NoAnswer
<1> QED
  BY <1>1, <1>5, <1>6, <1>7, <1>8, <1>9 DEF Inv

\* Before the prompt is built and the reply read, there is little to keep: a
\* step that only redacts or retrieves keeps the invariant if it keeps the types,
\* the chunks and the decisions in order.
LEMMA EarlyStep ==
    ASSUME Inv, Typed', Seen(envelope)', Decided(envelope)',
           phase \in {"redaction", "retrieval", "second_redaction"},
           phase' \in {"retrieval", "second_redaction", "answered"},
           envelope'.package = envelope.package, envelope'.result = envelope.result,
           client' = client, status' # 200
    PROVE  Inv'
<1>1. envelope.package = NoPackage /\ envelope.result = NoResult /\ client = NoReply
  BY DEF Inv, NotYet
<1>2. envelope'.package = NoPackage /\ envelope'.result = NoResult /\ client' = NoReply
  BY <1>1
<1>3. NotYet'
  BY <1>2 DEF NotYet
<1>4. Marked(envelope.package)' /\ Masked(envelope.package)' /\ Bared'
  BY <1>2, NothingIs DEF Bared
<1>5. Closed'
  BY <1>2, NothingIs DEF Closed
<1> QED
  BY <1>3, <1>4, <1>5 DEF Inv

\* Nothing is built or answered yet.
LEMMA RedactInputInv ==
    Inv /\ RedactInput => Inv'
<1> SUFFICES ASSUME Inv, RedactInput PROVE Inv'
  OBVIOUS
<1>1. Typed /\ Seen(envelope) /\ Decided(envelope)
  BY DEF Inv
<1>2. PICK redacted \in Redactions(envelope) :
          envelope' = redacted.envelope /\ modelDown' = redacted.down
  BY DEF RedactInput
<1>3. /\ phase = "redaction" /\ phase' = "retrieval" /\ status' = status
      /\ scenario' = scenario /\ deployment' = deployment
      /\ upstream' = upstream /\ client' = client /\ events' = events
  BY DEF RedactInput, Await
<1>4. Pass(envelope, envelope', modelDown')
  BY <1>1, <1>2, PassIs
<1>5. status = NoAnswer
  BY <1>1, <1>3 DEF Typed
<1>6. Typed'
  BY <1>1, <1>3, <1>4, <1>5 DEF Typed, Pass, Phases
<1>7. Seen(envelope')
  BY <1>1, <1>4, SeenAfterPass
<1>8. Seen(envelope)'
  BY <1>3, <1>7 DEF Seen
<1>9. Decided(envelope)'
  BY <1>1, <1>3, <1>4 DEF Decided, Pass
<1>10. envelope'.package = envelope.package /\ envelope'.result = envelope.result
  BY <1>4 DEF Pass
<1> QED
  BY <1>3, <1>5, <1>6, <1>8, <1>9, <1>10, EarlyStep DEF NoAnswer

\* What stands in for a backend that fails.
LEMMA StubIs ==
    ASSUME NEW tenant \in STRING
    PROVE  StubChunks(tenant, Text({}, 1)) \in Seq(Chunks)
<1> DEFINE text == Text({}, 1)
           a == Chunk(tenant, "internal", "none", "none", FALSE, text)
           b == Chunk(tenant, "confidential", "none", "none", FALSE, text)
<1>1. text \in Texts
  BY DEF Text, Texts, Marks
<1>2. "internal" \in DOMAIN sensitivity_rank /\ "confidential" \in DOMAIN sensitivity_rank
  BY DEF sensitivity_rank
<1> HIDE DEF text
<1>3. a \in Chunks /\ b \in Chunks
  BY <1>1, <1>2 DEF Chunk, Chunks
<1>4. StubChunks(tenant, text) = <<a, b>>
  BY DEF StubChunks
<1> HIDE DEF a, b
<1>5. <<a, b>> \in Seq(Chunks)
  BY <1>3
<1> QED
  BY <1>4, <1>5 DEF text

\* What is retrieved may be seen.
LEMMA RetrieveInv ==
    Inv /\ Retrieve => Inv'
<1> SUFFICES ASSUME Inv, Retrieve PROVE Inv'
  OBVIOUS
<1> DEFINE fetched == IF scenario.chunks = Down
                      THEN StubChunks(scenario.tenant, Text({}, 1))
                      ELSE scenario.chunks
           chunks == retrieve(fetched, scenario.tenant, scenario.decision, deployment.hasKey)
<1>1. Typed /\ Seen(envelope) /\ Decided(envelope) /\ envelope \in Envelopes
  BY DEF Inv, Typed
<1>2. /\ phase = "retrieval" /\ phase' = "second_redaction" /\ status' = status
      /\ ~ (scenario.decision.retrieval /\ scenario.chunks = Malformed)
      /\ scenario' = scenario /\ deployment' = deployment /\ modelDown' = modelDown
      /\ upstream' = upstream /\ client' = client /\ events' = events
  BY DEF Retrieve, Await
<1>3. envelope' = [envelope EXCEPT !.chunks = chunks]
  BY DEF Retrieve
<1>4. /\ chunks \in Seq(Chunks)
      /\ \A i \in 1..Len(chunks) :
             /\ scenario.decision.retrieval
             /\ Admissible(chunks[i], scenario.tenant, scenario.decision, deployment.hasKey)
  <2>1. CASE ~ scenario.decision.retrieval
    <3>1. chunks = <<>>
      BY <2>1 DEF retrieve
    <3>2. <<>> \in Seq(Chunks) /\ Len(<<>>) = 0 /\ 1..0 = {}
      BY EmptySeq
    <3> QED
      BY <3>1, <3>2
  <2>2. CASE scenario.decision.retrieval
    <3>1. fetched \in Seq(Chunks)
      BY <1>1, <1>2, <2>2, ScenarioFacts, StubIs
    <3>2. chunks = retrieve(fetched, scenario.tenant, scenario.decision, deployment.hasKey)
      OBVIOUS
    <3> HIDE DEF fetched, chunks
    <3> QED
      BY <3>1, <3>2, Retrieved
  <2> QED
    BY <2>1, <2>2
<1> HIDE DEF fetched, chunks
<1>5. /\ envelope' \in Envelopes /\ envelope'.chunks = chunks
      /\ envelope'.package = envelope.package /\ envelope'.result = envelope.result
      /\ envelope'.decisions = envelope.decisions /\ envelope'.records = envelope.records
  BY <1>1, <1>3, <1>4 DEF Envelopes
<1>6. status = NoAnswer
  BY <1>1, <1>2 DEF Typed
<1>7. Typed'
  BY <1>1, <1>2, <1>5, <1>6 DEF Typed, Phases
<1>8. Seen(envelope)'
  BY <1>2, <1>4, <1>5 DEF Seen
<1>9. Decided(envelope)'
  BY <1>1, <1>2, <1>5 DEF Decided
<1> QED
  BY <1>2, <1>5, <1>6, <1>7, <1>8, <1>9, EarlyStep DEF NoAnswer

\* A malformed chunk ends the request.
LEMMA RetrievalRaisedInv ==
    Inv /\ RetrievalRaised => Inv'
<1> SUFFICES ASSUME Inv, RetrievalRaised PROVE Inv'
  OBVIOUS
<1>1. Typed /\ Seen(envelope) /\ Decided(envelope)
  BY DEF Inv
<1>2. /\ phase = "retrieval" /\ phase' = "answered" /\ status' = 500
      /\ scenario' = scenario /\ deployment' = deployment /\ modelDown' = modelDown
      /\ envelope' = envelope
      /\ upstream' = upstream /\ client' = client /\ events' = events
  BY DEF RetrievalRaised, Answered
<1>3. Typed'
  BY <1>1, <1>2 DEF Typed, Phases, NoAnswer
<1>4. Seen(envelope)' /\ Decided(envelope)'
  BY <1>1, <1>2 DEF Seen, Decided
<1> QED
  BY <1>2, <1>3, <1>4, EarlyStep

\* So does a tool named null.
LEMMA ToolsRaisedInv ==
    Inv /\ ToolsRaised => Inv'
<1> SUFFICES ASSUME Inv, ToolsRaised PROVE Inv'
  OBVIOUS
<1>1. Typed /\ Seen(envelope) /\ Decided(envelope)
  BY DEF Inv
<1>2. PICK redacted \in Redactions(envelope) :
          envelope' = redacted.envelope /\ modelDown' = redacted.down
  BY DEF ToolsRaised
<1>3. /\ phase = "second_redaction" /\ phase' = "answered" /\ status' = 500
      /\ scenario' = scenario /\ deployment' = deployment
      /\ upstream' = upstream /\ client' = client /\ events' = events
  BY DEF ToolsRaised, Answered
<1>4. Pass(envelope, envelope', modelDown')
  BY <1>1, <1>2, PassIs
<1>5. Typed'
  BY <1>1, <1>3, <1>4 DEF Typed, Pass, Phases, NoAnswer
<1>6. Seen(envelope')
  BY <1>1, <1>4, SeenAfterPass
<1>7. Seen(envelope)'
  BY <1>3, <1>6 DEF Seen
<1>8. Decided(envelope)'
  BY <1>1, <1>3, <1>4 DEF Decided, Pass
<1>9. envelope'.package = envelope.package /\ envelope'.result = envelope.result
  BY <1>4 DEF Pass
<1> QED
  BY <1>3, <1>5, <1>7, <1>8, <1>9, EarlyStep

\* The prompt of an envelope.
LEMMA PackageIs ==
    ASSUME Typed, NEW e \in Envelopes
    PROVE  /\ PackageOf(e) \in Packages
           /\ Rising(PackageOf(e).sections)
           /\ Marked(PackageOf(e))
           /\ e.llmApplied \/ deployment.llmOnly \/ Unshielded(PackageOf(e))
           /\ (/\ \A k \in Speakers : Open(e.texts[k]) => e.texts[k].size = 0
               /\ NoPii(e.chunks)) => Masked(PackageOf(e))
<1> DEFINE user == e.texts["user"]
           history == e.texts["history"]
           p == PackageOf(e)
<1>1. /\ user \in Texts /\ history \in Texts /\ e.chunks \in Seq(Chunks)
      /\ scenario.attachments \in Texts
      /\ "user" \in Speakers /\ "history" \in Speakers
  BY ScenarioFacts DEF Envelopes, Speakers
<1>2. p = build(scenario.decision.mode, user, history, scenario.attachments, e.chunks,
                e.llmApplied, deployment.llmOnly)
  BY DEF PackageOf
<1> HIDE DEF p, user, history
<1>3. /\ p \in Packages
      /\ Rising(p.sections)
      /\ Marked(p)
      /\ e.llmApplied \/ deployment.llmOnly \/ Unshielded(p)
      /\ (/\ Open(user) => user.size = 0
          /\ Open(history) => history.size = 0
          /\ NoPii(e.chunks)) => Masked(p)
  BY <1>1, <1>2, BuildIs
<1>4. ASSUME \A k \in Speakers : Open(e.texts[k]) => e.texts[k].size = 0,
             NoPii(e.chunks)
      PROVE  Masked(p)
  <2>1. /\ Open(user) => user.size = 0
        /\ Open(history) => history.size = 0
    BY <1>1, <1>4 DEF user, history
  <2> QED
    BY <1>3, <1>4, <2>1
<1> QED
  BY <1>3, <1>4 DEF p

\* What tools are decided on leaves the rest of an envelope alone.
LEMMA WithToolsIs ==
    ASSUME Typed, NEW r \in Envelopes
    PROVE  /\ WithTools(r) \in Envelopes
           /\ WithTools(r).texts = r.texts /\ WithTools(r).chunks = r.chunks
           /\ WithTools(r).llmApplied = r.llmApplied
           /\ WithTools(r).result = r.result
           /\ Decided(WithTools(r))
<1> DEFINE ds == evaluate_requested_tools(scenario.tools, scenario.decision, scenario.label,
                                          scenario.permissions)
           rs == execute_allowed_tools(scenario.tools, ds)
           n == Len(scenario.tools)
<1>1. scenario.tools \in Seq(ToolRequests) /\ n \in Nat /\ DOMAIN scenario.tools = 1..n
  BY ScenarioFacts, LenProperties
<1>2. WithTools(r) = [r EXCEPT !.decisions = ds, !.records = rs]
  BY DEF WithTools
<1>3. ds = evaluate_requested_tools(scenario.tools, scenario.decision, scenario.label,
                                    scenario.permissions)
  OBVIOUS
<1>4. rs = execute_allowed_tools(scenario.tools, ds)
  OBVIOUS
<1> HIDE DEF ds, rs
<1>5. /\ ds \in Seq(ToolVerdicts) /\ Len(ds) = n
      /\ \A i \in 1..n : ds[i].tool = scenario.tools[i].name
  BY <1>1, <1>3, ToolsDecided
<1> HIDE DEF n
<1>6. rs \in Seq(ToolVerdicts)
  BY <1>1, <1>4, <1>5, ToolsRun
<1>7. /\ WithTools(r) \in Envelopes
      /\ WithTools(r).texts = r.texts /\ WithTools(r).chunks = r.chunks
      /\ WithTools(r).llmApplied = r.llmApplied
      /\ WithTools(r).result = r.result
      /\ WithTools(r).decisions = ds /\ WithTools(r).records = rs
  BY <1>2, <1>5, <1>6 DEF Envelopes
<1>8. Decided(WithTools(r))
  BY <1>3, <1>4, <1>7 DEF Decided
<1> QED
  BY <1>7, <1>8

\* Tools are decided on, and the prompt is built and cut to its budget.
LEMMA AssembleInv ==
    Inv /\ Assemble => Inv'
<1> SUFFICES ASSUME Inv, Assemble PROVE Inv'
  OBVIOUS
<1>1. Typed /\ Seen(envelope)
  BY DEF Inv
<1>2. envelope.result = NoResult /\ client = NoReply /\ phase = "second_redaction"
  BY DEF Inv, NotYet, Assemble
<1>3. /\ scenario' = scenario /\ deployment' = deployment
      /\ upstream' = upstream /\ client' = client /\ events' = events
  BY DEF Assemble
<1>4. PICK redacted \in Redactions(envelope) :
          LET e == WithTools(redacted.envelope)
              package == PackageOf(e)
              over == package.size > deployment.maxChars /\ deployment.budget # "off"
          IN  /\ envelope' = [e EXCEPT !.package =
                                  IF over /\ deployment.budget = "truncate"
                                  THEN truncate_to_budget(package, deployment.maxChars)
                                  ELSE package]
              /\ modelDown' = redacted.down
              /\ IF over /\ deployment.budget = "block"
                 THEN Answered(413) ELSE Await("upstream")
  BY DEF Assemble
<1> DEFINE r == redacted.envelope
           e == WithTools(r)
           all == PackageOf(e)
           over == all.size > deployment.maxChars /\ deployment.budget # "off"
           cut == truncate_to_budget(all, deployment.maxChars)
           p == IF over /\ deployment.budget = "truncate" THEN cut ELSE all
<1>5. /\ envelope' = [e EXCEPT !.package = p]
      /\ modelDown' = redacted.down
  BY <1>4
<1>6. \/ phase' = "answered" /\ status' = 413 /\ over /\ deployment.budget = "block"
      \/ phase' = "upstream" /\ status' = status
  BY <1>4 DEF Answered, Await
<1>7. Pass(envelope, r, redacted.down)
  BY <1>1, PassIs
<1>8. r \in Envelopes /\ r.result = NoResult /\ redacted.down \in BOOLEAN
  BY <1>2, <1>7 DEF Pass
<1> HIDE DEF r
<1>9. /\ e \in Envelopes
      /\ e.texts = r.texts /\ e.chunks = r.chunks /\ e.llmApplied = r.llmApplied
      /\ e.result = r.result /\ Decided(e)
  BY <1>1, <1>8, WithToolsIs
<1> HIDE DEF e
<1>10. /\ all \in Packages /\ Rising(all.sections) /\ Marked(all)
       /\ e.llmApplied \/ deployment.llmOnly \/ Unshielded(all)
       /\ (/\ \A k \in Speakers : Open(e.texts[k]) => e.texts[k].size = 0
           /\ NoPii(e.chunks)) => Masked(all)
  BY <1>1, <1>9, PackageIs
<1>11. deployment.guardEnabled /\ redacted.down => Masked(all)
  <2> SUFFICES ASSUME deployment.guardEnabled, redacted.down PROVE Masked(all)
    OBVIOUS
  <2>1. /\ \A k \in Speakers : Open(r.texts[k]) => r.texts[k].size = 0
        /\ NoPii(r.chunks)
    BY <1>7 DEF Pass
  <2> HIDE DEF all
  <2> QED
    BY <1>9, <1>10, <2>1
<1>12. deployment.maxChars \in Nat /\ deployment.budget \in {"off", "block", "truncate"}
  BY <1>1, DeploymentFacts
<1>13. cut = truncate_to_budget(all, deployment.maxChars)
  OBVIOUS
<1>14. all = PackageOf(e)
  OBVIOUS
<1> HIDE DEF cut, all
<1>15. /\ cut \in Packages /\ cut.residual = all.residual
       /\ cut.size <= deployment.maxChars
       /\ Rising(cut.sections) /\ From(cut.sections, all.sections)
       /\ KeptOrLeast(cut.sections, all.sections)
  BY <1>10, <1>12, <1>13, TruncatedIs
<1>16. Marked(cut)
  <2> SUFFICES ASSUME NEW i \in 1..Len(cut.sections),
                      detect_regex_residual_sensitive_patterns(cut.sections[i].text)
               PROVE  cut.residual
    BY DEF Marked
  <2>1. PICK j \in 1..Len(all.sections) : all.sections[j] = cut.sections[i]
    BY <1>15 DEF From
  <2> QED
    BY <1>10, <1>15, <2>1 DEF Marked
<1>17. Masked(all) => Masked(cut)
  <2> SUFFICES ASSUME Masked(all), NEW i \in 1..Len(cut.sections),
                      Open(cut.sections[i].text)
               PROVE  cut.sections[i].name = "UNTRUSTED_ATTACHMENTS_METADATA"
    BY DEF Masked
  <2>1. PICK j \in 1..Len(all.sections) : all.sections[j] = cut.sections[i]
    BY <1>15 DEF From
  <2> QED
    BY <2>1 DEF Masked
<1>18. p = cut \/ p = all
  OBVIOUS
<1>19. Unshielded(all) => Unshielded(cut)
  <2> SUFFICES ASSUME Unshielded(all), NEW i \in 1..Len(cut.sections)
               PROVE  "shielded_pii" \notin cut.sections[i].text.marks
    BY DEF Unshielded
  <2>1. PICK j \in 1..Len(all.sections) : all.sections[j] = cut.sections[i]
    BY <1>15 DEF From
  <2> QED
    BY <2>1 DEF Unshielded
<1>20. /\ p \in Packages /\ Marked(p)
       /\ deployment.guardEnabled /\ redacted.down => Masked(p)
       /\ e.llmApplied \/ deployment.llmOnly \/ Unshielded(p)
  <2> HIDE DEF p
  <2> QED
    BY <1>10, <1>11, <1>15, <1>16, <1>17, <1>18, <1>19
<1>21. deployment.budget = "truncate" => Fits(p, all)
  <2> SUFFICES ASSUME deployment.budget = "truncate" PROVE Fits(p, all)
    OBVIOUS
  <2>1. CASE over
    <3>1. p = cut
      BY <2>1
    <3> HIDE DEF p, over
    <3> QED
      BY <1>15, <3>1 DEF Fits
  <2>2. CASE ~ over
    <3>1. p = all
      BY <2>2
    <3>2. all.size \in Nat /\ ~ (all.size > deployment.maxChars)
      BY <1>10, <2>2 DEF Packages
    <3>3. all.size <= deployment.maxChars
      BY <1>12, <3>2
    <3>4. KeptOrLeast(all.sections, all.sections)
      BY DEF KeptOrLeast
    <3> HIDE DEF p, over
    <3> QED
      BY <1>10, <3>1, <3>3, <3>4 DEF Fits
  <2> QED
    BY <2>1, <2>2
<1> HIDE DEF p
<1>22. /\ envelope' \in Envelopes /\ envelope'.package = p
       /\ envelope'.texts = e.texts /\ envelope'.chunks = e.chunks
       /\ envelope'.llmApplied = e.llmApplied /\ envelope'.result = e.result
       /\ envelope'.decisions = e.decisions /\ envelope'.records = e.records
  BY <1>5, <1>9, <1>20 DEF Envelopes
<1>23. status = NoAnswer
  BY <1>1, <1>2 DEF Typed
<1>24. Typed'
  BY <1>1, <1>3, <1>5, <1>6, <1>8, <1>22, <1>23 DEF Typed, Phases, NoAnswer
<1>25. envelope'.result = NoResult /\ client' = NoReply
  BY <1>2, <1>3, <1>8, <1>9, <1>22
<1>26. NotYet'
  BY <1>6, <1>25 DEF NotYet
<1>27. Seen(envelope)'
  <2>1. Seen(r)
    BY <1>1, <1>7, SeenAfterPass
  <2> QED
    BY <1>3, <1>9, <1>22, <2>1 DEF Seen
<1>28. Decided(envelope)'
  BY <1>3, <1>9, <1>22 DEF Decided
<1>29. Marked(envelope.package)'
  BY <1>20, <1>22 DEF Marked
<1>30. (deployment.guardEnabled /\ modelDown => Masked(envelope.package))'
  BY <1>3, <1>5, <1>20, <1>22 DEF Masked
<1>31. Bared'
  BY <1>3, <1>20, <1>22 DEF Bared, Unshielded
<1>32. PackageOf(envelope)' = all
  BY <1>3, <1>14, <1>22 DEF PackageOf
<1>33. (deployment.budget = "truncate" => Fits(envelope.package, PackageOf(envelope)))'
  BY <1>3, <1>21, <1>22, <1>32 DEF Fits
<1>34. Closed'
  BY <1>6, <1>23, <1>25, NothingIs DEF Closed, NoAnswer
<1> QED
  BY <1>24, <1>26, <1>27, <1>28, <1>29, <1>30, <1>33, <1>34, <1>31 DEF Inv

\* What a reply is made of is one.
LEMMA DeliveredIs ==
    ASSUME Typed, ~ ForwardFails
    PROVE  Delivered \in Replies
<1>1. \A text \in ReplyTexts : OllamaReply(text) \in Replies
  <2> SUFFICES ASSUME NEW text \in ReplyTexts PROVE OllamaReply(text) \in Replies
    OBVIOUS
  <2>1. NoReply.values \in [Keys -> {NoValue, NotText} \cup ReplyTexts]
    BY NothingIs
  <2> QED
    BY <2>1, ReplyKeysAre DEF OllamaReply, Reply, Replies
<1>2. ReplyText(1, 0, {}) \in ReplyTexts
  BY DEF ReplyText, ReplyTexts
<1>3. Unavailable \in Replies
  BY <1>1, <1>2 DEF Unavailable
<1>4. ViaGateway => scenario.gatewayReply \in Replies
  BY ScenarioFacts DEF ViaGateway
<1>5. scenario.ollamaText # Down => OllamaReply(scenario.ollamaText) \in Replies
  BY <1>1, ScenarioFacts
<1> QED
  BY <1>3, <1>4, <1>5 DEF Delivered

\* A step that leaves the envelope as it is and answers nothing with 200 keeps
\* the invariant once the prompt is built.
LEMMA LateStep ==
    ASSUME Inv, Typed', phase = "upstream", phase' \in {"output_guard", "answered"},
           scenario' = scenario, deployment' = deployment, envelope' = envelope,
           modelDown' = modelDown, client' = client, status' # 200
    PROVE  Inv'
<1>1. envelope.result = NoResult /\ client = NoReply
  BY DEF Inv, NotYet
<1>2. NotYet'
  BY <1>1 DEF NotYet
<1>3. Seen(envelope)' /\ Decided(envelope)'
  BY DEF Inv, Seen, Decided
<1>4. /\ Marked(envelope.package)'
      /\ (deployment.guardEnabled /\ modelDown => Masked(envelope.package))'
      /\ Bared'
  BY DEF Inv, Marked, Masked, Bared, Unshielded
<1>5. PackageOf(envelope)' = PackageOf(envelope)
  BY DEF PackageOf
<1>6. (deployment.budget = "truncate" => Fits(envelope.package, PackageOf(envelope)))'
  BY <1>5 DEF Inv, Fits
<1>7. Closed'
  BY <1>1, NothingIs DEF Closed
<1> QED
  BY <1>2, <1>3, <1>4, <1>6, <1>7 DEF Inv

\* A reply comes, or is made up.
LEMMA ForwardInv ==
    Inv /\ Forward => Inv'
<1> SUFFICES ASSUME Inv, Forward PROVE Inv'
  OBVIOUS
<1>1. Typed
  BY DEF Inv
<1>2. /\ phase = "upstream" /\ ~ ForwardFails /\ upstream' = Delivered
      /\ \/ phase' = "answered" /\ status' = 500
         \/ phase' = "output_guard" /\ status' = status
      /\ scenario' = scenario /\ deployment' = deployment /\ envelope' = envelope
      /\ modelDown' = modelDown /\ client' = client
  BY DEF Forward, Answered, Await
<1>3. Delivered \in Replies
  BY <1>1, <1>2, DeliveredIs
<1>4. status = NoAnswer
  BY <1>1, <1>2 DEF Typed
<1>5. Typed'
  BY <1>1, <1>2, <1>3, <1>4 DEF Typed, Phases, NoAnswer
<1> QED
  BY <1>2, <1>4, <1>5, LateStep DEF NoAnswer

\* No reply comes.
LEMMA ForwardFailedInv ==
    Inv /\ ForwardFailed => Inv'
<1> SUFFICES ASSUME Inv, ForwardFailed PROVE Inv'
  OBVIOUS
<1>1. Typed
  BY DEF Inv
<1>2. /\ phase = "upstream" /\ phase' = "answered" /\ status' = 502
      /\ scenario' = scenario /\ deployment' = deployment /\ envelope' = envelope
      /\ modelDown' = modelDown /\ upstream' = upstream /\ client' = client
  BY DEF ForwardFailed, Answered
<1>3. Typed'
  BY <1>1, <1>2 DEF Typed, Phases, NoAnswer
<1> QED
  BY <1>2, <1>3, LateStep

\* The guard reads the reply and the client gets what is left.
LEMMA InspectInv ==
    Inv /\ Inspect => Inv'
<1> SUFFICES ASSUME Inv, Inspect PROVE Inv'
  OBVIOUS
<1> DEFINE result == guard_output(envelope.package.size, GuardAnswer, scenario.decision.mode,
                                  upstream)
<1>1. Typed /\ client = NoReply /\ phase = "output_guard"
  BY DEF Inv, NotYet, Inspect
<1>2. /\ envelope' = [envelope EXCEPT !.result = result]
      /\ events' = emit_for_envelope(envelope')
      /\ scenario' = scenario /\ deployment' = deployment
      /\ modelDown' = modelDown /\ upstream' = upstream
  BY DEF Inspect
<1>3. IF result.action = "block"
      THEN phase' = "answered" /\ status' = 502 /\ client' = client
      ELSE phase' = "answered" /\ status' = 200 /\ client' = apply_redaction(upstream, result)
  BY DEF Inspect, Answered
<1>4. result = guard_output(envelope.package.size, GuardAnswer, scenario.decision.mode, upstream)
  OBVIOUS
<1> HIDE DEF result
<1>5. upstream \in Replies /\ envelope \in Envelopes
  BY <1>1 DEF Typed
<1>6. Verdict(result, extract_text(upstream))
  BY <1>4, <1>5, GuardOutputIs
<1>7. result \in Results
  BY <1>6 DEF Verdict
<1>8. /\ envelope' \in Envelopes /\ envelope'.result = result
      /\ envelope'.package = envelope.package /\ envelope'.chunks = envelope.chunks
      /\ envelope'.decisions = envelope.decisions /\ envelope'.records = envelope.records
  BY <1>2, <1>5, <1>7 DEF Envelopes
<1>9. Typed'
  BY <1>1, <1>2, <1>3, <1>8 DEF Typed, Phases, NoAnswer
<1>10. NotYet'
  BY <1>3 DEF NotYet
<1>11. Seen(envelope)' /\ Decided(envelope)'
  BY <1>2, <1>8 DEF Inv, Seen, Decided
<1>12. /\ Marked(envelope.package)'
       /\ (deployment.guardEnabled /\ modelDown => Masked(envelope.package))'
       /\ Bared'
  <2>1. envelope'.llmApplied = envelope.llmApplied
    BY <1>2, <1>5 DEF Envelopes
  <2> QED
    BY <1>2, <1>8, <2>1 DEF Inv, Marked, Masked, Bared, Unshielded
<1>13. envelope'.package.residual => "prompt_pii_residual_alert" \in events'
  BY <1>2 DEF emit_for_envelope
<1>14. Closed'
  BY <1>1, <1>2, <1>3, <1>6, <1>8, <1>13 DEF Closed
<1>15. phase' = "answered"
  BY <1>3
<1> QED
  BY <1>9, <1>10, <1>11, <1>12, <1>14, <1>15 DEF Inv

\* Nothing changes.
LEMMA StutterInv ==
    Inv /\ UNCHANGED vars => Inv'
<1> SUFFICES ASSUME Inv, UNCHANGED vars PROVE Inv'
  OBVIOUS
<1>1. /\ scenario' = scenario /\ deployment' = deployment /\ phase' = phase
      /\ envelope' = envelope /\ modelDown' = modelDown /\ upstream' = upstream
      /\ client' = client /\ events' = events /\ status' = status
  BY DEF vars
<1>2. Typed' /\ NotYet' /\ Seen(envelope)' /\ Decided(envelope)'
  BY <1>1 DEF Inv, Typed, NotYet, Seen, Decided
<1>3. /\ Marked(envelope.package)'
      /\ (deployment.guardEnabled /\ modelDown => Masked(envelope.package))'
      /\ Bared'
  BY <1>1 DEF Inv, Marked, Masked, Bared, Unshielded
<1>4. PackageOf(envelope)' = PackageOf(envelope)
  BY <1>1 DEF PackageOf
<1>5. (deployment.budget = "truncate" /\ phase \in {"upstream", "output_guard"} =>
           Fits(envelope.package, PackageOf(envelope)))'
  BY <1>1, <1>4 DEF Inv, Fits
<1>6. Closed'
  BY <1>1 DEF Inv, Closed
<1> QED
  BY <1>2, <1>3, <1>5, <1>6 DEF Inv

\* The invariant is inductive.
THEOREM Invariance ==
    Spec => []Inv
<1>1. Inv /\ [Next]_vars => Inv'
  BY RedactInputInv, RetrieveInv, RetrievalRaisedInv, AssembleInv, ToolsRaisedInv,
     ForwardInv, ForwardFailedInv, InspectInv, StutterInv DEF Next
<1> QED
  BY InitInv, <1>1, PTL DEF Spec

-----------------------------------------------------------------------------
(* The properties *)

\* Every tool run was asked for by that name, and accepted by the last decision
\* on it, with the arguments it runs with.
LEMMA DecidedIs ==
    ASSUME Typed, Decided(envelope), NEW n, n = Len(scenario.tools)
    PROVE  /\ n \in Nat /\ DOMAIN scenario.tools = 1..n
           /\ Len(envelope.decisions) \in {0, n}
           /\ Len(envelope.records) = Len(envelope.decisions)
           /\ DOMAIN envelope.records = 1..Len(envelope.records)
           /\ \A i \in 1..Len(envelope.records) :
                  /\ i \in 1..n
                  /\ envelope.records[i].tool = scenario.tools[i].name
                  /\ \E m \in 1..n :
                         /\ IsLast(m, scenario.tools[i].name, envelope.decisions)
                         /\ envelope.decisions[m].tool = scenario.tools[m].name
                         /\ envelope.records[i].allowed <=>
                                /\ envelope.decisions[m].allowed
                                /\ envelope.decisions[m].arguments # "tool_like"
                         /\ envelope.records[i].allowed =>
                                envelope.records[i].arguments = envelope.decisions[m].arguments
                         /\ envelope.decisions[m].allowed =>
                                /\ ToolAllowed(scenario.tools[m], scenario.decision,
                                               scenario.label, scenario.permissions)
                                /\ envelope.decisions[m].arguments = scenario.tools[m].arguments
<1> DEFINE ds == envelope.decisions
           rs == envelope.records
           tools == scenario.tools
<1>1. tools \in Seq(ToolRequests) /\ n \in Nat /\ DOMAIN tools = 1..n /\ n = Len(tools)
  BY ScenarioFacts, LenProperties
<1>2. CASE ds = <<>> /\ rs = <<>>
  <2>1. Len(<<>>) = 0 /\ DOMAIN <<>> = {} /\ 1..0 = {}
    BY EmptySeq
  <2> QED
    BY <1>1, <1>2, <2>1
<1>3. CASE /\ ds = evaluate_requested_tools(tools, scenario.decision, scenario.label,
                                            scenario.permissions)
           /\ rs = execute_allowed_tools(tools, ds)
  <2> HIDE DEF ds, rs, tools
  <2>1. /\ ds \in Seq(ToolVerdicts) /\ Len(ds) = n
        /\ \A i \in 1..n :
               /\ ds[i].tool = tools[i].name
               /\ ds[i].allowed =>
                      /\ ToolAllowed(tools[i], scenario.decision, scenario.label,
                                     scenario.permissions)
                      /\ ds[i].arguments = tools[i].arguments
    BY <1>1, <1>3, ToolsDecided
  <2>2. /\ rs \in Seq(ToolVerdicts) /\ Len(rs) = n
        /\ \A i \in 1..n : rs[i].tool = tools[i].name /\ RunBy(rs[i], tools[i].name, ds)
    BY <1>1, <1>3, <2>1, ToolsRun
  <2>3. DOMAIN rs = 1..Len(rs)
    BY <2>2, LenProperties
  <2>4. ASSUME NEW i \in 1..n
        PROVE  \E m \in 1..n :
                   /\ IsLast(m, tools[i].name, ds)
                   /\ ds[m].tool = tools[m].name
                   /\ rs[i].allowed <=> ds[m].allowed /\ ds[m].arguments # "tool_like"
                   /\ rs[i].allowed => rs[i].arguments = ds[m].arguments
                   /\ ds[m].allowed =>
                          /\ ToolAllowed(tools[m], scenario.decision, scenario.label,
                                         scenario.permissions)
                          /\ ds[m].arguments = tools[m].arguments
    <3>1. PICK m \in 1..n :
                   /\ IsLast(m, tools[i].name, ds)
                   /\ rs[i].allowed <=> ds[m].allowed /\ ds[m].arguments # "tool_like"
                   /\ rs[i].allowed => rs[i].arguments = ds[m].arguments
      BY <2>1, <2>2 DEF RunBy
    <3> QED
      BY <2>1, <3>1
  <2> QED
    BY <1>1, <2>1, <2>2, <2>3, <2>4 DEF ds, rs, tools
<1>4. \/ ds = <<>> /\ rs = <<>>
      \/ /\ ds = evaluate_requested_tools(tools, scenario.decision, scenario.label,
                                          scenario.permissions)
         /\ rs = execute_allowed_tools(tools, ds)
  BY DEF Decided
<1> QED
  BY <1>2, <1>3, <1>4

\* The invariant implies the properties, one by one.
LEMMA InvTypeOK ==
    Inv => TypeOK
<1> SUFFICES ASSUME Inv PROVE TypeOK
  OBVIOUS
<1>1. Typed /\ Decided(envelope) /\ envelope \in Envelopes
  BY DEF Inv, Typed
<1>2. /\ Len(envelope.decisions) \in {0, Len(scenario.tools)}
      /\ Len(envelope.records) = Len(envelope.decisions)
  BY <1>1, DecidedIs
<1>3. /\ \A k \in DOMAIN envelope.texts : envelope.texts[k].marks \subseteq Marks
      /\ envelope.llmApplied \in BOOLEAN
      /\ envelope.package.size \in Nat
      /\ envelope.result.action \in {"none", "allow", "redact", "block"}
  BY <1>1 DEF Envelopes, Texts, Packages, Results
<1> QED
  BY <1>1, <1>2, <1>3 DEF TypeOK, Typed

\* Whatever is said, retrieved, asked for and replied, the envelope is well
\* formed: a decision and a record for each tool or for none, a size that is one,
\* and an HTTP status exactly once the request is answered
\* (app/chat_pipeline.py).
THEOREM TypeInvariant ==
    Spec => []TypeOK
  BY Invariance, InvTypeOK, PTL

LEMMA InvContextWithinDecision ==
    Inv => ContextWithinDecision
<1> SUFFICES ASSUME Inv PROVE ContextWithinDecision
  OBVIOUS
<1>1. Typed /\ Seen(envelope) /\ Decided(envelope) /\ scenario.decision \in LetIn
  BY ScenarioFacts DEF Inv
<1>2. envelope.chunks \in Seq(Chunks)
  BY <1>1 DEF Typed, Envelopes
<1>3. ASSUME NEW c \in ToSet(envelope.chunks)
      PROVE  /\ scenario.decision.retrieval
             /\ c.tenant \in {scenario.tenant, NoTenant} \/ scenario.tenant = NoTenant
             /\ c.sensitivity \in {"public", "internal"}
             /\ scenario.decision.sensitivity = "public" => c.sensitivity = "public"
             /\ ~ c.injection /\ c.hash # "wrong"
             /\ deployment.hasKey => c.signature # "wrong"
  <2>1. PICK i \in 1..Len(envelope.chunks) : c = envelope.chunks[i]
    BY <1>2, LenProperties DEF ToSet
  <2>2. c \in Chunks
    BY <1>2, <2>1, ElementOfSeq
  <2>3. /\ scenario.decision.retrieval
        /\ Admissible(c, scenario.tenant, scenario.decision, deployment.hasKey)
    BY <1>1, <2>1 DEF Seen
  <2>4. c.sensitivity \in DOMAIN sensitivity_rank
    BY <2>2 DEF Chunks
  <2>5. /\ Within(c.sensitivity, scenario.decision) => c.sensitivity \in {"public", "internal"}
        /\ Within(c.sensitivity, scenario.decision) /\ scenario.decision.sensitivity = "public"
              => c.sensitivity = "public"
    BY <1>1, <2>4, WithinLetIn
  <2> QED
    BY <2>3, <2>5 DEF Admissible, OfTenant, is_chunk_integrity_valid
<1>4. ASSUME NEW r \in ToSet(envelope.records), r.allowed
      PROVE  r.tool # "email.send" /\ scenario.decision.tools
  <2> DEFINE n == Len(scenario.tools)
  <2>1. PICK i \in 1..Len(envelope.records) : r = envelope.records[i]
    BY <1>1, DecidedIs DEF ToSet
  <2>2. /\ i \in 1..n
        /\ r.tool = scenario.tools[i].name
        /\ \E m \in 1..n :
               /\ IsLast(m, scenario.tools[i].name, envelope.decisions)
               /\ envelope.decisions[m].tool = scenario.tools[m].name
               /\ r.allowed <=> /\ envelope.decisions[m].allowed
                                /\ envelope.decisions[m].arguments # "tool_like"
               /\ envelope.decisions[m].allowed =>
                      ToolAllowed(scenario.tools[m], scenario.decision,
                                  scenario.label, scenario.permissions)
    BY <1>1, <2>1, DecidedIs
  <2>3. PICK m \in 1..n :
               /\ envelope.decisions[m].tool = scenario.tools[i].name
               /\ envelope.decisions[m].tool = scenario.tools[m].name
               /\ ToolAllowed(scenario.tools[m], scenario.decision,
                              scenario.label, scenario.permissions)
    BY <1>4, <2>2 DEF IsLast
  <2>4. /\ scenario.decision.tools
        /\ Within(TOOL_REGISTRY[r.tool].sensitivity, scenario.decision)
    BY <2>2, <2>3 DEF ToolAllowed
  <2>5. ~ Within("confidential", scenario.decision)
    <3>1. "confidential" \in DOMAIN sensitivity_rank
      BY DEF sensitivity_rank
    <3> QED
      BY <1>1, <3>1, WithinLetIn
  <2>6. TOOL_REGISTRY["email.send"].sensitivity = "confidential"
    BY DEF TOOL_REGISTRY, Tool
  <2> QED
    BY <2>4, <2>5, <2>6
<1> QED
  BY <1>3, <1>4 DEF ContextWithinDecision

\* With any backend, any chunks and any tools asked for: only what the decision
\* admits is in the envelope, and under the default bundle nothing confidential
\* is, nor does email.send ever run (filter_chunks and
\* filter_chunks_for_injection of app/retrieval_gateway.py;
\* evaluate_requested_tools of app/tool_gateway.py).
THEOREM ContextSafety ==
    Spec => []ContextWithinDecision
  BY Invariance, InvContextWithinDecision, PTL

LEMMA InvRunsWhatWasAccepted ==
    Inv => RunsWhatWasAccepted
<1> SUFFICES ASSUME Inv PROVE RunsWhatWasAccepted
  OBVIOUS
<1> DEFINE n == Len(scenario.tools)
           rs == envelope.records
           ds == envelope.decisions
           Same(r, j) == scenario.tools[j].name = r.tool
<1>1. Typed /\ Decided(envelope)
  BY DEF Inv
<1>2. /\ n \in Nat /\ DOMAIN scenario.tools = 1..n
      /\ Len(rs) = Len(ds) /\ Len(ds) \in {0, n}
      /\ DOMAIN rs = 1..Len(rs)
  BY <1>1, DecidedIs
<1>3. ASSUME NEW i \in 1..Len(rs), NEW r, r = rs[i]
      PROVE  /\ r.allowed => \E j \in 1..n :
                    /\ Same(r, j)
                    /\ scenario.tools[j].arguments = r.arguments
                    /\ r.arguments \notin {"injection", "tool_call"}
                    /\ ds[j].allowed
             /\ (\A j \in 1..n : Same(r, j) => j = i) =>
                    (r.allowed <=> ds[i].allowed /\ scenario.tools[i].arguments # "tool_like")
  <2>1. PICK m \in 1..n :
            /\ IsLast(m, scenario.tools[i].name, ds)
            /\ ds[m].tool = scenario.tools[m].name
            /\ r.allowed <=> ds[m].allowed /\ ds[m].arguments # "tool_like"
            /\ r.allowed => r.arguments = ds[m].arguments
            /\ ds[m].allowed =>
                   /\ ToolAllowed(scenario.tools[m], scenario.decision,
                                  scenario.label, scenario.permissions)
                   /\ ds[m].arguments = scenario.tools[m].arguments
    BY <1>1, <1>3, DecidedIs
  <2>2. i \in 1..n /\ r.tool = scenario.tools[i].name
    BY <1>1, <1>3, DecidedIs
  <2>3. Same(r, m)
    BY <2>1, <2>2 DEF IsLast
  <2>4. ASSUME r.allowed
        PROVE  /\ scenario.tools[m].arguments = r.arguments
               /\ r.arguments \notin {"injection", "tool_call"}
               /\ ds[m].allowed
    BY <2>1, <2>4 DEF ToolAllowed
  <2>5. ASSUME \A j \in 1..n : Same(r, j) => j = i
        PROVE  r.allowed <=> ds[i].allowed /\ scenario.tools[i].arguments # "tool_like"
    <3>1. m = i
      BY <2>3, <2>5
    <3> QED
      BY <2>1, <3>1
  <2> QED
    BY <2>3, <2>4, <2>5
<1> QED
  BY <1>2, <1>3 DEF RunsWhatWasAccepted

\* However many tools are asked for, and however often: what runs was accepted,
\* with the arguments it runs with (execute_allowed_tools).
THEOREM ToolSafety ==
    Spec => []RunsWhatWasAccepted
  BY Invariance, InvRunsWhatWasAccepted, PTL

LEMMA InvLeastTrustGoesFirst ==
    Inv => LeastTrustGoesFirst
<1> SUFFICES ASSUME Inv, deployment.budget = "truncate", phase \in {"upstream", "output_guard"},
                    NEW left, left = envelope.package.sections,
                    NEW all, all = PackageOf(envelope).sections
             PROVE  /\ \A i, j \in DOMAIN left : i < j =>
                           trust_order[left[i].trust] <= trust_order[left[j].trust]
                    /\ envelope.package.size <= deployment.maxChars
                    /\ \A s \in ToSet(all) \ ToSet(left), i \in DOMAIN left :
                           trust_order[left[i].trust] <= trust_order[s.trust]
  BY DEF LeastTrustGoesFirst
<1>1. Fits(envelope.package, PackageOf(envelope))
  BY DEF Inv
<1>2. Typed /\ envelope \in Envelopes
  BY DEF Inv, Typed
<1>3. left \in Seq(PromptSections) /\ all \in Seq(PromptSections)
  <2>1. PackageOf(envelope) \in Packages
    BY <1>2, PackageIs
  <2> QED
    BY <1>2, <2>1 DEF Envelopes, Packages
<1>4. DOMAIN left = 1..Len(left) /\ DOMAIN all = 1..Len(all)
  BY <1>3, LenProperties
<1>5. Rising(left) /\ envelope.package.size <= deployment.maxChars /\ KeptOrLeast(left, all)
  BY <1>1 DEF Fits
<1>6. ASSUME NEW s \in ToSet(all) \ ToSet(left), NEW i \in DOMAIN left
      PROVE  trust_order[left[i].trust] <= trust_order[s.trust]
  <2>1. PICK a \in 1..Len(all) : s = all[a]
    BY <1>4 DEF ToSet
  <2>2. \A j \in 1..Len(left) : left[j] # all[a]
    BY <1>4, <2>1 DEF ToSet
  <2> QED
    BY <1>4, <1>5, <2>1, <2>2 DEF KeptOrLeast, Rank
<1>7. \A i, j \in DOMAIN left : i < j =>
          trust_order[left[i].trust] <= trust_order[left[j].trust]
  BY <1>4, <1>5 DEF Rising, Rank
<1> QED
  BY <1>5, <1>6, <1>7

\* With any sections and any budget: what is left of a prompt fits, is in order
\* of trust, and no section went while a less trusted one stayed
\* (truncate_to_budget of app/prompt_builder.py).
THEOREM BudgetSafety ==
    Spec => []LeastTrustGoesFirst
  BY Invariance, InvLeastTrustGoesFirst, PTL

LEMMA InvResidualAlerted ==
    Inv => ResidualAlerted
<1> SUFFICES ASSUME Inv, envelope.result # NoResult,
                    NEW s \in ToSet(envelope.package.sections),
                    s.text.marks \cap {"pii", "key", "key_by_pii"} # {}
             PROVE  "prompt_pii_residual_alert" \in events
  BY DEF ResidualAlerted
<1>1. envelope.package.sections \in Seq(PromptSections)
  BY DEF Inv, Typed, Envelopes, Packages
<1>2. PICK i \in 1..Len(envelope.package.sections) : s = envelope.package.sections[i]
  BY <1>1, LenProperties DEF ToSet
<1>3. detect_regex_residual_sensitive_patterns(envelope.package.sections[i].text)
  BY <1>2 DEF detect_regex_residual_sensitive_patterns
<1>4. envelope.package.residual
  BY <1>3 DEF Inv, Marked
<1> QED
  BY <1>4 DEF Inv, Closed

\* Under every setting, with the prompt cut down or not and the answer blocked or
\* not: a sensitive value that a prompt held when it was sent, no placeholder
\* being near it, is in the audit trail (build_from_envelope and
\* detect_regex_residual_sensitive_patterns of app/prompt_builder.py,
\* emit_for_envelope of app/audit_bus.py).
THEOREM AlertSafety ==
    Spec => []ResidualAlerted
  BY Invariance, InvResidualAlerted, PTL

LEMMA InvOutageStillMasks ==
    Inv => OutageStillMasks
<1> SUFFICES ASSUME Inv, deployment.guardEnabled, modelDown,
                    NEW s \in ToSet(envelope.package.sections)
             PROVE  /\ Open(s.text) => s.name = "UNTRUSTED_ATTACHMENTS_METADATA"
                    /\ "shielded_pii" \in s.text.marks =>
                           deployment.llmOnly \/ envelope.llmApplied
  BY DEF OutageStillMasks, Open
<1>1. envelope.package.sections \in Seq(PromptSections)
  BY DEF Inv, Typed, Envelopes, Packages
<1>2. PICK i \in 1..Len(envelope.package.sections) : s = envelope.package.sections[i]
  BY <1>1, LenProperties DEF ToSet
<1>3. Masked(envelope.package) /\ Bared
  BY DEF Inv
<1> QED
  BY <1>2, <1>3 DEF Masked, Bared, Unshielded

\* With any texts, any chunks and any settings: when none of its redaction calls
\* is answered, the patterns have masked what the detectors count and the patterns
\* can mask, but for the names of attachments; a value near a placeholder is left
\* only where the builder takes the sections as they are
\* (apply_residual_failsafe_redaction of app/llm_guard.py, build_from_envelope of
\* app/prompt_builder.py).
THEOREM OutageSafety ==
    Spec => []OutageStillMasks
  BY Invariance, InvOutageStillMasks, PTL

LEMMA InvGuardedTextShown ==
    Inv => GuardedTextShown
<1> SUFFICES ASSUME Inv PROVE GuardedTextShown
  OBVIOUS
<1> DEFINE texts == {k \in ToSet(ReplyKeys) : upstream.values[k] # NoValue}
           shown == ChatTexts(client) \cup {extract_assistant_text(client, envelope.result)}
<1>1. upstream \in Replies
  BY DEF Inv, Typed
<1>2. envelope.result.action = "block" => client = NoReply /\ status = 502
  BY DEF Inv, Closed
<1>3. ASSUME status = 200, Cardinality(texts) <= 1, \A k \in texts : IsText(upstream.values[k]),
             NEW text \in shown
      PROVE  text = envelope.result.text
  <2>1. /\ Verdict(envelope.result, extract_text(upstream))
        /\ envelope.result.action # "block"
        /\ client = apply_redaction(upstream, envelope.result)
    BY <1>3 DEF Inv, Closed
  <2> QED
    BY <1>1, <1>3, <2>1, ShownIs
<1> QED
  BY <1>2, <1>3 DEF GuardedTextShown

\* Of any reply with at most one value, a text, both endpoints show what the
\* output guard left of it, and of a blocked reply nothing (guard_output,
\* apply_redaction, extract_assistant_text).
THEOREM AnswerSafety ==
    Spec => []GuardedTextShown
  BY Invariance, InvGuardedTextShown, PTL
=============================================================================
