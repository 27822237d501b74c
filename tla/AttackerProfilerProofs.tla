------------------------ MODULE AttackerProfilerProofs ------------------------
(***************************************************************************)
(* Proofs about AttackerProfiler, for any clients, finite in number or     *)
(* not, any limit of profiles and any reason codes.                        *)
(***************************************************************************)
EXTENDS AttackerProfiler, FiniteSetTheorems, TLAPS

USE SizeAssumption, CodesAssumption, BoundsAssumption, AbsentAssumption

\* Until something fails a profile in memory is the one in its row.
WrittenThrough ==
    storeOpen /\ faults = 0 => \A c \in Clients : profiles[c] \in {Absent, rows[c]}

IInv ==
    /\ TypeOK
    /\ IsFiniteSet(InMemory)
    /\ WrittenThrough
    /\ MemoryBounded
    /\ RefusalsCounted

-----------------------------------------------------------------------------
(* Profiles *)

LEMMA NewType == ASSUME TypeOK PROVE New \in Profile /\ New.refusals = 0
BY DEF TypeOK, New, Profile

LEMMA LoadedType == ASSUME TypeOK, NEW c \in Clients PROVE Loaded(c) \in Profile \cup {Absent}
BY DEF TypeOK, Loaded

\* A refusal is counted, and lowers no count.
LEMMA RecordedGrows ==
    ASSUME NEW p \in Profile, NEW code \in Codes
    PROVE  LET q == Recorded(p, code)
           IN  /\ q \in Profile /\ q # Absent
               /\ q.refusals = p.refusals + 1
               /\ q.injections >= p.injections
               /\ q.jailbreaks >= p.jailbreaks
               /\ q.escalations >= p.escalations
<1> DEFINE i == One({"INJECTION", "JAILBREAK"} \cap code # {})
           j == One("JAILBREAK" \in code)
           e == One("ESCALATION" \in code)
           a == One("TOOL" \in code)
<1>1. i \in 0..1 /\ j \in 0..1 /\ e \in 0..1 /\ a \in 0..1
    BY DEF One
<1>2. Recorded(p, code) = [p EXCEPT !.refusals = @ + 1, !.injections = @ + i,
                                    !.jailbreaks = @ + j, !.escalations = @ + e,
                                    !.toolAbuses = @ + a]
    BY DEF Recorded
<1> HIDE DEF i, j, e, a
<1>3. /\ p.firstSeen \in Nat /\ p.refusals \in Nat /\ p.injections \in Nat
      /\ p.jailbreaks \in Nat /\ p.escalations \in Nat /\ p.toolAbuses \in Nat
    BY DEF Profile
<1>4. Recorded(p, code) =
          [firstSeen |-> p.firstSeen, refusals |-> p.refusals + 1,
           injections |-> p.injections + i, jailbreaks |-> p.jailbreaks + j,
           escalations |-> p.escalations + e, toolAbuses |-> p.toolAbuses + a]
    BY <1>2 DEF Profile
<1>5. /\ p.refusals + 1 \in Nat /\ p.injections + i \in Nat /\ p.jailbreaks + j \in Nat
      /\ p.escalations + e \in Nat /\ p.toolAbuses + a \in Nat
    BY <1>1, <1>3
<1>6. /\ Recorded(p, code).refusals = p.refusals + 1
      /\ Recorded(p, code).injections = p.injections + i
      /\ Recorded(p, code).jailbreaks = p.jailbreaks + j
      /\ Recorded(p, code).escalations = p.escalations + e
    BY <1>4
<1>7. Recorded(p, code) \in Profile
    BY <1>3, <1>4, <1>5 DEF Profile
<1> QED
    BY <1>1, <1>3, <1>6, <1>7

LEMMA MultiplierAtLeastOne == ASSUME NEW p PROVE Multiplier(p) \in Nat /\ Multiplier(p) >= 1
BY DEF Multiplier

\* The divisor never falls with a count.
LEMMA MultiplierGrows ==
    ASSUME NEW p \in Profile, NEW q \in Profile, q.injections >= p.injections,
           q.jailbreaks >= p.jailbreaks, q.escalations >= p.escalations
    PROVE  Multiplier(p) <= Multiplier(q)
<1>1. p # Absent /\ q # Absent
    OBVIOUS
<1>2. /\ p.injections \in Nat /\ p.jailbreaks \in Nat /\ p.escalations \in Nat
      /\ q.injections \in Nat /\ q.jailbreaks \in Nat /\ q.escalations \in Nat
    BY DEF Profile
<1> QED
    BY <1>1, <1>2 DEF Multiplier

-----------------------------------------------------------------------------
(* A refusal *)

\* What is left in memory, before and after the profile of c is put there.
LEMMA MadeRoomMemory ==
    ASSUME IInv, NEW c \in Clients, NEW code \in Codes, record_refusal(c, code)
    PROVE  \E left \in [Clients -> Profile \cup {Absent}] :
               /\ \A d \in Clients : left[d] \in {profiles[d], Absent}
               /\ profiles' = [left EXCEPT ![c] = Recorded(
                                  IF Loaded(c) = Absent THEN New ELSE Loaded(c), code)]
               /\ IsFiniteSet(InMemory')
               /\ MemoryBounded'
<1>0. TypeOK /\ IsFiniteSet(InMemory)
    BY DEF IInv
<1> DEFINE p == Recorded(IF Loaded(c) = Absent THEN New ELSE Loaded(c), code)
           Holding(f) == {d \in Clients : f[d] # Absent}
<1>1. p \in Profile /\ p # Absent
    BY <1>0, NewType, LoadedType, RecordedGrows
<1>2. PICK left \in {profiles} \cup {[profiles EXCEPT ![v] = Absent] : v \in InMemory} :
          MadeRoom(c, left) /\ profiles' = [left EXCEPT ![c] = p]
    BY DEF record_refusal
<1>3. left \in [Clients -> Profile \cup {Absent}] /\ \A d \in Clients : left[d] \in {profiles[d], Absent}
    BY <1>0, <1>2 DEF TypeOK, InMemory
<1>4. InMemory' = Holding(left) \cup {c}
    BY <1>1, <1>2, <1>3 DEF InMemory
<1>5. Holding(left) \subseteq InMemory
    BY <1>3 DEF InMemory
<1>6. IsFiniteSet(Holding(left)) /\ IsFiniteSet(InMemory')
    <2>1. IsFiniteSet(Holding(left))
        BY <1>0, <1>5, FS_Subset
    <2> QED
        BY <2>1, <1>4, FS_AddElement
<1>7. ASSUME ~ storeOpen PROVE Cardinality(InMemory') <= MaxProfiles
    <2>1. Cardinality(InMemory) <= MaxProfiles /\ Cardinality(InMemory) \in Nat
        BY <1>0, <1>7, FS_CardinalityType DEF IInv, MemoryBounded
    <2>2. Loaded(c) = profiles[c]
        BY <1>7 DEF Loaded
    <2>3. CASE profiles[c] # Absent
        <3>1. left = profiles
            BY <1>2, <2>2, <2>3 DEF MadeRoom
        <3>2. InMemory' = InMemory
            BY <1>4, <2>3, <3>1 DEF InMemory
        <3> QED
            BY <2>1, <3>2
    <2>4. CASE profiles[c] = Absent /\ Cardinality(InMemory) >= MaxProfiles
        <3>1. PICK victim \in InMemory : left = [profiles EXCEPT ![victim] = Absent]
            BY <1>2, <2>2, <2>4 DEF MadeRoom
        <3>2. Holding(left) = InMemory \ {victim}
            BY <1>0, <3>1 DEF InMemory, TypeOK
        <3>3. Cardinality(Holding(left)) = Cardinality(InMemory) - 1
            BY <1>0, <3>1, <3>2, FS_RemoveElement
        <3>4. c \notin Holding(left)
            BY <2>4, <3>2 DEF InMemory
        <3>5. Cardinality(InMemory') = Cardinality(Holding(left)) + 1
            BY <1>4, <1>6, <3>4, FS_AddElement
        <3> QED
            BY <2>1, <3>3, <3>5
    <2>5. CASE profiles[c] = Absent /\ ~ (Cardinality(InMemory) >= MaxProfiles)
        <3>1. left = profiles
            BY <1>2, <2>5 DEF MadeRoom
        <3>2. Holding(left) = InMemory
            BY <3>1 DEF InMemory
        <3>3. c \notin InMemory
            BY <2>5 DEF InMemory
        <3>4. Cardinality(InMemory') = Cardinality(InMemory) + 1
            BY <1>0, <1>4, <3>2, <3>3, FS_AddElement
        <3> QED
            BY <2>1, <2>5, <3>4
    <2> QED
        BY <2>3, <2>4, <2>5
<1>8. MemoryBounded'
    BY <1>7 DEF MemoryBounded, record_refusal
<1> QED
    BY <1>2, <1>3, <1>6, <1>8

LEMMA RefusalIInv ==
    ASSUME IInv, NEW c \in Clients, NEW code \in Codes, record_refusal(c, code)
    PROVE  IInv'
<1>0. TypeOK /\ told[c] \in Nat /\ faults \in Nat
    BY DEF IInv, TypeOK
<1> DEFINE before == IF Loaded(c) = Absent THEN New ELSE Loaded(c)
           p == Recorded(before, code)
<1>1. before \in Profile /\ before.refusals = IF Loaded(c) = Absent THEN 0 ELSE Loaded(c).refusals
    BY <1>0, NewType, LoadedType
<1>2. p \in Profile /\ p # Absent /\ p.refusals = before.refusals + 1
    BY <1>1, RecordedGrows
<1>3. PICK left \in [Clients -> Profile \cup {Absent}] :
          /\ \A d \in Clients : left[d] \in {profiles[d], Absent}
          /\ profiles' = [left EXCEPT ![c] = p]
          /\ IsFiniteSet(InMemory')
          /\ MemoryBounded'
    BY MadeRoomMemory
<1> HIDE DEF before, p
<1>4. /\ refusals' \in 0..MaxRefusals /\ faults' \in 0..MaxFaults
      /\ UNCHANGED <<now, storeOpen>>
      /\ \/ rows' = (IF storeOpen THEN [rows EXCEPT ![c] = p] ELSE rows) /\ faults' = faults
         \/ storeOpen /\ rows' = rows /\ faults' = faults + 1
      /\ told' = [d \in Clients |->
                      IF d = c THEN told[c] + 1
                      ELSE IF Forgotten(d, profiles', rows') THEN 0 ELSE told[d]]
    BY <1>0 DEF record_refusal, TypeOK, p, before
<1>5. /\ profiles'[c] = p /\ profiles' \in [Clients -> Profile \cup {Absent}]
      /\ \A d \in Clients : d # c => profiles'[d] \in {profiles[d], Absent}
    BY <1>2, <1>3
<1>6. /\ rows' \in [Clients -> Profile \cup {Absent}]
      /\ told' \in [Clients -> Nat]
    BY <1>0, <1>2, <1>4 DEF TypeOK
<1>7. TypeOK'
    BY <1>0, <1>4, <1>5, <1>6 DEF TypeOK
<1>8. WrittenThrough'
    <2> SUFFICES ASSUME storeOpen, faults' = 0, NEW d \in Clients
                 PROVE  profiles'[d] \in {Absent, rows'[d]}
        BY <1>4 DEF WrittenThrough
    <2>1. faults = 0 /\ rows' = [rows EXCEPT ![c] = p]
        BY <1>0, <1>4
    <2>2. rows'[c] = p /\ \A o \in Clients : o # c => rows'[o] = rows[o]
        BY <1>0, <2>1 DEF TypeOK
    <2>3. profiles[d] \in {Absent, rows[d]}
        BY <2>1 DEF IInv, WrittenThrough
    <2> QED
        BY <1>5, <2>2, <2>3
<1>9. RefusalsCounted'
    <2> SUFFICES ASSUME faults' = 0, NEW d \in Clients
                 PROVE  told'[d] = IF Loaded(d)' = Absent THEN 0 ELSE Loaded(d)'.refusals
        BY DEF RefusalsCounted
    <2>1. /\ faults = 0
          /\ rows' = IF storeOpen THEN [rows EXCEPT ![c] = p] ELSE rows
        BY <1>0, <1>4
    <2>2. \A o \in Clients : o # c => rows'[o] = rows[o]
        BY <1>0, <2>1 DEF TypeOK
    <2>3. CASE d = c
        <3>1. Loaded(c)' = p
            BY <1>2, <1>5 DEF Loaded
        <3>2. told[c] = before.refusals
            BY <1>1, <2>1 DEF IInv, RefusalsCounted
        <3> QED
            BY <1>2, <1>4, <2>3, <3>1, <3>2
    <2>4. CASE d # c /\ Forgotten(d, profiles', rows')
        <3>1. Loaded(d)' = Absent
            BY <1>4, <2>4 DEF Loaded, Forgotten
        <3>2. told'[d] = 0
            BY <1>4, <2>4
        <3> QED
            BY <3>1, <3>2
    <2>5. CASE d # c /\ ~ Forgotten(d, profiles', rows')
        <3>1. told'[d] = told[d]
            BY <1>4, <2>5
        <3>2. Loaded(d)' = Loaded(d)
            <4>1. CASE storeOpen
                <5>1. profiles[d] \in {Absent, rows[d]}
                    BY <2>1, <4>1 DEF IInv, WrittenThrough
                <5>2. Loaded(d) = rows[d] /\ Loaded(d)' = rows[d]
                    BY <1>4, <1>5, <2>2, <2>5, <4>1, <5>1 DEF Loaded
                <5> QED
                    BY <5>2
            <4>2. CASE ~ storeOpen
                BY <1>4, <1>5, <2>5, <4>2 DEF Loaded, Forgotten
            <4> QED
                BY <4>1, <4>2
        <3>3. told[d] = IF Loaded(d) = Absent THEN 0 ELSE Loaded(d).refusals
            BY <2>1 DEF IInv, RefusalsCounted
        <3> QED
            BY <3>1, <3>2, <3>3
    <2> QED
        BY <2>3, <2>4, <2>5
<1> QED
    BY <1>3, <1>7, <1>8, <1>9 DEF IInv

-----------------------------------------------------------------------------
(* The other steps *)

LEMMA ReadIInv ==
    ASSUME IInv, NEW c \in Clients, get_profile(c)
    PROVE  IInv'
<1>0. TypeOK /\ Loaded(c) \in Profile \cup {Absent}
    BY LoadedType DEF IInv
<1>1. /\ profiles' = [profiles EXCEPT ![c] = Loaded(c)]
      /\ UNCHANGED <<now, storeOpen, rows, told, refusals, faults>>
    BY DEF get_profile
<1>2. TypeOK'
    BY <1>0, <1>1 DEF TypeOK
<1>3. profiles'[c] = Loaded(c) /\ \A d \in Clients : d # c => profiles'[d] = profiles[d]
    BY <1>0, <1>1 DEF TypeOK
<1>4. \A d \in Clients : Loaded(d)' = Loaded(d)
    BY <1>1, <1>3 DEF Loaded
<1>5. IsFiniteSet(InMemory')
    <2>1. InMemory' \subseteq InMemory \cup {c}
        BY <1>3 DEF InMemory
    <2> QED
        BY <2>1, FS_AddElement, FS_Subset DEF IInv
<1>6. MemoryBounded'
    <2>1. CASE storeOpen
        BY <1>1, <2>1 DEF MemoryBounded
    <2>2. CASE ~ storeOpen
        <3>1. InMemory' = InMemory
            BY <1>3, <2>2 DEF InMemory, Loaded
        <3> QED
            BY <1>1, <3>1 DEF IInv, MemoryBounded
    <2> QED
        BY <2>1, <2>2
<1>7. WrittenThrough'
    BY <1>1, <1>3 DEF IInv, WrittenThrough, Loaded
<1>8. RefusalsCounted'
    BY <1>1, <1>4 DEF IInv, RefusalsCounted
<1> QED
    BY <1>2, <1>5, <1>6, <1>7, <1>8 DEF IInv

LEMMA CrashIInv == IInv /\ Crash => IInv'
<1> SUFFICES ASSUME IInv, Crash PROVE IInv'
    OBVIOUS
<1>0. TypeOK
    BY DEF IInv
<1>1. /\ profiles' = [c \in Clients |-> Absent] /\ faults' = faults + 1
      /\ faults \in Nat /\ faults' \in 0..MaxFaults
      /\ UNCHANGED <<now, storeOpen, rows, refusals>>
    BY <1>0 DEF Crash, TypeOK
<1>2. told' \in [Clients -> Nat]
    BY <1>0 DEF Crash, TypeOK
<1>3. TypeOK'
    BY <1>0, <1>1, <1>2 DEF TypeOK
<1>4. InMemory' = {}
    BY <1>1 DEF InMemory
<1>5. IsFiniteSet(InMemory') /\ Cardinality(InMemory') = 0
    BY <1>4, FS_EmptySet
<1>6. MemoryBounded'
    BY <1>5 DEF MemoryBounded
<1>7. WrittenThrough' /\ RefusalsCounted'
    BY <1>1 DEF WrittenThrough, RefusalsCounted
<1> QED
    BY <1>3, <1>5, <1>6, <1>7 DEF IInv

LEMMA StutterIInv == IInv /\ (Tick \/ UNCHANGED vars) => IInv'
<1> SUFFICES ASSUME IInv, Tick \/ UNCHANGED vars PROVE IInv'
    OBVIOUS
<1>1. /\ UNCHANGED <<storeOpen, profiles, rows, told, refusals, faults>>
      /\ now' \in 0..MaxTime
    BY DEF Tick, vars, IInv, TypeOK
<1>2. TypeOK'
    BY <1>1 DEF IInv, TypeOK
<1>3. InMemory' = InMemory /\ \A c \in Clients : Loaded(c)' = Loaded(c)
    BY <1>1 DEF InMemory, Loaded
<1>4. WrittenThrough' /\ RefusalsCounted'
    BY <1>1, <1>3 DEF IInv, WrittenThrough, RefusalsCounted
<1>5. IsFiniteSet(InMemory') /\ MemoryBounded'
    BY <1>1, <1>3 DEF IInv, MemoryBounded
<1> QED
    BY <1>2, <1>4, <1>5 DEF IInv

LEMMA InitIInv == Init => IInv
<1> SUFFICES ASSUME Init PROVE IInv
    OBVIOUS
<1>1. TypeOK
    BY DEF Init, TypeOK
<1>2. InMemory = {}
    BY DEF Init, InMemory
<1>3. IsFiniteSet(InMemory) /\ Cardinality(InMemory) = 0
    BY <1>2, FS_EmptySet
<1>4. MemoryBounded
    BY <1>3 DEF MemoryBounded
<1>5. WrittenThrough /\ RefusalsCounted
    BY DEF Init, WrittenThrough, RefusalsCounted, Loaded
<1> QED
    BY <1>1, <1>3, <1>4, <1>5 DEF IInv

LEMMA NextIInv == IInv /\ [Next]_vars => IInv'
BY RefusalIInv, ReadIInv, CrashIInv, StutterIInv DEF Next

LEMMA Invariance == Spec => []IInv
BY InitIInv, NextIInv, PTL DEF Spec

\* Profiles and rows are well formed in every reachable state.
THEOREM ProfileTypeCorrect == Spec => []TypeOK
BY Invariance, PTL DEF IInv

\* Without a store memory never holds more than max_profiles profiles.
THEOREM MemorySafety == Spec => []MemoryBounded
BY Invariance, PTL DEF IInv

\* Until something fails eviction and reloading lose and repeat no refusal.
THEOREM RefusalSafety == Spec => []RefusalsCounted
BY Invariance, PTL DEF IInv

-----------------------------------------------------------------------------
(* The divisor of the rate limit *)

\* With a store what a client's profile says falls only when memory was ahead
\* of the row.
LEMMA FallsOnlyUnsaved ==
    ASSUME IInv, [Next]_vars, NEW c \in Clients, storeOpen,
           Multiplier(Loaded(c))' < Multiplier(Loaded(c))
    PROVE  faults > 0 /\ profiles[c] # rows[c]
<1>0. TypeOK /\ faults \in Nat
    BY DEF IInv, TypeOK
<1>1. Multiplier(Loaded(c))' = Multiplier(Loaded(c)')
    BY DEF Multiplier
<1>2. Multiplier(Loaded(c)) \in Nat
    BY MultiplierAtLeastOne
<1>3. Loaded(c)' # Loaded(c)
    BY <1>1, <1>2
<1>4. ASSUME NEW d \in Clients, NEW code \in Codes, record_refusal(d, code)
      PROVE  profiles[c] # rows[c] /\ profiles[c] # Absent
    <2> DEFINE p == Recorded(IF Loaded(d) = Absent THEN New ELSE Loaded(d), code)
    <2>1. PICK left \in [Clients -> Profile \cup {Absent}] :
              /\ \A o \in Clients : left[o] \in {profiles[o], Absent}
              /\ profiles' = [left EXCEPT ![d] = p]
        BY <1>4, MadeRoomMemory
    <2>2. storeOpen' = storeOpen /\ \A o \in Clients : o # d => rows'[o] = rows[o]
        BY <1>0, <1>4 DEF record_refusal, TypeOK
    <2>3. CASE c = d
        <3>1. p # Absent /\ Multiplier(Loaded(c)) <= Multiplier(p)
            <4>1. CASE Loaded(c) = Absent
                <5>1. Multiplier(Loaded(c)) = 1
                    BY <4>1 DEF Multiplier
                <5>2. p \in Profile
                    BY <1>0, <2>3, <4>1, NewType, RecordedGrows
                <5> QED
                    BY <5>1, <5>2, MultiplierAtLeastOne
            <4>2. CASE Loaded(c) # Absent
                <5>1. Loaded(c) \in Profile
                    BY <1>0, <4>2, LoadedType
                <5> QED
                    BY <2>3, <4>2, <5>1, RecordedGrows, MultiplierGrows
            <4> QED
                BY <4>1, <4>2
        <3>2. Loaded(c)' = p
            BY <2>1, <2>3, <3>1 DEF Loaded
        <3>3. Multiplier(p) \in Nat
            BY MultiplierAtLeastOne
        <3> QED
            BY <1>1, <1>2, <3>1, <3>2, <3>3
    <2>4. CASE c # d
        <3>1. profiles'[c] \in {profiles[c], Absent} /\ rows'[c] = rows[c]
            BY <2>1, <2>2, <2>4
        <3> QED
            BY <1>3, <2>2, <3>1 DEF Loaded
    <2> QED
        BY <2>3, <2>4
<1>5. ASSUME NEW d \in Clients, get_profile(d) PROVE FALSE
    <2>1. profiles'[c] = IF c = d THEN Loaded(c) ELSE profiles[c]
        BY <1>0, <1>5 DEF get_profile, TypeOK
    <2> QED
        BY <1>3, <1>5, <2>1 DEF get_profile, Loaded
<1>6. Crash => profiles[c] # rows[c] /\ profiles[c] # Absent
    BY <1>3 DEF Crash, Loaded
<1>7. ~ (Tick \/ UNCHANGED vars)
    BY <1>3 DEF Tick, vars, Loaded
<1>8. profiles[c] # rows[c] /\ profiles[c] # Absent
    BY <1>4, <1>5, <1>6, <1>7 DEF Next
<1> QED
    BY <1>0, <1>8 DEF IInv, WrittenThrough

\* The divisor of a client falls only after a failed save of its profile.
THEOREM ThrottleSafety == Spec => ThrottleKept
<1>1. IInv /\ [Next]_vars =>
          [\A c \in Clients :
               storeOpen /\ Multiplier(Loaded(c))' < Multiplier(Loaded(c))
                   => faults > 0 /\ profiles[c] # rows[c]]_vars
    BY FallsOnlyUnsaved
<1> QED
    BY <1>1, Invariance, PTL DEF Spec, ThrottleKept
=============================================================================
