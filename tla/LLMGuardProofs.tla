--------------------------- MODULE LLMGuardProofs ---------------------------
(***************************************************************************)
(* Proofs about LLMGuard, for any number of calls and sessions, any limit  *)
(* and any bound on the clock.                                             *)
(***************************************************************************)
EXTENDS LLMGuard, FiniteSetTheorems, SequenceTheorems, TLAPS

USE CallsAssumption, RateAssumption, TimeAssumption

\* How many of the calls let through have left the window.
Gone == Len(limited) - Len(callTimes)

\* The window holds the last of the calls let through, and all of them that are
\* not more than a second old.
WindowIsRecent ==
    /\ Gone \in Nat
    /\ \A i \in 1..Len(callTimes) : callTimes[i] = limited[Gone + i]
    /\ \A i \in 1..Gone : now - limited[i] > 1

\* Calls are let through one after the other.
InOrder ==
    /\ \A i \in 1..Len(limited) : limited[i] <= now
    /\ \A i, j \in 1..Len(limited) : i <= j => limited[i] <= limited[j]

\* Nothing but a call that timed out twice moves the count the guard is switched
\* off by: no answer takes one back.
NoneTakenBack == timeoutCount = timedOut

IInv ==
    /\ TypeOK /\ WindowIsRecent /\ InOrder /\ FirstTriesLimited /\ RetriesBounded
    /\ NoneTakenBack

AwaitingCalls == {c \in Calls : call[c].phase = "awaiting"}

-----------------------------------------------------------------------------
(* Which calls await their first answer. *)

LEMMA AwaitingFinite == IsFiniteSet(AwaitingCalls) /\ Cardinality(AwaitingCalls) \in Nat
BY FS_Subset, FS_CardinalityType, AwaitingCalls \subseteq Calls DEF AwaitingCalls

\* A call that begins to await adds one.
LEMMA OneMoreAwaits ==
    ASSUME TypeOK, NEW c \in Calls, call[c].phase # "awaiting",
           call' \in [Calls -> Idle \cup Begun], call'[c].phase = "awaiting",
           \A o \in Calls : o # c => call'[o] = call[o]
    PROVE  Cardinality(AwaitingCalls') = Cardinality(AwaitingCalls) + 1
<1>1. AwaitingCalls' = AwaitingCalls \cup {c} /\ c \notin AwaitingCalls
    BY DEF AwaitingCalls
<1> QED
    BY <1>1, AwaitingFinite, FS_AddElement

\* A call that goes on from its first await leaves one less.
LEMMA OneLessAwaits ==
    ASSUME TypeOK, NEW c \in Calls, call[c].phase = "awaiting",
           call' \in [Calls -> Idle \cup Begun], call'[c].phase # "awaiting",
           \A o \in Calls : o # c => call'[o] = call[o]
    PROVE  Cardinality(AwaitingCalls') = Cardinality(AwaitingCalls) - 1
<1>1. AwaitingCalls' = AwaitingCalls \ {c} /\ c \in AwaitingCalls
    BY DEF AwaitingCalls
<1> QED
    BY <1>1, AwaitingFinite, FS_RemoveElement

\* Another step of a call leaves as many.
LEMMA AsManyAwait ==
    ASSUME TypeOK, NEW c \in Calls, call[c].phase # "awaiting", call'[c].phase # "awaiting",
           \A o \in Calls : o # c => call'[o] = call[o]
    PROVE  AwaitingCalls' = AwaitingCalls
BY DEF AwaitingCalls

-----------------------------------------------------------------------------
(* Steps that leave the window and the calls let through as they are. *)

\* What starts or returns keeps the type.
LEMMA StartsType ==
    ASSUME TypeOK, NEW c \in Calls, NEW kind \in Kinds, NEW s \in Sessions,
           NEW phase \in Phases \ {"idle"}, NEW result \in Results,
           phase = "returned" <=> result # "pending",
           Starts(c, kind, s, phase, result)
    PROVE  /\ call' \in [Calls -> Idle \cup Begun]
           /\ call'[c].phase = phase
           /\ \A o \in Calls : o # c => call'[o] = call[o]
           /\ \A o \in Calls : call'[o].phase = "returned" <=> call'[o].result # "pending"
BY DEF TypeOK, Starts, Begun

LEMMA ReturnsType ==
    ASSUME TypeOK, NEW c \in Calls, call[c].phase \in UnderWay,
           NEW result \in Results \ {"pending"}, Returns(c, result)
    PROVE  /\ call' \in [Calls -> Idle \cup Begun]
           /\ call'[c].phase = "returned"
           /\ \A o \in Calls : o # c => call'[o] = call[o]
           /\ \A o \in Calls : call'[o].phase = "returned" <=> call'[o].result # "pending"
<1>1. call[c] \in Begun
    BY DEF TypeOK, Idle, Begun, UnderWay
<1>2. call'[c] = [call[c] EXCEPT !.phase = "returned", !.result = result]
    BY DEF TypeOK, Returns
<1>3. call'[c] \in Begun /\ call'[c].phase = "returned" /\ call'[c].result = result
    BY <1>1, <1>2 DEF Begun, Phases
<1>4. call' = [call EXCEPT ![c] = call'[c]]
    BY <1>2 DEF TypeOK, Returns
<1> QED
    BY <1>3, <1>4 DEF TypeOK

\* A step that lets no call through and changes the number of model calls and of
\* those awaited by no more than it may.
LEMMA QuietStep ==
    ASSUME IInv, UNCHANGED <<now, callTimes, limited>>,
           timeoutCount' \in Nat, timedOut' = timeoutCount', modelCalls' \in Nat,
           call' \in [Calls -> Idle \cup Begun],
           \A o \in Calls : call'[o].phase = "returned" <=> call'[o].result # "pending",
           modelCalls <= modelCalls',
           modelCalls' + Cardinality(AwaitingCalls')
               <= modelCalls + Cardinality(AwaitingCalls)
    PROVE  IInv'
<1>1. TypeOK' /\ WindowIsRecent' /\ InOrder' /\ FirstTriesLimited'
    BY DEF IInv, TypeOK, WindowIsRecent, Gone, InOrder, FirstTriesLimited, Spread,
           NoneTakenBack
<1>2. IsFiniteSet(AwaitingCalls') /\ Cardinality(AwaitingCalls') \in Nat
    BY FS_Subset, FS_CardinalityType, AwaitingCalls' \subseteq Calls DEF AwaitingCalls
<1>3. RetriesBounded'
    BY <1>2, AwaitingFinite DEF IInv, TypeOK, RetriesBounded, AwaitingCalls
<1> QED
    BY <1>1, <1>3 DEF IInv, NoneTakenBack

\* A call that starts and waits for nothing, or for a redaction.
LEMMA StartsQuietly ==
    ASSUME IInv, NEW c \in Calls, call[c].phase = "idle", NEW kind \in Kinds, NEW s \in Sessions,
           NEW phase \in {"returned", "redacting"}, NEW result \in Results,
           phase = "returned" <=> result # "pending",
           Starts(c, kind, s, phase, result),
           UNCHANGED <<now, callTimes, timeoutCount, limited, modelCalls, timedOut>>
    PROVE  IInv'
<1>1. TypeOK /\ phase \in Phases \ {"idle"}
    BY DEF IInv, Phases
<1>2. /\ call' \in [Calls -> Idle \cup Begun]
      /\ call'[c].phase = phase
      /\ \A o \in Calls : o # c => call'[o] = call[o]
      /\ \A o \in Calls : call'[o].phase = "returned" <=> call'[o].result # "pending"
    BY <1>1, StartsType
<1>3. AwaitingCalls' = AwaitingCalls
    BY <1>1, <1>2, AsManyAwait
<1> QED
    BY <1>1, <1>2, <1>3, AwaitingFinite, QuietStep DEF TypeOK, IInv, NoneTakenBack

\* The limit is kept by a call that finds room in the window.
LEMMA RunPromptIInv ==
    ASSUME IInv, NEW c \in Calls, call[c].phase = "idle", NEW kind \in Kinds, NEW s \in Sessions,
           run_prompt(c, kind, s)
    PROVE  IInv'
<1>p. PICK d \in 0..Len(callTimes) :
        /\ Expired(d)
        /\ LET kept == SubSeq(callTimes, d + 1, Len(callTimes))
           IN  \/ /\ Len(kept) >= MaxCallsPerSecond
                  /\ callTimes' = kept
                  /\ Starts(c, kind, s, "returned", "fallback")
                  /\ UNCHANGED <<limited, modelCalls>>
               \/ /\ Len(kept) < MaxCallsPerSecond
                  /\ callTimes' = Append(kept, now)
                  /\ limited' = Append(limited, now)
                  /\ Starts(c, kind, s, "awaiting", "pending")
                  /\ Asks
        /\ UNCHANGED <<now, timeoutCount, timedOut>>
    BY DEF run_prompt
<1> DEFINE kept == SubSeq(callTimes, d + 1, Len(callTimes))
<1>a. callTimes \in Seq(Nat) /\ limited \in Seq(Nat) /\ TypeOK
    BY DEF IInv, TypeOK
<1>0. /\ Len(callTimes) \in Nat /\ Len(limited) \in Nat /\ modelCalls \in Nat
      /\ now \in Nat /\ timeoutCount \in Nat /\ d \in Nat /\ d <= Len(callTimes)
    BY <1>a DEF TypeOK
<1>1. \A i \in (d + 1)..Len(callTimes) : callTimes[i] \in Nat
    BY <1>0, <1>a
<1>2. /\ kept \in Seq(Nat)
      /\ Len(kept) = IF d + 1 <= Len(callTimes) THEN Len(callTimes) - (d + 1) + 1 ELSE 0
      /\ \A i \in 1..(Len(callTimes) - (d + 1) + 1) : kept[i] = callTimes[(d + 1) + i - 1]
    BY <1>1, <1>0, <1>a, SubSeqProperties, d + 1 \in Int, Len(callTimes) \in Int
<1> HIDE DEF kept
<1>3. Len(kept) \in Nat /\ Len(kept) = Len(callTimes) - d
    BY <1>2, <1>0
<1>4. ASSUME NEW i \in 1..Len(kept) PROVE kept[i] = callTimes[d + i]
    <2>1. i \in 1..(Len(callTimes) - (d + 1) + 1) /\ (d + 1) + i - 1 = d + i
        BY <1>3, <1>0
    <2> QED
        BY <2>1, <1>2
\* What is left in the window is the end of the calls let through.
<1>5. Gone \in Nat /\ Len(limited) - Len(kept) = Gone + d /\ Gone + d \in Nat
    BY <1>0, <1>3 DEF IInv, WindowIsRecent, Gone
<1>6. ASSUME NEW i \in 1..Len(kept) PROVE kept[i] = limited[Gone + d + i]
    <2>1. d + i \in 1..Len(callTimes) /\ Gone + (d + i) = Gone + d + i
        BY <1>0, <1>3, <1>5
    <2> QED
        BY <2>1, <1>4 DEF IInv, WindowIsRecent
<1>7. ASSUME NEW i \in 1..(Gone + d) PROVE now - limited[i] > 1
    <2>1. CASE i <= Gone
        BY <2>1, <1>5 DEF IInv, WindowIsRecent
    <2>2. CASE i > Gone
        <3>1. i - Gone \in 1..d /\ i - Gone \in 1..Len(callTimes) /\ Gone + (i - Gone) = i
            BY <2>2, <1>5, <1>0
        <3>2. callTimes[i - Gone] = limited[i]
            BY <3>1 DEF IInv, WindowIsRecent
        <3> QED
            BY <3>1, <3>2, <1>p DEF Expired
    <2> QED
        BY <2>1, <2>2, <1>5, <1>0
<1>8. CASE /\ callTimes' = kept
           /\ Starts(c, kind, s, "returned", "fallback")
           /\ UNCHANGED <<limited, modelCalls, now, timeoutCount, timedOut>>
    <2>1. /\ call' \in [Calls -> Idle \cup Begun]
          /\ call'[c].phase = "returned"
          /\ \A o \in Calls : o # c => call'[o] = call[o]
          /\ \A o \in Calls : call'[o].phase = "returned" <=> call'[o].result # "pending"
        BY <1>8, <1>a, StartsType DEF Phases, Results
    <2>2. TypeOK'
        BY <1>8, <1>0, <1>a, <1>2, <2>1 DEF TypeOK
    <2>3. Gone' = Gone + d
        BY <1>8, <1>5, <1>3, <1>0 DEF Gone
    <2>4. WindowIsRecent'
        BY <1>8, <2>3, <1>5, <1>6, <1>7 DEF WindowIsRecent
    <2>5. InOrder' /\ FirstTriesLimited'
        BY <1>8 DEF IInv, InOrder, FirstTriesLimited, Spread
    <2>6. AwaitingCalls' = AwaitingCalls
        BY <1>a, <2>1, AsManyAwait
    <2> QED
        BY <1>8, <2>2, <2>4, <2>5, <2>6 DEF IInv, RetriesBounded, AwaitingCalls, NoneTakenBack
<1>9. CASE /\ Len(kept) < MaxCallsPerSecond
           /\ callTimes' = Append(kept, now)
           /\ limited' = Append(limited, now)
           /\ Starts(c, kind, s, "awaiting", "pending")
           /\ Asks
           /\ UNCHANGED <<now, timeoutCount, timedOut>>
    <2>1. /\ call' \in [Calls -> Idle \cup Begun]
          /\ call'[c].phase = "awaiting"
          /\ \A o \in Calls : o # c => call'[o] = call[o]
          /\ \A o \in Calls : call'[o].phase = "returned" <=> call'[o].result # "pending"
        BY <1>9, <1>a, StartsType DEF Phases, Results
    <2>a. limited' \in Seq(Nat) /\ callTimes' \in Seq(Nat) /\ modelCalls' \in Nat
        BY <1>9, <1>0, <1>a, <1>2 DEF Asks
    <2>2. /\ Len(limited') = Len(limited) + 1
          /\ Len(callTimes') = Len(kept) + 1
          /\ modelCalls' = modelCalls + 1
        <3>1. kept \in Seq(Nat) /\ now \in Nat
            BY <1>0, <1>2
        <3> QED
            BY <3>1, <1>9, <1>a DEF Asks
    <2>3. /\ \A i \in 1..Len(limited) : limited'[i] = limited[i] /\ limited[i] \in Nat
          /\ limited'[Len(limited) + 1] = now
        BY <1>9, <1>0, <1>a
    <2>4. /\ \A i \in 1..Len(kept) : callTimes'[i] = kept[i]
          /\ callTimes'[Len(kept) + 1] = now
        BY <1>9, <1>0, <1>2, <1>3
    <2>5. TypeOK'
        BY <1>9, <1>0, <2>1, <2>a, <1>a DEF TypeOK
    <2>6. Gone' = Gone + d
        BY <2>2, <1>5, <1>3, <1>0 DEF Gone
    <2>7. WindowIsRecent'
        <3>1. ASSUME NEW i \in 1..Len(callTimes') PROVE callTimes'[i] = limited'[Gone' + i]
            <4>1. CASE i \in 1..Len(kept)
                <5>1. Gone + d + i \in 1..Len(limited)
                    BY <4>1, <1>5, <1>0, <1>3
                <5> QED
                    BY <4>1, <5>1, <1>6, <2>3, <2>4, <2>6
            <4>2. CASE i = Len(kept) + 1
                <5>1. Gone + d + i = Len(limited) + 1
                    BY <4>2, <1>5, <1>0, <1>3
                <5> QED
                    BY <4>2, <5>1, <2>3, <2>4, <2>6
            <4> QED
                BY <4>1, <4>2, <2>2, <1>3
        <3>2. ASSUME NEW i \in 1..(Gone + d) PROVE now' - limited'[i] > 1
            <4>1. i \in 1..Len(limited)
                BY <1>5, <1>0, <1>3
            <4> QED
                BY <4>1, <2>3, <1>7, <1>9
        <3> QED
            BY <3>1, <3>2, <2>6, <1>5 DEF WindowIsRecent
    <2>8. InOrder'
        <3>1. ASSUME NEW i \in 1..Len(limited) PROVE limited[i] <= now /\ limited[i] \in Nat
            BY <2>3 DEF IInv, InOrder
        <3>2. ASSUME NEW i \in 1..Len(limited'), NEW j \in 1..Len(limited'), i <= j
              PROVE  limited'[i] <= limited'[j]
            <4>1. (i \in 1..Len(limited) \/ i = Len(limited) + 1)
                      /\ (j \in 1..Len(limited) \/ (j = Len(limited) + 1))
                BY <2>2, <1>0
            <4>2. CASE j \in 1..Len(limited)
                <5>1. i \in 1..Len(limited)
                    BY <4>2, <3>2, <1>0
                <5> QED
                    BY <4>2, <5>1, <2>3, <3>2 DEF IInv, InOrder
            <4>3. CASE j = Len(limited) + 1
                BY <4>1, <4>3, <3>1, <2>3, <1>0
            <4> QED
                BY <4>1, <4>2, <4>3
        <3>3. ASSUME NEW i \in 1..Len(limited') PROVE limited'[i] <= now'
            <4>1. i \in 1..Len(limited) \/ i = Len(limited) + 1
                BY <2>2, <1>0
            <4> QED
                BY <4>1, <3>1, <2>3, <1>0, <1>9
        <3> QED
            BY <3>2, <3>3 DEF InOrder
    <2>9. FirstTriesLimited'
        <3> SUFFICES ASSUME NEW i \in 1..Len(limited'),
                            i + MaxCallsPerSecond \in 1..Len(limited')
                     PROVE  limited'[i + MaxCallsPerSecond] - limited'[i] > 1
            BY <2>2 DEF FirstTriesLimited, Spread
        <3>1. CASE i + MaxCallsPerSecond <= Len(limited)
            <4>1. i \in 1..Len(limited) /\ i + MaxCallsPerSecond \in 1..Len(limited)
                BY <3>1, <2>2, <1>0
            <4>a. FirstTriesLimited /\ DOMAIN limited = 1..Len(limited)
                BY <1>a DEF IInv
            <4>2. limited[i + MaxCallsPerSecond] - limited[i] > 1
                BY <4>1, <4>a DEF FirstTriesLimited, Spread
            <4> QED
                BY <4>1, <4>2, <2>3
        <3>2. CASE i + MaxCallsPerSecond = Len(limited) + 1
            <4>1. i \in 1..(Gone + d) /\ i \in 1..Len(limited)
                BY <3>2, <2>2, <1>9, <1>0, <1>3, <1>5
            <4> QED
                BY <4>1, <3>2, <1>7, <2>3
        <3> QED
            BY <3>1, <3>2, <2>2, <1>0
    <2>10. Cardinality(AwaitingCalls') = Cardinality(AwaitingCalls) + 1
        BY <1>a, <2>1, OneMoreAwaits
    <2>11. RetriesBounded'
        BY <2>2, <2>10, <1>0, AwaitingFinite DEF IInv, RetriesBounded, AwaitingCalls
    <2> QED
        BY <1>9, <2>5, <2>7, <2>8, <2>9, <2>11 DEF IInv, NoneTakenBack
<1> QED
    BY <1>p, <1>8, <1>9 DEF kept

\* A call under way that returns, having asked the model no more.
LEMMA ReturnsQuietly ==
    ASSUME IInv, NEW c \in Calls, call[c].phase \in UnderWay,
           NEW result \in Results \ {"pending"},
           Returns(c, result), timeoutCount' \in Nat, timedOut' = timeoutCount',
           UNCHANGED <<now, callTimes, limited, modelCalls>>
    PROVE  IInv'
<1>1. TypeOK
    BY DEF IInv
<1>2. /\ call' \in [Calls -> Idle \cup Begun]
      /\ call'[c].phase = "returned"
      /\ \A o \in Calls : o # c => call'[o] = call[o]
      /\ \A o \in Calls : call'[o].phase = "returned" <=> call'[o].result # "pending"
    BY <1>1, ReturnsType
<1>3. Cardinality(AwaitingCalls') \in Nat /\ Cardinality(AwaitingCalls') <= Cardinality(AwaitingCalls)
    <2>1. CASE call[c].phase = "awaiting"
        <3>1. Cardinality(AwaitingCalls') = Cardinality(AwaitingCalls) - 1
            BY <1>1, <1>2, <2>1, OneLessAwaits
        <3>2. AwaitingCalls' \subseteq AwaitingCalls
            BY <1>2, <2>1 DEF AwaitingCalls
        <3>3. Cardinality(AwaitingCalls') \in Nat
            BY <3>2, AwaitingFinite, FS_Subset, FS_CardinalityType
        <3> QED
            BY <3>1, <3>3, AwaitingFinite
    <2>2. CASE call[c].phase # "awaiting"
        <3>1. AwaitingCalls' = AwaitingCalls
            BY <1>1, <1>2, <2>2, AsManyAwait
        <3> QED
            BY <3>1, AwaitingFinite
    <2> QED
        BY <2>1, <2>2
<1>4. modelCalls \in Nat
    BY <1>1 DEF TypeOK
<1> QED
    BY <1>2, <1>3, <1>4, AwaitingFinite, QuietStep

\* A call that times out asks the model once more, and is awaited no more for its
\* first answer.
LEMMA TimedOutIInv ==
    ASSUME IInv, NEW c \in Calls, TimedOut(c)
    PROVE  IInv'
<1>1. TypeOK /\ call[c].phase = "awaiting" /\ "retrying" \in Phases \ {"idle"}
      /\ call[c].phase \in UnderWay
    BY DEF IInv, TimedOut, Phases, UnderWay
<1>2. call[c] \in Begun /\ call[c].result = "pending"
    BY <1>1 DEF TypeOK, Idle, Begun
<1>3. /\ call' = [call EXCEPT ![c] = [call[c] EXCEPT !.phase = "retrying"]]
      /\ call \in [Calls -> Idle \cup Begun]
    BY <1>1 DEF TimedOut, TypeOK
<1>4. /\ call' \in [Calls -> Idle \cup Begun]
      /\ call'[c].phase = "retrying"
      /\ \A o \in Calls : o # c => call'[o] = call[o]
      /\ \A o \in Calls : call'[o].phase = "returned" <=> call'[o].result # "pending"
    <2>1. /\ [call[c] EXCEPT !.phase = "retrying"] \in Begun
          /\ [call[c] EXCEPT !.phase = "retrying"].phase = "retrying"
          /\ [call[c] EXCEPT !.phase = "retrying"].result = "pending"
        BY <1>1, <1>2 DEF Begun
    <2>2. \A o \in Calls : call[o].phase = "returned" <=> call[o].result # "pending"
        BY <1>1 DEF TypeOK
    <2>3. call'[c] = [call[c] EXCEPT !.phase = "retrying"] /\ call' \in [Calls -> Idle \cup Begun]
        BY <1>3, <2>1
    <2>4. \A o \in Calls : o # c => call'[o] = call[o]
        BY <1>3
    <2> QED
        BY <2>1, <2>2, <2>3, <2>4
<1>5. Cardinality(AwaitingCalls') = Cardinality(AwaitingCalls) - 1
    BY <1>1, <1>4, OneLessAwaits
<1>6. /\ modelCalls \in Nat /\ now \in Nat /\ timeoutCount \in Nat
      /\ modelCalls' = modelCalls + 1
      /\ UNCHANGED <<now, callTimes, timeoutCount, limited, timedOut>>
    BY <1>1 DEF TypeOK, TimedOut, Asks
<1>7. modelCalls' \in Nat /\ modelCalls' = modelCalls + 1 /\ modelCalls \in Nat
    BY <1>6
<1>8. /\ modelCalls <= modelCalls'
      /\ modelCalls' + Cardinality(AwaitingCalls')
             <= modelCalls + Cardinality(AwaitingCalls)
    BY <1>5, <1>7, AwaitingFinite
<1> QED
    BY <1>4, <1>6, <1>7, <1>8, QuietStep DEF IInv, NoneTakenBack

LEMMA TickIInv == IInv /\ Tick => IInv'
<1> SUFFICES ASSUME IInv, Tick PROVE IInv'
    OBVIOUS
<1>1. /\ now \in 0..MaxTime /\ now' \in 0..MaxTime /\ now' = now + 1
      /\ UNCHANGED <<callTimes, timeoutCount, call, limited, modelCalls, timedOut>>
    BY DEF IInv, TypeOK, Tick
<1>2. TypeOK'
    BY <1>1 DEF IInv, TypeOK
<1>3. \A i \in 1..Len(limited) : limited[i] \in Nat
    BY DEF IInv, TypeOK
<1>4. InOrder'
    BY <1>1, <1>3 DEF IInv, InOrder
<1>5. \A i \in 1..Gone : i \in 1..Len(limited)
    BY DEF IInv, TypeOK, WindowIsRecent, Gone
<1>6. WindowIsRecent'
    BY <1>1, <1>3, <1>5 DEF IInv, WindowIsRecent, Gone
<1>7. FirstTriesLimited' /\ RetriesBounded'
    BY <1>1 DEF IInv, FirstTriesLimited, Spread, RetriesBounded
<1> QED
    BY <1>1, <1>2, <1>4, <1>6, <1>7 DEF IInv, NoneTakenBack

-----------------------------------------------------------------------------
(* The invariant *)

LEMMA InitIInv == Init => IInv
<1> SUFFICES ASSUME Init PROVE IInv
    OBVIOUS
<1>1. TypeOK
    BY DEF Init, TypeOK, Idle, Begun
<1>2. WindowIsRecent /\ InOrder /\ FirstTriesLimited
    BY DEF Init, WindowIsRecent, Gone, InOrder, FirstTriesLimited, Spread
<1>3. {c \in Calls : call[c].phase = "awaiting"} = {}
    BY DEF Init
<1>4. Len(limited) = 0 /\ modelCalls = 0 /\ NoneTakenBack
    BY DEF Init, NoneTakenBack
<1>5. Cardinality({c \in Calls : call[c].phase = "awaiting"}) = 0
    BY <1>3, FS_EmptySet
<1>6. RetriesBounded
    BY <1>4, <1>5 DEF RetriesBounded
<1> QED
    BY <1>1, <1>2, <1>4, <1>6 DEF IInv

LEMMA StartIInv ==
    ASSUME IInv, NEW c \in Calls, NEW s \in Sessions,
           analyze_input(c, s) \/ analyze_output(c, s) \/ redact_text(c, s)
    PROVE  IInv'
<1>1. CASE analyze_input(c, s)
    <2>1. CASE SwitchedOff(c, s)
        BY <1>1, <2>1, StartsQuietly DEF analyze_input, SwitchedOff, Kinds, Results
    <2>2. CASE Skipped(c, "input", s)
        BY <1>1, <2>2, StartsQuietly DEF analyze_input, Skipped, Kinds, Results
    <2>3. CASE run_prompt(c, "input", s)
        BY <1>1, <2>3, RunPromptIInv DEF analyze_input, Kinds
    <2> QED
        BY <1>1, <2>1, <2>2, <2>3 DEF analyze_input
<1>2. CASE analyze_output(c, s)
    <2>1. CASE Skipped(c, "output", s)
        BY <1>2, <2>1, StartsQuietly DEF analyze_output, Skipped, Kinds, Results
    <2>2. CASE run_prompt(c, "output", s)
        BY <1>2, <2>2, RunPromptIInv DEF analyze_output, Kinds
    <2> QED
        BY <1>2, <2>1, <2>2 DEF analyze_output
<1>3. CASE redact_text(c, s)
    BY <1>3, StartsQuietly DEF redact_text, Kinds, Results
<1> QED
    BY <1>1, <1>2, <1>3

LEMMA ResumeIInv ==
    ASSUME IInv, NEW c \in Calls, Resume(c)
    PROVE  IInv'
<1>0. timeoutCount \in Nat /\ timedOut = timeoutCount
    BY DEF IInv, TypeOK, NoneTakenBack
<1>1. CASE Redacted(c)
    BY <1>0, <1>1, ReturnsQuietly DEF Redacted, UnderWay, Results
<1>2. CASE Answered(c)
    BY <1>0, <1>2, ReturnsQuietly DEF Answered, UnderWay, Results
<1>3. CASE Failed(c)
    BY <1>0, <1>3, ReturnsQuietly DEF Failed, UnderWay, Results
<1>4. CASE TimedOut(c)
    BY <1>4, TimedOutIInv
<1>5. CASE RetryFailed(c)
    <2>1. timeoutCount' \in Nat /\ timedOut' = timeoutCount'
        BY <1>0, <1>5 DEF RetryFailed
    <2> QED
        BY <1>5, <2>1, ReturnsQuietly DEF RetryFailed, UnderWay, Results
<1> QED
    BY <1>1, <1>2, <1>3, <1>4, <1>5 DEF Resume

LEMMA NextIInv == IInv /\ [Next]_vars => IInv'
<1> SUFFICES ASSUME IInv, [Next]_vars PROVE IInv'
    OBVIOUS
<1>1. CASE \E c \in Calls, s \in Sessions :
               analyze_input(c, s) \/ analyze_output(c, s) \/ redact_text(c, s)
    BY <1>1, StartIInv
<1>2. CASE \E c \in Calls : Resume(c)
    BY <1>2, ResumeIInv
<1>3. CASE Tick
    BY <1>3, TickIInv
<1>4. CASE UNCHANGED vars
    BY <1>4 DEF vars, IInv, TypeOK, WindowIsRecent, Gone, InOrder, FirstTriesLimited, Spread,
                RetriesBounded, NoneTakenBack
<1> QED
    BY <1>1, <1>2, <1>3, <1>4 DEF Next

\* The type invariant of the guard client.
THEOREM GuardTypeCorrect == Spec => []TypeOK
<1>1. IInv => TypeOK
    BY DEF IInv
<1> QED
    BY <1>1, InitIInv, NextIInv, PTL DEF Spec

\* Whatever calls interleave and however they end, first tries keep to the limit.
THEOREM FirstTriesSafety == Spec => []FirstTriesLimited
<1>1. IInv => FirstTriesLimited
    BY DEF IInv
<1> QED
    BY <1>1, InitIInv, NextIInv, PTL DEF Spec

\* The retries past the window double what the model is asked, and no more.
THEOREM RetriesSafety == Spec => []RetriesBounded
<1>1. IInv => RetriesBounded
    BY DEF IInv
<1> QED
    BY <1>1, InitIInv, NextIInv, PTL DEF Spec

\* A step never adds an input analysis once three calls have timed out.
LEMMA OffStaysOff ==
    ASSUME IInv, [Next]_vars, timedOut >= 3
    PROVE  AskingInput' \subseteq AskingInput
<1>0. TypeOK /\ timeoutCount \in Nat /\ timeoutCount >= 3
    BY DEF IInv, TypeOK, NoneTakenBack
\* What a call that starts may do then.
<1>1. ASSUME NEW c \in Calls, NEW kind \in Kinds, NEW s \in Sessions,
             NEW phase \in Phases \ {"idle"}, NEW result \in Results,
             phase = "returned" <=> result # "pending",
             Starts(c, kind, s, phase, result), phase = "returned" \/ kind # "input"
      PROVE  AskingInput' \subseteq AskingInput
    <2>1. /\ \A o \in Calls : o # c => call'[o] = call[o]
          /\ call'[c].phase = phase /\ call'[c].kind = kind
        BY <1>0, <1>1 DEF TypeOK, Starts
    <2> QED
        BY <1>1, <2>1 DEF AskingInput, UnderWay
\* What a call that goes on may do.
<1>2. ASSUME NEW c \in Calls, call[c].phase \in UnderWay,
             \A o \in Calls : o # c => call'[o] = call[o],
             call'[c].kind = call[c].kind
      PROVE  AskingInput' \subseteq AskingInput
    BY <1>2 DEF AskingInput
<1>3. ASSUME NEW c \in Calls, NEW s \in Sessions,
             analyze_input(c, s) \/ analyze_output(c, s) \/ redact_text(c, s)
      PROVE  AskingInput' \subseteq AskingInput
    <2>1. CASE analyze_input(c, s)
        <3>1. SwitchedOff(c, s)
            BY <1>0, <2>1 DEF analyze_input
        <3> QED
            BY <3>1, <1>1 DEF SwitchedOff, Kinds, Phases, Results
    <2>2. CASE analyze_output(c, s)
        <3>1. PICK phase \in Phases \ {"idle"}, result \in Results :
                  /\ phase = "returned" <=> result # "pending"
                  /\ Starts(c, "output", s, phase, result)
            BY <2>2 DEF analyze_output, Skipped, run_prompt, Phases, Results
        <3> QED
            BY <3>1, <1>1 DEF Kinds
    <2>3. CASE redact_text(c, s)
        BY <2>3, <1>1 DEF redact_text, Kinds, Phases, Results
    <2> QED
        BY <1>3, <2>1, <2>2, <2>3
<1>4. ASSUME NEW c \in Calls, Resume(c)
      PROVE  AskingInput' \subseteq AskingInput
    <2>1. call[c].phase \in UnderWay
        BY <1>4 DEF Resume, Redacted, Answered, Failed, TimedOut, RetryFailed, UnderWay
    <2>2. call[c] \in Begun
        BY <1>0, <2>1 DEF TypeOK, Idle, Begun, UnderWay
    <2>3. CASE TimedOut(c)
        <3>1. call' = [call EXCEPT ![c] = [call[c] EXCEPT !.phase = "retrying"]]
            BY <2>3 DEF TimedOut
        <3>2. [call[c] EXCEPT !.phase = "retrying"].kind = call[c].kind
            BY <2>2 DEF Begun
        <3> QED
            BY <1>0, <2>1, <3>1, <3>2, <1>2 DEF TypeOK
    <2>4. ASSUME NEW result, Returns(c, result) PROVE AskingInput' \subseteq AskingInput
        <3>1. call' = [call EXCEPT ![c] =
                  [call[c] EXCEPT !.phase = "returned", !.result = result]]
            BY <2>4 DEF Returns
        <3>2. [call[c] EXCEPT !.phase = "returned", !.result = result].kind = call[c].kind
            BY <2>2 DEF Begun
        <3> QED
            BY <1>0, <2>1, <3>1, <3>2, <1>2 DEF TypeOK
    <2> QED
        BY <1>4, <2>3, <2>4 DEF Resume, Redacted, Answered, Failed, RetryFailed
<1>5. ASSUME Tick \/ UNCHANGED vars PROVE AskingInput' \subseteq AskingInput
    BY <1>5 DEF Tick, vars, AskingInput
<1> QED
    BY <1>3, <1>4, <1>5 DEF Next

\* Whatever the model answers, and whenever: after three calls that timed out twice
\* no further input analysis asks it (NoneTakenBack: the count it is switched off by
\* never falls).
THEOREM OffSafety == Spec => StaysOff
<1>1. IInv /\ [Next]_vars => [timedOut >= 3 => AskingInput' \subseteq AskingInput]_vars
    BY OffStaysOff
<1> QED
    BY <1>1, InitIInv, NextIInv, PTL DEF Spec, StaysOff
=============================================================================
