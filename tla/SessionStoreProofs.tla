-------------------------- MODULE SessionStoreProofs --------------------------
(***************************************************************************)
(* Proofs about SessionStore, for any set of session ids and any bounds:   *)
(* the two counts of a deny, and that the write-through cache implements   *)
(* DurableSessions.                                                        *)
(***************************************************************************)
EXTENDS SessionStore, TLAPS

USE BoundsAssumption, AbsentAssumption

UnderWay(id) == IF midDeny = id THEN 1 ELSE 0

\* A deployment without a store writes no row.
NoStoreNoRows == ~ storeOpen => \A id \in SessionIds : rows[id] = Absent

\* Between the two saves of a deny the refusal of its session is counted, and
\* the attempt is not.
RefusedFirst ==
    midDeny # Absent =>
        /\ sessions[midDeny] # Absent
        /\ sessions[midDeny].refusals > sessions[midDeny].injections

IInv == TypeOK /\ NoStoreNoRows /\ RefusedFirst /\ DenyCountedTwice /\ EscalationNeedsRepeat

Repeats(s) == s.escalations > 0 => s.escalations < s.injections

Parted(s) == s.refusals - s.injections

-----------------------------------------------------------------------------
(* What the methods make of a session *)

LEMMA FreshType == Fresh \in Session /\ Parted(Fresh) = 0 /\ Repeats(Fresh)
BY DEF Fresh, Session, RiskStates, Parted, Repeats

\* A method that counts neither refusals nor attempts.
LEMMA OthersKeep ==
    ASSUME NEW s \in Session, NEW stateName \in RiskStates,
           NEW t \in {Requested(s), Assessed(s, stateName), ToolUsed(s)}
    PROVE  t \in Session /\ Parted(t) = Parted(s) /\ (Repeats(s) => Repeats(t)) /\ Grown(s, t)
<1>1. CASE t = Requested(s)
    BY <1>1 DEF Requested, Session, Parted, Repeats, Grown, Counters
<1>2. CASE t = Assessed(s, stateName)
    BY <1>2 DEF Assessed, Session, Parted, Repeats, Grown, Counters
<1>3. CASE t = ToolUsed(s)
    BY <1>3 DEF ToolUsed, Session, Parted, Repeats, Grown, Counters
<1> QED
    BY <1>1, <1>2, <1>3

LEMMA RefusedParts ==
    ASSUME NEW s \in Session
    PROVE  /\ Refused(s) \in Session /\ Parted(Refused(s)) = Parted(s) + 1
           /\ Repeats(s) => Repeats(Refused(s))
           /\ Grown(s, Refused(s))
BY DEF Refused, Session, Parted, Repeats, Grown, Counters

LEMMA AttemptedParts ==
    ASSUME NEW s \in Session, NEW score \in {0, 60}
    PROVE  /\ Attempted(s, score) \in Session /\ Parted(Attempted(s, score)) = Parted(s) - 1
           /\ Repeats(s) => Repeats(Attempted(s, score))
           /\ Grown(s, Attempted(s, score))
<1> DEFINE t == Attempted(s, score)
           e == IF Escalates(s, score) THEN s.escalations + 1 ELSE s.escalations
<1>a. s.escalations \in Nat /\ s.injections \in Nat
    BY DEF Session
<1>2. e \in Nat /\ (e = s.escalations \/ (e = s.escalations + 1 /\ s.injections >= 1))
    BY <1>a DEF Escalates
<1>b. t = [s EXCEPT !.injections = s.injections + 1, !.escalations = e]
    BY Zenon DEF Attempted
<1> HIDE DEF t, e
<1>1. /\ t.refusals = s.refusals /\ t.injections = s.injections + 1
      /\ t.requests = s.requests /\ t.toolRequests = s.toolRequests /\ t.state = s.state
      /\ t.escalations = e
    BY <1>b DEF Session
<1>c. t \in Session
    <2>1. \A i \in Nat, n \in Nat : [s EXCEPT !.injections = i, !.escalations = n] \in Session
        BY DEF Session
    <2>2. s.injections + 1 \in Nat
        BY <1>a
    <2> QED
        BY <1>2, <1>b, <2>1, <2>2
<1>3. Parted(t) = Parted(s) - 1
    BY <1>1 DEF Session, Parted
<1>4. Repeats(s) => Repeats(t)
    BY <1>1, <1>2, <1>a DEF Repeats
<1>5. Grown(s, t)
    BY <1>1, <1>2, <1>a DEF Session, Grown, Counters
<1> QED
    BY <1>1, <1>3, <1>4, <1>5, <1>c DEF t

-----------------------------------------------------------------------------
(* What callers see *)

LEMMA LoadedType ==
    ASSUME IInv, NEW id \in SessionIds, Loaded(id) # Absent
    PROVE  /\ Loaded(id) \in Session /\ Repeats(Loaded(id))
           /\ Parted(Loaded(id)) \in 0..(faults + UnderWay(id))
BY DEF IInv, TypeOK, Loaded, DenyCountedTwice, EscalationNeedsRepeat, Repeats, Parted, UnderWay

\* A step that gives one session the object s, and saves it or fails to.
LEMMA PutIInv ==
    ASSUME IInv, NEW id \in SessionIds, NEW s \in Session,
           Saved(id, s) \/ SaveRaises(id, s),
           midDeny \in {Absent, id}, midDeny' \in {Absent, id},
           Repeats(s), Parted(s) \in 0..(faults' + UnderWay(id)'),
           midDeny' = id => s.refusals > s.injections
    PROVE  IInv'
<1>1. /\ sessions' = [sessions EXCEPT ![id] = s]
      /\ storeOpen' = storeOpen /\ faults \in 0..MaxFaults /\ faults' \in 0..MaxFaults
      /\ storeOpen \in BOOLEAN
      /\ sessions \in [SessionIds -> Session \cup {Absent}]
      /\ rows \in [SessionIds -> Session \cup {Absent}]
    BY DEF IInv, TypeOK, Saved, SaveRaises
<1>2. \/ rows' = rows /\ storeOpen /\ faults' = faults + 1
      \/ rows' = rows /\ ~ storeOpen /\ faults' = faults
      \/ rows' = [rows EXCEPT ![id] = s] /\ storeOpen /\ faults' \in {faults, faults + 1}
    BY <1>1 DEF Saved, SaveRaises
<1>3. TypeOK'
    BY <1>1, <1>2 DEF IInv, TypeOK, Saved, SaveRaises
<1>4. NoStoreNoRows'
    BY <1>1, <1>2 DEF IInv, NoStoreNoRows
<1>5. RefusedFirst'
    BY <1>1 DEF RefusedFirst
<1>6. ASSUME NEW other \in SessionIds, NEW x \in {sessions'[other], rows'[other]} \ {Absent}
      PROVE  /\ Parted(x) \in 0..(faults' + UnderWay(other)')
             /\ Repeats(x)
    <2>1. CASE x = s /\ other = id
        BY <2>1
    <2>2. CASE other # id
        <3>1. x \in {sessions[other], rows[other]} \ {Absent} /\ x \in Session
            BY <1>1, <1>2, <1>6, <2>2
        <3>2. Parted(x) \in 0..(faults + UnderWay(other)) /\ Repeats(x)
            BY <3>1 DEF IInv, DenyCountedTwice, EscalationNeedsRepeat, Repeats, Parted, UnderWay
        <3>3. UnderWay(other) = 0 /\ UnderWay(other)' = 0
            BY <2>2 DEF UnderWay
        <3> QED
            BY <3>2, <3>3, <1>1, <1>2
    <2>3. CASE x # s /\ other = id
        <3>1. x = rows[id] /\ x # Absent /\ x \in Session /\ rows' = rows /\ rows[id] # s
            <4>1. sessions'[id] = s /\ x \in {sessions'[id], rows'[id]} /\ x # Absent
                BY <1>1, <1>6, <2>3
            <4>2. x = rows'[id] /\ rows'[id] # s
                BY <4>1, <2>3
            <4>3. rows' = rows
                BY <4>2, <1>1, <1>2
            <4> QED
                BY <4>1, <4>2, <4>3, <1>1
        <3>2. faults' = faults + 1
            BY <1>1, <1>2, <3>1 DEF IInv, NoStoreNoRows
        <3>3. Parted(x) \in 0..(faults + UnderWay(id)) /\ Repeats(x)
            BY <3>1 DEF IInv, DenyCountedTwice, EscalationNeedsRepeat, Repeats, Parted, UnderWay
        <3>4. UnderWay(id) \in 0..1 /\ UnderWay(id)' \in 0..1
            BY DEF UnderWay
        <3> QED
            BY <3>2, <3>3, <3>4, <2>3, <1>1
    <2> QED
        BY <2>1, <2>2, <2>3
<1>7. DenyCountedTwice' /\ EscalationNeedsRepeat'
    BY <1>6 DEF DenyCountedTwice, EscalationNeedsRepeat, Parted, Repeats, UnderWay
<1> QED
    BY <1>3, <1>4, <1>5, <1>7 DEF IInv

\* A method that counts nothing of a deny.
LEMMA PlainIInv ==
    ASSUME IInv, NEW id \in SessionIds, midDeny = Absent, NEW s \in Session,
           SaveOrRaise(id, s), Repeats(s),
           Parted(s) = 0 \/ Parted(s) \in 0..(faults + UnderWay(id))
    PROVE  IInv'
<1>1. UnderWay(id) = 0 /\ UnderWay(id)' = 0 /\ midDeny' = Absent
    BY DEF SaveOrRaise, UnderWay
<1>2. faults \in Nat /\ faults' \in Nat /\ faults' >= faults
    BY DEF IInv, TypeOK, SaveOrRaise, Saved, SaveRaises
<1>3. Parted(s) \in 0..(faults' + UnderWay(id)')
    BY <1>1, <1>2
<1> QED
    BY <1>1, <1>3, PutIInv DEF SaveOrRaise

LEMMA RefusalIInv ==
    ASSUME IInv, NEW id \in SessionIds, record_refusal(id)
    PROVE  IInv'
<1> DEFINE s == Refused(Loaded(id))
<1>1. /\ midDeny = Absent /\ Loaded(id) # Absent
      /\ \/ Saved(id, s) /\ midDeny' = id
         \/ SaveRaises(id, s) /\ midDeny' = Absent
    BY DEF record_refusal, Loaded
<1>2. Loaded(id) \in Session /\ Repeats(Loaded(id)) /\ Parted(Loaded(id)) \in 0..faults
    <2>1. UnderWay(id) = 0 /\ faults \in Nat
        BY <1>1 DEF UnderWay, IInv, TypeOK
    <2> QED
        BY <2>1, <1>1, LoadedType
<1>3. s \in Session /\ Repeats(s) /\ Parted(s) = Parted(Loaded(id)) + 1
    BY <1>2, RefusedParts
<1>4. Parted(s) \in 0..(faults' + UnderWay(id)')
    BY <1>1, <1>2, <1>3 DEF UnderWay, Saved, SaveRaises, IInv, TypeOK
<1>5. s.refusals > s.injections
    BY <1>2, <1>3 DEF Parted, Session
<1> QED
    BY <1>1, <1>3, <1>4, <1>5, PutIInv

LEMMA AttemptIInv ==
    ASSUME IInv, NEW id \in SessionIds, NEW score \in {0, 60},
           record_injection_attempt(id, score)
    PROVE  IInv'
<1> DEFINE s == Attempted(Loaded(id), score)
<1>1. /\ midDeny = id /\ midDeny' = Absent
      /\ Saved(id, s) \/ SaveRaises(id, s)
    BY DEF record_injection_attempt
<1>2. sessions[id] # Absent /\ Loaded(id) = sessions[id] /\ Loaded(id).refusals > Loaded(id).injections
    BY <1>1 DEF IInv, RefusedFirst, Loaded
<1>3. Loaded(id) \in Session /\ Repeats(Loaded(id)) /\ Parted(Loaded(id)) \in 1..(faults + 1)
    <2>1. UnderWay(id) = 1 /\ faults \in Nat
        BY <1>1 DEF UnderWay, IInv, TypeOK
    <2>2. Loaded(id) \in Session /\ Repeats(Loaded(id)) /\ Parted(Loaded(id)) \in 0..(faults + 1)
        BY <2>1, <1>2, LoadedType
    <2>3. Parted(Loaded(id)) > 0
        BY <2>2, <1>2 DEF Parted, Session
    <2> QED
        BY <2>1, <2>2, <2>3
<1>4. s \in Session /\ Repeats(s) /\ Parted(s) = Parted(Loaded(id)) - 1
    BY <1>3, AttemptedParts
<1>5. Parted(s) \in 0..(faults' + UnderWay(id)')
    BY <1>1, <1>3, <1>4 DEF UnderWay, Saved, SaveRaises, IInv, TypeOK
<1> QED
    BY <1>1, <1>4, <1>5, PutIInv

LEMMA CrashIInv == IInv /\ Crash => IInv'
<1> SUFFICES ASSUME IInv, Crash PROVE IInv'
    OBVIOUS
<1>1. /\ faults \in 0..MaxFaults /\ faults' \in 0..MaxFaults /\ faults' = faults + 1
      /\ sessions' = [id \in SessionIds |-> Absent] /\ midDeny' = Absent
      /\ storeOpen' = storeOpen /\ rows' = rows /\ outcome' = "crashed"
    BY DEF IInv, TypeOK, Crash
<1>2. TypeOK' /\ NoStoreNoRows' /\ RefusedFirst'
    BY <1>1 DEF IInv, TypeOK, NoStoreNoRows, RefusedFirst
<1>3. EscalationNeedsRepeat'
    BY <1>1 DEF IInv, EscalationNeedsRepeat
<1>4. ASSUME NEW id \in SessionIds, rows[id] # Absent
      PROVE  Parted(rows[id]) \in 0..(faults' + UnderWay(id)')
    <2>1. Parted(rows[id]) \in 0..(faults + UnderWay(id))
        BY <1>4 DEF IInv, DenyCountedTwice, Parted, UnderWay
    <2>2. UnderWay(id) \in 0..1 /\ UnderWay(id)' \in 0..1
        BY DEF UnderWay
    <2> QED
        BY <1>1, <2>1, <2>2
<1>5. DenyCountedTwice'
    BY <1>1, <1>4 DEF DenyCountedTwice, Parted, UnderWay
<1> QED
    BY <1>2, <1>3, <1>5 DEF IInv

-----------------------------------------------------------------------------
(* The invariant *)

LEMMA InitIInv == Init => IInv
BY DEF Init, IInv, TypeOK, NoStoreNoRows, RefusedFirst, DenyCountedTwice, EscalationNeedsRepeat

LEMMA NextIInv == IInv /\ [Next]_vars => IInv'
<1> SUFFICES ASSUME IInv, [Next]_vars PROVE IInv'
    OBVIOUS
<1>1. ASSUME NEW id \in SessionIds, get_or_create_session(id) PROVE IInv'
    BY <1>1, LoadedType, FreshType, PlainIInv DEF get_or_create_session
<1>2. ASSUME NEW id \in SessionIds, update_from_request(id) PROVE IInv'
    <2>1. sessions[id] = Loaded(id) /\ Loaded(id) # Absent
        BY <1>2 DEF update_from_request, Loaded
    <2>2. "normal" \in RiskStates
        BY DEF RiskStates
    <2> QED
        BY <1>2, <2>1, <2>2, LoadedType, OthersKeep, PlainIInv DEF update_from_request
<1>3. ASSUME NEW id \in SessionIds, NEW stateName \in RiskStates, append_risk_score(id, stateName)
      PROVE  IInv'
    <2>1. Loaded(id) # Absent
        BY <1>3 DEF append_risk_score, Loaded
    <2> QED
        BY <1>3, <2>1, LoadedType, OthersKeep, PlainIInv DEF append_risk_score
<1>4. ASSUME NEW id \in SessionIds, record_tool_request(id) PROVE IInv'
    <2>1. Loaded(id) # Absent /\ "normal" \in RiskStates
        BY <1>4 DEF record_tool_request, Loaded, RiskStates
    <2> QED
        BY <1>4, <2>1, LoadedType, OthersKeep, PlainIInv DEF record_tool_request
<1>5. CASE UNCHANGED vars
    BY <1>5 DEF vars, IInv, TypeOK, NoStoreNoRows, RefusedFirst, DenyCountedTwice,
                EscalationNeedsRepeat
<1> QED
    BY <1>1, <1>2, <1>3, <1>4, <1>5, RefusalIInv, AttemptIInv, CrashIInv DEF Next

LEMMA Invariance == Spec => []IInv
BY InitIInv, NextIInv, PTL DEF Spec

\* Sessions and rows are well formed in every reachable state.
THEOREM StoreTypeCorrect == Spec => []TypeOK
BY Invariance, PTL DEF IInv

\* The two counts of a deny part by no more than the deny under way and the
\* crashes and failed saves there were.
THEOREM DenySafety == Spec => []DenyCountedTwice
BY Invariance, PTL DEF IInv

\* An escalation needs an earlier attempt.
THEOREM EscalationSafety == Spec => []EscalationNeedsRepeat
BY Invariance, PTL DEF IInv

-----------------------------------------------------------------------------
(* The refinement of DurableSessions *)

Values == [id \in SessionIds |-> Loaded(id)]

LEMMA GrownSame == ASSUME NEW s \in Session PROVE Grown(s, s)
BY DEF Grown, Counters, Session

\* A save, or one that raises, of a fresh or grown session is a step of the promise.
LEMMA PutPromised ==
    ASSUME IInv, NEW id \in SessionIds, NEW s \in Session,
           Saved(id, s) \/ SaveRaises(id, s),
           IF Loaded(id) = Absent THEN s = Fresh ELSE Grown(Loaded(id), s)
    PROVE  Promise!Next
<1>1. /\ sessions' = [sessions EXCEPT ![id] = s]
      /\ storeOpen' = storeOpen /\ storeOpen \in BOOLEAN
      /\ sessions \in [SessionIds -> Session \cup {Absent}]
      /\ rows \in [SessionIds -> Session \cup {Absent}]
      /\ s # Absent
    BY DEF IInv, TypeOK, Saved, SaveRaises
<1>2. \/ /\ outcome' = "returned"
         /\ rows' = IF storeOpen THEN [rows EXCEPT ![id] = s] ELSE rows
      \/ /\ outcome' = "raised" /\ storeOpen
         /\ rows' \in {rows, [rows EXCEPT ![id] = s]}
    BY <1>1 DEF Saved, SaveRaises
<1>3. Loaded(id)' = s /\ \A other \in SessionIds \ {id} : Loaded(other)' = Loaded(other)
    BY <1>1, <1>2 DEF Loaded
<1>4. Values'[id] = s /\ \A other \in SessionIds \ {id} : Values'[other] = Values[other]
    BY <1>3 DEF Values
<1>5. Promise!Written(id)
    BY <1>1, <1>2, <1>4 DEF Promise!Written, Promise!Returned, Promise!Raised, Values
<1>6. CASE Loaded(id) = Absent
    <2>1. s = Fresh
        BY <1>6
    <2>2. Values[id] = Absent /\ Values'[id] = Fresh
        BY <1>4, <1>6, <2>1 DEF Values
    <2> QED
        BY <1>5, <2>2 DEF Promise!Create, Promise!Next, Promise!Fresh, Fresh, Values
<1>7. CASE Loaded(id) # Absent
    <2>1. Grown(Loaded(id), s)
        BY <1>7
    <2>2. Values[id] # Absent /\ Values'[id] # Absent /\ Grown(Values[id], Values'[id])
        BY <1>1, <1>4, <1>7, <2>1 DEF Values
    <2> QED
        BY <1>5, <2>2 DEF Promise!Change, Promise!Next, Promise!Grown, Promise!Counters,
                            Grown, Counters, Values
<1> QED
    BY <1>6, <1>7

LEMMA CrashPromised == IInv /\ Crash => Promise!Next
<1> SUFFICES ASSUME IInv, Crash PROVE Promise!Crash
    BY DEF Promise!Next
<1>1. \A id \in SessionIds : Loaded(id)' = rows[id]
    BY DEF Crash, Loaded, IInv, NoStoreNoRows
<1>2. Values' = rows
    BY <1>1 DEF IInv, TypeOK, Values
<1> QED
    BY <1>2 DEF Promise!Crash, Crash, Values

LEMMA StepPromised == IInv /\ [Next]_vars => [Promise!Next]_(Promise!vars)
<1> SUFFICES ASSUME IInv, [Next]_vars PROVE [Promise!Next]_(Promise!vars)
    OBVIOUS
<1>0. "normal" \in RiskStates
    BY DEF RiskStates
<1>1. ASSUME NEW id \in SessionIds, get_or_create_session(id) PROVE Promise!Next
    BY <1>1, LoadedType, FreshType, GrownSame, PutPromised DEF get_or_create_session, SaveOrRaise
<1>2. ASSUME NEW id \in SessionIds, update_from_request(id) PROVE Promise!Next
    <2>1. sessions[id] = Loaded(id) /\ Loaded(id) # Absent
        BY <1>2 DEF update_from_request, Loaded
    <2> QED
        BY <1>0, <1>2, <2>1, LoadedType, OthersKeep, PutPromised
           DEF update_from_request, SaveOrRaise
<1>3. ASSUME NEW id \in SessionIds, NEW stateName \in RiskStates, append_risk_score(id, stateName)
      PROVE  Promise!Next
    <2>1. Loaded(id) # Absent
        BY <1>3 DEF append_risk_score, Loaded
    <2> QED
        BY <1>3, <2>1, LoadedType, OthersKeep, PutPromised DEF append_risk_score, SaveOrRaise
<1>4. ASSUME NEW id \in SessionIds, record_tool_request(id) PROVE Promise!Next
    <2>1. Loaded(id) # Absent
        BY <1>4 DEF record_tool_request, Loaded
    <2> QED
        BY <1>0, <1>4, <2>1, LoadedType, OthersKeep, PutPromised
           DEF record_tool_request, SaveOrRaise
<1>5. ASSUME NEW id \in SessionIds, record_refusal(id) PROVE Promise!Next
    <2>1. Loaded(id) # Absent
        BY <1>5 DEF record_refusal, Loaded
    <2> QED
        BY <1>5, <2>1, LoadedType, RefusedParts, PutPromised DEF record_refusal
<1>6. ASSUME NEW id \in SessionIds, NEW score \in {0, 60}, record_injection_attempt(id, score)
      PROVE  Promise!Next
    <2>1. Loaded(id) # Absent
        BY <1>6 DEF record_injection_attempt, Loaded, IInv, RefusedFirst
    <2> QED
        BY <1>6, <2>1, LoadedType, AttemptedParts, PutPromised DEF record_injection_attempt
<1>7. CASE UNCHANGED vars
    BY <1>7 DEF vars, Promise!vars, Loaded
<1> QED
    BY <1>1, <1>2, <1>3, <1>4, <1>5, <1>6, <1>7, CrashPromised DEF Next

\* Through any crashes and failing saves callers see what DurableSessions
\* promises: a session only grows, a change whose save returned is in its row,
\* and a crash takes a session back to that row.
THEOREM CacheSafety == Spec => ImplementsDurableSessions
<1>1. Init => Promise!Init
    BY DEF Init, Promise!Init, Loaded
<1> QED
    BY <1>1, StepPromised, Invariance, PTL DEF Spec, ImplementsDurableSessions, Promise!Spec
=============================================================================
