-------------------------- MODULE AttackerProfiler --------------------------
(***************************************************************************)
(* The attacker profiles (app/attacker_profiler.py): at most max_profiles  *)
(* of them in memory, the oldest evicted to make room, written through to  *)
(* the store when there is one, over crashes and saves that raise.  What   *)
(* they are for is the divisor of the rate limit they give a client.       *)
(*                                                                         *)
(* A client is a (client_id, subject) pair.  Each method is one action:    *)
(* none holds an await.  A deny has one reason code, as every rule of      *)
(* default_policy.json gives one, known by what the profiler looks for in  *)
(* its name (ESCALATION stands for PRIVILEGE too).  The list of reasons    *)
(* and the alerts are left out: they are only logged and shown.            *)
(***************************************************************************)
EXTENDS Integers, FiniteSets

CONSTANTS
    Clients,
    MaxProfiles,     \* max_profiles
    Codes,           \* the reason codes of a deny, by the words they hold
    Absent,          \* no profile
    MaxRefusals,     \* bound on the refusals recorded
    MaxFaults,       \* bound on crashes and failing saves
    MaxTime          \* bound on the clock

Words == {"INJECTION", "JAILBREAK", "ESCALATION", "TOOL"}

ASSUME SizeAssumption == MaxProfiles \in Nat \ {0}
ASSUME CodesAssumption == Codes \subseteq SUBSET Words
ASSUME BoundsAssumption == MaxRefusals \in Nat /\ MaxFaults \in Nat /\ MaxTime \in Nat

Profile == [firstSeen : Nat, refusals : Nat, injections : Nat, jailbreaks : Nat,
            escalations : Nat, toolAbuses : Nat]

ASSUME AbsentAssumption == Absent \notin Profile

VARIABLES
    now,
    storeOpen,     \* get_state_store gives this deployment a store, at every start
    profiles,      \* _profiles
    rows,          \* the rows of namespace "attacker_profile"
    told,          \* history: refusals recorded of a client since its profile was last lost
    refusals,      \* refusals recorded so far
    faults         \* crashes and failed saves so far

vars == <<now, storeOpen, profiles, rows, told, refusals, faults>>

TypeOK ==
    /\ now \in 0..MaxTime
    /\ storeOpen \in BOOLEAN
    /\ profiles \in [Clients -> Profile \cup {Absent}]
    /\ rows \in [Clients -> Profile \cup {Absent}]
    /\ told \in [Clients -> Nat]
    /\ refusals \in 0..MaxRefusals
    /\ faults \in 0..MaxFaults

Init ==
    /\ now = 0
    /\ storeOpen \in BOOLEAN
    /\ profiles = [c \in Clients |-> Absent]
    /\ rows = [c \in Clients |-> Absent]
    /\ told = [c \in Clients |-> 0]
    /\ refusals = 0
    /\ faults = 0

-----------------------------------------------------------------------------
New == [firstSeen |-> now, refusals |-> 0, injections |-> 0, jailbreaks |-> 0,
        escalations |-> 0, toolAbuses |-> 0]

One(condition) == IF condition THEN 1 ELSE 0

\* Variant: the sign of the increment wrong.
RecordedDown(p, code) == [p EXCEPT !.refusals = @ - 1]

\* A profile after one more refusal with this reason code.
Recorded(p, code) ==
    [p EXCEPT !.refusals = @ + 1,
              !.injections = @ + One({"INJECTION", "JAILBREAK"} \cap code # {}),
              !.jailbreaks = @ + One("JAILBREAK" \in code),
              !.escalations = @ + One("ESCALATION" \in code),
              !.toolAbuses = @ + One("TOOL" \in code)]

\* Cap at 20.
Multiplier(p) ==
    IF p = Absent THEN 1
    ELSE LET product == (IF p.jailbreaks >= 3 THEN 5 ELSE 1)
                          * (IF p.escalations >= 2 THEN 3 ELSE 1)
                          * (IF p.injections >= 5 THEN 2 ELSE 1)
         IN  IF product < 20 THEN product ELSE 20

InMemory == {c \in Clients : profiles[c] # Absent}

\* Variant: the row never looked at.
LoadedFromMemory(c) == profiles[c]

\* The profile of this process, else the row.
Loaded(c) == IF profiles[c] = Absent /\ storeOpen THEN rows[c] ELSE profiles[c]

Oldest(c) ==
    c \in InMemory /\ \A other \in InMemory : profiles[c].firstSeen <= profiles[other].firstSeen

\* Variant: room made only when the limit is already exceeded.
MadeRoomLate(c, left) ==
    IF Loaded(c) = Absent /\ Cardinality(InMemory) > MaxProfiles
    THEN \E victim \in InMemory :
             Oldest(victim) /\ left = [profiles EXCEPT ![victim] = Absent]
    ELSE left = profiles

\* What is left in memory before c's first profile is put there: at the limit
\* an oldest one goes, however many more were loaded from the store.
MadeRoom(c, left) ==
    IF Loaded(c) = Absent /\ Cardinality(InMemory) >= MaxProfiles
    THEN \E victim \in InMemory :
             Oldest(victim) /\ left = [profiles EXCEPT ![victim] = Absent]
    ELSE left = profiles

\* A profile that is neither in memory nor in a row is lost.
Forgotten(c, inMemory, inRows) == inMemory[c] = Absent /\ (storeOpen => inRows[c] = Absent)

record_refusal(c, code) ==
    LET p == Recorded(IF Loaded(c) = Absent THEN New ELSE Loaded(c), code)
    IN  /\ refusals < MaxRefusals
        /\ refusals' = refusals + 1
        /\ \E left \in {profiles} \cup {[profiles EXCEPT ![v] = Absent] : v \in InMemory} :
               MadeRoom(c, left) /\ profiles' = [left EXCEPT ![c] = p]
        /\ \/ /\ rows' = IF storeOpen THEN [rows EXCEPT ![c] = p] ELSE rows
              /\ UNCHANGED faults
           \/ /\ storeOpen /\ faults < MaxFaults      \* put_json raises
              /\ faults' = faults + 1
              /\ UNCHANGED rows
        /\ told' = [d \in Clients |->
                        IF d = c THEN told[c] + 1
                        ELSE IF Forgotten(d, profiles', rows') THEN 0 ELSE told[d]]
        /\ UNCHANGED <<now, storeOpen>>

\* get_adaptive_rate_limit_multiplier, called for every request: it brings a
\* stored profile back to memory and makes no room for it.
get_profile(c) ==
    /\ profiles' = [profiles EXCEPT ![c] = Loaded(c)]
    /\ UNCHANGED <<now, storeOpen, rows, told, refusals, faults>>

Crash ==
    /\ faults < MaxFaults
    /\ faults' = faults + 1
    /\ profiles' = [c \in Clients |-> Absent]
    /\ told' = [c \in Clients |-> IF Forgotten(c, profiles', rows) THEN 0 ELSE told[c]]
    /\ UNCHANGED <<now, storeOpen, rows, refusals>>

Tick ==
    /\ now < MaxTime
    /\ now' = now + 1
    /\ UNCHANGED <<storeOpen, profiles, rows, told, refusals, faults>>

Next ==
    \/ \E c \in Clients :
           \/ \E code \in Codes : record_refusal(c, code)
           \/ get_profile(c)
    \/ Crash
    \/ Tick

Spec == Init /\ [][Next]_vars

-----------------------------------------------------------------------------
(* Properties *)

\* Without a store the memory never holds more than max_profiles.  (With one
\* it may: get_profile reloads evicted profiles and evicts none.)
MemoryBounded == storeOpen \/ Cardinality(InMemory) <= MaxProfiles

\* Eviction and reloading neither lose nor repeat a refusal: until a save
\* fails or the process crashes a profile has counted every one recorded
\* since it was last forgotten, and with a store it never is.
RefusalsCounted ==
    faults = 0 => \A c \in Clients :
        told[c] = IF Loaded(c) = Absent THEN 0 ELSE Loaded(c).refusals

\* With a store the divisor of a client falls, in an eviction or a crash, only
\* when the save of its profile had failed before.
ThrottleKept ==
    [][\A c \in Clients :
           storeOpen /\ Multiplier(Loaded(c))' < Multiplier(Loaded(c))
               => faults > 0 /\ profiles[c] # rows[c]]_vars
=============================================================================
