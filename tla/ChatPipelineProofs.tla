-------------------------- MODULE ChatPipelineProofs --------------------------
(***************************************************************************)
(* Proofs about ChatPipeline, for any requests, sessions, keys, limits and *)
(* settings: what is shown of the key cache on its own, in the first       *)
(* section, holds of the cache the requests of the pipeline share, and the *)
(* sessions and admissions are kept however the requests interleave.       *)
(***************************************************************************)
EXTENDS ChatPipeline, PolicyProofs, FiniteSetTheorems

-----------------------------------------------------------------------------
(* The key cache, for any number of requests, any TTL and any changes of key *)

USE DEF KeyNumbers, NoKeys

\* Nothing is stamped later than now, and no key known is unpublished.
Stamped ==
    /\ cacheTime <= now /\ cache <= current
    /\ \A c \in Requests :
           check[c].start <= now /\ check[c].key <= current /\ check[c].served <= current

\* Keys are published one after the other.
InOrder ==
    /\ \A k \in KeyNumbers : k <= current => publishedAt[k] <= now
    /\ \A j, k \in KeyNumbers : j <= k /\ k <= current => publishedAt[j] <= publishedAt[k]

\* A verdict is the comparison of a key with the keys served.
Judged ==
    \A c \in Requests :
        /\ check[c].phase = "accepted" => check[c].served = check[c].key
        /\ check[c].phase = "served" => check[c].served # NoKeys

IInv ==
    /\ KeyTypeOK /\ Stamped /\ InOrder /\ Judged
    /\ NotOlderThanStamped /\ RevokedKeyDies /\ NewKeyKnown

\* Nothing has happened at the start.
LEMMA InitIInv == KeyInit => IInv
BY TTLAssumption, RotationsAssumption
DEF KeyInit, IInv, KeyTypeOK, Stamped, InOrder, Judged, NotOlderThanStamped, RevokedKeyDies,
    NewKeyKnown, NoCheck, Checks, CheckPhases

\* A step that leaves the calls but one alone keeps what holds of the others.
LEMMA RotateIInv == IInv /\ Rotate => IInv'
<1> SUFFICES ASSUME IInv, Rotate PROVE IInv'
    OBVIOUS
<1>1. /\ current \in KeyNumbers /\ current < MaxRotations /\ current' = current + 1
      /\ now' = now /\ now \in Nat /\ cache' = cache /\ cacheTime' = cacheTime /\ check' = check
      /\ publishedAt' \in [KeyNumbers -> Nat]
      /\ \A k \in KeyNumbers :
             publishedAt'[k] = IF k = current + 1 THEN now ELSE publishedAt[k]
    BY RotationsAssumption DEF IInv, KeyTypeOK, Rotate
<1>2. \A c \in Requests : check[c] \in Checks
    BY DEF IInv, KeyTypeOK
<1>3. KeyTypeOK'
    BY <1>1, RotationsAssumption DEF IInv, KeyTypeOK
<1>4. Stamped' /\ Judged'
    BY <1>1, <1>2, RotationsAssumption, SMTT(40) DEF IInv, KeyTypeOK, Stamped, Judged, Checks
<1>5. InOrder'
    <2>1. \A k \in KeyNumbers : k <= current => publishedAt'[k] = publishedAt[k]
        BY <1>1, RotationsAssumption
    <2>2. publishedAt'[current + 1] = now /\ current + 1 \in KeyNumbers
        BY <1>1, RotationsAssumption
    <2>3. ASSUME NEW k \in KeyNumbers, k <= current + 1 PROVE publishedAt'[k] <= now
        BY <1>1, <2>1, <2>2, <2>3, RotationsAssumption DEF IInv, InOrder
    <2>4. ASSUME NEW j \in KeyNumbers, NEW k \in KeyNumbers, j <= k, k <= current + 1
          PROVE  publishedAt'[j] <= publishedAt'[k]
        <3>1. CASE k = current + 1
            BY <3>1, <2>2, <2>3, <2>4, RotationsAssumption
        <3>2. CASE k <= current
            BY <3>2, <1>1, <2>1, <2>4, RotationsAssumption DEF IInv, InOrder
        <3> QED
            BY <3>1, <3>2, <1>1, <2>4, RotationsAssumption
    <2> QED
        BY <1>1, <2>3, <2>4 DEF InOrder
<1>a. /\ \A k \in KeyNumbers : k <= current => publishedAt'[k] = publishedAt[k]
      /\ \A k \in KeyNumbers : k < current =>
             /\ k + 1 \in KeyNumbers /\ publishedAt'[k + 1] = publishedAt[k + 1]
             /\ publishedAt[k + 1] \in Nat
      /\ publishedAt'[current + 1] = now
    BY <1>1, RotationsAssumption DEF IInv, KeyTypeOK
<1>b. \A c \in Requests :
          /\ check[c].start \in Nat /\ check[c].key \in KeyNumbers
          /\ check[c].served \in KeyNumbers \cup {NoKeys}
          /\ check[c].start <= now /\ check[c].key <= current /\ check[c].served <= current
    BY <1>2 DEF IInv, Stamped, Checks
<1>6. NotOlderThanStamped'
    <2>1. cache # NoKeys => cache = current + 1 \/ cacheTime <= publishedAt'[cache + 1]
        <3>1. cache # NoKeys => cache \in KeyNumbers /\ cache <= current /\ cacheTime <= now
            BY DEF IInv, KeyTypeOK, Stamped
        <3> QED
            BY <1>1, <1>a, <3>1, RotationsAssumption DEF IInv, KeyTypeOK, NotOlderThanStamped
    <2>2. ASSUME NEW c \in Requests, check[c].phase = "served"
          PROVE  check[c].served = current + 1 \/ check[c].start <= publishedAt'[check[c].served + 1]
        <3>1. check[c].served \in KeyNumbers
            BY <2>2, <1>b DEF IInv, Judged
        <3>2. check[c].served = current \/ check[c].start <= publishedAt[check[c].served + 1]
            BY <2>2 DEF IInv, NotOlderThanStamped
        <3>3. CASE check[c].served = current
            BY <3>3, <1>1, <1>a, <1>b
        <3>4. CASE check[c].served < current
            BY <3>1, <3>2, <3>4, <1>a, <1>b, RotationsAssumption DEF IInv, KeyTypeOK
        <3> QED
            BY <1>1, <1>b, <3>1, <3>3, <3>4, RotationsAssumption
    <2> QED
        BY <1>1, <2>1, <2>2 DEF NotOlderThanStamped
<1>7. RevokedKeyDies'
    <2> SUFFICES ASSUME NEW c \in Requests, check[c].phase = "accepted", check[c].key < current + 1
                 PROVE  check[c].start < publishedAt'[check[c].key + 1] + KeyTTL
        BY <1>1 DEF RevokedKeyDies
    <2>1. CASE check[c].key = current
        BY <2>1, <1>1, <1>a, <1>b, TTLAssumption
    <2>2. CASE check[c].key < current
        <3>1. check[c].start < publishedAt[check[c].key + 1] + KeyTTL
            BY <2>2 DEF IInv, RevokedKeyDies
        <3> QED
            BY <3>1, <2>2, <1>a, <1>b
    <2> QED
        BY <2>1, <2>2, <1>1, <1>b, RotationsAssumption
<1>8. NewKeyKnown'
    <2>1. \A c \in Requests : publishedAt'[check[c].key] = publishedAt[check[c].key]
        BY <1>a, <1>b
    <2> QED
        BY <1>1, <2>1 DEF IInv, NewKeyKnown
<1> QED
    BY <1>3, <1>4, <1>5, <1>6, <1>7, <1>8 DEF IInv

\* Time passing only makes stamps older.
LEMMA TickIInv == IInv /\ KeyTick => IInv'
BY DEF IInv, KeyTypeOK, Stamped, InOrder, Judged, NotOlderThanStamped, RevokedKeyDies, NewKeyKnown,
       KeyTick, keyVars, Checks

\* A restart drops the cache and the fetches under way.
LEMMA RestartIInv == IInv /\ KeyRestart /\ UNCHANGED now => IInv'
<1> SUFFICES ASSUME IInv, KeyRestart, UNCHANGED now PROVE IInv'
    OBVIOUS
<1> USE TTLAssumption, RotationsAssumption
        DEF IInv, KeyTypeOK, Stamped, InOrder, Judged, KeyRestart, Checks, CheckPhases
<1>0. \A c \in Requests :
         /\ check'[c].start = check[c].start /\ check'[c].key = check[c].key
         /\ check'[c].served = check[c].served
         /\ check'[c].phase = check[c].phase \/ check'[c].phase = "lost"
         /\ check'[c].phase # "served"
    OBVIOUS
<1>1. KeyTypeOK'
    OBVIOUS
<1>2. Stamped' /\ InOrder' /\ Judged'
    BY <1>0
<1>3. NotOlderThanStamped'
    BY <1>0 DEF NotOlderThanStamped
<1>4. RevokedKeyDies' /\ NewKeyKnown'
    BY <1>0 DEF RevokedKeyDies, NewKeyKnown
<1> QED
    BY <1>1, <1>2, <1>3, <1>4

\* Steps of one call leave the others, the keys and the clock alone.
LEMMA CallOnly ==
    ASSUME IInv, NEW c \in Requests, UNCHANGED <<now, current, publishedAt>>,
           check' = [check EXCEPT ![c] = check'[c]],
           check'[c] \in Checks,
           check'[c].start <= now, check'[c].key <= current, check'[c].served <= current,
           check'[c].phase = "accepted" => check'[c].served = check'[c].key,
           check'[c].phase = "served" => check'[c].served # NoKeys,
           check'[c].phase = "served" /\ check'[c].served < current =>
               check'[c].start <= publishedAt[check'[c].served + 1],
           check'[c].phase \in {"accepted", "refused"} /\ check'[c].served # NoKeys
               /\ check'[c].served < current =>
               check'[c].start < publishedAt[check'[c].served + 1] + KeyTTL,
           cache' \in KeyNumbers \cup {NoKeys}, cache' <= current,
           cacheTime' \in Nat, cacheTime' <= now,
           cache' # NoKeys => cache' = current \/ cacheTime' <= publishedAt[cache' + 1]
    PROVE  IInv'
<1>1. /\ \A d \in Requests : check[d] \in Checks
      /\ \A d \in Requests : d # c => check'[d] = check[d]
      /\ check' \in [Requests -> Checks]
    BY DEF IInv, KeyTypeOK
<1>2. /\ check'[c].start \in Nat /\ check'[c].key \in KeyNumbers
      /\ check'[c].served \in KeyNumbers \cup {NoKeys}
      /\ current \in KeyNumbers
    BY DEF Checks, IInv, KeyTypeOK
<1>3. KeyTypeOK'
    BY <1>1 DEF IInv, KeyTypeOK
<1>4. Stamped' /\ InOrder' /\ Judged'
    BY <1>1 DEF IInv, Stamped, InOrder, Judged
<1>5. NotOlderThanStamped'
    <2>1. ASSUME NEW d \in Requests, check'[d].phase = "served"
          PROVE  check'[d].served = current \/ check'[d].start <= publishedAt[check'[d].served + 1]
        <3>1. CASE d = c
            BY <3>1, <2>1, <1>2, RotationsAssumption
        <3>2. CASE d # c
            BY <3>2, <2>1, <1>1 DEF IInv, NotOlderThanStamped
        <3> QED
            BY <3>1, <3>2
    <2> QED
        BY <2>1 DEF NotOlderThanStamped
<1>6. RevokedKeyDies'
    <2> SUFFICES ASSUME NEW d \in Requests, check'[d].phase = "accepted", check'[d].key < current
                 PROVE  check'[d].start < publishedAt[check'[d].key + 1] + KeyTTL
        BY DEF RevokedKeyDies
    <2>1. CASE d = c
        BY <2>1, <1>2, RotationsAssumption
    <2>2. CASE d # c
        BY <2>2, <1>1 DEF IInv, RevokedKeyDies
    <2> QED
        BY <2>1, <2>2
<1>7. NewKeyKnown'
    <2> DEFINE key == check'[c].key
               served == check'[c].served
    <2>1. ASSUME check'[c].phase = "refused", served # NoKeys, served < key
          PROVE  check'[c].start < publishedAt[key] + KeyTTL
        <3>1. /\ served + 1 \in KeyNumbers /\ served + 1 <= key
              /\ key \in KeyNumbers /\ key <= current /\ served < current
            BY <2>1, <1>2, RotationsAssumption
        <3>2. publishedAt[served + 1] <= publishedAt[key]
            BY <3>1 DEF IInv, InOrder
        <3>3. publishedAt[served + 1] \in Nat /\ publishedAt[key] \in Nat
            BY <3>1 DEF IInv, KeyTypeOK
        <3>4. check'[c].start < publishedAt[served + 1] + KeyTTL
            BY <2>1, <3>1
        <3> HIDE DEF key, served
        <3> QED
            BY <3>2, <3>3, <3>4, <1>2, TTLAssumption
    <2>2. ASSUME NEW d \in Requests, d # c, check'[d].phase = "refused", check'[d].served # NoKeys,
                 check'[d].served < check'[d].key
          PROVE  check'[d].start < publishedAt[check'[d].key] + KeyTTL
        BY <2>2, <1>1 DEF IInv, NewKeyKnown
    <2> QED
        BY <2>1, <2>2 DEF NewKeyKnown
<1> QED
    BY <1>3, <1>4, <1>5, <1>6, <1>7 DEF IInv

LEMMA CallStepIInv == ASSUME IInv, NEW c \in Requests, KeyStep(c), UNCHANGED now PROVE IInv'
<1>0. /\ check \in [Requests -> Checks] /\ check[c] \in Checks
      /\ now \in Nat /\ current \in KeyNumbers /\ publishedAt \in [KeyNumbers -> Nat]
      /\ cache \in KeyNumbers \cup {NoKeys} /\ cacheTime \in Nat
      /\ cache <= current /\ cacheTime <= now
      /\ check[c].start <= now /\ check[c].key <= current /\ check[c].served <= current
      /\ cache # NoKeys => cache = current \/ cacheTime <= publishedAt[cache + 1]
      /\ check[c].phase = "served" =>
             /\ check[c].served # NoKeys
             /\ check[c].served = current \/ check[c].start <= publishedAt[check[c].served + 1]
    BY DEF IInv, KeyTypeOK, Stamped, Judged, NotOlderThanStamped
<1>a. /\ check[c].phase \in CheckPhases /\ check[c].start \in Nat
      /\ check[c].key \in KeyNumbers /\ check[c].served \in KeyNumbers \cup {NoKeys}
    BY <1>0 DEF Checks
<1>b. NoKeys <= current
    BY <1>0, RotationsAssumption
<1>1. ASSUME NEW key \in Tokens, NEW outcome \in {"accepted", "refused"},
             FromCache(c, key, outcome)
      PROVE  IInv'
    <2>1. /\ key \in KeyNumbers /\ key <= current
          /\ check' = [check EXCEPT ![c] = Started(key, outcome, cache)]
          /\ UNCHANGED <<now, current, publishedAt, cache, cacheTime>>
          /\ outcome = "accepted" => cache = key
          /\ cache # NoKeys /\ now - cacheTime < KeyTTL
        BY <1>1, <1>0, RotationsAssumption DEF FromCache, Tokens, Verified, KeysFresh
    <2>2. check'[c] = [phase |-> outcome, start |-> now, key |-> key, served |-> cache]
        BY <2>1, <1>0 DEF Started
    <2>3. /\ check'[c] \in Checks /\ check'[c].phase = outcome /\ check'[c].start = now
          /\ check'[c].key = key /\ check'[c].served = cache
          /\ check' = [check EXCEPT ![c] = check'[c]]
          /\ UNCHANGED <<now, current, publishedAt, cache, cacheTime>>
          /\ key <= current /\ outcome # "served"
          /\ outcome = "accepted" => cache = key
        BY <2>1, <2>2, <1>0 DEF Checks, CheckPhases
    <2>4. ASSUME cache < current PROVE now < publishedAt[cache + 1] + KeyTTL
        <3>1. cacheTime <= publishedAt[cache + 1] /\ publishedAt[cache + 1] \in Nat
            BY <2>4, <1>0, <2>1, RotationsAssumption
        <3> QED
            BY <3>1, <2>1, <1>0, TTLAssumption
    <2>5. /\ cache' \in KeyNumbers \cup {NoKeys} /\ cache' <= current
          /\ cacheTime' \in Nat /\ cacheTime' <= now
          /\ cache' # NoKeys => cache' = current \/ cacheTime' <= publishedAt[cache' + 1]
          /\ now <= now /\ cache <= current
        BY <2>3, <1>0
    <2> QED
        BY <2>3, <2>4, <2>5, CallOnly
<1>2. ASSUME NEW key \in Tokens, BeginFetch(c, key)
      PROVE  IInv'
    <2>1. /\ key \in KeyNumbers /\ key <= current
          /\ check' = [check EXCEPT ![c] = Started(key, "fetching", NoKeys)]
          /\ UNCHANGED <<now, current, publishedAt, cache, cacheTime>>
        BY <1>2, <1>0, RotationsAssumption DEF BeginFetch, Tokens
    <2>2. check'[c] = [phase |-> "fetching", start |-> now, key |-> key, served |-> NoKeys]
        BY <2>1, <1>0 DEF Started
    <2>3. /\ check'[c] \in Checks /\ check'[c].phase = "fetching" /\ check'[c].start = now
          /\ check'[c].key = key /\ check'[c].served = NoKeys
          /\ check' = [check EXCEPT ![c] = check'[c]]
          /\ UNCHANGED <<now, current, publishedAt, cache, cacheTime>>
          /\ key <= current
        BY <2>1, <2>2, <1>0 DEF Checks, CheckPhases
    <2>4. /\ cache' \in KeyNumbers \cup {NoKeys} /\ cache' <= current
          /\ cacheTime' \in Nat /\ cacheTime' <= now
          /\ cache' # NoKeys => cache' = current \/ cacheTime' <= publishedAt[cache' + 1]
          /\ now <= now /\ NoKeys <= current
        BY <2>3, <1>0, <1>b
    <2> QED
        BY <2>3, <2>4, CallOnly
<1>3. ASSUME Serve(c) PROVE IInv'
    <2>1. /\ check'[c].phase = "served" /\ check'[c].start = check[c].start
          /\ check'[c].key = check[c].key /\ check'[c].served = current
          /\ check'[c] \in Checks
          /\ check' = [check EXCEPT ![c] = check'[c]]
          /\ UNCHANGED <<now, current, publishedAt, cache, cacheTime>>
        BY <1>3, <1>0 DEF Serve, Checks, CheckPhases
    <2>2. /\ cache' \in KeyNumbers \cup {NoKeys} /\ cache' <= current
          /\ cacheTime' \in Nat /\ cacheTime' <= now
          /\ cache' # NoKeys => cache' = current \/ cacheTime' <= publishedAt[cache' + 1]
          /\ check[c].start <= now /\ check[c].key <= current
          /\ current <= current /\ ~ current < current /\ current # NoKeys
        BY <2>1, <1>0, RotationsAssumption
    <2> QED
        BY <2>1, <2>2, CallOnly
<1>4. ASSUME NEW outcome \in {"accepted", "refused"}, Fetched(c, outcome) PROVE IInv'
    <2>1. /\ check'[c].phase = outcome /\ check'[c].start = check[c].start
          /\ check'[c].key = check[c].key /\ check'[c].served = check[c].served
          /\ check'[c] \in Checks
          /\ check' = [check EXCEPT ![c] = check'[c]]
          /\ UNCHANGED <<now, current, publishedAt>>
        BY <1>4, <1>0 DEF Fetched, Checks, CheckPhases
    <2>2. /\ cache' = check[c].served /\ cacheTime' = check[c].start
          /\ check[c].phase = "served"
          /\ outcome = "accepted" => check[c].served = check[c].key
        BY <1>4 DEF Fetched, Store, Verified
    <2>3. ASSUME check[c].served < current
          PROVE  check[c].start < publishedAt[check[c].served + 1] + KeyTTL
        <3>0. check[c].served \in KeyNumbers
            BY <2>2, <1>0, <1>a
        <3>1. check[c].served \in KeyNumbers /\ check[c].served + 1 \in KeyNumbers
            <4>1. current \in KeyNumbers
                BY <1>0
            <4> QED
                BY <2>3, <3>0, <4>1, RotationsAssumption
        <3>2. check[c].start <= publishedAt[check[c].served + 1]
            <4>1. check[c].served # current
                BY <2>3, <3>1, <1>0, RotationsAssumption
            <4> QED
                BY <2>2, <4>1, <1>0
        <3>3. publishedAt[check[c].served + 1] \in Nat
            BY <3>1, <1>0
        <3> QED
            BY <3>2, <3>3, <1>a, TTLAssumption
    <2> QED
        BY <2>1, <2>2, <2>3, <1>0, <1>a, CallOnly
<1>5. ASSUME FetchFailed(c) PROVE IInv'
    <2>1. /\ check'[c].phase = "refused" /\ check'[c].start = check[c].start
          /\ check'[c].key = check[c].key /\ check'[c].served = NoKeys
          /\ check'[c] \in Checks
          /\ check' = [check EXCEPT ![c] = check'[c]]
          /\ UNCHANGED <<now, current, publishedAt, cache, cacheTime>>
        BY <1>5, <1>0 DEF FetchFailed, Checks, CheckPhases
    <2> QED
        BY <2>1, <1>0, <1>a, <1>b, CallOnly
<1> QED
    BY <1>1, <1>2, <1>3, <1>4, <1>5 DEF KeyStep

LEMMA NextIInv == IInv /\ [KeyNext]_identityVars => IInv'
<1> SUFFICES ASSUME IInv, [KeyNext]_identityVars PROVE IInv'
    OBVIOUS
<1>1. CASE Rotate
    BY <1>1, RotateIInv
<1>2. CASE KeyTick
    BY <1>2, TickIInv
<1>3. CASE (\E c \in Requests : KeyStep(c)) /\ UNCHANGED now
    BY <1>3, CallStepIInv
<1>4. CASE KeyRestart /\ UNCHANGED now
    BY <1>4, RestartIInv
<1>5. CASE UNCHANGED identityVars
    BY <1>5 DEF identityVars, keyVars, IInv, KeyTypeOK, Stamped, InOrder, Judged, NotOlderThanStamped,
                RevokedKeyDies, NewKeyKnown
<1> QED
    BY <1>1, <1>2, <1>3, <1>4, <1>5 DEF KeyNext

\* Whatever is under way, keys withdrawn a TTL ago open nothing.
THEOREM RevocationSafety == KeySpec => []RevokedKeyDies
<1>1. IInv => RevokedKeyDies
    BY DEF IInv
<1> QED
    BY <1>1, InitIInv, NextIInv, PTL DEF KeySpec

\* A key published a TTL ago is known to every request that comes.
THEOREM RotationSafety == KeySpec => []NewKeyKnown
<1>1. IInv => NewKeyKnown
    BY DEF IInv
<1> QED
    BY <1>1, InitIInv, NextIInv, PTL DEF KeySpec

\* The keys kept are never older than the time they are kept under.
THEOREM StampSafety == KeySpec => []NotOlderThanStamped
<1>1. IInv => NotOlderThanStamped
    BY DEF IInv
<1> QED
    BY <1>1, InitIInv, NextIInv, PTL DEF KeySpec

-----------------------------------------------------------------------------
(* The limiter and the key cache in a step of the pipeline *)

\* What the rest of the pipeline sees of an answer of the limiter.
LEMMA AdmittedEffect ==
    ASSUME NEW key, NEW in, NEW s, NEW mult, Admitted(key, in, s, mult)
    PROVE  /\ UNCHANGED <<now, storeOpen, stateBackend>>
           /\ log' = [log EXCEPT ![key] = Append(@, [id |-> nextRow, ts |-> now])]
           /\ nextRow' \in {nextRow, nextRow + 1}
           /\ s.injections < 3
BY DEF Admitted, Limiter!Allowed, Limiter!AddHit, Limiter!PruneStore, Limiter!PruneMemory,
       Limiter!process, get_injection_attempt_count

LEMMA RateLimitedEffect ==
    ASSUME NEW key, NEW in, NEW s, NEW mult, RateLimited(key, in, s, mult)
    PROVE  UNCHANGED <<now, storeOpen, stateBackend, log, nextRow>>
<1>1. CASE Limiter!RefusedInCooldown(key)
    BY <1>1 DEF Limiter!RefusedInCooldown, Limiter!process, Limiter!limiterVars, Limiter!histories
<1>2. CASE Limiter!CooldownStarted(key, get_injection_attempt_count(s))
    BY <1>2 DEF Limiter!CooldownStarted, Limiter!OnlyPrune, Limiter!PruneStore,
                Limiter!PruneMemory, Limiter!process
<1>3. CASE Limiter!LimitExceeded(key, in.scan, get_injection_attempt_count(s), mult)
    BY <1>3 DEF Limiter!LimitExceeded, Limiter!OnlyPrune, Limiter!PruneStore,
                Limiter!PruneMemory, Limiter!process, Limiter!histories
<1> QED
    BY <1>1, <1>2, <1>3 DEF RateLimited

\* A request goes on with the keys as they are, or with a step of the cache.
LEMMA AuthenticatedKeys ==
    ASSUME NEW r \in Requests, Authenticated(r), UNCHANGED now
    PROVE  [KeyNext]_identityVars
<1>1. UNCHANGED keyVars \/ KeyStep(r)
    BY DEF Authenticated, KeyStep
<1> QED
    BY <1>1 DEF KeyNext, identityVars

Stopped ==
    \/ Crash
    \/ \E r \in Requests, id \in SessionIds : StoppedInReceive(r, id)
    \/ \E r \in Requests : StoppedInDeny(r)

LEMMA StoppedRestarts == Stopped => \E left : Restarted(left)
<1> SUFFICES ASSUME Stopped PROVE \E left : Restarted(left)
    OBVIOUS
<1>1. CASE Crash
    BY <1>1 DEF Crash
<1>2. ASSUME NEW id, NEW written, StoppedSaving(id, written) PROVE \E left : Restarted(left)
    BY <1>2 DEF StoppedSaving
<1> QED
    BY <1>1, <1>2 DEF Stopped, StoppedInReceive, StoppedInDeny

\* To the key cache every step of the pipeline is one of its own.
LEMMA StepKeys == [Next]_vars => [KeyNext]_identityVars
<1> SUFFICES ASSUME [Next]_vars PROVE [KeyNext]_identityVars
    OBVIOUS
<1>1. ASSUME NEW r \in Requests, ReceiveAny(r) PROVE [KeyNext]_identityVars
    <2>1. CASE TooLarge(r)
        BY <2>1, AuthenticatedKeys DEF TooLarge, limiterVars
    <2>2. ASSUME NEW id \in SessionIds, NEW key \in Keys, NEW in \in RequestInputs,
                 NEW mult \in Multipliers, Receive(r, id, key, in, mult)
          PROVE  [KeyNext]_identityVars
        <3>1. Authenticated(r)
            BY <2>2 DEF Receive
        <3>2. UNCHANGED now
            BY <2>2, AdmittedEffect, RateLimitedEffect DEF Receive
        <3> QED
            BY <3>1, <3>2, AuthenticatedKeys
    <2>3. ASSUME NEW id \in SessionIds, NEW key \in Keys, NEW in \in RequestInputs,
                 NEW mult \in Multipliers, ReceiveRaised(r, id, key, in, mult)
          PROVE  [KeyNext]_identityVars
        <3>1. Authenticated(r)
            BY <2>3 DEF ReceiveRaised
        <3>2. UNCHANGED now
            BY <2>3, AdmittedEffect DEF ReceiveRaised, limiterVars
        <3> QED
            BY <3>1, <3>2, AuthenticatedKeys
    <2> QED
        BY <1>1, <2>1, <2>2, <2>3 DEF ReceiveAny
<1>2. ASSUME NEW r \in Requests, FetchKeys(r) \/ KeysServed(r) \/ Unauthorized(r)
      PROVE  [KeyNext]_identityVars
    <2>1. KeyStep(r) /\ UNCHANGED now
        BY <1>2 DEF FetchKeys, KeysServed, Unauthorized, KeyStep, limiterVars
    <2> QED
        BY <2>1 DEF KeyNext
<1>3. ASSUME NEW r \in Requests, Resume(r) PROVE [KeyNext]_identityVars
    <2>1. CASE call[r].phase = "keys" /\ (Unauthorized(r) \/ ReceiveAny(r))
        BY <2>1, <1>1, <1>2
    <2>2. CASE ~ (call[r].phase = "keys" /\ (Unauthorized(r) \/ ReceiveAny(r)))
        <3>1. UNCHANGED services
            BY <1>3, <2>2
               DEF Resume, GuardAnswered, DenyRaised, Redacted, Retrieved, RetrievalRaised,
                   RedactedAgain, ToolCountRaised, ToolsRaised, Forwarded, ForwardFailed,
                   ReplyRaised, OutputInspected
        <3> QED
            BY <3>1 DEF services, limiterVars, identityVars
    <2> QED
        BY <2>1, <2>2
<1>4. CASE KeyRotated
    BY <1>4 DEF KeyRotated, KeyNext
<1>5. CASE Stopped
    BY <1>5, StoppedRestarts DEF Restarted, Limiter!Restart, KeyNext
<1>6. CASE Tick
    BY <1>6 DEF Tick, Limiter!Tick, KeyNext, KeyTick
<1>7. CASE UNCHANGED vars
    BY <1>7 DEF vars, services, limiterVars, identityVars
<1> QED
    BY <1>1, <1>2, <1>3, <1>4, <1>5, <1>6, <1>7 DEF Next, Stopped

LEMMA KeysInvariance == Spec => []IInv
<1>1. Init => IInv
    BY InitIInv DEF Init
<1>2. IInv /\ [Next]_vars => IInv'
    BY NextIInv, StepKeys
<1> QED
    BY <1>1, <1>2, PTL DEF Spec

\* In the pipeline too: no request is let in by a key withdrawn a TTL before it came.
THEOREM PipelineRevocation == Spec => []RevokedKeyDies
BY KeysInvariance, PTL DEF IInv

\* Nor is one refused for a key published a TTL before it came.
THEOREM PipelineRotation == Spec => []NewKeyKnown
BY KeysInvariance, PTL DEF IInv

-----------------------------------------------------------------------------
(* The requests and the sessions *)

\* The phases past the limiter.
Deciding == Waiting \ {"keys"}

CallRecord ==
    [phase : Phases, id : SessionIds \cup {Absent}, key : Keys \cup {Absent},
     input : RequestInputs \cup {Absent}, admitted : BOOLEAN, action : Actions \cup {"none"},
     risk : [score : 0..100, state : RiskStates], status : Statuses,
     audits : 0..1, logs : 0..1]

\* What goes together in a call.
Consistent(c) ==
    /\ c.phase \in Deciding => c.admitted
    /\ c.phase \in {"new", "keys"} => ~ c.admitted /\ c.id = Absent
    /\ c.phase \in Waiting \cup {"new"} => c.audits = 0 /\ c.logs = 0 /\ c.status = NoAnswer
    /\ c.phase \in {"new", "keys", "input_guard"} => c.action = "none"
    /\ c.admitted \/ c.status = 429 =>
           c.id \in SessionIds /\ c.key \in Keys /\ c.input \in RequestInputs

\* The row of a session is never ahead of its object.
RowsBehind ==
    storeOpen => \A id \in SessionIds : rows[id] # Absent =>
                    session[id] # Absent /\ Grown(rows[id], session[id])

\* The requests and the sessions they hold.
CallsKept ==
    /\ call \in [Requests -> CallRecord]
    /\ \A r \in Requests : Consistent(call[r])
    /\ session \in [SessionIds -> Session \cup {Absent}]
    /\ rows \in [SessionIds -> Session \cup {Absent}]
    /\ faults \in Nat
    /\ RowsBehind
    /\ \A r \in Requests : call[r].phase \in Deciding => session[call[r].id] # Absent
    /\ StaleRiskIsLower

LEMMA CallsKeptType == CallsKept => TypeOK
BY DEF CallsKept, TypeOK, CallRecord, Consistent

LEMMA GrownSame == ASSUME NEW s \in Session PROVE Grown(s, s)
BY DEF Grown, Counters, Session

LEMMA GrownOnward ==
    ASSUME NEW s \in Session, NEW t \in Session, NEW u \in Session, Grown(s, t), Grown(t, u)
    PROVE  Grown(s, u)
<1>1. \A x \in {s, t, u} : \A n \in Counters : x[n] \in Nat
    BY DEF Session, Counters
<1> QED
    BY <1>1 DEF Grown

\* The risk assessed of a session.
LEMMA RiskType ==
    ASSUME NEW in \in Inputs, NEW s \in Session
    PROVE  /\ assess(in, s) \in [score : 0..100, state : RiskStates]
           /\ NoLessRisk(assess(in, s), assess(in, s))
<1>1. HistoryScore(s) \in Nat /\ InputScore(in) \in 0..60
    BY GrownSame, HistoryScoreGrows, InputScoreRange
<1>2. HistoryScore(s) + InputScore(in) \in Nat
    BY <1>1
<1>3. RiskState(HistoryScore(s) + InputScore(in)) \in RiskStates
    BY <1>2, RiskStateGrows
<1>4. assess(in, s) \in [score : 0..100, state : RiskStates]
    BY <1>2, <1>3 DEF assess
<1> QED
    BY <1>4, GrownSame, RiskNeverFalls

LEMMA NoLessRiskOnward ==
    ASSUME NEW old \in [score : 0..100, state : RiskStates],
           NEW mid \in [score : 0..100, state : RiskStates],
           NEW new \in [score : 0..100, state : RiskStates],
           NoLessRisk(old, mid), NoLessRisk(mid, new)
    PROVE  NoLessRisk(old, new)
<1>1. \A state \in RiskStates : Severity[state] \in Int
    BY DEF Severity, RiskStates
<1> QED
    BY <1>1 DEF NoLessRisk

-----------------------------------------------------------------------------
(* Sessions in a step *)

SessionsGrow ==
    /\ session' \in [SessionIds -> Session \cup {Absent}]
    /\ rows' \in [SessionIds -> Session \cup {Absent}]
    /\ faults' \in Nat
    /\ \A id \in SessionIds :
           /\ session[id] # Absent => session'[id] # Absent /\ Grown(session[id], session'[id])
           /\ \/ rows'[id] = rows[id]
              \/ rows'[id] # Absent /\ session'[id] # Absent
                     /\ Grown(rows'[id], session'[id])

\* One session is written in memory, and in the store or not.
LEMMA WriteGrows ==
    ASSUME CallsKept, NEW id \in SessionIds, NEW s \in Session,
           session' = [session EXCEPT ![id] = s], faults' \in Nat,
           session[id] # Absent => Grown(session[id], s),
           \/ rows' = rows
           \/ \E row \in Session : rows' = [rows EXCEPT ![id] = row] /\ Grown(row, s)
    PROVE  SessionsGrow /\ session'[id] = s
<1>1. /\ session' \in [SessionIds -> Session \cup {Absent}] /\ session'[id] = s
      /\ \A other \in SessionIds : other # id => session'[other] = session[other]
      /\ s # Absent
    BY AbsentAssumption DEF CallsKept
<1>2. \A other \in SessionIds : session[other] # Absent =>
          session'[other] # Absent /\ Grown(session[other], session'[other])
    BY <1>1, GrownSame DEF CallsKept
<1>3. CASE rows' = rows
    BY <1>1, <1>2, <1>3 DEF SessionsGrow, CallsKept
<1>4. ASSUME NEW row \in Session, rows' = [rows EXCEPT ![id] = row], Grown(row, s)
      PROVE  SessionsGrow
    <2>1. /\ rows' \in [SessionIds -> Session \cup {Absent}] /\ rows'[id] = row
          /\ \A other \in SessionIds : other # id => rows'[other] = rows[other]
          /\ row # Absent
        BY <1>4, AbsentAssumption DEF CallsKept
    <2> QED
        BY <1>1, <1>2, <1>4, <2>1 DEF SessionsGrow
<1> QED
    BY <1>1, <1>3, <1>4

LEMMA PutGrows ==
    ASSUME CallsKept, NEW id \in SessionIds, NEW s \in Session, Put(id, s),
           session[id] # Absent => Grown(session[id], s)
    PROVE  SessionsGrow /\ session'[id] = s
<1>1. session' = [session EXCEPT ![id] = s] /\ faults' \in Nat
    BY DEF Put, CallsKept
<1>2. rows' = rows \/ \E row \in Session : rows' = [rows EXCEPT ![id] = row] /\ Grown(row, s)
    BY GrownSame DEF Put
<1> QED
    BY <1>1, <1>2, WriteGrows

LEMMA PutRaisesGrows ==
    ASSUME CallsKept, NEW id \in SessionIds, NEW s \in Session,
           session[id] # Absent => Grown(session[id], s),
           \/ PutRaises(id, s, rows[id])
           \/ \E before \in Session : PutRaises(id, s, before) /\ Grown(before, s)
    PROVE  SessionsGrow /\ session'[id] = s
<1>0. PICK before \in Session \cup {Absent} :
          /\ PutRaises(id, s, before)
          /\ before = rows[id] \/ (before \in Session /\ Grown(before, s))
    BY DEF CallsKept
<1>1. session' = [session EXCEPT ![id] = s] /\ faults' \in Nat
    BY <1>0 DEF PutRaises, CallsKept
<1>2. rows' = rows \/ \E row \in Session : rows' = [rows EXCEPT ![id] = row] /\ Grown(row, s)
    <2>1. PICK row \in {before, s} : rows' = [rows EXCEPT ![id] = row]
        BY <1>0 DEF PutRaises
    <2>2. CASE row = rows[id]
        BY <2>1, <2>2 DEF CallsKept
    <2>3. CASE row \in Session /\ Grown(row, s)
        BY <2>1, <2>3
    <2> QED
        BY <1>0, <2>1, <2>2, <2>3, GrownSame
<1> QED
    BY <1>1, <1>2, WriteGrows

LEMMA UnchangedGrows ==
    ASSUME CallsKept, UNCHANGED <<session, rows, faults>>
    PROVE  SessionsGrow
BY GrownSame, AbsentAssumption DEF SessionsGrow, CallsKept

LEMMA RowsStayBehind ==
    ASSUME CallsKept, SessionsGrow, UNCHANGED storeOpen PROVE RowsBehind'
<1> SUFFICES ASSUME storeOpen, NEW id \in SessionIds, rows'[id] # Absent
             PROVE  session'[id] # Absent /\ Grown(rows'[id], session'[id])
    BY DEF RowsBehind
<1>1. CASE rows'[id] = rows[id]
    <2>1. /\ session[id] # Absent /\ Grown(rows[id], session[id]) /\ session'[id] # Absent
          /\ Grown(session[id], session'[id])
        BY <1>1 DEF CallsKept, RowsBehind, SessionsGrow
    <2>2. rows[id] \in Session /\ session[id] \in Session /\ session'[id] \in Session
        BY <1>1, <2>1 DEF CallsKept, SessionsGrow
    <2> QED
        BY <1>1, <2>1, <2>2, GrownOnward
<1>2. CASE rows'[id] # rows[id]
    BY <1>2 DEF SessionsGrow
<1> QED
    BY <1>1, <1>2

\* A step of one request over sessions that only grow.
LEMMA CallMoves ==
    ASSUME CallsKept, NEW r \in Requests, NEW c \in CallRecord, Consistent(c),
           call' = [call EXCEPT ![r] = c], SessionsGrow, UNCHANGED storeOpen,
           c.phase \in Deciding => session'[c.id] # Absent,
           c.phase = "input_guard" => NoLessRisk(c.risk, assess(c.input, session'[c.id]))
    PROVE  CallsKept'
<1>1. /\ call' \in [Requests -> CallRecord] /\ call'[r] = c
      /\ \A o \in Requests : o # r => call'[o] = call[o]
    BY DEF CallsKept
<1>2. \A o \in Requests : Consistent(call'[o])
    BY <1>1 DEF CallsKept
<1>3. \A o \in Requests : call[o].phase \in Deciding => call[o].id \in SessionIds
    BY DEF CallsKept, Consistent
<1>4. \A o \in Requests : call'[o].phase \in Deciding => session'[call'[o].id] # Absent
    BY <1>1, <1>3 DEF CallsKept, SessionsGrow
<1>5. ASSUME NEW o \in Requests, o # r, call[o].phase = "input_guard"
      PROVE  NoLessRisk(call[o].risk, assess(call[o].input, session'[call[o].id]))
    <2> DEFINE in == call[o].input
               old == session[call[o].id]
               new == session'[call[o].id]
    <2>1. call[o].id \in SessionIds /\ in \in Inputs /\ call[o].phase \in Deciding
        BY <1>5, InputsAssumption DEF CallsKept, Consistent, Deciding, Waiting, Phases
    <2>2. old \in Session /\ new \in Session /\ Grown(old, new)
        BY <2>1 DEF CallsKept, SessionsGrow
    <2>3. NoLessRisk(call[o].risk, assess(in, old))
        BY <1>5 DEF CallsKept, StaleRiskIsLower
    <2>4. NoLessRisk(assess(in, old), assess(in, new))
        BY <2>1, <2>2, RiskNeverFalls
    <2>5. call[o].risk \in [score : 0..100, state : RiskStates]
        BY DEF CallsKept, CallRecord
    <2> QED
        BY <2>1, <2>2, <2>3, <2>4, <2>5, RiskType, NoLessRiskOnward
<1>6. StaleRiskIsLower'
    BY <1>1, <1>5 DEF StaleRiskIsLower
<1> QED
    BY <1>1, <1>2, <1>4, <1>6, RowsStayBehind DEF CallsKept, SessionsGrow

-----------------------------------------------------------------------------
(* Admissions *)

AdmittedCalls == {r \in Requests : call[r].admitted}
Paid(key) == {r \in Requests : call[r].key = key /\ call[r].admitted}
Hit == [id : Nat, ts : Nat]

AdmissionsKept ==
    /\ log \in [Keys -> Seq(Hit)]
    /\ nextRow \in Nat
    /\ IsFiniteSet(AdmittedCalls)
    /\ AdmissionsPaid

\* A step that admits nobody.
LEMMA QuietAdmissions ==
    ASSUME AdmissionsKept, UNCHANGED <<log, nextRow>>,
           \A r \in Requests : /\ call'[r].admitted = call[r].admitted
                               /\ call[r].admitted => call'[r].key = call[r].key
    PROVE  AdmissionsKept'
<1>1. AdmittedCalls' = AdmittedCalls
    BY DEF AdmittedCalls
<1>2. \A key \in Keys : Paid(key)' = Paid(key)
    BY DEF Paid
<1> QED
    BY <1>1, <1>2 DEF AdmissionsKept, AdmissionsPaid, Paid

\* One that admits a request, with an entry in the log of its key.
LEMMA NewAdmission ==
    ASSUME AdmissionsKept, NEW r \in Requests, NEW key \in Keys, now \in Nat,
           call \in [Requests -> CallRecord],
           NEW c \in CallRecord, call' = [call EXCEPT ![r] = c],
           ~ call[r].admitted, c.admitted, c.key = key,
           log' = [log EXCEPT ![key] = Append(@, [id |-> nextRow, ts |-> now])],
           nextRow' \in {nextRow, nextRow + 1}
    PROVE  AdmissionsKept'
<1> DEFINE hit == [id |-> nextRow, ts |-> now]
<1>1. hit \in Hit /\ nextRow' \in Nat
    BY DEF AdmissionsKept, Hit
<1> HIDE DEF hit
<1>2. /\ log' = [log EXCEPT ![key] = Append(log[key], hit)]
      /\ log \in [Keys -> Seq(Hit)] /\ log[key] \in Seq(Hit)
    BY DEF AdmissionsKept, hit
<1>3. /\ Append(log[key], hit) \in Seq(Hit)
      /\ Len(Append(log[key], hit)) = Len(log[key]) + 1
    BY <1>1, <1>2
<1>4. /\ log' \in [Keys -> Seq(Hit)] /\ log'[key] = Append(log[key], hit)
      /\ \A k \in Keys : k # key => log'[k] = log[k]
    BY <1>2, <1>3
<1>5. /\ call'[r] = c
      /\ \A o \in Requests : o # r => call'[o] = call[o]
    OBVIOUS
<1>6. AdmittedCalls' = AdmittedCalls \cup {r}
    BY <1>5 DEF AdmittedCalls
<1>7. IsFiniteSet(AdmittedCalls) /\ IsFiniteSet(AdmittedCalls')
    BY <1>6, FS_AddElement DEF AdmissionsKept
<1>8. Paid(key)' = Paid(key) \cup {r} /\ r \notin Paid(key)
    BY <1>5 DEF Paid
<1>9. IsFiniteSet(Paid(key))
    BY <1>7, FS_Subset, Paid(key) \subseteq AdmittedCalls DEF Paid, AdmittedCalls
<1>10. Cardinality(Paid(key)') = Cardinality(Paid(key)) + 1
    BY <1>8, <1>9, FS_AddElement
<1>11. Cardinality(Paid(key)) = Len(log[key])
    BY DEF AdmissionsKept, AdmissionsPaid, Paid
<1>12. \A k \in Keys : k # key => Paid(k)' = Paid(k)
    BY <1>5 DEF Paid
<1>13. ASSUME NEW k \in Keys PROVE Cardinality(Paid(k)') = Len(log'[k])
    <2>1. CASE k = key
        BY <2>1, <1>3, <1>4, <1>10, <1>11
    <2>2. CASE k # key
        BY <2>2, <1>4, <1>12 DEF AdmissionsKept, AdmissionsPaid, Paid
    <2> QED
        BY <2>1, <2>2
<1>14. AdmissionsPaid'
    BY <1>13 DEF AdmissionsPaid, Paid
<1> QED
    BY <1>1, <1>4, <1>7, <1>14 DEF AdmissionsKept

-----------------------------------------------------------------------------
(* What a step makes of a call *)

\* What stays of a call past the limiter.
Kept(c, d) ==
    d.id = c.id /\ d.key = c.key /\ d.input = c.input /\ d.admitted = c.admitted /\ d.risk = c.risk

LEMMA AwaitCall ==
    ASSUME NEW c \in CallRecord, NEW phase \in Phases
    PROVE  /\ Await(c, phase) \in CallRecord /\ Kept(c, Await(c, phase))
           /\ Await(c, phase).phase = phase /\ Await(c, phase).status = c.status
           /\ Await(c, phase).audits = c.audits /\ Await(c, phase).logs = c.logs
           /\ Await(c, phase).action = c.action
BY DEF Await, CallRecord, Kept

LEMMA AnswerCall ==
    ASSUME NEW c \in CallRecord, NEW code \in Statuses
    PROVE  /\ Answer(c, code) \in CallRecord /\ Kept(c, Answer(c, code))
           /\ Answer(c, code).phase = "answered" /\ Answer(c, code).status = code
           /\ Answer(c, code).action = c.action
BY DEF Answer, CallRecord, Kept, Phases

LEMMA LoggedCall ==
    ASSUME NEW c \in CallRecord, c.audits = 0, c.logs = 0
    PROVE  /\ Logged(Audited(c)) \in CallRecord /\ Kept(c, Logged(Audited(c)))
           /\ Logged(Audited(c)).action = c.action
<1>1. Audited(c) = [c EXCEPT !.audits = 1]
    BY DEF Audited, CallRecord
<1>2. Audited(c) \in CallRecord /\ Audited(c).logs = 0 /\ Kept(c, Audited(c))
      /\ Audited(c).action = c.action
    BY <1>1 DEF CallRecord, Kept
<1>3. Logged(Audited(c)) = [Audited(c) EXCEPT !.logs = 1]
    BY <1>2 DEF Logged, CallRecord
<1> QED
    BY <1>2, <1>3 DEF CallRecord, Kept

LEMMA DecidedCall ==
    ASSUME NEW c \in CallRecord, NEW action \in Actions
    PROVE  LET d == [c EXCEPT !.action = action]
           IN  /\ d \in CallRecord /\ Kept(c, d) /\ d.phase = c.phase /\ d.status = c.status
               /\ d.audits = c.audits /\ d.logs = c.logs /\ d.action = action
BY DEF CallRecord, Kept

-----------------------------------------------------------------------------
(* The steps past the limiter *)

\* A call past the limiter goes on, or is answered.
LEMMA OnwardKept ==
    ASSUME CallsKept, AdmissionsKept, NEW r \in Requests, NEW c \in CallRecord,
           call[r].phase \in Deciding, Kept(call[r], c),
           call' = [call EXCEPT ![r] = c], SessionsGrow, UNCHANGED services,
           \/ c.phase \in Deciding \ {"input_guard"} /\ c.audits = 0 /\ c.logs = 0
                  /\ c.status = NoAnswer
           \/ c.phase = "answered" /\ c.status # 429
    PROVE  CallsKept' /\ AdmissionsKept'
<1>1. /\ call[r].admitted /\ call[r].id \in SessionIds /\ call[r].key \in Keys
      /\ call[r].input \in RequestInputs /\ session[call[r].id] # Absent
    BY DEF CallsKept, Consistent
<1>2. Consistent(c)
    BY <1>1 DEF Kept, Consistent, Deciding, Waiting
<1>3. session'[c.id] # Absent
    BY <1>1 DEF Kept, SessionsGrow
<1>4. c.phase # "input_guard"
    OBVIOUS
<1>5. UNCHANGED <<log, nextRow, storeOpen>>
    BY DEF services, limiterVars
<1>6. CallsKept'
    BY <1>2, <1>3, <1>4, <1>5, CallMoves
<1>7. \A o \in Requests : call'[o].admitted = call[o].admitted /\ call'[o].key = call[o].key
    BY DEF CallsKept, Kept
<1> QED
    BY <1>5, <1>6, <1>7, QuietAdmissions

LEMMA GuardAnsweredKept ==
    ASSUME CallsKept, AdmissionsKept, NEW r \in Requests, NEW action \in Actions,
           GuardAnswered(r, action)
    PROVE  CallsKept' /\ AdmissionsKept'
<1> DEFINE c == [call[r] EXCEPT !.action = action]
           id == call[r].id
<1>1. /\ call[r] \in CallRecord /\ call[r].phase \in Deciding
      /\ call[r].audits = 0 /\ call[r].logs = 0 /\ call[r].status = NoAnswer
      /\ id \in SessionIds /\ session[id] \in Session /\ call[r].input \in Inputs
      /\ session \in [SessionIds -> Session \cup {Absent}]
    BY InputsAssumption DEF GuardAnswered, CallsKept, Consistent, Deciding, Waiting, Phases
<1>2. /\ c \in CallRecord /\ Kept(call[r], c) /\ c.audits = 0 /\ c.logs = 0
      /\ c.status = NoAnswer
    BY <1>1, DecidedCall
<1>3. UNCHANGED services
    BY DEF GuardAnswered
<1>4. c.input = call[r].input
    BY <1>2 DEF Kept
<1> HIDE DEF c
<1>5. CASE action \in {"deny", "challenge"}
    <2> DEFINE d == Answer(Logged(Audited(c)), 403)
    <2>1. /\ d \in CallRecord /\ Kept(c, d) /\ d.phase = "answered" /\ d.status # 429
        <3>1. Logged(Audited(c)) \in CallRecord /\ Kept(c, Logged(Audited(c))) /\ 403 \in Statuses
            BY <1>2, LoggedCall DEF Statuses
        <3> QED
            BY <3>1, AnswerCall DEF Kept
    <2>2. call' = [call EXCEPT ![r] = d]
        BY <1>5 DEF GuardAnswered, c
    <2>3. SessionsGrow
        <3>1. CASE action = "deny"
            <4>1. Put(id, Denial(session[id], c.input.scan))
                BY <3>1 DEF GuardAnswered, c
            <4>2. c.input.scan \in Int
                BY <1>1, <1>4 DEF Inputs
            <4>3. "normal" \in RiskStates
                BY DEF RiskStates
            <4>4. Refused(session[id]) \in Session /\ Grown(session[id], Refused(session[id]))
                BY <1>1, <4>2, <4>3, MethodsGrow
            <4>5. /\ Denial(session[id], c.input.scan) \in Session
                  /\ Grown(Refused(session[id]), Denial(session[id], c.input.scan))
                BY <4>2, <4>3, <4>4, MethodsGrow DEF Denial
            <4> QED
                BY <1>1, <4>1, <4>4, <4>5, GrownOnward, PutGrows
        <3>2. CASE action # "deny"
            BY <3>2, UnchangedGrows DEF GuardAnswered
        <3> QED
            BY <3>1, <3>2
    <2>4. Kept(call[r], d)
        BY <1>2, <2>1 DEF Kept
    <2> HIDE DEF d
    <2> QED
        BY <1>1, <1>3, <2>1, <2>2, <2>3, <2>4, OnwardKept, ZenonT(60)
<1>6. CASE action \notin {"deny", "challenge"}
    <2> DEFINE d == Await(c, "redaction")
    <2>1. /\ d \in CallRecord /\ Kept(c, d) /\ d.phase = "redaction" /\ d.status = NoAnswer
          /\ d.audits = 0 /\ d.logs = 0
        BY <1>2, AwaitCall DEF Phases
    <2>2. call' = [call EXCEPT ![r] = d] /\ UNCHANGED <<session, rows, faults>>
        BY <1>6 DEF GuardAnswered, c
    <2>3. Kept(call[r], d)
        BY <1>2, <2>1 DEF Kept
    <2>4. "redaction" \in Deciding \ {"input_guard"}
        BY DEF Deciding, Waiting, Phases
    <2> HIDE DEF d
    <2> QED
        BY <1>1, <1>3, <2>1, <2>2, <2>3, <2>4, UnchangedGrows, OnwardKept
<1> QED
    BY <1>5, <1>6

\* A call that only goes on to await, or is only answered, over sessions that grow.
LEMMA AwaitKept ==
    ASSUME CallsKept, AdmissionsKept, NEW r \in Requests, call[r].phase \in Deciding,
           NEW phase \in Deciding \ {"input_guard"},
           call' = [call EXCEPT ![r] = Await(call[r], phase)], SessionsGrow, UNCHANGED services
    PROVE  CallsKept' /\ AdmissionsKept'
<1>1. /\ call[r] \in CallRecord /\ phase \in Phases
      /\ call[r].audits = 0 /\ call[r].logs = 0 /\ call[r].status = NoAnswer
    BY DEF CallsKept, Consistent, Deciding, Waiting
<1> DEFINE d == Await(call[r], phase)
<1>2. /\ d \in CallRecord /\ Kept(call[r], d) /\ d.phase = phase /\ d.status = NoAnswer
      /\ d.audits = 0 /\ d.logs = 0
    BY <1>1, AwaitCall
<1>3. call' = [call EXCEPT ![r] = d]
    OBVIOUS
<1> HIDE DEF d
<1> QED
    BY <1>2, <1>3, OnwardKept

LEMMA AnswerKept ==
    ASSUME CallsKept, AdmissionsKept, NEW r \in Requests, call[r].phase \in Deciding,
           NEW code \in Statuses \ {429},
           call' = [call EXCEPT ![r] = Answer(call[r], code)], SessionsGrow, UNCHANGED services
    PROVE  CallsKept' /\ AdmissionsKept'
<1>1. call[r] \in CallRecord
    BY DEF CallsKept
<1> DEFINE d == Answer(call[r], code)
<1>2. d \in CallRecord /\ Kept(call[r], d) /\ d.phase = "answered" /\ d.status # 429
    BY <1>1, AnswerCall
<1>3. call' = [call EXCEPT ![r] = d]
    OBVIOUS
<1> HIDE DEF d
<1> QED
    BY <1>2, <1>3, OnwardKept

LEMMA DenyRaisedKept ==
    ASSUME CallsKept, AdmissionsKept, NEW r \in Requests, DenyRaised(r)
    PROVE  CallsKept' /\ AdmissionsKept'
<1> DEFINE id == call[r].id
           a == Answer(call[r], 500)
           d == [a EXCEPT !.action = "deny"]
           refused == Refused(session[id])
           denied == Denial(session[id], call[r].input.scan)
<1>1. /\ call[r] \in CallRecord /\ call[r].phase \in Deciding
      /\ id \in SessionIds /\ session[id] \in Session /\ call[r].input \in Inputs
    BY InputsAssumption DEF DenyRaised, CallsKept, Consistent, Deciding, Waiting, Phases
<1>2. /\ a \in CallRecord /\ Kept(call[r], a) /\ a.phase = "answered" /\ a.status = 500
    BY <1>1, AnswerCall DEF Statuses
<1>3. /\ call' = [call EXCEPT ![r] = d] /\ UNCHANGED services
      /\ (PutRaises(id, refused, rows[id]) \/ PutRaises(id, denied, refused))
    BY DEF DenyRaised
<1>4. call[r].input.scan \in Int /\ "normal" \in RiskStates
    BY <1>1 DEF Inputs, RiskStates
<1>5. refused \in Session /\ Grown(session[id], refused)
    BY <1>1, <1>4, MethodsGrow
<1>6. denied \in Session /\ Grown(refused, denied)
    BY <1>4, <1>5, MethodsGrow DEF Denial
<1>7. Grown(session[id], denied)
    BY <1>1, <1>5, <1>6, GrownOnward
<1> HIDE DEF a, refused, denied
<1>8. d \in CallRecord /\ Kept(call[r], d) /\ d.phase = "answered" /\ d.status # 429
    BY <1>2 DEF CallRecord, Kept, Actions
<1>9. SessionsGrow
    BY <1>1, <1>3, <1>5, <1>6, <1>7, PutRaisesGrows
<1> HIDE DEF d
<1> QED
    BY <1>1, <1>3, <1>8, <1>9, OnwardKept

LEMMA ToolCountRaisedKept ==
    ASSUME CallsKept, AdmissionsKept, NEW r \in Requests, ToolCountRaised(r)
    PROVE  CallsKept' /\ AdmissionsKept'
<1> DEFINE id == call[r].id
           used == ToolUsed(session[id])
           code == 500
<1>1. /\ call[r].phase \in Deciding /\ id \in SessionIds /\ session[id] \in Session
    BY DEF ToolCountRaised, CallsKept, Consistent, Deciding, Waiting, Phases
<1>2. used \in Session /\ Grown(session[id], used)
    <2>1. "normal" \in RiskStates /\ 0 \in Int
        BY DEF RiskStates
    <2> QED
        BY <1>1, <2>1, MethodsGrow
<1>3. PutRaises(id, used, rows[id]) /\ UNCHANGED services
      /\ call' = [call EXCEPT ![r] = Answer(call[r], code)] /\ code \in Statuses \ {429}
    BY DEF ToolCountRaised, Statuses
<1> HIDE DEF used, code
<1>4. SessionsGrow
    BY <1>1, <1>2, <1>3, PutRaisesGrows
<1> QED
    BY <1>1, <1>3, <1>4, AnswerKept

LEMMA RedactedAgainKept ==
    ASSUME CallsKept, AdmissionsKept, NEW r \in Requests, NEW toolRan \in BOOLEAN,
           NEW overBudget \in BOOLEAN, RedactedAgain(r, toolRan, overBudget)
    PROVE  CallsKept' /\ AdmissionsKept'
<1> DEFINE id == call[r].id
           s == IF toolRan THEN ToolUsed(session[id]) ELSE session[id]
<1>1. /\ call[r].phase \in Deciding /\ id \in SessionIds /\ session[id] \in Session
      /\ session \in [SessionIds -> Session \cup {Absent}]
    BY DEF RedactedAgain, CallsKept, Consistent, Deciding, Waiting, Phases
<1>2. s \in Session /\ Grown(session[id], s)
    <2>1. "normal" \in RiskStates /\ 0 \in Int
        BY DEF RiskStates
    <2> QED
        BY <1>1, <2>1, GrownSame, MethodsGrow
<1>3. Put(id, s) /\ UNCHANGED services
    BY DEF RedactedAgain
<1> HIDE DEF s
<1>4. SessionsGrow
    BY <1>1, <1>2, <1>3, PutGrows
<1>5. CASE overBudget /\ EnforceTokenBudget /\ ~ TruncatePrompt
    <2> DEFINE code == 413
    <2>1. code \in Statuses \ {429} /\ call' = [call EXCEPT ![r] = Answer(call[r], code)]
        BY <1>5 DEF RedactedAgain, Statuses
    <2> HIDE DEF code
    <2> QED
        BY <1>1, <1>3, <1>4, <2>1, AnswerKept
<1>6. CASE ~ (overBudget /\ EnforceTokenBudget /\ ~ TruncatePrompt)
    <2>1. call' = [call EXCEPT ![r] = Await(call[r], "upstream")]
        BY <1>6 DEF RedactedAgain
    <2>2. "upstream" \in Deciding \ {"input_guard"}
        BY DEF Deciding, Waiting, Phases
    <2> QED
        BY <1>1, <1>3, <1>4, <2>1, <2>2, AwaitKept
<1> QED
    BY <1>5, <1>6

LEMMA OutputInspectedKept ==
    ASSUME CallsKept, AdmissionsKept, NEW r \in Requests, NEW outputAction,
           OutputInspected(r, outputAction)
    PROVE  CallsKept' /\ AdmissionsKept'
<1> DEFINE code == IF outputAction = "block" THEN 502 ELSE 200
           d == Answer(Logged(Audited(call[r])), code)
<1>1. /\ call[r] \in CallRecord /\ call[r].phase \in Deciding
      /\ call[r].audits = 0 /\ call[r].logs = 0
      /\ session \in [SessionIds -> Session \cup {Absent}]
    BY DEF OutputInspected, CallsKept, Consistent, Deciding, Waiting, Phases
<1>2. Logged(Audited(call[r])) \in CallRecord /\ Kept(call[r], Logged(Audited(call[r])))
    BY <1>1, LoggedCall
<1>3. code \in Statuses \ {429}
    BY DEF Statuses
<1>4. d \in CallRecord /\ Kept(call[r], d) /\ d.phase = "answered" /\ d.status # 429
    BY <1>2, <1>3, AnswerCall DEF Kept
<1>5. call' = [call EXCEPT ![r] = d] /\ UNCHANGED <<session, rows, faults>> /\ UNCHANGED services
    BY DEF OutputInspected, sessionVars
<1> HIDE DEF d
<1> QED
    BY <1>1, <1>4, <1>5, UnchangedGrows, OnwardKept

\* All the steps past the limiter.
LEMMA ResumeKept ==
    ASSUME CallsKept, AdmissionsKept, NEW r \in Requests, Resume(r),
           ~ (call[r].phase = "keys" /\ (Unauthorized(r) \/ ReceiveAny(r)))
    PROVE  CallsKept' /\ AdmissionsKept'
<1>1. {"redaction", "retrieval", "second_redaction", "upstream", "output_guard"}
          \subseteq Deciding \ {"input_guard"}
    BY DEF Deciding, Waiting, Phases
<1>2. CASE Redacted(r)
    BY <1>1, <1>2, UnchangedGrows, AwaitKept DEF Redacted, sessionVars
<1>3. CASE Retrieved(r)
    BY <1>1, <1>3, UnchangedGrows, AwaitKept DEF Retrieved, sessionVars
<1>4. CASE Forwarded(r)
    BY <1>1, <1>4, UnchangedGrows, AwaitKept DEF Forwarded, sessionVars
<1>5. CASE RetrievalRaised(r)
    <2> DEFINE code == 500
    <2>1. code \in Statuses \ {429} /\ call' = [call EXCEPT ![r] = Answer(call[r], code)]
        BY <1>5 DEF RetrievalRaised, Statuses
    <2> HIDE DEF code
    <2>2. call[r].phase \in Deciding /\ UNCHANGED <<session, rows, faults>> /\ UNCHANGED services
        BY <1>1, <1>5 DEF RetrievalRaised, sessionVars
    <2> QED
        BY <2>1, <2>2, UnchangedGrows, AnswerKept
<1>6. CASE ToolsRaised(r)
    <2> DEFINE code == 500
    <2>1. code \in Statuses \ {429} /\ call' = [call EXCEPT ![r] = Answer(call[r], code)]
        BY <1>6 DEF ToolsRaised, Statuses
    <2> HIDE DEF code
    <2>2. call[r].phase \in Deciding /\ UNCHANGED <<session, rows, faults>> /\ UNCHANGED services
        BY <1>1, <1>6 DEF ToolsRaised, sessionVars
    <2> QED
        BY <2>1, <2>2, UnchangedGrows, AnswerKept
<1>7. CASE ReplyRaised(r)
    <2> DEFINE code == 500
    <2>1. code \in Statuses \ {429} /\ call' = [call EXCEPT ![r] = Answer(call[r], code)]
        BY <1>7 DEF ReplyRaised, Statuses
    <2> HIDE DEF code
    <2>2. call[r].phase \in Deciding /\ UNCHANGED <<session, rows, faults>> /\ UNCHANGED services
        BY <1>1, <1>7 DEF ReplyRaised, sessionVars
    <2> QED
        BY <2>1, <2>2, UnchangedGrows, AnswerKept
<1>8. CASE ForwardFailed(r)
    <2> DEFINE code == 502
    <2>1. code \in Statuses \ {429} /\ call' = [call EXCEPT ![r] = Answer(call[r], code)]
        BY <1>8 DEF ForwardFailed, Statuses
    <2> HIDE DEF code
    <2>2. call[r].phase \in Deciding /\ UNCHANGED <<session, rows, faults>> /\ UNCHANGED services
        BY <1>1, <1>8 DEF ForwardFailed, sessionVars
    <2> QED
        BY <2>1, <2>2, UnchangedGrows, AnswerKept
<1> QED
    BY <1>2, <1>3, <1>4, <1>5, <1>6, <1>7, <1>8, GuardAnsweredKept, DenyRaisedKept,
       RedactedAgainKept, ToolCountRaisedKept, OutputInspectedKept DEF Resume

-----------------------------------------------------------------------------
(* The steps up to the limiter *)

LEMMA AuthenticatedPhase ==
    ASSUME NEW r, Authenticated(r) PROVE call[r].phase \in {"new", "keys"}
BY DEF Authenticated

\* A call that is not let through.
LEMMA NotAdmittedKept ==
    ASSUME CallsKept, AdmissionsKept, NEW r \in Requests, NEW c \in CallRecord,
           call[r].phase \in {"new", "keys"}, c.phase \in {"keys", "answered"},
           Consistent(c), ~ c.admitted,
           call' = [call EXCEPT ![r] = c], SessionsGrow, UNCHANGED <<log, nextRow, storeOpen>>
    PROVE  CallsKept' /\ AdmissionsKept'
<1>1. call[r].admitted = FALSE /\ c.admitted = FALSE
    BY DEF CallsKept, Consistent, CallRecord
<1>2. c.phase \notin Deciding /\ c.phase # "input_guard"
    BY DEF Deciding, Waiting
<1>3. CallsKept'
    BY <1>2, CallMoves
<1>4. \A o \in Requests : /\ call'[o].admitted = call[o].admitted
                          /\ call[o].admitted => call'[o].key = call[o].key
    BY <1>1 DEF CallsKept
<1> QED
    BY <1>3, <1>4, QuietAdmissions

\* A call refused before the session is looked at.
LEMMA TurnedAwayKept ==
    ASSUME CallsKept, AdmissionsKept, NEW r \in Requests, NEW code \in Statuses \ {429},
           call[r].phase \in {"new", "keys"},
           call' = [call EXCEPT ![r] = Answer(call[r], code)],
           UNCHANGED <<session, rows, faults, log, nextRow, storeOpen>>
    PROVE  CallsKept' /\ AdmissionsKept'
<1> DEFINE d == Answer(call[r], code)
<1>1. /\ call[r] \in CallRecord /\ ~ call[r].admitted
      /\ session \in [SessionIds -> Session \cup {Absent}]
    BY DEF CallsKept, Consistent
<1>2. d \in CallRecord /\ Kept(call[r], d) /\ d.phase = "answered" /\ d.status # 429
    BY <1>1, AnswerCall
<1>3. call' = [call EXCEPT ![r] = d]
    OBVIOUS
<1> HIDE DEF d
<1>4. Consistent(d) /\ ~ d.admitted
    BY <1>1, <1>2 DEF Consistent, Kept, Deciding, Waiting
<1> QED
    BY <1>1, <1>2, <1>3, <1>4, UnchangedGrows, NotAdmittedKept, ZenonT(60)

LEMMA FetchKeysKept ==
    ASSUME CallsKept, AdmissionsKept, NEW r \in Requests, FetchKeys(r)
    PROVE  CallsKept' /\ AdmissionsKept'
<1> DEFINE d == Await(call[r], "keys")
<1>1. /\ call[r] \in CallRecord /\ call[r].phase = "new" /\ ~ call[r].admitted
      /\ call[r].audits = 0 /\ call[r].logs = 0 /\ call[r].status = NoAnswer
      /\ call[r].action = "none" /\ call[r].id = Absent
      /\ session \in [SessionIds -> Session \cup {Absent}]
    BY DEF CallsKept, Consistent, FetchKeys
<1>2. /\ d \in CallRecord /\ Kept(call[r], d) /\ d.phase = "keys" /\ d.status = NoAnswer
      /\ d.audits = 0 /\ d.logs = 0 /\ d.action = "none"
    BY <1>1, AwaitCall DEF Phases
<1>3. call' = [call EXCEPT ![r] = d]
      /\ UNCHANGED <<session, rows, faults, log, nextRow, storeOpen>>
    BY DEF FetchKeys, sessionVars, limiterVars
<1> HIDE DEF d
<1>4. Consistent(d) /\ ~ d.admitted
    BY <1>1, <1>2 DEF Consistent, Kept, Deciding, Waiting, NoAnswer
<1> QED
    BY <1>1, <1>2, <1>3, <1>4, UnchangedGrows, NotAdmittedKept

LEMMA UnauthorizedKept ==
    ASSUME CallsKept, AdmissionsKept, NEW r \in Requests, Unauthorized(r)
    PROVE  CallsKept' /\ AdmissionsKept'
<1> DEFINE code == 401
<1>1. code \in Statuses \ {429} /\ call' = [call EXCEPT ![r] = Answer(call[r], code)]
    BY DEF Unauthorized, Statuses
<1> HIDE DEF code
<1>2. /\ call[r].phase \in {"new", "keys"}
      /\ UNCHANGED <<session, rows, faults, log, nextRow, storeOpen>>
    BY DEF Unauthorized, sessionVars, limiterVars
<1> QED
    BY <1>1, <1>2, TurnedAwayKept

LEMMA TooLargeKept ==
    ASSUME CallsKept, AdmissionsKept, NEW r \in Requests, TooLarge(r)
    PROVE  CallsKept' /\ AdmissionsKept'
<1> DEFINE code == 413
<1>1. code \in Statuses \ {429} /\ call' = [call EXCEPT ![r] = Answer(call[r], code)]
    BY DEF TooLarge, Statuses
<1> HIDE DEF code
<1>2. /\ call[r].phase \in {"new", "keys"}
      /\ UNCHANGED <<session, rows, faults, log, nextRow, storeOpen>>
    BY AuthenticatedPhase DEF TooLarge, sessionVars, limiterVars
<1> QED
    BY <1>1, <1>2, TurnedAwayKept

LEMMA ReceiveKept ==
    ASSUME CallsKept, AdmissionsKept, now \in Nat, NEW r \in Requests, NEW id \in SessionIds,
           NEW key \in Keys, NEW in \in RequestInputs, NEW mult \in Multipliers,
           Receive(r, id, key, in, mult)
    PROVE  CallsKept' /\ AdmissionsKept'
<1> DEFINE found == Found(id)
           s == Requested(found)
           risk == assess(in, s)
           received == [call[r] EXCEPT !.id = id, !.key = key, !.input = in]
<1>1. /\ call[r] \in CallRecord /\ ~ call[r].admitted /\ call[r].phase \in {"new", "keys"}
      /\ call[r].audits = 0 /\ call[r].logs = 0 /\ call[r].status = NoAnswer
      /\ call[r].action = "none"
      /\ call \in [Requests -> CallRecord]
      /\ session \in [SessionIds -> Session \cup {Absent}]
    BY AuthenticatedPhase DEF Receive, CallsKept, Consistent, Waiting, Phases
<1>2. found \in Session
    BY <1>1 DEF Found, Fresh, Session, RiskStates
<1>3. s \in Session /\ Grown(found, s)
    <2>1. "normal" \in RiskStates /\ 0 \in Int
        BY DEF RiskStates
    <2> QED
        BY <1>2, <2>1, MethodsGrow
<1>4. in \in Inputs /\ risk \in [score : 0..100, state : RiskStates]
    BY <1>3, InputsAssumption, RiskType
<1>5. Assessed(s, risk.state) \in Session /\ Grown(s, Assessed(s, risk.state))
    <2>1. risk.state \in RiskStates /\ 0 \in Int
        BY <1>4
    <2> QED
        BY <1>3, <2>1, MethodsGrow
<1>6. /\ received \in CallRecord /\ received.id = id /\ received.key = key /\ received.input = in
      /\ received.admitted = FALSE /\ received.audits = 0 /\ received.logs = 0
      /\ received.status = NoAnswer /\ received.action = "none"
    BY <1>1 DEF CallRecord
<1>7. \/ RateLimited(key, in, s, mult) /\ Put(id, s)
             /\ call' = [call EXCEPT ![r] = Answer(received, 429)]
      \/ Admitted(key, in, s, mult) /\ Put(id, Assessed(s, risk.state))
             /\ call' = [call EXCEPT ![r] =
                             [Await(received, "input_guard") EXCEPT !.admitted = TRUE,
                                                                    !.risk = risk]]
    BY DEF Receive
<1> HIDE DEF found, s, risk, received
<1>8. session[id] # Absent => Grown(session[id], s)
    BY <1>3 DEF found, Found
<1>9. CASE RateLimited(key, in, s, mult) /\ Put(id, s)
               /\ call' = [call EXCEPT ![r] = Answer(received, 429)]
    <2> DEFINE d == Answer(received, 429)
    <2>1. /\ d \in CallRecord /\ Kept(received, d) /\ d.phase = "answered"
        BY <1>6, AnswerCall DEF Statuses
    <2>2. call' = [call EXCEPT ![r] = d]
        BY <1>9
    <2> HIDE DEF d
    <2>3. Consistent(d) /\ ~ d.admitted
        BY <1>6, <2>1 DEF Consistent, Kept, Deciding, Waiting
    <2>4. SessionsGrow
        BY <1>1, <1>3, <1>8, <1>9, PutGrows
    <2>5. UNCHANGED <<log, nextRow, storeOpen>>
        BY <1>9, RateLimitedEffect
    <2> QED
        BY <1>1, <2>1, <2>2, <2>3, <2>4, <2>5, NotAdmittedKept
<1>10. CASE Admitted(key, in, s, mult) /\ Put(id, Assessed(s, risk.state))
                /\ call' = [call EXCEPT ![r] =
                                [Await(received, "input_guard") EXCEPT !.admitted = TRUE,
                                                                       !.risk = risk]]
    <2> DEFINE w == Await(received, "input_guard")
               d == [w EXCEPT !.admitted = TRUE, !.risk = risk]
    <2>1. /\ w \in CallRecord /\ Kept(received, w) /\ w.phase = "input_guard"
          /\ w.status = NoAnswer /\ w.audits = 0 /\ w.logs = 0 /\ w.action = "none"
        BY <1>6, AwaitCall DEF Phases
    <2>2. call' = [call EXCEPT ![r] = d]
        BY <1>10
    <2> HIDE DEF w
    <2>3. /\ d \in CallRecord /\ d.id = id /\ d.key = key /\ d.input = in /\ d.admitted = TRUE
          /\ d.risk = risk /\ d.phase = "input_guard" /\ d.status = NoAnswer
          /\ d.audits = 0 /\ d.logs = 0 /\ d.action = "none"
        BY <1>4, <1>6, <2>1, ZenonT(60) DEF CallRecord, Kept
    <2> HIDE DEF d
    <2>4. Consistent(d)
        BY <2>3 DEF Consistent, NoAnswer
    <2>5. SessionsGrow /\ session'[id] = Assessed(s, risk.state)
        BY <1>1, <1>3, <1>5, <1>8, <1>10, PutGrows, GrownOnward
    <2>6. session'[d.id] # Absent
        BY <1>5, <2>3, <2>5, AbsentAssumption
    <2>7. NoLessRisk(d.risk, assess(d.input, session'[d.id]))
        BY <1>3, <1>4, <1>5, <2>3, <2>5, RiskNeverFalls DEF risk
    <2>8. CallsKept'
        BY <1>10, <2>2, <2>3, <2>4, <2>5, <2>6, <2>7, AdmittedEffect, CallMoves
    <2>9. /\ log' = [log EXCEPT ![key] = Append(log[key], [id |-> nextRow, ts |-> now])]
          /\ nextRow' \in {nextRow, nextRow + 1}
        BY <1>10, AdmittedEffect
    <2>10. AdmissionsKept'
        BY <1>1, <2>2, <2>3, <2>9, NewAdmission
    <2> QED
        BY <2>8, <2>10
<1> QED
    BY <1>7, <1>9, <1>10

LEMMA ReceiveRaisedKept ==
    ASSUME CallsKept, AdmissionsKept, now \in Nat, NEW r \in Requests, NEW id \in SessionIds,
           NEW key \in Keys, NEW in \in RequestInputs, NEW mult \in Multipliers,
           ReceiveRaised(r, id, key, in, mult)
    PROVE  CallsKept' /\ AdmissionsKept'
<1> DEFINE found == Found(id)
           s == Requested(found)
           assessed == Assessed(s, assess(in, s).state)
           a == Answer(call[r], 500)
           raised == [a EXCEPT !.id = id, !.key = key, !.input = in]
           d == [raised EXCEPT !.admitted = TRUE]
<1>1. /\ call[r] \in CallRecord /\ ~ call[r].admitted /\ call[r].phase \in {"new", "keys"}
      /\ call \in [Requests -> CallRecord]
    BY AuthenticatedPhase DEF ReceiveRaised, CallsKept, Consistent
<1>2. found \in Session /\ (session[id] # Absent => Grown(session[id], found))
    BY GrownSame DEF CallsKept, Found, Fresh, Session, RiskStates
<1>3. s \in Session /\ Grown(found, s)
    <2>1. "normal" \in RiskStates /\ 0 \in Int
        BY DEF RiskStates
    <2> QED
        BY <1>2, <2>1, MethodsGrow
<1>4. assessed \in Session /\ Grown(s, assessed)
    <2>1. assess(in, s).state \in RiskStates /\ 0 \in Int
        BY <1>3, InputsAssumption, RiskType
    <2> QED
        BY <1>3, <2>1, MethodsGrow
<1>5. session[id] # Absent => Grown(session[id], s) /\ Grown(session[id], assessed)
    BY <1>2, <1>3, <1>4, GrownOnward DEF CallsKept
<1>6. a \in CallRecord /\ Kept(call[r], a) /\ a.phase = "answered" /\ a.status = 500
    BY <1>1, AnswerCall DEF Statuses
<1>7. \/ /\ PutRaises(id, found, rows[id]) \/ PutRaises(id, s, found)
         /\ call' = [call EXCEPT ![r] = raised]
         /\ UNCHANGED limiterVars
      \/ /\ Admitted(key, in, s, mult)
         /\ PutRaises(id, assessed, s)
         /\ call' = [call EXCEPT ![r] = d]
    BY DEF ReceiveRaised
<1> HIDE DEF found, s, assessed, a
<1>8. /\ raised \in CallRecord /\ raised.phase = "answered" /\ raised.status = 500
      /\ raised.admitted = FALSE /\ raised.id = id /\ raised.key = key /\ raised.input = in
    BY <1>1, <1>6, ZenonT(60) DEF CallRecord, Kept
<1> HIDE DEF raised
<1>9. /\ d \in CallRecord /\ d.phase = "answered" /\ d.status = 500
      /\ d.admitted = TRUE /\ d.id = id /\ d.key = key /\ d.input = in
    BY <1>8 DEF CallRecord
<1> HIDE DEF d
<1>10. Consistent(raised) /\ Consistent(d)
    BY <1>8, <1>9 DEF Consistent, Deciding, Waiting
<1>11. CASE /\ PutRaises(id, found, rows[id]) \/ PutRaises(id, s, found)
            /\ call' = [call EXCEPT ![r] = raised]
            /\ UNCHANGED limiterVars
    <2>1. SessionsGrow
        BY <1>2, <1>3, <1>5, <1>11, PutRaisesGrows
    <2>2. UNCHANGED <<log, nextRow, storeOpen>>
        BY <1>11 DEF limiterVars
    <2> QED
        BY <1>1, <1>8, <1>10, <1>11, <2>1, <2>2, NotAdmittedKept
<1>12. CASE /\ Admitted(key, in, s, mult)
            /\ PutRaises(id, assessed, s)
            /\ call' = [call EXCEPT ![r] = d]
    <2>1. SessionsGrow
        BY <1>3, <1>4, <1>5, <1>12, PutRaisesGrows
    <2>2. d.phase \notin Deciding /\ d.phase # "input_guard"
        BY <1>9 DEF Deciding, Waiting
    <2>3. /\ log' = [log EXCEPT ![key] = Append(log[key], [id |-> nextRow, ts |-> now])]
          /\ nextRow' \in {nextRow, nextRow + 1} /\ UNCHANGED storeOpen
        BY <1>12, AdmittedEffect
    <2>4. CallsKept'
        BY <1>9, <1>10, <1>12, <2>1, <2>2, <2>3, CallMoves
    <2>5. AdmissionsKept'
        BY <1>1, <1>9, <1>12, <2>3, NewAdmission, ZenonT(60)
    <2> QED
        BY <2>4, <2>5
<1> QED
    BY <1>7, <1>11, <1>12

-----------------------------------------------------------------------------
(* The other steps, and the invariant *)

\* The calls after a stop; the one the stop cut short may be marked.
LEMMA LostCalls ==
    ASSUME CallsKept, NEW r \in Requests
    PROVE  /\ Lost[r] \in CallRecord /\ Kept(call[r], Lost[r]) /\ Consistent(Lost[r])
           /\ Lost[r].phase \notin Waiting /\ Lost[r].action = call[r].action
<1>1. call[r] \in CallRecord /\ Consistent(call[r])
    BY DEF CallsKept
<1>2. CASE call[r].phase \in Waiting
    <2> DEFINE d == Await(call[r], "lost")
    <2>1. /\ d \in CallRecord /\ Kept(call[r], d) /\ d.phase = "lost"
          /\ d.status = call[r].status /\ d.action = call[r].action
        BY <1>1, AwaitCall DEF Phases
    <2>2. Lost[r] = d
        BY <1>2 DEF Lost
    <2> HIDE DEF d
    <2> QED
        BY <1>1, <2>1, <2>2 DEF Consistent, Kept, Deciding, Waiting
<1>3. CASE call[r].phase \notin Waiting
    BY <1>1, <1>3 DEF Lost, Kept
<1> QED
    BY <1>2, <1>3

LEMMA RestartedKept ==
    ASSUME CallsKept, AdmissionsKept,
           NEW left \in [SessionIds -> Session \cup {Absent}], Restarted(left), faults' \in Nat,
           call' \in [Requests -> CallRecord],
           \A r \in Requests : /\ Consistent(call'[r]) /\ call'[r].phase \notin Waiting
                               /\ call'[r].admitted = call[r].admitted
                               /\ call[r].admitted => call'[r].key = call[r].key
    PROVE  CallsKept' /\ AdmissionsKept'
<1>1. /\ UNCHANGED <<log, nextRow>> /\ rows' = left
      /\ session' = IF storeOpen' THEN left ELSE [id \in SessionIds |-> Absent]
    BY DEF Restarted, Limiter!Restart, LoadedFrom
<1>2. session' \in [SessionIds -> Session \cup {Absent}]
    BY <1>1
<1>3. RowsBehind'
    BY <1>1, GrownSame DEF RowsBehind
<1>4. \A r \in Requests : call'[r].phase \notin Deciding /\ call'[r].phase # "input_guard"
    BY DEF Deciding, Waiting, Phases
<1>5. CallsKept'
    BY <1>1, <1>2, <1>3, <1>4 DEF CallsKept, StaleRiskIsLower
<1> QED
    BY <1>1, <1>5, QuietAdmissions

LEMMA CrashKept == CallsKept /\ AdmissionsKept /\ Crash => CallsKept' /\ AdmissionsKept'
<1> SUFFICES ASSUME CallsKept, AdmissionsKept, Crash PROVE CallsKept' /\ AdmissionsKept'
    OBVIOUS
<1>1. Restarted(rows) /\ call' = Lost /\ faults' = faults
    BY DEF Crash
<1>2. call' \in [Requests -> CallRecord]
    <2>1. Lost = [r \in Requests |-> Lost[r]]
        BY DEF Lost
    <2> QED
        BY <1>1, <2>1, LostCalls
<1>3. rows \in [SessionIds -> Session \cup {Absent}] /\ faults \in Nat
    BY DEF CallsKept
<1> QED
    BY <1>1, <1>2, <1>3, LostCalls, RestartedKept DEF Kept

\* A stop that cuts the saves of one call short.
LEMMA StoppedSavingKept ==
    ASSUME CallsKept, AdmissionsKept, NEW r \in Requests, NEW id \in SessionIds,
           NEW written \in SUBSET Session, StoppedSaving(id, written),
           NEW c \in CallRecord, call' = [Lost EXCEPT ![r] = c],
           Consistent(c), c.phase \notin Waiting, c.admitted = call[r].admitted,
           call[r].admitted => c.key = call[r].key
    PROVE  CallsKept' /\ AdmissionsKept'
<1>1. PICK row \in written : Restarted([rows EXCEPT ![id] = row])
    BY DEF StoppedSaving
<1> DEFINE left == [rows EXCEPT ![id] = row]
<1>2. left \in [SessionIds -> Session \cup {Absent}] /\ Restarted(left)
    BY <1>1 DEF CallsKept
<1>3. faults' \in Nat
    BY DEF StoppedSaving, CallsKept
<1>4. Lost \in [Requests -> CallRecord]
    <2>1. Lost = [o \in Requests |-> Lost[o]]
        BY DEF Lost
    <2> QED
        BY <2>1, LostCalls
<1>5. call' \in [Requests -> CallRecord] /\ call'[r] = c
      /\ \A o \in Requests : o # r => call'[o] = Lost[o]
    BY <1>4
<1> HIDE DEF left
<1>6. \A o \in Requests : /\ Consistent(call'[o]) /\ call'[o].phase \notin Waiting
                          /\ call'[o].admitted = call[o].admitted
                          /\ call[o].admitted => call'[o].key = call[o].key
    BY <1>5, LostCalls DEF Kept
<1> QED
    BY <1>2, <1>3, <1>5, <1>6, RestartedKept

\* The call a stop in Receive leaves.
LEMMA CutShortInReceive ==
    ASSUME CallsKept, NEW r \in Requests, NEW id \in SessionIds, StoppedInReceive(r, id)
    PROVE  \E c \in CallRecord :
               /\ call' = [Lost EXCEPT ![r] = c] /\ Consistent(c) /\ c.phase = "lost"
               /\ call[r].admitted = FALSE /\ c.admitted = FALSE
               /\ call[r].id = Absent /\ c.id = id /\ c.action = "none"
<1> DEFINE w == Await(Lost[r], "lost")
           c == [w EXCEPT !.id = id]
<1>1. /\ call[r].phase \in {"new", "keys"} /\ call[r].admitted = FALSE
      /\ call[r].id = Absent /\ call[r].action = "none"
      /\ call[r].audits = 0 /\ call[r].logs = 0 /\ call[r].status = NoAnswer
    BY DEF StoppedInReceive, CallsKept, Consistent, CallRecord, Waiting, Phases
<1>2. Lost[r] \in CallRecord /\ Kept(call[r], Lost[r]) /\ Lost[r].action = "none"
      /\ Lost[r].status = NoAnswer
    <2>1. Lost[r].status = call[r].status
        BY AwaitCall DEF Lost, CallsKept, Phases
    <2> QED
        BY <1>1, <2>1, LostCalls
<1>3. /\ w \in CallRecord /\ Kept(Lost[r], w) /\ w.phase = "lost" /\ w.action = "none"
      /\ w.status = NoAnswer
    BY <1>2, AwaitCall DEF Phases
<1>4. call' = [Lost EXCEPT ![r] = c]
    BY DEF StoppedInReceive
<1> HIDE DEF w
<1>5. /\ c \in CallRecord /\ c.phase = "lost" /\ c.action = "none" /\ c.id = id
      /\ c.admitted = FALSE /\ c.status = NoAnswer
    BY <1>1, <1>2, <1>3 DEF CallRecord, Kept
<1> HIDE DEF c
<1>6. Consistent(c)
    BY <1>5 DEF Consistent, Deciding, Waiting, NoAnswer
<1> QED
    BY <1>1, <1>4, <1>5, <1>6

\* The call a stop between the saves of a deny leaves.
LEMMA CutShortInDeny ==
    ASSUME CallsKept, NEW r \in Requests, StoppedInDeny(r)
    PROVE  \E c \in CallRecord :
               /\ call' = [Lost EXCEPT ![r] = c] /\ Consistent(c) /\ c.phase \notin Waiting
               /\ Kept(call[r], c) /\ c.action = "deny"
<1> DEFINE w == Lost[r]
           c == [w EXCEPT !.action = "deny"]
<1>1. call[r].phase = "input_guard"
    BY DEF StoppedInDeny
<1>2. /\ w \in CallRecord /\ Kept(call[r], w) /\ Consistent(w) /\ w.phase = "lost"
    <2>1. call[r].phase \in Waiting
        BY <1>1 DEF Waiting, Phases
    <2>2. w.phase = "lost"
        BY <2>1, AwaitCall DEF Lost, CallsKept, Phases
    <2> QED
        BY <2>2, LostCalls
<1>3. call' = [Lost EXCEPT ![r] = c]
    BY DEF StoppedInDeny
<1> HIDE DEF w
<1>4. /\ c \in CallRecord /\ Kept(call[r], c) /\ c.phase = "lost" /\ c.action = "deny"
      /\ c.status = w.status /\ c.admitted = w.admitted /\ c.id = w.id /\ c.key = w.key
      /\ c.input = w.input
    BY <1>2 DEF CallRecord, Kept, Actions
<1> HIDE DEF c
<1>5. Consistent(c) /\ c.phase \notin Waiting
    BY <1>2, <1>4 DEF Consistent, Deciding, Waiting
<1> QED
    BY <1>3, <1>4, <1>5

\* What the saves of a request and of a deny leave of a session.
LEMMA FoundGrows ==
    ASSUME CallsKept, NEW id \in SessionIds
    PROVE  /\ Found(id) \in Session /\ Requested(Found(id)) \in Session
           /\ Found(id) = Counted(session[id])
<1>1. Found(id) \in Session
    BY DEF CallsKept, Found, Fresh, Session, RiskStates
<1>2. "normal" \in RiskStates /\ 0 \in Int
    BY DEF RiskStates
<1> QED
    BY <1>1, <1>2, MethodsGrow DEF Found, Counted

LEMMA DenialGrows ==
    ASSUME CallsKept, NEW r \in Requests, call[r].phase = "input_guard"
    PROVE  LET s == session[call[r].id]
           IN  /\ call[r].id \in SessionIds /\ s \in Session /\ s # Absent
               /\ Refused(s) \in Session /\ Denial(s, call[r].input.scan) \in Session
<1> DEFINE s == session[call[r].id]
<1>1. /\ call[r].id \in SessionIds /\ s \in Session /\ s # Absent /\ call[r].input \in Inputs
    BY InputsAssumption, AbsentAssumption DEF CallsKept, Consistent, Deciding, Waiting, Phases
<1>2. call[r].input.scan \in Int /\ "normal" \in RiskStates
    BY <1>1 DEF Inputs, RiskStates
<1>3. Refused(s) \in Session
    BY <1>1, <1>2, MethodsGrow
<1>4. Denial(s, call[r].input.scan) \in Session
    BY <1>2, <1>3, MethodsGrow DEF Denial
<1> QED
    BY <1>1, <1>3, <1>4

LEMMA StoppedKept == CallsKept /\ AdmissionsKept /\ Stopped => CallsKept' /\ AdmissionsKept'
<1> SUFFICES ASSUME CallsKept, AdmissionsKept, Stopped PROVE CallsKept' /\ AdmissionsKept'
    OBVIOUS
<1>1. ASSUME NEW r \in Requests, NEW id \in SessionIds, StoppedInReceive(r, id)
      PROVE  CallsKept' /\ AdmissionsKept'
    <2>1. PICK c \in CallRecord :
              /\ call' = [Lost EXCEPT ![r] = c] /\ Consistent(c) /\ c.phase = "lost"
              /\ call[r].admitted = FALSE /\ c.admitted = FALSE
              /\ call[r].id = Absent /\ c.id = id /\ c.action = "none"
        BY <1>1, CutShortInReceive
    <2>2. {Found(id), Requested(Found(id))} \in SUBSET Session
        BY FoundGrows
    <2>3. c.phase \notin Waiting
        BY <2>1 DEF Waiting
    <2>4. StoppedSaving(id, {Found(id), Requested(Found(id))})
        BY <1>1 DEF StoppedInReceive
    <2> QED
        BY <2>1, <2>2, <2>3, <2>4, StoppedSavingKept
<1>2. ASSUME NEW r \in Requests, StoppedInDeny(r) PROVE CallsKept' /\ AdmissionsKept'
    <2> DEFINE s == session[call[r].id]
               written == {Refused(s), Denial(s, call[r].input.scan)}
    <2>1. PICK c \in CallRecord :
              /\ call' = [Lost EXCEPT ![r] = c] /\ Consistent(c) /\ c.phase \notin Waiting
              /\ Kept(call[r], c) /\ c.action = "deny"
        BY <1>2, CutShortInDeny
    <2>2. written \in SUBSET Session /\ call[r].id \in SessionIds
        BY <1>2, DenialGrows DEF StoppedInDeny
    <2>3. StoppedSaving(call[r].id, written)
        BY <1>2 DEF StoppedInDeny
    <2> HIDE DEF written
    <2> QED
        BY <2>1, <2>2, <2>3, StoppedSavingKept DEF Kept
<1> QED
    BY <1>1, <1>2, CrashKept DEF Stopped

LEMMA SameCallsKept ==
    CallsKept /\ AdmissionsKept /\ UNCHANGED <<call, session, rows, faults, storeOpen, log, nextRow>>
        => CallsKept' /\ AdmissionsKept'
BY DEF CallsKept, AdmissionsKept, RowsBehind, StaleRiskIsLower, AdmissionsPaid, AdmittedCalls

LEMMA InitKept == Init => CallsKept /\ AdmissionsKept
<1> SUFFICES ASSUME Init PROVE CallsKept /\ AdmissionsKept
    OBVIOUS
<1>1. NewCall \in CallRecord /\ Consistent(NewCall) /\ NewCall.phase = "new" /\ ~ NewCall.admitted
    BY DEF NewCall, CallRecord, Consistent, NoRisk, RiskStates, Phases, Statuses, NoAnswer,
           Deciding, Waiting
<1>2. call = [r \in Requests |-> NewCall]
    BY DEF Init
<1>3. /\ rows \in [SessionIds -> Session \cup {Absent}] /\ faults = 0
      /\ session = IF storeOpen THEN rows ELSE [id \in SessionIds |-> Absent]
    BY HistoriesAssumption DEF Init, LoadedFrom
<1>a. session \in [SessionIds -> Session \cup {Absent}] /\ RowsBehind
    BY <1>3, GrownSame DEF RowsBehind
<1>4. CallsKept
    BY <1>1, <1>2, <1>3, <1>a DEF CallsKept, StaleRiskIsLower, Deciding, Waiting
<1>5. log = [k \in Keys |-> <<>>] /\ nextRow = 0
    BY DEF Init, Limiter!Init
<1>6. AdmittedCalls = {} /\ \A key \in Keys : Paid(key) = {}
    BY <1>1, <1>2 DEF AdmittedCalls, Paid
<1>7. IsFiniteSet({}) /\ Cardinality({}) = 0
    BY FS_EmptySet
<1>8. AdmissionsPaid
    BY <1>5, <1>6, <1>7 DEF AdmissionsPaid, Paid
<1>9. log \in [Keys -> Seq(Hit)] /\ nextRow \in Nat
    BY <1>5
<1> QED
    BY <1>4, <1>6, <1>7, <1>8, <1>9 DEF AdmissionsKept

LEMMA NextKept == IInv /\ CallsKept /\ AdmissionsKept /\ [Next]_vars => CallsKept' /\ AdmissionsKept'
<1> SUFFICES ASSUME IInv, CallsKept, AdmissionsKept, [Next]_vars
             PROVE  CallsKept' /\ AdmissionsKept'
    OBVIOUS
<1>0. now \in Nat
    BY DEF IInv, KeyTypeOK
<1>1. ASSUME NEW r \in Requests, ReceiveAny(r) PROVE CallsKept' /\ AdmissionsKept'
    BY <1>0, <1>1, TooLargeKept, ReceiveKept, ReceiveRaisedKept DEF ReceiveAny
<1>2. ASSUME NEW r \in Requests, KeysServed(r) PROVE CallsKept' /\ AdmissionsKept'
    BY <1>2, SameCallsKept DEF KeysServed, sessionVars, limiterVars
<1>3. ASSUME NEW r \in Requests, Resume(r) PROVE CallsKept' /\ AdmissionsKept'
    BY <1>1, <1>3, UnauthorizedKept, ResumeKept
<1>4. CASE KeyRotated
    BY <1>4, SameCallsKept DEF KeyRotated, sessionVars, limiterVars
<1>5. CASE Tick
    BY <1>5, SameCallsKept
       DEF Tick, Limiter!Tick, Limiter!process, Limiter!limiterVars, Limiter!histories, sessionVars
<1>6. CASE UNCHANGED vars
    BY <1>6, SameCallsKept DEF vars, sessionVars, services, limiterVars
<1> QED
    BY <1>1, <1>2, <1>3, <1>4, <1>5, <1>6, FetchKeysKept, UnauthorizedKept, StoppedKept
    DEF Next, Stopped

LEMMA PipelineInvariance == Spec => [](CallsKept /\ AdmissionsKept)
<1>1. CallsKept /\ AdmissionsKept /\ IInv /\ [Next]_vars => (CallsKept /\ AdmissionsKept)'
    BY NextKept
<1>2. Init => CallsKept /\ AdmissionsKept
    BY InitKept
<1> QED
    BY <1>1, <1>2, KeysInvariance, PTL DEF Spec

\* Calls and sessions are well formed in every reachable state.
THEOREM PipelineTypeCorrect == Spec => []TypeOK
BY PipelineInvariance, CallsKeptType, PTL

\* The risk a request waits with is never too high for its session as it has become.
THEOREM StaleRiskSafety == Spec => []StaleRiskIsLower
<1>1. CallsKept => StaleRiskIsLower
    BY DEF CallsKept
<1> QED
    BY <1>1, PipelineInvariance, PTL

\* Every request past the limiter has paid with one admission of its key.
THEOREM AdmissionSafety == Spec => []AdmissionsPaid
<1>1. AdmissionsKept => AdmissionsPaid
    BY DEF AdmissionsKept
<1> QED
    BY <1>1, PipelineInvariance, PTL

-----------------------------------------------------------------------------
(* What a step counts in the sessions *)

\* t is at most so many updates behind s with so many requests and denies more.
Behind(s, t, requests, denies, missed) ==
    /\ s.requests + requests - t.requests \in 0..missed
    /\ s.refusals + denies - t.refusals \in 0..missed
    /\ s.injections + denies - t.injections \in 0..missed

\* What memory and store hold of a session comes of what one of them held.
Tallied(id, requests, denies) ==
    \A t \in {session'[id], rows'[id]} : \E s \in {session[id], rows[id]} :
        Behind(Counted(s), Counted(t), requests, denies, faults' - faults)

TalliedAt(id, requests, denies) ==
    /\ Tallied(id, requests, denies)
    /\ \A other \in SessionIds \ {id} : Tallied(other, 0, 0)

SameDecision(o) ==
    /\ call'[o].id = call[o].id
    /\ call'[o].action = "deny" <=> call[o].action = "deny"

OthersSame(r) == \A o \in Requests \ {r} : SameDecision(o)

CountsNothing ==
    /\ \A o \in Requests : SameDecision(o)
    /\ storeOpen /\ storeOpen' => \A id \in SessionIds : Tallied(id, 0, 0)

CountsRequest(r, id) ==
    /\ OthersSame(r)
    /\ call[r].id = Absent /\ call'[r].id = id
    /\ call[r].action # "deny" /\ call'[r].action # "deny"
    /\ storeOpen /\ storeOpen' => TalliedAt(id, 1, 0)

CountsDenial(r) ==
    /\ OthersSame(r)
    /\ call[r].id \in SessionIds /\ call'[r].id = call[r].id
    /\ call[r].action # "deny" /\ call'[r].action = "deny"
    /\ storeOpen /\ storeOpen' => TalliedAt(call[r].id, 0, 1)

Counts ==
    \/ CountsNothing
    \/ \E r \in Requests, id \in SessionIds : CountsRequest(r, id)
    \/ \E r \in Requests : CountsDenial(r)

OnlyCall(r) == \A o \in Requests \ {r} : call'[o] = call[o]

\* How a step adds to the attempts of the sessions and the undecided requests.
AddsAttempts(id, n) ==
    \A other \in SessionIds : session[other] # Absent =>
        session'[other].injections \in Int
        /\ session'[other].injections
               <= session[other].injections + (IF other = id THEN n ELSE 0)

AddsNothing ==
    /\ AddsAttempts(Absent, 0)
    /\ \A o \in Requests : call'[o].phase = "input_guard" =>
           call[o].phase = "input_guard" /\ call'[o].id = call[o].id

AddsRequest(r) ==
    /\ OnlyCall(r) /\ AddsAttempts(Absent, 0)
    /\ call'[r].phase = "input_guard" =>
           call'[r].id \in SessionIds /\ Counted(session[call'[r].id]).injections < 3

AddsDenial(r) ==
    /\ OnlyCall(r) /\ AddsAttempts(call[r].id, 1)
    /\ call[r].phase = "input_guard" /\ call'[r].phase # "input_guard"

Adds ==
    \/ AddsNothing
    \/ \E r \in Requests : AddsRequest(r) \/ AddsDenial(r)

LEMMA BehindSame ==
    ASSUME NEW s \in Session, NEW missed \in Nat PROVE Behind(s, s, 0, 0, missed)
BY DEF Behind, Session

LEMMA BehindMissed ==
    ASSUME NEW s \in Session, NEW requests \in 0..1, NEW denies \in 0..1
    PROVE  Behind(s, s, requests, denies, 1)
BY DEF Behind, Session

LEMMA CountedType ==
    /\ \A s \in Session \cup {Absent} : Counted(s) \in Session
    /\ \A s \in Session : Counted(s) = s
BY AbsentAssumption DEF Counted, Fresh, Session, RiskStates

\* What each method counts.
LEMMA RequestedCounts ==
    ASSUME NEW s \in Session, NEW state \in RiskStates, NEW missed \in Nat
    PROVE  /\ Behind(s, Requested(s), 1, 0, missed)
           /\ Behind(s, Assessed(Requested(s), state), 1, 0, missed)
           /\ Requested(s).injections = s.injections
           /\ Assessed(Requested(s), state).injections = s.injections
<1> DEFINE t == Requested(s)
           u == Assessed(t, state)
<1>1. /\ t \in Session /\ t.requests = s.requests + 1 /\ t.refusals = s.refusals
      /\ t.injections = s.injections
    BY DEF Requested, Session
<1> HIDE DEF t
<1>2. u.requests = t.requests /\ u.refusals = t.refusals /\ u.injections = t.injections
    BY <1>1 DEF Assessed, Session
<1> HIDE DEF u
<1>3. s.requests \in Nat /\ s.refusals \in Nat /\ s.injections \in Nat
    BY DEF Session
<1>4. Behind(s, t, 1, 0, missed) /\ Behind(s, u, 1, 0, missed)
    BY <1>1, <1>2, <1>3 DEF Behind
<1> QED
    BY <1>1, <1>2, <1>4 DEF t, u

LEMMA RefusedCounts ==
    ASSUME NEW s \in Session
    PROVE  Behind(s, Refused(s), 0, 1, 1) /\ Refused(s).injections = s.injections
BY DEF Refused, Session, Behind

LEMMA DenialCounts ==
    ASSUME NEW s \in Session, NEW scan, NEW missed \in Nat
    PROVE  /\ Behind(s, Denial(s, scan), 0, 1, missed)
           /\ Denial(s, scan).injections = s.injections + 1
<1> DEFINE mid == Refused(s)
           e == IF Escalates(mid, scan) THEN mid.escalations + 1 ELSE mid.escalations
           new == Denial(s, scan)
<1>1. /\ mid \in Session /\ mid.requests = s.requests /\ mid.refusals = s.refusals + 1
      /\ mid.injections = s.injections
    BY DEF Refused, Session
<1>2. new = [mid EXCEPT !.injections = mid.injections + 1, !.escalations = e]
    BY Zenon DEF Denial, Attempted
<1> HIDE DEF mid, e, new
<1>3. /\ new.requests = mid.requests /\ new.refusals = mid.refusals
      /\ new.injections = mid.injections + 1
    BY <1>1, <1>2 DEF Session
<1>4. s.requests \in Nat /\ s.refusals \in Nat /\ s.injections \in Nat
    BY DEF Session
<1>5. Behind(s, new, 0, 1, missed) /\ new.injections = s.injections + 1
    BY <1>1, <1>3, <1>4 DEF Behind
<1> QED
    BY <1>5 DEF new

LEMMA ToolUsedCounts ==
    ASSUME NEW s \in Session, NEW missed \in Nat
    PROVE  Behind(s, ToolUsed(s), 0, 0, missed) /\ ToolUsed(s).injections = s.injections
BY DEF ToolUsed, Session, Behind

\* One session is written: t in memory, row in the store.
LEMMA WriteTallies ==
    ASSUME CallsKept, NEW id \in SessionIds, NEW requests \in 0..1, NEW denies \in 0..1,
           NEW missed \in 0..1, faults' = faults + missed,
           NEW t \in Session, session' = [session EXCEPT ![id] = t],
           NEW row \in Session \cup {Absent}, rows' = [rows EXCEPT ![id] = row],
           Behind(Counted(session[id]), t, requests, denies, missed),
           \/ row = rows[id] /\ missed = 1
           \/ row \in Session /\ Behind(Counted(session[id]), row, requests, denies, missed)
    PROVE  TalliedAt(id, requests, denies)
<1>1. faults' - faults = missed /\ missed \in Nat
    BY DEF CallsKept
<1>2. session'[id] = t /\ rows'[id] = row
      /\ \A other \in SessionIds \ {id} :
             session'[other] = session[other] /\ rows'[other] = rows[other]
    BY DEF CallsKept
<1>3. \A other \in SessionIds : Counted(session[other]) \in Session /\ Counted(rows[other]) \in Session
    BY CountedType DEF CallsKept
<1>4. \A other \in SessionIds \ {id} : Tallied(other, 0, 0)
    BY <1>1, <1>2, <1>3, BehindSame DEF Tallied
<1>5. Counted(t) = t
    BY CountedType
<1>6. \E s \in {session[id], rows[id]} :
          Behind(Counted(s), Counted(row), requests, denies, missed)
    BY <1>3, BehindMissed, CountedType
<1>7. Tallied(id, requests, denies)
    BY <1>1, <1>2, <1>5, <1>6 DEF Tallied
<1> QED
    BY <1>4, <1>7 DEF TalliedAt

LEMMA PutTallies ==
    ASSUME CallsKept, storeOpen, NEW id \in SessionIds, NEW requests \in 0..1, NEW denies \in 0..1,
           NEW t \in Session, Put(id, t), Behind(Counted(session[id]), t, requests, denies, 0)
    PROVE  TalliedAt(id, requests, denies)
<1>1. /\ session' = [session EXCEPT ![id] = t] /\ rows' = [rows EXCEPT ![id] = t]
      /\ faults' = faults /\ faults \in Nat
    BY DEF Put, CallsKept
<1>2. PICK missed \in 0..1 : missed = 0 /\ faults' = faults + missed
    BY <1>1
<1> QED
    BY <1>1, <1>2, WriteTallies

LEMMA PutRaisesTallies ==
    ASSUME CallsKept, NEW id \in SessionIds, NEW requests \in 0..1, NEW denies \in 0..1,
           NEW t \in Session, Behind(Counted(session[id]), t, requests, denies, 1),
           \/ PutRaises(id, t, rows[id])
           \/ \E before \in Session : /\ PutRaises(id, t, before)
                                      /\ Behind(Counted(session[id]), before, requests, denies, 1)
    PROVE  TalliedAt(id, requests, denies)
<1>1. PICK before \in Session \cup {Absent} :
          /\ PutRaises(id, t, before)
          /\ \/ before = rows[id]
             \/ before \in Session /\ Behind(Counted(session[id]), before, requests, denies, 1)
    BY DEF CallsKept
<1>2. PICK row \in {before, t} : rows' = [rows EXCEPT ![id] = row]
    BY <1>1 DEF PutRaises
<1>3. session' = [session EXCEPT ![id] = t] /\ faults' = faults + 1
    BY <1>1 DEF PutRaises
<1>a. PICK missed \in 0..1 : missed = 1 /\ faults' = faults + missed
    BY <1>3
<1>4. row \in Session \cup {Absent}
    BY <1>1, <1>2
<1>5. \/ row = rows[id]
      \/ row \in Session /\ Behind(Counted(session[id]), row, requests, denies, 1)
    BY <1>1, <1>2
<1> QED
    BY <1>2, <1>3, <1>a, <1>4, <1>5, WriteTallies

\* A write of a session adds to its attempts what the new value has more.
LEMMA WriteAdds ==
    ASSUME CallsKept, NEW id \in SessionIds, NEW t \in Session,
           session' = [session EXCEPT ![id] = t]
    PROVE  /\ session[id] # Absent /\ t.injections <= session[id].injections + 1 =>
                  AddsAttempts(id, 1)
           /\ t.injections = Counted(session[id]).injections => AddsAttempts(Absent, 0)
<1>1. session'[id] = t /\ \A other \in SessionIds \ {id} : session'[other] = session[other]
    BY DEF CallsKept
<1>2. \A other \in SessionIds : session[other] # Absent => session[other].injections \in Nat
    BY DEF CallsKept, Session
<1>3. t.injections \in Nat
    BY DEF Session
<1> QED
    BY <1>1, <1>2, <1>3, AbsentAssumption DEF AddsAttempts, Counted

LEMMA NothingTallied ==
    ASSUME CallsKept, UNCHANGED <<session, rows, faults>>
    PROVE  (\A id \in SessionIds : Tallied(id, 0, 0)) /\ AddsAttempts(Absent, 0)
<1>1. \A id \in SessionIds : Counted(session[id]) \in Session /\ Counted(rows[id]) \in Session
    BY CountedType DEF CallsKept
<1>2. faults' - faults \in Nat
    BY DEF CallsKept
<1>3. \A id \in SessionIds : session[id] # Absent => session[id].injections \in Nat
    BY DEF CallsKept, Session
<1> QED
    BY <1>1, <1>2, <1>3, BehindSame DEF Tallied, AddsAttempts

\* A step of one call that leaves the sessions alone.
LEMMA QuietCall ==
    ASSUME CallsKept, NEW r \in Requests, NEW c, c.id = call[r].id,
           c.action = "deny" <=> call[r].action = "deny", c.phase # "input_guard",
           call' = [call EXCEPT ![r] = c], UNCHANGED <<session, rows, faults>>
    PROVE  CountsNothing /\ AddsNothing
<1>1. call'[r] = c /\ \A o \in Requests : o # r => call'[o] = call[o]
    BY DEF CallsKept
<1> QED
    BY <1>1, NothingTallied DEF CountsNothing, AddsNothing, SameDecision

LEMMA AwaitCounts ==
    ASSUME CallsKept, NEW r \in Requests, NEW phase \in Phases \ {"input_guard"},
           call' = [call EXCEPT ![r] = Await(call[r], phase)], UNCHANGED <<session, rows, faults>>
    PROVE  CountsNothing /\ AddsNothing
<1> DEFINE d == Await(call[r], phase)
<1>1. Kept(call[r], d) /\ d.phase = phase /\ d.action = call[r].action
    BY AwaitCall DEF CallsKept
<1>2. call' = [call EXCEPT ![r] = d]
    OBVIOUS
<1> HIDE DEF d
<1>3. d.id = call[r].id /\ d.phase # "input_guard"
    BY <1>1 DEF Kept
<1> QED
    BY <1>1, <1>2, <1>3, QuietCall

LEMMA AnswerCounts ==
    ASSUME CallsKept, NEW r \in Requests, NEW code \in Statuses,
           call' = [call EXCEPT ![r] = Answer(call[r], code)], UNCHANGED <<session, rows, faults>>
    PROVE  CountsNothing /\ AddsNothing
<1> DEFINE d == Answer(call[r], code)
<1>1. Kept(call[r], d) /\ d.phase = "answered" /\ d.action = call[r].action
    BY AnswerCall DEF CallsKept
<1>2. call' = [call EXCEPT ![r] = d]
    OBVIOUS
<1> HIDE DEF d
<1> QED
    BY <1>1, <1>2, QuietCall DEF Kept

\* A deny, whole or cut short, and what it leaves in memory and store.
LEMMA DenyCounts ==
    ASSUME CallsKept, NEW r \in Requests, call[r].phase = "input_guard",
           NEW d, call' = [call EXCEPT ![r] = d], d.id = call[r].id, d.action = "deny",
           d.phase # "input_guard", NEW t \in Session,
           session' = [session EXCEPT ![call[r].id] = t],
           t.injections <= session[call[r].id].injections + 1,
           storeOpen => TalliedAt(call[r].id, 0, 1)
    PROVE  CountsDenial(r) /\ AddsDenial(r)
<1>1. /\ call'[r] = d /\ OnlyCall(r) /\ call[r].action # "deny"
      /\ call[r].id \in SessionIds /\ session[call[r].id] # Absent
    BY DenialGrows DEF OnlyCall, CallsKept, Consistent
<1>2. OthersSame(r)
    BY <1>1 DEF OnlyCall, OthersSame, SameDecision
<1>3. AddsAttempts(call[r].id, 1)
    BY <1>1, WriteAdds
<1> QED
    BY <1>1, <1>2, <1>3 DEF CountsDenial, AddsDenial

LEMMA GuardAnsweredCounts ==
    ASSUME CallsKept, NEW r \in Requests, NEW action \in Actions, GuardAnswered(r, action)
    PROVE  Counts /\ Adds
<1> DEFINE c == [call[r] EXCEPT !.action = action]
           id == call[r].id
<1>1. /\ call[r] \in CallRecord /\ call[r].phase = "input_guard"
      /\ call[r].audits = 0 /\ call[r].logs = 0 /\ call[r].action = "none"
      /\ id \in SessionIds /\ session[id] \in Session /\ session[id] # Absent
    BY AbsentAssumption DEF GuardAnswered, CallsKept, Consistent, Deciding, Waiting, Phases
<1>2. /\ c \in CallRecord /\ Kept(call[r], c) /\ c.audits = 0 /\ c.logs = 0 /\ c.action = action
      /\ c.input = call[r].input
    BY <1>1, DecidedCall DEF Kept
<1> HIDE DEF c
<1>3. CASE action \in {"deny", "challenge"}
    <2> DEFINE d == Answer(Logged(Audited(c)), 403)
    <2>1. Kept(c, d) /\ d.phase = "answered" /\ d.action = action
        <3>1. /\ Logged(Audited(c)) \in CallRecord /\ Kept(c, Logged(Audited(c)))
              /\ 403 \in Statuses /\ Logged(Audited(c)).action = action
            BY <1>2, LoggedCall DEF Statuses
        <3> QED
            BY <3>1, AnswerCall DEF Kept
    <2>2. call' = [call EXCEPT ![r] = d]
        BY <1>3 DEF GuardAnswered, c
    <2>3. d.id = id
        BY <1>2, <2>1 DEF Kept
    <2> HIDE DEF d
    <2>4. CASE action = "challenge"
        <3>1. UNCHANGED <<session, rows, faults>>
            BY <2>4 DEF GuardAnswered
        <3>2. CountsNothing /\ AddsNothing
            BY <1>1, <2>1, <2>2, <2>3, <2>4, <3>1, QuietCall
        <3> QED
            BY <3>2 DEF Counts, Adds
    <2>5. CASE action = "deny"
        <3> DEFINE new == Denial(session[id], c.input.scan)
        <3>1. Put(id, new) /\ session' = [session EXCEPT ![id] = new]
            BY <2>5 DEF GuardAnswered, Put, c
        <3>2. new \in Session
            BY <1>1, <1>2, DenialGrows
        <3>3. Behind(session[id], new, 0, 1, 0) /\ new.injections = session[id].injections + 1
            BY <1>1, DenialCounts
        <3> HIDE DEF new
        <3>4. storeOpen => TalliedAt(id, 0, 1)
            BY <1>1, <3>1, <3>2, <3>3, PutTallies, CountedType
        <3>5. new.injections <= session[id].injections + 1
            BY <1>1, <3>3 DEF Session
        <3>6. CountsDenial(r) /\ AddsDenial(r)
            BY <1>1, <2>1, <2>2, <2>3, <2>5, <3>1, <3>2, <3>4, <3>5, DenyCounts
        <3> QED
            BY <3>6 DEF Counts, Adds
    <2> QED
        BY <1>3, <2>4, <2>5
<1>4. CASE action \notin {"deny", "challenge"}
    <2> DEFINE d == Await(c, "redaction")
    <2>1. Kept(c, d) /\ d.phase = "redaction" /\ d.action = action
        BY <1>2, AwaitCall DEF Phases
    <2>2. call' = [call EXCEPT ![r] = d] /\ UNCHANGED <<session, rows, faults>>
        BY <1>4 DEF GuardAnswered, c
    <2>3. d.id = id
        BY <1>2, <2>1 DEF Kept
    <2> HIDE DEF d
    <2>4. CountsNothing /\ AddsNothing
        BY <1>1, <1>4, <2>1, <2>2, <2>3, QuietCall
    <2> QED
        BY <2>4 DEF Counts, Adds
<1> QED
    BY <1>3, <1>4

LEMMA DenyRaisedCounts ==
    ASSUME CallsKept, NEW r \in Requests, DenyRaised(r)
    PROVE  CountsDenial(r) /\ AddsDenial(r)
<1> DEFINE id == call[r].id
           s == session[id]
           refused == Refused(s)
           denied == Denial(s, call[r].input.scan)
           a == Answer(call[r], 500)
           d == [a EXCEPT !.action = "deny"]
<1>1. /\ call[r].phase = "input_guard" /\ call' = [call EXCEPT ![r] = d]
      /\ (PutRaises(id, refused, rows[id]) \/ PutRaises(id, denied, refused))
    BY DEF DenyRaised
<1>2. /\ id \in SessionIds /\ s \in Session /\ refused \in Session /\ denied \in Session
      /\ Counted(s) = s
    BY <1>1, DenialGrows, CountedType
<1>3. /\ Behind(s, refused, 0, 1, 1) /\ refused.injections = s.injections
      /\ Behind(s, denied, 0, 1, 1) /\ denied.injections = s.injections + 1
      /\ s.injections \in Nat
    BY <1>2, RefusedCounts, DenialCounts DEF Session
<1>4. a \in CallRecord /\ Kept(call[r], a) /\ a.phase = "answered"
    BY AnswerCall DEF CallsKept, Statuses
<1> HIDE DEF s, refused, denied, a
<1>5. d.id = id /\ d.action = "deny" /\ d.phase # "input_guard"
    BY <1>4 DEF CallRecord, Kept
<1> HIDE DEF d
<1>6. TalliedAt(id, 0, 1)
    BY <1>1, <1>2, <1>3, PutRaisesTallies DEF s
<1>7. PICK t \in {refused, denied} : session' = [session EXCEPT ![id] = t]
    BY <1>1 DEF PutRaises
<1>8. t \in Session /\ t.injections <= session[id].injections + 1
    BY <1>2, <1>3, <1>7 DEF s
<1> QED
    BY <1>1, <1>5, <1>6, <1>7, <1>8, DenyCounts

\* The steps after the first decision.
LEMMA ToolCounts ==
    ASSUME CallsKept, NEW r \in Requests, call[r].phase \in Deciding,
           NEW d, call' = [call EXCEPT ![r] = d], d.id = call[r].id, d.action = call[r].action,
           d.phase # "input_guard",
           NEW t \in {session[call[r].id], ToolUsed(session[call[r].id])},
           Put(call[r].id, t) \/ PutRaises(call[r].id, t, rows[call[r].id])
    PROVE  CountsNothing /\ AddsNothing
<1> DEFINE id == call[r].id
<1>1. id \in SessionIds /\ session[id] \in Session
    BY DEF CallsKept, Consistent
<1>2. /\ t \in Session /\ Counted(session[id]) = session[id]
      /\ \A missed \in Nat : Behind(session[id], t, 0, 0, missed)
      /\ t.injections = session[id].injections
    <2>1. "normal" \in RiskStates /\ 0 \in Int
        BY DEF RiskStates
    <2>2. ToolUsed(session[id]) \in Session
        BY <1>1, <2>1, MethodsGrow
    <2> QED
        BY <1>1, <2>2, BehindSame, ToolUsedCounts, CountedType
<1>3. storeOpen => TalliedAt(id, 0, 0)
    BY <1>1, <1>2, PutTallies, PutRaisesTallies
<1>4. session' = [session EXCEPT ![id] = t]
    BY DEF Put, PutRaises
<1>5. AddsAttempts(Absent, 0)
    BY <1>1, <1>2, <1>4, WriteAdds
<1>6. call'[r] = d /\ \A o \in Requests : o # r => call'[o] = call[o]
    BY DEF CallsKept
<1> QED
    BY <1>3, <1>5, <1>6 DEF CountsNothing, AddsNothing, SameDecision, TalliedAt

LEMMA RedactedAgainCounts ==
    ASSUME CallsKept, NEW r \in Requests, NEW toolRan \in BOOLEAN, NEW overBudget \in BOOLEAN,
           RedactedAgain(r, toolRan, overBudget)
    PROVE  CountsNothing /\ AddsNothing
<1> DEFINE id == call[r].id
<1>1. call[r] \in CallRecord /\ call[r].phase \in Deciding
    BY DEF RedactedAgain, CallsKept, Deciding, Waiting, Phases
<1>2. PICK d : call' = [call EXCEPT ![r] = d] /\ d.id = id /\ d.action = call[r].action
                   /\ d.phase # "input_guard"
    <2> DEFINE code == 413
    <2>1. code \in Statuses /\ "upstream" \in Phases
        BY DEF Statuses, Phases
    <2>2. call' = [call EXCEPT ![r] = Answer(call[r], code)] \/
          call' = [call EXCEPT ![r] = Await(call[r], "upstream")]
        BY DEF RedactedAgain
    <2> HIDE DEF code
    <2>3. /\ Answer(call[r], code).id = id /\ Answer(call[r], code).action = call[r].action
          /\ Answer(call[r], code).phase = "answered"
        BY <1>1, <2>1, AnswerCall DEF Kept
    <2>4. /\ Await(call[r], "upstream").id = id
          /\ Await(call[r], "upstream").action = call[r].action
          /\ Await(call[r], "upstream").phase = "upstream"
        BY <1>1, <2>1, AwaitCall DEF Kept
    <2> QED
        BY <2>2, <2>3, <2>4
<1>3. \E t \in {session[id], ToolUsed(session[id])} : Put(id, t)
    BY DEF RedactedAgain
<1> QED
    BY <1>1, <1>2, <1>3, ToolCounts

LEMMA ToolCountRaisedCounts ==
    ASSUME CallsKept, NEW r \in Requests, ToolCountRaised(r)
    PROVE  CountsNothing /\ AddsNothing
<1> DEFINE d == Answer(call[r], 500)
           t == ToolUsed(session[call[r].id])
<1>1. /\ call[r] \in CallRecord /\ call[r].phase \in Deciding /\ call' = [call EXCEPT ![r] = d]
      /\ PutRaises(call[r].id, t, rows[call[r].id])
    BY DEF ToolCountRaised, CallsKept, Deciding, Waiting, Phases
<1>2. d.id = call[r].id /\ d.action = call[r].action /\ d.phase # "input_guard"
    BY <1>1, AnswerCall DEF Kept, Statuses
<1> HIDE DEF d
<1>3. t \in {session[call[r].id], ToolUsed(session[call[r].id])}
    OBVIOUS
<1> HIDE DEF t
<1> QED
    BY <1>1, <1>2, <1>3, ToolCounts

LEMMA OutputInspectedCounts ==
    ASSUME CallsKept, NEW r \in Requests, NEW outputAction, OutputInspected(r, outputAction)
    PROVE  CountsNothing /\ AddsNothing
<1> DEFINE c == Logged(Audited(call[r]))
           code == IF outputAction = "block" THEN 502 ELSE 200
           d == Answer(c, code)
<1>1. /\ call[r] \in CallRecord /\ call[r].audits = 0 /\ call[r].logs = 0
    BY DEF OutputInspected, CallsKept, Consistent, Waiting, Phases
<1>2. c \in CallRecord /\ Kept(call[r], c) /\ c.action = call[r].action
    BY <1>1, LoggedCall DEF Kept
<1>3. code \in Statuses
    BY DEF Statuses
<1>4. call' = [call EXCEPT ![r] = d] /\ UNCHANGED <<session, rows, faults>>
    BY DEF OutputInspected, sessionVars
<1> HIDE DEF c, code
<1>5. Kept(c, d) /\ d.phase = "answered" /\ d.action = c.action
    BY <1>2, <1>3, AnswerCall
<1> HIDE DEF d
<1>6. d.id = call[r].id
    BY <1>2, <1>5 DEF Kept
<1> QED
    BY <1>2, <1>4, <1>5, <1>6, QuietCall

LEMMA ReceiveCounts ==
    ASSUME CallsKept, NEW r \in Requests, NEW id \in SessionIds,
           NEW key \in Keys, NEW in \in RequestInputs, NEW mult \in Multipliers,
           Receive(r, id, key, in, mult)
    PROVE  CountsRequest(r, id) /\ AddsRequest(r)
<1> DEFINE found == Found(id)
           s == Requested(found)
           risk == assess(in, s)
           new == Assessed(s, risk.state)
           received == [call[r] EXCEPT !.id = id, !.key = key, !.input = in]
<1>1. /\ call[r] \in CallRecord /\ call[r].id = Absent /\ call[r].action = "none"
      /\ call \in [Requests -> CallRecord]
    BY AuthenticatedPhase DEF Receive, CallsKept, Consistent
<1>2. found \in Session /\ found = Counted(session[id]) /\ s \in Session
    BY FoundGrows
<1>3. risk.state \in RiskStates /\ new \in Session
    <2>1. in \in Inputs /\ risk.state \in RiskStates /\ 0 \in Int
        BY <1>2, InputsAssumption, RiskType
    <2> QED
        BY <1>2, <2>1, MethodsGrow
<1>4. /\ Behind(found, s, 1, 0, 0) /\ Behind(found, new, 1, 0, 0)
      /\ s.injections = found.injections /\ new.injections = found.injections
    BY <1>2, <1>3, RequestedCounts
<1>5. received \in CallRecord /\ received.id = id /\ received.action = "none"
    BY <1>1 DEF CallRecord
<1>6. \/ RateLimited(key, in, s, mult) /\ Put(id, s)
             /\ call' = [call EXCEPT ![r] = Answer(received, 429)]
      \/ Admitted(key, in, s, mult) /\ Put(id, new)
             /\ call' = [call EXCEPT ![r] =
                             [Await(received, "input_guard") EXCEPT !.admitted = TRUE,
                                                                    !.risk = risk]]
    BY DEF Receive
<1> HIDE DEF found, s, risk, new, received
<1>7. PICK t \in {s, new} : Put(id, t)
    BY <1>6
<1>8. /\ t \in Session /\ Behind(Counted(session[id]), t, 1, 0, 0)
      /\ t.injections = Counted(session[id]).injections
    BY <1>2, <1>3, <1>4, <1>7
<1>9. storeOpen => TalliedAt(id, 1, 0)
    BY <1>7, <1>8, PutTallies
<1>10. session' = [session EXCEPT ![id] = t] /\ session'[id] = t /\ AddsAttempts(Absent, 0)
    BY <1>7, <1>8, WriteAdds DEF Put, CallsKept
<1>11. PICK d : /\ call' = [call EXCEPT ![r] = d] /\ d.id = id /\ d.action # "deny"
                /\ d.phase = "input_guard" => Counted(session[id]).injections < 3
    <2>1. CASE Put(id, s) /\ call' = [call EXCEPT ![r] = Answer(received, 429)]
        <3> DEFINE code == 429
                   d == Answer(received, code)
        <3>1. code \in Statuses
            BY DEF Statuses
        <3>2. call' = [call EXCEPT ![r] = d]
            BY <2>1
        <3> HIDE DEF code
        <3>3. d.id = id /\ d.phase = "answered" /\ d.action = "none"
            BY <1>5, <3>1, AnswerCall DEF Kept
        <3> HIDE DEF d
        <3> QED
            BY <3>2, <3>3
    <2>2. CASE Admitted(key, in, s, mult) /\ Put(id, new)
                   /\ call' = [call EXCEPT ![r] =
                                   [Await(received, "input_guard") EXCEPT !.admitted = TRUE,
                                                                          !.risk = risk]]
        <3> DEFINE w == Await(received, "input_guard")
                   d == [w EXCEPT !.admitted = TRUE, !.risk = risk]
        <3>1. w \in CallRecord /\ w.id = id /\ w.action = "none"
            BY <1>5, AwaitCall DEF Phases, Kept
        <3>2. call' = [call EXCEPT ![r] = d]
            BY <2>2
        <3> HIDE DEF w
        <3>3. d.id = id /\ d.action = "none"
            BY <3>1 DEF CallRecord
        <3> HIDE DEF d
        <3>4. s.injections < 3
            BY <2>2, AdmittedEffect
        <3>5. Counted(session[id]).injections < 3
            BY <1>2, <1>4, <3>4
        <3> QED
            BY <3>2, <3>3, <3>5
    <2> QED
        BY <1>6, <2>1, <2>2
<1>12. call'[r] = d /\ OnlyCall(r)
    BY <1>1, <1>11 DEF OnlyCall
<1>13. OthersSame(r)
    BY <1>12 DEF OnlyCall, OthersSame, SameDecision
<1> QED
    BY <1>1, <1>9, <1>10, <1>11, <1>12, <1>13 DEF CountsRequest, AddsRequest

LEMMA ReceiveRaisedCounts ==
    ASSUME CallsKept, NEW r \in Requests, NEW id \in SessionIds,
           NEW key \in Keys, NEW in \in RequestInputs, NEW mult \in Multipliers,
           ReceiveRaised(r, id, key, in, mult)
    PROVE  CountsRequest(r, id) /\ AddsRequest(r)
<1> DEFINE found == Found(id)
           s == Requested(found)
           new == Assessed(s, assess(in, s).state)
           a == Answer(call[r], 500)
           raised == [a EXCEPT !.id = id, !.key = key, !.input = in]
           admitted == [raised EXCEPT !.admitted = TRUE]
<1>1. /\ call[r] \in CallRecord /\ call[r].id = Absent /\ call[r].action = "none"
      /\ call \in [Requests -> CallRecord]
    BY AuthenticatedPhase DEF ReceiveRaised, CallsKept, Consistent
<1>2. found \in Session /\ found = Counted(session[id]) /\ s \in Session
    BY FoundGrows
<1>3. assess(in, s).state \in RiskStates /\ new \in Session
    <2>1. in \in Inputs /\ assess(in, s).state \in RiskStates /\ 0 \in Int
        BY <1>2, InputsAssumption, RiskType
    <2> QED
        BY <1>2, <2>1, MethodsGrow
<1>4. /\ Behind(found, found, 1, 0, 1) /\ Behind(found, s, 1, 0, 1) /\ Behind(found, new, 1, 0, 1)
      /\ s.injections = found.injections /\ new.injections = found.injections
    BY <1>2, <1>3, RequestedCounts, BehindMissed
<1>5. /\ a \in CallRecord /\ Kept(call[r], a) /\ a.phase = "answered" /\ a.action = "none"
    BY <1>1, AnswerCall DEF Statuses
<1>6. /\ \/ PutRaises(id, found, rows[id])
         \/ PutRaises(id, s, found)
         \/ PutRaises(id, new, s)
      /\ call' = [call EXCEPT ![r] = raised] \/ call' = [call EXCEPT ![r] = admitted]
    BY DEF ReceiveRaised
<1> HIDE DEF found, s, new, a
<1>7. /\ raised \in CallRecord /\ raised.id = id /\ raised.phase = "answered"
      /\ raised.action = "none"
    BY <1>5 DEF CallRecord, Kept
<1> HIDE DEF raised
<1>8. admitted.id = id /\ admitted.phase = "answered" /\ admitted.action = "none"
    BY <1>7 DEF CallRecord
<1> HIDE DEF admitted
<1>9. TalliedAt(id, 1, 0)
    BY <1>2, <1>3, <1>4, <1>6, PutRaisesTallies
<1>10. PICK t \in {found, s, new} : session' = [session EXCEPT ![id] = t]
    BY <1>6 DEF PutRaises
<1>11. t \in Session /\ t.injections = Counted(session[id]).injections
    BY <1>2, <1>3, <1>4, <1>10
<1>12. AddsAttempts(Absent, 0)
    BY <1>10, <1>11, WriteAdds
<1>13. call'[r] \in {raised, admitted} /\ OnlyCall(r)
    BY <1>1, <1>6 DEF OnlyCall
<1>14. OthersSame(r)
    BY <1>13 DEF OnlyCall, OthersSame, SameDecision
<1> QED
    BY <1>1, <1>7, <1>8, <1>9, <1>12, <1>13, <1>14 DEF CountsRequest, AddsRequest

LEMMA SameCallsCounts ==
    CallsKept /\ UNCHANGED <<call, session, rows, faults>> => CountsNothing /\ AddsNothing
BY NothingTallied DEF CountsNothing, AddsNothing, SameDecision

\* Every step but a stop counts at most one request or one deny.
LEMMA StepCounts ==
    ASSUME CallsKept, Next, ~ Stopped PROVE Counts /\ Adds
<1>0. /\ CountsNothing /\ AddsNothing => Counts /\ Adds
      /\ \A r \in Requests, id \in SessionIds : CountsRequest(r, id) /\ AddsRequest(r) => Counts /\ Adds
      /\ \A r \in Requests : CountsDenial(r) /\ AddsDenial(r) => Counts /\ Adds
    BY DEF Counts, Adds
<1>1. ASSUME NEW r \in Requests, ReceiveAny(r) PROVE Counts /\ Adds
    <2>1. CASE TooLarge(r)
        <3> DEFINE code == 413
        <3>1. code \in Statuses /\ call' = [call EXCEPT ![r] = Answer(call[r], code)]
              /\ UNCHANGED <<session, rows, faults>>
            BY <2>1 DEF TooLarge, sessionVars, Statuses
        <3> HIDE DEF code
        <3> QED
            BY <1>0, <3>1, AnswerCounts
    <2> QED
        BY <1>0, <1>1, <2>1, ReceiveCounts, ReceiveRaisedCounts DEF ReceiveAny
<1>2. ASSUME NEW r \in Requests, FetchKeys(r) PROVE Counts /\ Adds
    <2>1. "keys" \in Phases \ {"input_guard"} /\ call' = [call EXCEPT ![r] = Await(call[r], "keys")]
          /\ UNCHANGED <<session, rows, faults>>
        BY <1>2 DEF FetchKeys, sessionVars, Phases
    <2> QED
        BY <1>0, <2>1, AwaitCounts
<1>3. ASSUME NEW r \in Requests, KeysServed(r) PROVE Counts /\ Adds
    BY <1>0, <1>3, SameCallsCounts DEF KeysServed, sessionVars
<1>4. ASSUME NEW r \in Requests, Unauthorized(r) PROVE Counts /\ Adds
    <2> DEFINE code == 401
    <2>1. code \in Statuses /\ call' = [call EXCEPT ![r] = Answer(call[r], code)]
          /\ UNCHANGED <<session, rows, faults>>
        BY <1>4 DEF Unauthorized, sessionVars, Statuses
    <2> HIDE DEF code
    <2> QED
        BY <1>0, <2>1, AnswerCounts
<1>5. ASSUME NEW r \in Requests, Resume(r) PROVE Counts /\ Adds
    <2>1. {"redaction", "retrieval", "second_redaction", "upstream", "output_guard"}
              \subseteq Phases \ {"input_guard"}
        BY DEF Phases
    <2>2. CASE Redacted(r) \/ Retrieved(r) \/ Forwarded(r)
        <3>1. PICK phase \in Phases \ {"input_guard"} :
                  call' = [call EXCEPT ![r] = Await(call[r], phase)]
            BY <2>1, <2>2 DEF Redacted, Retrieved, Forwarded
        <3>2. UNCHANGED <<session, rows, faults>>
            BY <2>2 DEF Redacted, Retrieved, Forwarded, sessionVars
        <3> QED
            BY <1>0, <3>1, <3>2, AwaitCounts
    <2>3. CASE RetrievalRaised(r) \/ ToolsRaised(r) \/ ReplyRaised(r) \/ ForwardFailed(r)
        <3>1. PICK code \in Statuses : call' = [call EXCEPT ![r] = Answer(call[r], code)]
            BY <2>3 DEF RetrievalRaised, ToolsRaised, ReplyRaised, ForwardFailed, Statuses
        <3>2. UNCHANGED <<session, rows, faults>>
            BY <2>3 DEF RetrievalRaised, ToolsRaised, ReplyRaised, ForwardFailed, sessionVars
        <3> QED
            BY <1>0, <3>1, <3>2, AnswerCounts
    <2> QED
        BY <1>0, <1>1, <1>4, <1>5, <2>2, <2>3, GuardAnsweredCounts, DenyRaisedCounts,
           RedactedAgainCounts, ToolCountRaisedCounts, OutputInspectedCounts DEF Resume
<1>6. CASE KeyRotated
    BY <1>0, <1>6, SameCallsCounts DEF KeyRotated, sessionVars
<1>7. CASE Tick
    BY <1>0, <1>7, SameCallsCounts DEF Tick, sessionVars
<1> QED
    BY <1>1, <1>2, <1>3, <1>4, <1>5, <1>6, <1>7 DEF Next, Stopped

\* A stop that wrote one row of the session last, or none.
LEMMA StoppedSavingTallies ==
    ASSUME CallsKept, storeOpen', NEW id \in SessionIds, NEW requests \in 0..1, NEW denies \in 0..1,
           NEW written \in SUBSET Session, StoppedSaving(id, written),
           \A row \in written : Behind(Counted(session[id]), row, requests, denies, 1)
    PROVE  TalliedAt(id, requests, denies)
<1>1. PICK row \in written : Restarted([rows EXCEPT ![id] = row])
    BY DEF StoppedSaving
<1>2. /\ rows' = [rows EXCEPT ![id] = row] /\ session' = rows' /\ faults' = faults + 1
      /\ row \in Session
    BY <1>1 DEF Restarted, LoadedFrom, StoppedSaving
<1>3. faults' - faults = 1
    BY <1>2 DEF CallsKept
<1>4. /\ session'[id] = row /\ rows'[id] = row
      /\ \A other \in SessionIds \ {id} :
             session'[other] = rows[other] /\ rows'[other] = rows[other]
             /\ Counted(rows[other]) \in Session
    BY <1>2, CountedType DEF CallsKept
<1>5. Counted(row) = row /\ Behind(Counted(session[id]), row, requests, denies, 1)
    BY <1>2, CountedType
<1>6. Tallied(id, requests, denies)
    BY <1>3, <1>4, <1>5 DEF Tallied
<1>7. 1 \in Nat
    OBVIOUS
<1>8. \A other \in SessionIds \ {id} : Tallied(other, 0, 0)
    BY <1>3, <1>4, <1>7, BehindSame DEF Tallied
<1> QED
    BY <1>6, <1>8 DEF TalliedAt

LEMMA LostSame ==
    ASSUME CallsKept, NEW r \in Requests, NEW c, call' = [Lost EXCEPT ![r] = c]
    PROVE  OthersSame(r) /\ call'[r] = c
<1>1. call'[r] = c /\ \A o \in Requests \ {r} : call'[o] = Lost[o]
    BY DEF Lost
<1> QED
    BY <1>1, LostCalls DEF OthersSame, SameDecision, Kept

LEMMA StoppedCounts ==
    ASSUME CallsKept, Stopped PROVE Counts
<1>1. CASE Crash
    <2>1. call' = Lost /\ Restarted(rows) /\ faults' = faults
        BY <1>1 DEF Crash
    <2>2. \A o \in Requests : SameDecision(o)
        BY <2>1, LostCalls DEF SameDecision, Kept
    <2>3. ASSUME storeOpen', NEW id \in SessionIds PROVE Tallied(id, 0, 0)
        <3>1. rows' = rows /\ session' = rows
            BY <2>1, <2>3 DEF Restarted, LoadedFrom
        <3>2. Counted(rows[id]) \in Session /\ faults' - faults \in Nat
            BY <2>1, CountedType DEF CallsKept
        <3> QED
            BY <3>1, <3>2, BehindSame DEF Tallied
    <2> QED
        BY <2>2, <2>3 DEF Counts, CountsNothing
<1>2. ASSUME NEW r \in Requests, NEW id \in SessionIds, StoppedInReceive(r, id) PROVE Counts
    <2>1. PICK c \in CallRecord :
              /\ call' = [Lost EXCEPT ![r] = c] /\ Consistent(c) /\ c.phase = "lost"
              /\ call[r].admitted = FALSE /\ c.admitted = FALSE
              /\ call[r].id = Absent /\ c.id = id /\ c.action = "none"
        BY <1>2, CutShortInReceive
    <2>2. call[r].action # "deny"
        BY <1>2 DEF StoppedInReceive, CallsKept, Consistent
    <2>3. OthersSame(r) /\ call'[r] = c
        BY <2>1, LostSame
    <2> DEFINE found == Found(id)
               written == {found, Requested(found)}
    <2>4. /\ found \in Session /\ found = Counted(session[id]) /\ Requested(found) \in Session
          /\ StoppedSaving(id, written)
        BY <1>2, FoundGrows DEF StoppedInReceive
    <2>5. Behind(found, found, 1, 0, 1) /\ Behind(found, Requested(found), 1, 0, 1)
        <3>1. "normal" \in RiskStates
            BY DEF RiskStates
        <3> QED
            BY <2>4, <3>1, BehindMissed, RequestedCounts
    <2> HIDE DEF found
    <2>6. \A row \in written : Behind(Counted(session[id]), row, 1, 0, 1)
        BY <2>4, <2>5
    <2>7. written \in SUBSET Session
        BY <2>4
    <2> HIDE DEF written
    <2>8. storeOpen' => TalliedAt(id, 1, 0)
        BY <2>4, <2>6, <2>7, StoppedSavingTallies
    <2> QED
        BY <2>1, <2>2, <2>3, <2>8 DEF Counts, CountsRequest
<1>3. ASSUME NEW r \in Requests, StoppedInDeny(r) PROVE Counts
    <2> DEFINE id == call[r].id
               s == session[id]
               denied == Denial(s, call[r].input.scan)
               written == {Refused(s), denied}
    <2>1. PICK c \in CallRecord :
              /\ call' = [Lost EXCEPT ![r] = c] /\ Consistent(c) /\ c.phase \notin Waiting
              /\ Kept(call[r], c) /\ c.action = "deny"
        BY <1>3, CutShortInDeny
    <2>2. call[r].action # "deny"
        BY <1>3 DEF StoppedInDeny, CallsKept, Consistent
    <2>3. OthersSame(r) /\ call'[r] = c
        BY <2>1, LostSame
    <2>4. /\ id \in SessionIds /\ s \in Session /\ Refused(s) \in Session /\ denied \in Session
          /\ Counted(s) = s /\ StoppedSaving(id, written)
        BY <1>3, DenialGrows, CountedType DEF StoppedInDeny
    <2>5. Behind(s, Refused(s), 0, 1, 1) /\ Behind(s, denied, 0, 1, 1)
        BY <2>4, RefusedCounts, DenialCounts
    <2> HIDE DEF denied
    <2>6. written \in SUBSET Session /\ \A row \in written : Behind(Counted(session[id]), row, 0, 1, 1)
        BY <2>4, <2>5
    <2> HIDE DEF written
    <2>7. storeOpen' => TalliedAt(id, 0, 1)
        BY <2>4, <2>6, StoppedSavingTallies
    <2> QED
        BY <2>1, <2>2, <2>3, <2>4, <2>7 DEF Counts, CountsDenial, Kept
<1> QED
    BY <1>1, <1>2, <1>3 DEF Stopped


-----------------------------------------------------------------------------
(* The store, while the process runs and over its restarts *)

\* Only a start opens a store or fails to.
LEMMA StoreStays ==
    ASSUME [Next]_vars, ~ Stopped PROVE UNCHANGED <<stateBackend, storeOpen, atStart>>
<1>1. ASSUME NEW r \in Requests, ReceiveAny(r)
      PROVE  UNCHANGED <<stateBackend, storeOpen, atStart>>
    <2>1. CASE TooLarge(r)
        BY <2>1 DEF TooLarge, limiterVars, sessionVars
    <2>2. ASSUME NEW id \in SessionIds, NEW key \in Keys, NEW in \in RequestInputs,
                 NEW mult \in Multipliers, Receive(r, id, key, in, mult)
          PROVE  UNCHANGED <<stateBackend, storeOpen, atStart>>
        BY <2>2, AdmittedEffect, RateLimitedEffect DEF Receive
    <2>3. ASSUME NEW id \in SessionIds, NEW key \in Keys, NEW in \in RequestInputs,
                 NEW mult \in Multipliers, ReceiveRaised(r, id, key, in, mult)
          PROVE  UNCHANGED <<stateBackend, storeOpen, atStart>>
        BY <2>3, AdmittedEffect DEF ReceiveRaised, limiterVars
    <2> QED
        BY <1>1, <2>1, <2>2, <2>3 DEF ReceiveAny
<1>2. ASSUME NEW r \in Requests, FetchKeys(r) \/ KeysServed(r) \/ Unauthorized(r)
      PROVE  UNCHANGED <<stateBackend, storeOpen, atStart>>
    BY <1>2 DEF FetchKeys, KeysServed, Unauthorized, limiterVars, sessionVars
<1>3. ASSUME NEW r \in Requests, Resume(r)
      PROVE  UNCHANGED <<stateBackend, storeOpen, atStart>>
    BY <1>1, <1>2, <1>3
       DEF Resume, GuardAnswered, DenyRaised, Redacted, Retrieved, RetrievalRaised, RedactedAgain,
           ToolCountRaised, ToolsRaised, Forwarded, ForwardFailed, ReplyRaised, OutputInspected,
           services, limiterVars, sessionVars
<1>4. CASE KeyRotated \/ Tick
    BY <1>4 DEF KeyRotated, Tick, Limiter!Tick, Limiter!process, limiterVars, sessionVars
<1>5. CASE UNCHANGED vars
    BY <1>5 DEF vars, services, limiterVars, sessionVars
<1> QED
    BY <1>1, <1>2, <1>3, <1>4, <1>5 DEF Next, Stopped

\* A store that never fails to open is there at every start, or at none.
StoreFixed == storeOpen <=> stateBackend = "sqlite"

LEMMA StoppedStore ==
    ASSUME ~ StoreMayFail, Stopped
    PROVE  StoreFixed' /\ UNCHANGED <<stateBackend, atStart>>
<1>1. PICK left : Restarted(left)
    BY StoppedRestarts
<1>2. UNCHANGED <<stateBackend, atStart>> /\ storeOpen' \in Limiter!get_state_store
    BY <1>1 DEF Restarted, Limiter!Restart
<1>3. storeOpen' <=> stateBackend = "sqlite"
    BY <1>2 DEF Limiter!get_state_store
<1> QED
    BY <1>2, <1>3 DEF StoreFixed

LEMMA StoreInvariance == ASSUME ~ StoreMayFail PROVE Spec => []StoreFixed
<1>1. Init => StoreFixed
    BY DEF Init, Limiter!Init, Limiter!get_state_store, StoreFixed
<1>2. StoreFixed /\ [Next]_vars => StoreFixed'
    <2> SUFFICES ASSUME StoreFixed, [Next]_vars PROVE StoreFixed'
        OBVIOUS
    <2>1. CASE Stopped
        BY <2>1, StoppedStore
    <2>2. CASE ~ Stopped
        BY <2>2, StoreStays DEF StoreFixed
    <2> QED
        BY <2>1, <2>2
<1> QED
    BY <1>1, <1>2, PTL DEF Spec

-----------------------------------------------------------------------------
(* A burst drains *)

LEMMA UndecidedFinite ==
    ASSUME CallsKept, AdmissionsKept, NEW id
    PROVE  IsFiniteSet(Undecided(id)) /\ Cardinality(Undecided(id)) \in Nat
<1>1. Undecided(id) \subseteq AdmittedCalls
    BY DEF Undecided, Of, AdmittedCalls, CallsKept, Consistent, Deciding, Waiting, Phases
<1>2. IsFiniteSet(AdmittedCalls)
    BY DEF AdmissionsKept
<1> QED
    BY <1>1, <1>2, FS_Subset, FS_CardinalityType

\* A step that adds nobody undecided.
LEMMA NobodyAdded ==
    ASSUME CallsKept, AdmissionsKept, NEW id, Undecided(id)' \subseteq Undecided(id)
    PROVE  Cardinality(Undecided(id)') \in Nat
           /\ Cardinality(Undecided(id)') <= Cardinality(Undecided(id))
BY UndecidedFinite, FS_Subset, FS_CardinalityType

\* A stop leaves nobody undecided, and the rows.
LEMMA StopDrains ==
    ASSUME ~ StoreMayFail, StoreFixed, CallsKept, AdmissionsKept, Stopped, NEW id \in SessionIds,
           session[id] # Absent, session'[id] # Absent
    PROVE  /\ Undecided(id)' = {} /\ session'[id].injections \in Int
           /\ session'[id].injections <= session[id].injections + Cardinality(Undecided(id))
<1>0. session[id] \in Session /\ session[id].injections \in Nat
      /\ Cardinality(Undecided(id)) \in Nat
    BY UndecidedFinite DEF CallsKept, Session
<1>1. \A left : Restarted(left) => storeOpen' /\ session' = left
    <2>1. storeOpen' <=> storeOpen
        BY StoppedStore DEF StoreFixed
    <2>2. \A left : Restarted(left) => session' = LoadedFrom(left, storeOpen')
        BY DEF Restarted
    <2> QED
        BY <2>1, <2>2 DEF LoadedFrom
<1>2. storeOpen
    <2>1. storeOpen' <=> storeOpen
        BY StoppedStore DEF StoreFixed
    <2> QED
        BY <1>1, <2>1, StoppedRestarts
<1>3. ASSUME rows[id] # Absent
      PROVE  rows[id].injections \in Int /\ rows[id].injections <= session[id].injections
    BY <1>0, <1>2, <1>3 DEF CallsKept, RowsBehind, Grown, Counters, Session
<1>4. CASE Crash
    <2>1. session'[id] = rows[id]
        BY <1>1, <1>4 DEF Crash
    <2>2. \A o \in Requests : call'[o].phase # "input_guard"
        BY <1>4, LostCalls DEF Crash, Waiting, Phases
    <2> QED
        BY <1>0, <1>3, <2>1, <2>2 DEF Undecided, Of
<1>5. ASSUME NEW k \in SessionIds, NEW written, StoppedSaving(k, written)
      PROVE  \/ session'[id] = rows[id]
             \/ id = k /\ session'[id] \in written
    <2>1. PICK row \in written : Restarted([rows EXCEPT ![k] = row])
        BY <1>5 DEF StoppedSaving
    <2>2. session' = [rows EXCEPT ![k] = row] /\ DOMAIN rows = SessionIds
        BY <1>1, <2>1 DEF CallsKept
    <2> QED
        BY <2>2
<1>6. ASSUME NEW r \in Requests, NEW c, call' = [Lost EXCEPT ![r] = c], c.phase \notin Waiting
      PROVE  Undecided(id)' = {}
    <2>1. call'[r] = c /\ \A o \in Requests \ {r} : call'[o] = Lost[o]
        BY <1>6 DEF Lost
    <2>2. \A o \in Requests : call'[o].phase # "input_guard"
        BY <1>6, <2>1, LostCalls DEF Waiting, Phases
    <2> QED
        BY <2>2 DEF Undecided, Of
<1>7. ASSUME NEW r \in Requests, NEW k \in SessionIds, StoppedInReceive(r, k)
      PROVE  /\ Undecided(id)' = {} /\ session'[id].injections \in Int
             /\ session'[id].injections <= session[id].injections
    <2>1. Undecided(id)' = {}
        <3>1. PICK c \in CallRecord :
                  /\ call' = [Lost EXCEPT ![r] = c] /\ Consistent(c) /\ c.phase = "lost"
                  /\ call[r].admitted = FALSE /\ c.admitted = FALSE
                  /\ call[r].id = Absent /\ c.id = k /\ c.action = "none"
            BY <1>7, CutShortInReceive
        <3>2. c.phase \notin Waiting
            BY <3>1 DEF Waiting
        <3> QED
            BY <1>6, <3>1, <3>2
    <2>2. ASSUME NEW t \in {Found(id), Requested(Found(id))}
          PROVE  t.injections = session[id].injections
        <3>1. Found(id) = session[id] /\ "normal" \in RiskStates
            BY DEF Found, RiskStates
        <3> QED
            BY <1>0, <2>2, <3>1, RequestedCounts
    <2>3. \/ session'[id] = rows[id]
          \/ id = k /\ session'[id] \in {Found(k), Requested(Found(k))}
        BY <1>5, <1>7 DEF StoppedInReceive
    <2> QED
        BY <1>0, <1>3, <2>1, <2>2, <2>3
<1>8. ASSUME NEW r \in Requests, StoppedInDeny(r)
      PROVE  /\ Undecided(id)' = {} /\ session'[id].injections \in Int
             /\ session'[id].injections <= session[id].injections + Cardinality(Undecided(id))
    <2> DEFINE k == call[r].id
    <2>1. Undecided(id)' = {}
        BY <1>6, <1>8, CutShortInDeny
    <2>2. k \in SessionIds /\ call[r].phase = "input_guard"
        BY <1>8, DenialGrows DEF StoppedInDeny
    <2>3. \/ session'[id] = rows[id]
          \/ id = k /\ session'[id] \in {Refused(session[k]), Denial(session[k], call[r].input.scan)}
        BY <1>5, <1>8, <2>2 DEF StoppedInDeny
    <2>4. CASE session'[id] = rows[id]
        BY <1>0, <1>3, <2>1, <2>4
    <2>5. CASE id = k /\ session'[id] \in {Refused(session[k]), Denial(session[k], call[r].input.scan)}
        <3>1. r \in Undecided(id)
            BY <2>2, <2>5 DEF Undecided, Of
        <3>2. Cardinality(Undecided(id)) # 0
            BY <3>1, UndecidedFinite, FS_EmptySet
        <3>3. session'[id].injections \in {session[id].injections, session[id].injections + 1}
            <4>1. Refused(session[id]).injections = session[id].injections
                BY <1>0, RefusedCounts
            <4>2. 0 \in Nat /\ \A scan : Denial(session[id], scan).injections = session[id].injections + 1
                BY <1>0, DenialCounts
            <4> QED
                BY <2>5, <4>1, <4>2
        <3> QED
            BY <1>0, <2>1, <3>2, <3>3
    <2> QED
        BY <2>3, <2>4, <2>5
<1> QED
    BY <1>0, <1>4, <1>7, <1>8 DEF Stopped

LEMMA StepDrains ==
    ASSUME ~ StoreMayFail, StoreFixed, CallsKept, AdmissionsKept, Next, NEW id \in SessionIds,
           session[id] # Absent, session'[id] # Absent, session[id].injections >= 3
    PROVE  session'[id].injections + Cardinality(Undecided(id)')
               <= session[id].injections + Cardinality(Undecided(id))
<1>0. session[id].injections \in Nat /\ Cardinality(Undecided(id)) \in Nat
    BY UndecidedFinite DEF CallsKept, Session
<1>1. ASSUME AddsAttempts(Absent, 0), Undecided(id)' \subseteq Undecided(id)
      PROVE  session'[id].injections + Cardinality(Undecided(id)')
                 <= session[id].injections + Cardinality(Undecided(id))
    <2>1. session'[id].injections \in Int /\ session'[id].injections <= session[id].injections
        BY <1>0, <1>1, AbsentAssumption DEF AddsAttempts
    <2> QED
        BY <1>0, <1>1, <2>1, NobodyAdded
<1>2. CASE Stopped
    <2>1. Cardinality(Undecided(id)') = 0
        BY <1>2, StopDrains, FS_EmptySet
    <2> QED
        BY <1>0, <1>2, <2>1, StopDrains
<1>3. CASE AddsNothing
    BY <1>1, <1>3 DEF AddsNothing, Undecided, Of
<1>4. ASSUME NEW r \in Requests, AddsRequest(r)
      PROVE  session'[id].injections + Cardinality(Undecided(id)')
                 <= session[id].injections + Cardinality(Undecided(id))
    \* A request admitted to a session with three attempts there would not be.
    <2>1. ASSUME r \in Undecided(id)' PROVE r \in Undecided(id)
        <3>1. session[id].injections < 3
            BY <1>4, <2>1 DEF AddsRequest, Undecided, Of, Counted
        <3> QED
            BY <1>0, <3>1
    <2>2. Undecided(id)' \subseteq Undecided(id)
        BY <1>4, <2>1 DEF Undecided, Of, AddsRequest, OnlyCall
    <2> QED
        BY <1>1, <1>4, <2>2 DEF AddsRequest
<1>5. ASSUME NEW r \in Requests, AddsDenial(r)
      PROVE  session'[id].injections + Cardinality(Undecided(id)')
                 <= session[id].injections + Cardinality(Undecided(id))
    <2>1. CASE call[r].id = id
        <3>1. /\ session'[id].injections \in Int
              /\ session'[id].injections <= session[id].injections + 1
            BY <1>5, <2>1 DEF AddsDenial, AddsAttempts
        <3>2. r \in Undecided(id) /\ Undecided(id)' \subseteq Undecided(id) \ {r}
            BY <1>5, <2>1 DEF AddsDenial, OnlyCall, Undecided, Of
        <3>3. /\ IsFiniteSet(Undecided(id) \ {r})
              /\ Cardinality(Undecided(id) \ {r}) = Cardinality(Undecided(id)) - 1
            BY <3>2, UndecidedFinite, FS_RemoveElement
        <3>4. Cardinality(Undecided(id)') \in Nat
              /\ Cardinality(Undecided(id)') <= Cardinality(Undecided(id)) - 1
            BY <3>2, <3>3, FS_Subset, FS_CardinalityType
        <3> QED
            BY <1>0, <3>1, <3>4
    <2>2. CASE call[r].id # id
        <3>1. session'[id].injections \in Int /\ session'[id].injections <= session[id].injections
            BY <1>0, <1>5, <2>2 DEF AddsDenial, AddsAttempts
        <3>2. Undecided(id)' \subseteq Undecided(id)
            BY <1>5 DEF AddsDenial, OnlyCall, Undecided, Of
        <3> QED
            BY <1>0, <3>1, <3>2, NobodyAdded
    <2> QED
        BY <2>1, <2>2
<1> QED
    BY <1>2, <1>3, <1>4, <1>5, StepCounts DEF Adds

\* With a store that opens at every start, or none, attempts plus undecided requests
\* of a session never grow from its third attempt on.
THEOREM BurstSafety == ASSUME ~ StoreMayFail PROVE Spec => BurstDrains
<1> DEFINE Drains ==
        \A id \in SessionIds :
            session[id] # Absent /\ session'[id] # Absent /\ session[id].injections >= 3 =>
                session'[id].injections + Cardinality(Undecided(id)')
                    <= session[id].injections + Cardinality(Undecided(id))
<1>1. StoreFixed /\ CallsKept /\ AdmissionsKept /\ [Next]_vars => [Drains]_vars
    BY StepDrains
<1> QED
    BY <1>1, StoreInvariance, PipelineInvariance, PTL DEF Spec, BurstDrains

-----------------------------------------------------------------------------
(* The ledger of a session *)

LedgerKept ==
    /\ stateBackend = "sqlite" /\ storeOpen
    /\ atStart \in [SessionIds -> Session \cup {Absent}]
    /\ \A id \in SessionIds : IsFiniteSet(Of(id)) /\ IsFiniteSet(Denied(id))
    /\ SessionLedger

\* What is missing of a session's updates, by memory or by the store.
Missing(id, s) ==
    Behind(Counted(atStart[id]), Counted(s), Cardinality(Of(id)), Cardinality(Denied(id)), faults)

LEMMA LedgerMissing ==
    SessionLedger <=> \A id \in SessionIds : \A s \in {session[id], rows[id]} : Missing(id, s)
BY DEF SessionLedger, Missing, Behind

\* Missing updates add up.
LEMMA BehindOnward ==
    ASSUME NEW s \in Session, NEW t \in Session, NEW u \in Session,
           NEW requests \in Nat, NEW denies \in Nat, NEW missed \in Nat,
           NEW more \in Nat, NEW moreDenies \in Nat, NEW moreMissed \in Int,
           Behind(s, t, requests, denies, missed), Behind(t, u, more, moreDenies, moreMissed)
    PROVE  Behind(s, u, requests + more, denies + moreDenies, missed + moreMissed)
<1>1. \A x \in {s, t, u} : x.requests \in Nat /\ x.refusals \in Nat /\ x.injections \in Nat
    BY DEF Session
<1> QED
    BY <1>1 DEF Behind

\* The part of the ledger of a session with so many requests and denies more.
LEMMA MissingOnward ==
    ASSUME CallsKept, CallsKept', LedgerKept, UNCHANGED atStart, NEW id \in SessionIds,
           NEW requests \in 0..1, NEW denies \in 0..1, Tallied(id, requests, denies),
           Cardinality(Of(id)') = Cardinality(Of(id)) + requests,
           Cardinality(Denied(id)') = Cardinality(Denied(id)) + denies
    PROVE  \A t \in {session'[id], rows'[id]} :
               Behind(Counted(atStart[id]), Counted(t),
                      Cardinality(Of(id)'), Cardinality(Denied(id)'), faults')
<1> SUFFICES ASSUME NEW t \in {session'[id], rows'[id]}
             PROVE  Behind(Counted(atStart[id]), Counted(t),
                           Cardinality(Of(id)'), Cardinality(Denied(id)'), faults')
    OBVIOUS
<1>1. PICK s \in {session[id], rows[id]} :
          Behind(Counted(s), Counted(t), requests, denies, faults' - faults)
    BY DEF Tallied
<1>2. Missing(id, s)
    BY <1>1, LedgerMissing DEF LedgerKept
<1>3. Counted(atStart[id]) \in Session /\ Counted(s) \in Session /\ Counted(t) \in Session
    <2>1. {session[id], rows[id], session'[id], rows'[id], atStart[id]} \subseteq Session \cup {Absent}
        BY DEF CallsKept, LedgerKept
    <2> QED
        BY <1>1, <2>1, CountedType
<1>4. Cardinality(Of(id)) \in Nat /\ Cardinality(Denied(id)) \in Nat
    BY FS_CardinalityType DEF LedgerKept
<1>5. faults \in Nat /\ faults' - faults \in Int /\ faults + (faults' - faults) = faults'
    <2>1. faults \in Nat /\ faults' \in Nat
        BY DEF CallsKept
    <2>2. ASSUME NEW m \in Nat, NEW n \in Nat PROVE n - m \in Int /\ m + (n - m) = n
        OBVIOUS
    <2> QED
        BY <2>1, <2>2
<1>6. requests \in Nat /\ denies \in Nat
    OBVIOUS
<1>7. Behind(Counted(atStart[id]), Counted(s), Cardinality(Of(id)), Cardinality(Denied(id)), faults)
    BY <1>2 DEF Missing
<1>8. Behind(Counted(atStart[id]), Counted(t), Cardinality(Of(id)) + requests,
             Cardinality(Denied(id)) + denies, faults + (faults' - faults))
    BY <1>1, <1>3, <1>4, <1>5, <1>6, <1>7, BehindOnward
<1> QED
    BY <1>5, <1>8

\* The ledger after a step, from that of every session.
LEMMA LedgerOnward ==
    ASSUME LedgerKept, UNCHANGED atStart, stateBackend' = "sqlite", storeOpen',
           \A id \in SessionIds :
               /\ IsFiniteSet(Of(id)') /\ IsFiniteSet(Denied(id)')
               /\ \A t \in {session'[id], rows'[id]} :
                      Behind(Counted(atStart[id]), Counted(t),
                             Cardinality(Of(id)'), Cardinality(Denied(id)'), faults')
    PROVE  LedgerKept'
<1>1. SessionLedger'
    BY DEF SessionLedger, Behind, Counted
<1> QED
    BY <1>1 DEF LedgerKept

\* What a step makes of the requests and the denies of a session.
LEMMA SameDecisions ==
    ASSUME LedgerKept, NEW id \in SessionIds, \A o \in Requests : SameDecision(o)
    PROVE  Of(id)' = Of(id) /\ Denied(id)' = Denied(id)
BY DEF SameDecision, Of, Denied

LEMMA NothingBalances ==
    ASSUME CallsKept, CallsKept', LedgerKept, UNCHANGED atStart, stateBackend' = "sqlite",
           storeOpen', CountsNothing
    PROVE  LedgerKept'
<1>1. \A o \in Requests : SameDecision(o)
    BY DEF CountsNothing
<1>2. \A id \in SessionIds : Tallied(id, 0, 0)
    BY DEF CountsNothing, LedgerKept
<1>3. ASSUME NEW id \in SessionIds
      PROVE  /\ IsFiniteSet(Of(id)') /\ IsFiniteSet(Denied(id)')
             /\ Cardinality(Of(id)') = Cardinality(Of(id)) + 0
             /\ Cardinality(Denied(id)') = Cardinality(Denied(id)) + 0
    BY <1>1, SameDecisions, FS_CardinalityType DEF LedgerKept
<1>4. 0 \in 0..1
    OBVIOUS
<1> QED
    BY <1>2, <1>3, <1>4, MissingOnward, LedgerOnward

LEMMA RequestBalances ==
    ASSUME CallsKept, CallsKept', LedgerKept, UNCHANGED atStart, stateBackend' = "sqlite",
           storeOpen', NEW r \in Requests, NEW id \in SessionIds, CountsRequest(r, id)
    PROVE  LedgerKept'
<1>1. /\ TalliedAt(id, 1, 0) /\ OthersSame(r)
      /\ call[r].id = Absent /\ call'[r].id = id
      /\ call[r].action # "deny" /\ call'[r].action # "deny"
    BY DEF CountsRequest, LedgerKept
<1>2. ASSUME NEW other \in SessionIds
      PROVE  /\ Denied(other)' = Denied(other)
             /\ other = id => Of(other)' = Of(other) \cup {r} /\ r \notin Of(other)
             /\ other # id => Of(other)' = Of(other)
    BY <1>1, AbsentAssumption DEF OthersSame, SameDecision, Of, Denied
<1>3. ASSUME NEW other \in SessionIds
      PROVE  /\ IsFiniteSet(Of(other)') /\ IsFiniteSet(Denied(other)')
             /\ Cardinality(Of(other)') = Cardinality(Of(other)) + IF other = id THEN 1 ELSE 0
             /\ Cardinality(Denied(other)') = Cardinality(Denied(other)) + 0
    <2>1. IsFiniteSet(Of(other)) /\ IsFiniteSet(Denied(other))
        BY DEF LedgerKept
    <2>2. Cardinality(Of(other)) \in Nat /\ Cardinality(Denied(other)) \in Nat
        BY <2>1, FS_CardinalityType
    <2>3. CASE other = id
        BY <1>2, <2>1, <2>2, <2>3, FS_AddElement
    <2>4. CASE other # id
        BY <1>2, <2>1, <2>2, <2>4
    <2> QED
        BY <2>3, <2>4
<1>4. Tallied(id, 1, 0) /\ \A other \in SessionIds \ {id} : Tallied(other, 0, 0)
    BY <1>1 DEF TalliedAt
<1>5. 0 \in 0..1 /\ 1 \in 0..1
    OBVIOUS
<1> QED
    BY <1>3, <1>4, <1>5, MissingOnward, LedgerOnward

LEMMA DenialBalances ==
    ASSUME CallsKept, CallsKept', LedgerKept, UNCHANGED atStart, stateBackend' = "sqlite",
           storeOpen', NEW r \in Requests, CountsDenial(r)
    PROVE  LedgerKept'
<1>0. PICK id \in SessionIds : id = call[r].id
    BY DEF CountsDenial
<1>1. /\ TalliedAt(id, 0, 1) /\ OthersSame(r) /\ call[r].id = id /\ call'[r].id = id
      /\ call[r].action # "deny" /\ call'[r].action = "deny"
    BY <1>0 DEF CountsDenial, LedgerKept
<1>2. ASSUME NEW other \in SessionIds
      PROVE  /\ Of(other)' = Of(other)
             /\ other = id => Denied(other)' = Denied(other) \cup {r} /\ r \notin Denied(other)
             /\ other # id => Denied(other)' = Denied(other)
    BY <1>1 DEF OthersSame, SameDecision, Of, Denied
<1>3. ASSUME NEW other \in SessionIds
      PROVE  /\ IsFiniteSet(Of(other)') /\ IsFiniteSet(Denied(other)')
             /\ Cardinality(Of(other)') = Cardinality(Of(other)) + 0
             /\ Cardinality(Denied(other)') = Cardinality(Denied(other)) + IF other = id THEN 1 ELSE 0
    <2>1. IsFiniteSet(Of(other)) /\ IsFiniteSet(Denied(other))
        BY DEF LedgerKept
    <2>2. Cardinality(Of(other)) \in Nat /\ Cardinality(Denied(other)) \in Nat
        BY <2>1, FS_CardinalityType
    <2>3. CASE other = id
        BY <1>2, <2>1, <2>2, <2>3, FS_AddElement
    <2>4. CASE other # id
        BY <1>2, <2>1, <2>2, <2>4
    <2> QED
        BY <2>3, <2>4
<1>4. Tallied(id, 0, 1) /\ \A other \in SessionIds \ {id} : Tallied(other, 0, 0)
    BY <1>1 DEF TalliedAt
<1>5. 0 \in 0..1 /\ 1 \in 0..1
    OBVIOUS
<1> QED
    BY <1>3, <1>4, <1>5, MissingOnward, LedgerOnward

LEMMA InitBalances ==
    ASSUME StateBackends = {"sqlite"}, ~ StoreMayFail, Init PROVE LedgerKept
<1>1. stateBackend = "sqlite" /\ storeOpen
    BY DEF Init, Limiter!Init, Limiter!get_state_store
<1>2. /\ session = rows /\ atStart = rows /\ faults = 0
      /\ rows \in [SessionIds -> Session \cup {Absent}]
    BY <1>1, HistoriesAssumption DEF Init, LoadedFrom
<1>3. \A id \in SessionIds : Of(id) = {} /\ Denied(id) = {}
    BY AbsentAssumption DEF Init, NewCall, Of, Denied
<1>4. IsFiniteSet({}) /\ Cardinality({}) = 0
    BY FS_EmptySet
<1>5. ASSUME NEW id \in SessionIds PROVE Missing(id, rows[id])
    <2>1. Counted(rows[id]) \in Session
        BY <1>2, CountedType
    <2>2. Behind(Counted(rows[id]), Counted(rows[id]), 0, 0, 0)
        BY <2>1, BehindSame
    <2> QED
        BY <1>2, <1>3, <1>4, <2>2 DEF Missing
<1>6. SessionLedger
    BY <1>2, <1>5, LedgerMissing
<1> QED
    BY <1>1, <1>2, <1>3, <1>4, <1>6 DEF LedgerKept

\* With a store that opens at every start, a session has counted every request
\* that reached it and every deny, in memory and on disk, but for one update at
\* most for every save that raised and every stop between two saves: nothing is
\* lost by requests that interleave, nor by a stop at their awaits.
THEOREM LedgerSafety ==
    ASSUME StateBackends = {"sqlite"}, ~ StoreMayFail
    PROVE  Spec => []SessionLedger
<1>1. Init => LedgerKept
    BY InitBalances
<1>2. CallsKept /\ CallsKept' /\ LedgerKept /\ [Next]_vars => LedgerKept'
    <2> SUFFICES ASSUME CallsKept, CallsKept', LedgerKept, [Next]_vars PROVE LedgerKept'
        OBVIOUS
    <2>1. UNCHANGED atStart /\ stateBackend' = "sqlite" /\ storeOpen'
        <3>1. CASE Stopped
            BY <3>1, StoppedStore DEF LedgerKept, StoreFixed
        <3>2. CASE ~ Stopped
            BY <3>2, StoreStays DEF LedgerKept
        <3> QED
            BY <3>1, <3>2
    <2>2. Counts
        <3>1. CASE Next
            BY <3>1, StepCounts, StoppedCounts
        <3>2. CASE UNCHANGED vars
            <4>1. UNCHANGED <<call, session, rows, faults>>
                BY <3>2 DEF vars, sessionVars
            <4> QED
                BY <4>1, SameCallsCounts DEF Counts
        <3> QED
            BY <3>1, <3>2
    <2> QED
        BY <2>1, <2>2, NothingBalances, RequestBalances, DenialBalances DEF Counts
<1>3. LedgerKept => SessionLedger
    BY DEF LedgerKept
<1> QED
    BY <1>1, <1>2, <1>3, PipelineInvariance, PTL DEF Spec
=============================================================================
