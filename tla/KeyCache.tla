------------------------------ MODULE KeyCache ------------------------------
(***************************************************************************)
(* Verification of bearer tokens against the cached signing keys           *)
(* (app/identity.py).  Every request asks for the keys; those that find    *)
(* the cache empty or too old each fetch them, and the await of a fetch    *)
(* lets other requests in.  The time of the cache is read before the       *)
(* await, the keys are stored after it, by whichever fetch ends last.      *)
(*                                                                         *)
(* The identity provider is external: it publishes one key at a time and   *)
(* withdraws the previous one with it.  A token is the key it was signed   *)
(* with; what else a verification looks at is left out.                    *)
(***************************************************************************)
EXTENDS Integers

CONSTANTS
    Requests,          \* requests with a bearer token
    KeyTTL,            \* _JWKS_CACHE_TTL
    MaxRotations       \* bound: how often the provider changes its key

ASSUME TTLAssumption == KeyTTL \in Nat \ {0}
ASSUME RotationsAssumption == MaxRotations \in Nat

VARIABLES
    now,               \* the clock
    current,           \* number of the key the provider publishes
    publishedAt,       \* when it has published each
    cache, cacheTime,  \* _jwks_cache and _jwks_cache_time
    check              \* the verification of each call

keyVars == <<current, publishedAt, cache, cacheTime, check>>
identityVars == <<now, keyVars>>

KeyNumbers == 0..MaxRotations
NoKeys == -1
CheckPhases == {"idle", "fetching", "served", "accepted", "refused", "lost"}
NoCheck == [phase |-> "idle", start |-> 0, key |-> 0, served |-> NoKeys]
Checks == [phase : CheckPhases, start : Nat, key : KeyNumbers,
           served : KeyNumbers \cup {NoKeys}]

KeyTypeOK ==
    /\ now \in Nat
    /\ current \in KeyNumbers
    /\ publishedAt \in [KeyNumbers -> Nat]
    /\ cache \in KeyNumbers \cup {NoKeys}
    /\ cacheTime \in Nat
    /\ check \in [Requests -> Checks]

KeyInit ==
    /\ now = 0
    /\ current = 0
    /\ publishedAt = [k \in KeyNumbers |-> 0]
    /\ cache = NoKeys /\ cacheTime = 0
    /\ check = [c \in Requests |-> NoCheck]

-----------------------------------------------------------------------------
(* The provider and the clock *)

Rotate ==
    /\ current < MaxRotations
    /\ current' = current + 1
    /\ publishedAt' = [publishedAt EXCEPT ![current + 1] = now]
    /\ UNCHANGED <<now, cache, cacheTime, check>>

KeyTick == now' = now + 1 /\ UNCHANGED keyVars

\* A token signed with any key published so far.
Tokens == 0..current

-----------------------------------------------------------------------------
(* _fetch_jwks, and the verdict of build_security_context *)

KeysFresh == cache # NoKeys /\ now - cacheTime < KeyTTL

Verified(key, served) == key = served

Started(key, phase, served) ==
    [phase |-> phase, start |-> now, key |-> key, served |-> served]

\* The keys are in the cache: no await, the verdict at once.
FromCache(c, key, verdict) ==
    /\ check[c].phase = "idle"
    /\ key \in Tokens
    /\ KeysFresh
    /\ verdict = IF Verified(key, cache) THEN "accepted" ELSE "refused"
    /\ check' = [check EXCEPT ![c] = Started(key, verdict, cache)]
    /\ UNCHANGED <<current, publishedAt, cache, cacheTime>>

BeginFetch(c, key) ==
    /\ check[c].phase = "idle"
    /\ key \in Tokens
    /\ ~ KeysFresh
    /\ check' = [check EXCEPT ![c] = Started(key, "fetching", NoKeys)]
    /\ UNCHANGED <<current, publishedAt, cache, cacheTime>>

\* The provider answers with the keys it has now.
Serve(c) ==
    /\ check[c].phase = "fetching"
    /\ check' = [check EXCEPT ![c].phase = "served", ![c].served = current]
    /\ UNCHANGED <<current, publishedAt, cache, cacheTime>>

\* Variant: the time taken when the answer is stored.
StoreAtEnd(c) == cache' = check[c].served /\ cacheTime' = now

Store(c) == cache' = check[c].served /\ cacheTime' = check[c].start

\* The answer is back: it is stored, then used.
Fetched(c, verdict) ==
    /\ check[c].phase = "served"
    /\ verdict = IF Verified(check[c].key, check[c].served) THEN "accepted" ELSE "refused"
    /\ Store(c)
    /\ check' = [check EXCEPT ![c].phase = verdict]
    /\ UNCHANGED <<current, publishedAt>>

\* No answer, an error status or a timeout: refused, the cache as it was.
FetchFailed(c) ==
    /\ check[c].phase \in {"fetching", "served"}
    /\ check' = [check EXCEPT ![c].phase = "refused", ![c].served = NoKeys]
    /\ UNCHANGED <<current, publishedAt, cache, cacheTime>>

\* The cache is a global of the process.
KeyRestart ==
    /\ cache' = NoKeys /\ cacheTime' = 0
    /\ check' = [c \in Requests |->
                    IF check[c].phase \in {"fetching", "served"}
                    THEN [check[c] EXCEPT !.phase = "lost"] ELSE check[c]]
    /\ UNCHANGED <<current, publishedAt>>

KeyStep(c) ==
    \/ \E key \in Tokens, verdict \in {"accepted", "refused"} : FromCache(c, key, verdict)
    \/ \E key \in Tokens : BeginFetch(c, key)
    \/ Serve(c)
    \/ \E verdict \in {"accepted", "refused"} : Fetched(c, verdict)
    \/ FetchFailed(c)

KeyNext ==
    \/ Rotate
    \/ KeyTick
    \/ (\E c \in Requests : KeyStep(c)) /\ UNCHANGED now
    \/ KeyRestart /\ UNCHANGED now

KeySpec == KeyInit /\ [][KeyNext]_identityVars

-----------------------------------------------------------------------------
(* Properties *)

\* A key that was withdrawn opens nothing to a request that comes a TTL later
\* or more, however the fetches under way at the time end.
RevokedKeyDies ==
    \A c \in Requests :
        check[c].phase = "accepted" /\ check[c].key < current =>
            check[c].start < publishedAt[check[c].key + 1] + KeyTTL

\* A key is known a TTL after it was published: a request that comes later is
\* not refused because the keys it was checked against are older than its own.
NewKeyKnown ==
    \A c \in Requests :
        check[c].phase = "refused" /\ check[c].served # NoKeys
            /\ check[c].served < check[c].key =>
                check[c].start < publishedAt[check[c].key] + KeyTTL

\* The keys in the cache, and those on their way to a call, were the current
\* ones at the time they are stored under or later.
NotOlderThanStamped ==
    LET CurrentSince(k, time) == k = current \/ time <= publishedAt[k + 1]
    IN  /\ cache # NoKeys => CurrentSince(cache, cacheTime)
        /\ \A c \in Requests :
               check[c].phase = "served" => CurrentSince(check[c].served, check[c].start)
=============================================================================
