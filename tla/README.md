# SafetyGuard, verified

TLA+ models, TLC runs and TLAPS proofs for SafetyGuard, a gateway in front of language models: a
FastAPI process that authenticates a chat request, limits its rate, scores its session, classifies
its content, decides by an ordered policy, redacts, retrieves, builds a prompt, forwards it and
guards the answer. The models are translated from `app/` and its default policy bundle; line
numbers are those of the commit kept under `src/`.

## 1. The system

### Components, their state and operations

| Component | State | Operations | What makes it correct | Module |
|---|---|---|---|---|
| Rate limiter `rate_limit.py` | a deque and a cooldown per key, or two SQLite tables | `allow` | no full window overflows; a promised cooldown is kept; two backends, one behaviour | RateLimiter |
| State store `sqlite_store.py` | tables `rate_limit_hits`, `rate_limit_cooldowns`, `state_kv` | get/put JSON, add/prune/count hits, cooldowns, `get_state_store` | a write that returned outlives the process | its users |
| Session manager `session_manager.py` | dictionary of `SessionState`, written through | get or create, update, append risk, record refusal / tool / attempt | counters only grow; no update lost; cache never hides a newer row | Sessions, SessionStore |
| Risk engine `risk_engine.py` | none | `assess` | more history never means less risk | SessionRisk |
| Identity `identity.py` | cache of signing keys | fetch keys, build a security context | a withdrawn key dies, a new one is known | KeyCache |
| Chat pipeline `chat_pipeline.py`, `chat_orchestrator.py` | a context per request; shared limiter, sessions, keys | four steps, six awaits | each request ends; updates survive interleaving | ChatPipeline, RequestPath |
| Error handlers `error_handlers.py` | none | an answer per exception, redaction of a reply | one status per way of ending; the checked text is the redacted one | ChatPipeline, OutputPath |
| Input scanner, DLP scanner `input_scanner.py`, `dlp_engine.py`, `dlp_scanner.py` | none | `scan` | labels and a capped score | ContentPolicy |
| Content classifier `content_classifier.py` | none | `classify` | neither opinion alone overrides the other unless the thresholds say so | ContentPolicy, Adjudication |
| Policy engine `policy_engine.py`, `policy_service.py`, `policy_conditions.py`, the bundle | the bundle | `evaluate`: first match | rule order: no permissive rule ahead of a restrictive one | ContentPolicy, Adjudication |
| LLM guard client `llm_guard.py` | deque of call times, count of timeouts | analyse input, analyse output, redact | calls limited; an outage is survived; any reply is read as something | LLMGuard, GuardAnswers, PromptAssembly |
| Attacker profiler `attacker_profiler.py` | a bounded dictionary of profiles, written through | record refusal, get profile, divisor | bounded memory; eviction does not forget an offender | AttackerProfiler |
| Retrieval gateway `retrieval_gateway.py` | none | `retrieve` | tenant, sensitivity, hash, signature and injection filters, for the stub too | ContextGateways |
| Tool gateway `tool_gateway.py` | registry | evaluate, execute | only accepted requests run | ContextGateways |
| Prompt builder `prompt_builder.py` | none | `build`, `truncate_to_budget` | order of trust, masking, the budget | PromptAssembly |
| Forwarder `forwarder.py` | none | forward | fails closed, or open if it is told to | RequestPath |
| Output guard `output_guard.py` | none | `inspect` | what is shown is what was checked | OutputPath |
| Audit bus, decision logger `audit_bus.py`, `observability.py` | list of events, metrics | emit, log, list | one record per request | ChatPipeline, RequestPath (partly) |
| HTTP application `main.py`, `middleware.py`, `security.py`, `config.py` | singletons | endpoints | wiring | partly |
| Normalizer `normalizer.py` | none | translate the request | facts used by the risk engine | not modelled |

They interact by calls within one process on one event loop. The code between two `await`s is
atomic; what is shared is the limiter, the sessions, the profiles, the key cache and the guard
object. `state_kv` and the two limiter tables are the only state that outlives the process.

### What is hard

- Requests of one session interleave at every await while each holds the same session object; the
  attempt count is read before the guard's await and raised after it (`chat_pipeline.py:105,160`).
- A save changes the object first and the row second (`session_manager.py:18`); a deny is two saves.
- The same promise is kept by a deque, pruned with `>`, and by SQL, pruned with `<` and counted
  with `>=` (`rate_limit.py:46`, `sqlite_store.py:127-138`).
- A database that cannot be opened is logged and the process goes on in memory (`sqlite_store.py:150`).
- The key cache is stamped with a time read before the await that fills it; several fetches may be
  under way and end in any order (`identity.py:24-36`).
- A guard call that times out is made again past the call window; three failed retries switch
  input analysis off (`llm_guard.py:353-385`).
- The guard's reply may be JSON, JSON amid prose, prose, or numbers that are none; what it is read as
  is weighed against the scanners (`llm_guard.py:532-640`, `content_classifier.py:92-97`).
- The verdict depends on two opinions, the session's risk and the order of the 29 rules enabled.
- Redaction runs text by text, by the model or by patterns, twice, and flags of one text decide the
  treatment of all (`llm_guard.py:413-425`, `chat_pipeline.py:204`, `prompt_builder.py:301`).
- The text of a reply is looked up three times by three orders of keys: by the guard, by the
  redaction and by the endpoint (`chat_pipeline.py:261`, `error_handlers.py:154`, `main.py:246`).

`PROJECT.json` lists each hazard at its line with the properties that cover it.

## 2. Modules

```
 SlidingWindow <-refines- RateLimiter <-INSTANCE- ChatPipeline -> KeyCache
                                                       |
 DurableSessions <-refines- SessionStore -> Sessions <- SessionRisk

 Adjudication -> ContentPolicy -> GuardAnswers        LLMGuard      AttackerProfiler
      |              ^
      v              |
 SessionRisk     RequestPath -> ContextGateways, PromptAssembly, OutputPath
                                       |               |
                                       +---> Lists <---+

 a -> b: a EXTENDS b.    MC<module>: values of the constants for TLC.
 <module>Proofs: theorems of the module. PolicyProofs: those of ContentPolicy, GuardAnswers and
 SessionRisk, with the lemmas on induction and folds; the proofs of ChatPipeline, Adjudication
 and RequestPath EXTEND it.
```

**RateLimiter** (`rate_limit.py`, the limiter's half of `sqlite_store.py`). `bucket`, `memCooldown`
are `_hits`, `_cooldown_until`; `hitRows`, `nextRow`, `dbCooldown` the tables; `storeOpen` whether
this process has the store, `stateBackend` the setting. `allow` is one action with one disjunct per
return: `RefusedInCooldown`, `CooldownStarted`, `LimitExceeded`, `Allowed`. Pruning is part of the
last three. `log`, `base` and `promised` are history: every admission, how many of them were lost
with a backend, the last cooldown promised and not lost. `SlidingWindow` states the promise on the
admissions alone, with its own account of the limit.

**Sessions, SessionRisk**. A session is its counters and risk state; each method of the session
manager is an operator on it. `assess` is the risk engine on a session and the facts of a request.

**SessionStore** (`session_manager.py`, `state_kv`). `sessions` is the dictionary, `rows` the table,
`Loaded` the read-through, `Saved` and `SaveRaises` the two outcomes of a save. `midDeny` marks the
point between the two saves of a deny, where only a crash or an exception can step in; `outcome` is
what the caller saw of the last method. `DurableSessions` is the promise: a session only grows, a
change whose save returned is durable (`Returned`: its row is the value the caller now sees), one
whose save raised may be (`Raised`), and a crash goes back to the last durable value.

**KeyCache** (`identity.py`). `cache` and `cacheTime` are `_jwks_cache` and `_jwks_cache_time`; a
check is a request at the await of its fetch (`fetching`, then `served`: what the provider sent is
on its way) or past it. `Store` puts in the keys with the time read before the await. The provider
(external) publishes one key at a time; a token is the key it was signed with.

**ChatPipeline** (`chat_pipeline.py`, `chat_orchestrator.py`, `error_handlers.py`). One action from
each await of a request to its next. It EXTENDS KeyCache, whose steps are the way in of its
requests, and INSTANCEs RateLimiter, whose sub-actions are the limiter's verdict on them. The
policy's decision, what a deny adds to the profile, the budget and the output guard's action are
left open, so each may take any value. `session` is what the session manager loads, `rows` its table.
Within one step a session is saved up to four times, each save a commit of its own: `Put` is the row
after the last, `ReceiveRaised`, `DenyRaised` and `ToolCountRaised` end the step at a save that raises
(500; of a deny, the refusal may be counted and the attempt not), `StoppedInReceive` and
`StoppedInDeny` end the process between two saves, `Crash` at the awaits. `faults` counts all but the
last.

**GuardAnswers** (`llm_guard.py:450-656`). `analysis` is what the client makes of a reply: an object
normalized field by field, prose read by the words in it in the order of the tables, or the fallback
when something raises.

**ContentPolicy, Adjudication**. `input_scan` and `dlp_scan` turn a multiset of findings into points
and labels, `classify` is the classifier, `rules` the default bundle and `evaluate` its first
match. Adjudication judges one request again and again while its session ages.

**ContextGateways, PromptAssembly, OutputPath** are operators without state: what `retrieve` lets
through, which tools are decided for and run (`LastOn` is the lookup by name); the sections, their
order, what redaction leaves in them, `Residual` and the truncation; the checks of the output guard
in their order, the redaction of the reply and the text either endpoint shows. Lists has what the code
writes as a comprehension and as a sum, `Kept` and `SizeOf`, as folds. Texts are a size and marks: the values the detectors would
find in them, whether a pattern masks a value, and whether a placeholder stands within the 20
characters around it that the detectors keep as evidence. Such a value is `shielded`: the residual
check and the failsafe do not see it (`prompt_builder.py:57`, `llm_guard.py:428`).

**RequestPath** (`chat_pipeline.py` from redaction on, `forwarder.py`, `audit_bus.py`). One request
with its data: redaction, retrieval, redaction again, tools, prompt and budget, forwarding, the
output guard, the answer. `scenario` is what is said and what the services will answer, `deployment`
the settings; how each redaction call ends is left open at each step. ChatPipeline has the
interleaving without the data, RequestPath the data of one request: between these steps a request
reads nothing that others write.

**LLMGuard** (`llm_guard.py`). `callTimes`, `timeoutCount` are the object's fields; a call is at its
first await, at its retry or at a redaction. `limited`, `modelCalls` and `timedOut` are history; `StaysOff`
is stated on the timeouts that happened, not on the count the code keeps of them.

**AttackerProfiler** (`attacker_profiler.py`). `profiles` in memory, `rows` in the store; `told` is
history. No reason code of the default bundle contains ESCALATION, PRIVILEGE or TOOL, so with that
bundle the divisor reaches 10 and never its cap of 20.

Definitions marked *Variant* are plausible mistakes that the specification does not use. Each is the
replacement with which some property fails, and so says what that property is sensitive to.

## 3. Runs

| Run | Instance | Shows |
|---|---|---|
| RateLimiterFallback | 2 keys, limit 2, window 1, clock to 2, 1 restart, a store that may or may not open | `WindowBound`, `HistoryKept`, `RefusedOnlyWhenBusy` |
| RateLimiterBackends | 1 key, limit 4, window 2, cooldown 2, every band of the scan score, divisors 1, 2, 20, both backends, 1 restart | refinement of `SlidingWindow`, `NoAdmissionInCooldown` |
| SessionStoreFaults | 1 session, counters to 3, 2 faults, with and without a store | refinement of `DurableSessions` (a save that returned is on disk), `DenyCountedTwice`, `EscalationNeedsRepeat` |
| ChatPipelineSafety | 3 requests of one session, absent or near the thresholds, limit 4, clock to 1, 1 restart, 1 save that raises or stop between two saves; tokens not verified | `SessionLedger`, `AdmissionsPaid`, `StaleRiskIsLower`, `BurstDrains` |
| ChatPipelineLive | 2 requests, tokens verified, key TTL 1, 1 change of key, clock to 1, 1 restart, fair | `RevokedKeyDies`, `NewKeyKnown`, `EveryCallEnds` |
| ChatPipelineLogged | 2 requests | fails: see findings |
| AdjudicationVerdicts | pairs of scanner findings, single ones with every DLP finding, pairs of DLP findings, each with twelve replies of the guard model; sessions fresh, aged, blocked; 3 steps | `RetryNeverHelps`, `GuardAloneNeverDenies`, `OutageIsNeutral`, `NoContextForSecrets`, `EasedOnlySoFar` |
| AdjudicationRestrictedSessionRestricted | the same, fewer probes | fails: see findings |
| LLMGuardSafety | 5 calls, 3 let through in a second, clock to 2 | `FirstTriesLimited`, `RetriesBounded`, `StaysOff` |
| LLMGuardSession | 5 calls, 4 in a second, 2 sessions | fails: see findings |
| AttackerProfilerRoom | 3 clients, room for 1, 5 refusals, 2 faults, with and without a store | `MemoryBounded`, `RefusalsCounted`, `ThrottleKept` |
| RequestPathContext | 1 request; four sets of scenarios (texts, chunks, tools, replies) under six deployments, every outcome of every redaction call | `ContextWithinDecision`, `RunsWhatWasAccepted`, `LeastTrustGoesFirst`, `ResidualAlerted`, `OutageStillMasks`, `GuardedTextShown` |

The largest runs have about 1,540,000 (ChatPipelineSafety), 390,000 (AdjudicationVerdicts), 260,000
(ChatPipelineLive), 220,000 (RequestPathContext) and 210,000 (LLMGuardSafety) distinct states.

### Why the bounds are enough

- Rate limiter: a violation of the window needs limit + 1 admissions and one expiry. Two keys and a
  limit of 2 show cross-key mistakes; with a limit of 4 the bands, the profile's divisor and the
  halving give the limits 4, 2 and 1 (the divisors 5 and 10 both give 1: lemma `LimitIsQuota` tells
  them apart for every limit). A clock of twice the window lets hits expire behind others that
  stay. In RateLimiterBackends the store opens at both starts or there is none (`StoreMayFail = FALSE`),
  as the refinement needs; what a store that comes and goes does to a promised cooldown is in
  `CooldownSafety`, for every value, and in no run. The proofs cover every other value.
- Sessions: counters to 3 reach the thresholds of escalation; two faults allow a save that raises
  followed by a crash. Sessions share nothing but the bound on faults, so one is run.
- Keys: two fetches and one change of key are what it takes for an old set of keys to be stored after
  a newer one, a clock to the TTL for it to outlive its time. The proofs cover any number of
  requests, changes and any TTL.
- Pipeline: two requests suffice for a lost update, three for a burst that crosses the third attempt
  while another waits. The start sessions stand at the edges of the risk engine's thresholds. The
  live run has one input and no prior session: what decides whether a request ends is the outcome
  of each await, and all of them are there. One fault is enough for a deny half counted, or ahead of
  its row, to be followed by two more requests; the live and the logged run have none, a fault only
  ending a request that they are not about.
- Adjudication: rules look at labels, bands and at most two scores; pairs of findings reach every
  label together with every other and every band, and twelve replies every branch of `classify`, of
  the normalization and of the fallback. Only the last rule looks at the step-up of the user, so
  pairs of scanner findings are run with it, single ones without, and pairs of DLP findings both ways.
- Guard: three timeouts, one call to answer late and one to come after; three let through in a second
  leave room for that, and two seconds pass a whole window.
- Profiles: five refusals reach both thresholds the bundle's codes can (3 jailbreaks, 5 injections);
  room for one makes each new client evict. The clock to 1 makes ages differ.
- Request path: each set of scenarios varies all that one part of the path depends on, the others at
  a plain value: the user texts (nothing, each mark, and a key beside a value that is masked) with history or content, attachments and four retrieval results;
  every tenant, sensitivity, hash and signature, alone and after a good chunk; every tool with every
  kind of arguments, and pairs of two tools; eight texts under each key of a reply with six answers
  of the guard. Every decision of the bundle that lets a request in is run with chunks and tools. The
  budgets 4, 3, 1 and 0 cut in the middle, at the last section, in the text, and everything.

`CHECK_DEADLOCK FALSE` stands where a finite set of requests, refusals or steps comes to rest:
no requests come any more and the system is idle, as it should be.

### Fairness

`FairSpec` of ChatPipeline has weak fairness of each request's `Resume`: the awaited service answers,
raises or times out. The code gives every client a timeout (`httpx` for keys, `identity.py:27`, for
retrieval and upstream, `ChatOpenAI` for the guard) and handles what they raise, or the request ends
with 401, 500 or 502. Nothing is assumed of arrivals, the clock, changes of key, faults or crashes.

### Findings

- **ChatPipelineLogged**: `docs/architecture/components.md:258` promises a decision record for every
  request. A request over its token budget, one whose forwarding fails, and one whose retrieved
  chunks do not validate end without one, after tools may have run.
- **AdjudicationRestrictedSessionRestricted**: `docs/architecture/overview.md:157` answers abusive
  sessions with "Restrict / block". The bundle restricts sessions in state elevated and denies
  blocked ones; no rule applies to a restricted session alone, so there a benign request of a
  stepped-up user gets more than in an elevated one.
- **LLMGuardSession**: the comment at `llm_guard.py:229` disables the guard "for this session". The
  count belongs to the process and never falls.

Noticed while modelling, without a run of their own.

*Sessions and limits*: sessions outlive a restart although `assumptions-and-limitations.md:31` says
otherwise; the session is created and counted before the limiter is asked (`overview.md:62,68`,
`chat_pipeline.py:102`); a challenge is answered with 403, not 409 (`overview.md:107`,
`error_handlers.py:76`); profiles loaded from the store outgrow `max_profiles`; retries of the guard
skip its call window (`llm_guard.py:217,385`), and those of the library behind `ainvoke`, whose
`max_retries` is not set (`llm_guard.py:208-216`), come on top of what `RetriesBounded` counts. A save
that raises, or a stop between the two of a deny, leaves the refusal counted and the attempt not
(`chat_pipeline.py:159-160`), and the request without audit event and record.

*Verdicts*: `components.md:133-135` gives the guard's label the first priority from a confidence of 0.75
on, and the rules of the bundle deny by that label, so by this page a jailbreak that only the guard
sees is denied. The code asks for corroboration (`content_classifier.py:56-80`) and makes of an
unconfirmed accusation a suspicion: `GuardAloneNeverDenies` states, and the runs and
`GuardAloneSafety` show, what the code does against that page. `components.md:127` calls the fallback
of a guard that cannot be reached "conservative": by `OutageIsNeutral` it changes no verdict, so an
outage restricts nothing. An accusation of the guard replaces the scanners' label and may ease it, a "sensitive data"
answer a jailbreak (`overview.md:147`, `content_classifier.py:97`), from deny to a restriction
(`EasedOnlySoFar` says how far). The rule on detected secrets restricts and does not deny
(`components.md:164`, `default_policy.json:385`). Hate content is denied in a restricted session and
only restricted in a blocked one, the rule on content standing before the one on the session. A
confidence of NaN or in percent becomes certainty, an infinite risk score raises into the fallback,
and prose with "not safe" in it reads as benign. No default rule lets confidential context or
`email.send` through.

*Prompt*: `PII_REDACTION_PROMPT` (`llm_guard.py:176`) has braces of its JSON example unescaped; read as a
format string it names a second variable, in which case every redaction call raises and only the
patterns mask (the model has it as a call that fails). A redaction marked `was_redacted = false` is
thrown away. Attachment names are not redacted. A value
within 20 characters of a placeholder counts as masked, whether it is the value the placeholder stands
for or another (`prompt_builder.py:57`, `dlp_engine.py:51`): a private key's header beside an e-mail
just masked raises no alert, and where the sections are taken as they are the failsafe leaves a value
beside a `[REDACTED_` the user wrote (`llm_guard.py:428-430`). Sections stand in another order than
`components.md:201-220`; under a tight budget the system policy goes before the developer's task.
Ollama gets the raw messages, not the package (`overview.md:127`, `components.md:224`). Tool decisions
are looked up by name (`components.md:197`); a tool named null ends in a 500. No residual alert is
kept when forwarding fails.

*Answer*: a text over its length is cut and returned before its secrets are looked at, so with a score of
50 or more they leave unredacted (`overview.md:131,156`, `output_guard.py:37`); the second check on
extrapolation is reached only with an empty prompt. Of a reply with several texts the guard reads
one and the endpoint may show another; a reply of unknown keys is returned beside the guarded text;
a value that is no text ends in a 500. The completions endpoint answers refusals with 200.

*Audit*: the list of events grows without bound though `components.md:242-252` calls it a ring buffer;
once there are `limit + offset` events every offset shows the same newest page (`main.py:121`).

## 4. Proofs

**RateLimiterProofs** proves for every set of keys, limit, window, cooldown, set of signals and
number of restarts, with both backends and a store that may be lost at any restart: `TypeCorrect`,
`WindowSafety` (any limit + 1 admissions not lost span more than a window), `HistorySafety`,
`CooldownSafety`, `BusySafety`, and of the limit `LimitRange` and `LimitIsQuota` (it is the abstract
limit of SlidingWindow, in every band). They rest on the named ASSUMEs of RateLimiter only: a positive
limit, natural durations, scores of 0 to 100, positive divisors. `WindowBound` speaks of the history
and the code of a deque or a table, so it is not inductive. `IInv == TypeOK /\ HistoryKept /\
WindowBound` is: `HistoryKept` says that the deque is the end of the key's history with only expired
hits before it, that each unexpired admission not lost has a row of its own, that the row ids grow,
and that the cooldown in force covers the promised one. From it `TableCounts` and `DequeCounts`
derive that what `allow` compares with the limit is no smaller than what the history says, hence
`AllowedFindsRoom`: an admission finds fewer than limit unexpired ones. `BusySafety` adds the
converse: every row was an admission and the deque is the end of the history.

It also proves the refinement, `PromiseSafety`, wherever the store opens at every start or there is
none (`~ StoreMayFail`). `HistoryKept` says that the backend holds no less than the history; `Exact`
adds that it holds no more: the cooldown in force is the promised one and every row stands for an
admission not forgotten. Both counts are then the number of unexpired remembered admissions
(`RowsAreRecent` by a bijection of rows and admissions, `QueuedAreRecent` by intervals), which is
what the abstract window counts (`InWindowIsRecent`). With a store that comes and goes old rows
return and the refinement is false: there only the theorems above speak.

**PolicyProofs** is about what is computed of a request, for every session, finding and reply.
`MethodsGrow` (each method keeps a session a session and lowers no counter) and `RiskNeverFalls` (a
session that has grown is no less risk, in the capped score and in the state read before the cap).
`RulesInOrder` is the bundle in closed form: 29 enabled rules and a first match become what is denied, what
else is challenged, what else is let in without tools and retrieval, and a blocked session's rest.
`ScoresInRange` (the scores of the scanners) and `EveryReplyRead` (what the guard client makes of a
reply) say what the classifier is given. The provers instantiate no theorem with an operator
parameter, so induction goes by the least number at which a claim would fail (`LeastOf`, from
`WFMin` of the library); from it come a recursion theorem on numbers (`RecursionOnNat`) and
`FoldExists`: the fold of the community modules, whose `CHOOSE` would otherwise say nothing, has a
value for every finite set. Every fact about a sum or a list below rests on it.

**SessionStoreProofs**: `StoreTypeCorrect`, `DenySafety`, `EscalationSafety` for any session ids and
fault bound, from an `IInv` that adds to them that no row exists without a store (`NoStoreNoRows`)
and what is true between the two saves of a deny (`RefusedFirst`); `CacheSafety`: every step is a
step of `DurableSessions` or a stutter, a save that returned among them with its row written.

**AdjudicationProofs**, for any requests, sessions and number of steps: `VerdictTypeCorrect`,
`RetrySafety`, `GuardAloneSafety`, `OutageSafety`, `SecretSafety` (of every request that was judged, the
default decision of a normal session included), `EasedSafety`. The inductive
invariant `IInv` adds to the types and to `RetryNeverHelps`, which does not stand alone, that the last
decision is the verdict on the request at the risk it was judged by (`AsJudged`) and that the session
has only become a greater risk since, whoever else used it (`RiskRises`). `RetrySafety` compares the
verdicts of one request under two risks, `OutageSafety` and `EasedSafety` those under two answers of
the guard, by `RulesInOrder` and `ScannersInOrder`. They assume of a request only `Judgeable`, and
`EveryRequestJudgeable` shows that every request is: whatever the patterns match and whatever the
model replies.

**LLMGuardProofs**: `GuardTypeCorrect`, `FirstTriesSafety`, `RetriesSafety`, `OffSafety` for any calls,
sessions, rate and clock: the window is the recent end of the calls let through, and has never held
more than the rate; each call has made at most one retry for its first try; and the count that
switches analysis off is that of the calls that timed out twice (`NoneTakenBack`), which is what
makes `StaysOff`, stated on those calls, true of every later step.

**AttackerProfilerProofs**: `ProfileTypeCorrect`, `MemorySafety`, `RefusalSafety`, `ThrottleSafety` for
any clients, even infinitely many: memory is finite, and until something fails a profile in memory is
the one in its row (`WrittenThrough`).

**ChatPipelineProofs**, for any requests, sessions, keys and settings. Of the key cache alone, with
any TTL and number of key changes: `RevocationSafety`, `RotationSafety` and `StampSafety`. Their
inductive invariant: the cache and every fetch under way are no older than their stamp (`Stamped`,
`NotOlderThanStamped`), publication times are ordered (`InOrder`), and a verdict was given on keys
no older than a TTL before its request (`Judged`). Stamping at the end of the fetch instead breaks
it, as the mutant of `RevokedKeyDies` shows on the instance. Every step of the pipeline is a step of
the key cache or a stutter (`StepKeys`), so `PipelineRevocation` and `PipelineRotation` follow
from these. `PipelineTypeCorrect` and `AdmissionSafety` rest on `CallsKept` and
`AdmissionsKept`: one entry of the log per admitted request. `StaleRiskSafety` rests on `RiskNeverFalls`:
sessions only grow while a request waits. Memory is never behind the disk (`RowsBehind`), whatever
raises, so no restart takes a session past what was seen of it. What a step adds to a session, in
memory and in its row, is one request, one deny or nothing, less one update of each counter at most
if the step is a fault (`Behind`, `Tallied`, `StepCounts`, `StoppedCounts`). `LedgerSafety` sums this
up for a store that opens at every start (`StateBackends = {"sqlite"}`, `~ StoreMayFail`): without one
a restart forgets the sessions and there is no ledger to keep. `BurstSafety` holds with such a store
or with none (`~ StoreMayFail`, from which `StoreFixed`).

**RequestPathProofs**, for any scenarios and deployments, with lists of chunks, tools and sections of
any length: `TypeInvariant`, `ContextSafety`, `ToolSafety`, `BudgetSafety`, `AlertSafety`,
`OutageSafety`, `AnswerSafety`. Two assumptions say that a scenario and a setting have their types;
the only one with content is that a request was let in by a decision of the default bundle
(`LetIn`). First what the operators return: `KeptPicked` and `SizeIsNat` for a list filtered and
summed, `ToolsDecided` and `ToolsRun` for the tools (one verdict each, run by the last verdict on the
name), `SectionsAre`, `TreatedAre` and `BuildIs` for the prompt, `LeftIs` and `TruncatedIs` for the
budget (what stays is in order of trust, and no dropped section was more trusted), `GuardOutputIs` and
`ShownIs` for the answer. Then the inductive invariant, with one lemma per action. None of the
properties is inductive: each speaks of the end of the path, so `Inv` says what was established on
the way and has survived.

| Part of `Inv` | Says |
|---|---|
| `Typed`, `NotYet` | the envelope's types; what later steps fill is still empty |
| `Seen` | every chunk passed the filters of this request's tenant, decision and key |
| `Decided` | decisions and records are what the tool gateway makes of the tools, or there are none |
| `Marked` | a package with a sensitive value in it, and no placeholder near, has its residual flag up |
| `Masked`, `Unshielded` | with the guard enabled and every redaction call failed, nothing a pattern masks is left but in attachments' names, and near a placeholder where sections are taken as they are |
| `Fits` | where prompts are truncated, the package sent is within the budget, in order of trust, and lacks of the one built from the same envelope only what is trusted least |
| `Closed` | events, status and the client's reply are those of the output guard's result |

TLC checked `Inv` as an invariant of the RequestPathContext instance before it was proved; the runs
list only the properties.

Model-checked only: `EveryCallEnds`, since liveness under fairness is out of the prover's reach. Every
other property of a passing run is a theorem. That the runs' bounds reach the interesting cases is
what TLC and the mutants show, and no theorem.

## 5. Abstractions and what is not modelled

- Time is whole units and does not step backwards; `time.time()` might.
- Only a stop of the process is a crash. With WAL and `synchronous=NORMAL` a loss of power may also
  take back the last commits.
- A deployment either has a store at every start or never (SessionStore, AttackerProfiler); only
  RateLimiter lets it come and go. The code opens it once per component; ChatPipeline shares one flag.
  `SessionLedger` and `BurstDrains` presume a store that opens at every start.
- In ChatPipeline the saves of sessions and, with a deny, of the attacker profile may raise. The
  limiter's own statements and reads that raise do not. A stop within `Receive` after the limiter was
  asked is `Receive` followed by `Crash`; stops between two saves matter, and are modelled, with a
  store only. Time does not pass between two awaits.
- A text in PromptAssembly stands for all that one role said, or for one attachment's name, or one chunk.
  The prompt joins the messages of a role by line breaks, so a placeholder in one may shield a value
  in the next: such messages are one text with shielded marks. Near is as in the joined and trimmed
  text. Values that only the masking patterns know and the detectors do not (user names, 16 digits,
  social security numbers) are no mark: neither check looks for them.
- Attacker profiles record one reason code per deny, as every rule of the bundle has one.
- Regular expressions, decoders, the guard's prompts and reasons, time stamps, message totals and
  wording are left out. What a pattern finds in a text, a chunk or an argument is a fact of it.
- Of a token only its key is modelled; the check of signatures and of the other claims belongs to a
  library. The claims of a development setup and the 401 for a missing token are left out.
- Not modelled: the normalizer (a pure translation; the facts it yields are inputs), the stored list
  of audit events and its paging (nothing promises what a page holds), the metrics, reloading the
  policy and the other administrative endpoints, the translation of OpenAI bodies and streaming.

## 6. What could come next

1. *Reload of the policy* (`main.py:125`, `policy_service.py:25`) while requests wait. A request reads
   the bundle once, at its verdict (`chat_pipeline.py:149`), and a file that does not parse leaves the
   old bundle in place; Adjudication would take the bundle as a variable.
2. *Two processes over one database*: each keeps its own dictionary of sessions and profiles; the
   limiter's tables are shared. The repository runs one process, so no promise is stated yet.
3. *ChatPipeline with the data of RequestPath*: the two meet at the decision and the awaits, and are
   checked and proved apart. A theorem that each request of ChatPipeline takes a path of RequestPath
   would need the decision, left open in one, to be the verdict of Adjudication in the other.
