------------------------------ MODULE LLMGuard ------------------------------
(***************************************************************************)
(* The guard model client (app/llm_guard.py): one object shared by every   *)
(* request, with a one-second sliding window of call times and a count of  *)
(* timeouts that switches input analysis off.  A call awaits the model     *)
(* once, or twice when the first try times out; others run meanwhile.      *)
(*                                                                         *)
(* An answer is any text of the model: what cannot be parsed is normalized *)
(* to an answer too, and only an exception leads to the fallback.          *)
(***************************************************************************)
EXTENDS Integers, Sequences, FiniteSets

CONSTANTS
    Calls,               \* calls into the guard
    Sessions,            \* the sessions whose requests make them
    MaxCallsPerSecond,   \* max(1, guard_llm_max_rps)
    MaxTime              \* bound on the clock, in seconds

ASSUME CallsAssumption == IsFiniteSet(Calls)
ASSUME RateAssumption == MaxCallsPerSecond \in Nat \ {0}
ASSUME TimeAssumption == MaxTime \in Nat

VARIABLES
    now,
    callTimes,      \* _call_times: the deque
    timeoutCount,   \* _timeout_count
    call,           \* where each call is, whose it is and what it returned
    limited,        \* history: times the window let a call through
    modelCalls,     \* history: how often the model was called for an analysis
    timedOut        \* history: how many calls timed out and timed out again

vars == <<now, callTimes, timeoutCount, call, limited, modelCalls, timedOut>>

Phases == {"idle", "awaiting", "retrying", "redacting", "returned"}
UnderWay == {"awaiting", "retrying", "redacting"}
Kinds == {"input", "output", "redaction"}
Results == {"pending", "answer", "fallback", "skipped", "switched_off", "redacted"}

Idle == [phase : {"idle"}, result : {"pending"}]
Begun == [phase : Phases \ {"idle"}, kind : Kinds, session : Sessions, result : Results]

TypeOK ==
    /\ now \in 0..MaxTime
    /\ callTimes \in Seq(Nat)
    /\ timeoutCount \in Nat
    /\ call \in [Calls -> Idle \cup Begun]
    /\ \A c \in Calls : call[c].phase = "returned" <=> call[c].result # "pending"
    /\ limited \in Seq(Nat)
    /\ modelCalls \in Nat
    /\ timedOut \in Nat

Init ==
    /\ now = 0
    /\ callTimes = <<>>
    /\ timeoutCount = 0
    /\ call = [c \in Calls |-> [phase |-> "idle", result |-> "pending"]]
    /\ limited = <<>>
    /\ modelCalls = 0
    /\ timedOut = 0

-----------------------------------------------------------------------------
Starts(c, kind, s, phase, result) ==
    call' = [call EXCEPT ![c] = [phase |-> phase, kind |-> kind, session |-> s, result |-> result]]

Returns(c, result) == call' = [call EXCEPT ![c].phase = "returned", ![c].result = result]

Asks == modelCalls' = modelCalls + 1

\* Variant: a call exactly one second old no longer counts.
ExpiredAtOnce(d) ==
    /\ \A i \in 1..d : now - callTimes[i] >= 1
    /\ d < Len(callTimes) => ~ (now - callTimes[d + 1] >= 1)

\* The loop pops the d times at the head that are more than a second old.
Expired(d) ==
    /\ \A i \in 1..d : now - callTimes[i] > 1
    /\ d < Len(callTimes) => ~ (now - callTimes[d + 1] > 1)

run_prompt(c, kind, s) ==
    \E d \in 0..Len(callTimes) :
        /\ Expired(d)
        /\ LET kept == SubSeq(callTimes, d + 1, Len(callTimes))
           IN  \/ /\ Len(kept) >= MaxCallsPerSecond
                  /\ callTimes' = kept
                  /\ Starts(c, kind, s, "returned", "fallback")
                  /\ UNCHANGED <<limited, modelCalls>>
               \/ /\ Len(kept) < MaxCallsPerSecond
                  /\ callTimes' = Append(kept, now)
                  /\ limited' = Append(limited, now)
                  /\ Starts(c, kind, s, "awaiting", "pending")
                  /\ Asks
        /\ UNCHANGED <<now, timeoutCount, timedOut>>

\* Nothing to analyse: no user message, or an empty output.
Skipped(c, kind, s) ==
    /\ Starts(c, kind, s, "returned", "skipped")
    /\ UNCHANGED <<now, callTimes, timeoutCount, limited, modelCalls, timedOut>>

SwitchedOff(c, s) ==
    /\ timeoutCount >= 3
    /\ Starts(c, "input", s, "returned", "switched_off")
    /\ UNCHANGED <<now, callTimes, timeoutCount, limited, modelCalls, timedOut>>

analyze_input(c, s) ==
    /\ call[c].phase = "idle"
    /\ \/ SwitchedOff(c, s)
       \/ timeoutCount < 3 /\ (Skipped(c, "input", s) \/ run_prompt(c, "input", s))

\* Output analysis does not look at the timeouts.
analyze_output(c, s) ==
    /\ call[c].phase = "idle"
    /\ Skipped(c, "output", s) \/ run_prompt(c, "output", s)

\* Redaction of a text goes to the model past the window.
redact_text(c, s) ==
    /\ call[c].phase = "idle"
    /\ Starts(c, "redaction", s, "redacting", "pending")
    /\ UNCHANGED <<now, callTimes, timeoutCount, limited, modelCalls, timedOut>>

\* Variant: a redaction that returns nothing.
RedactedToNothing(c) ==
    /\ call[c].phase = "redacting"
    /\ Returns(c, "pending")
    /\ UNCHANGED <<now, callTimes, timeoutCount, limited, modelCalls, timedOut>>

\* With an answer or an exception alike: the pattern-based pass follows.
Redacted(c) ==
    /\ call[c].phase = "redacting"
    /\ Returns(c, "redacted")
    /\ UNCHANGED <<now, callTimes, timeoutCount, limited, modelCalls, timedOut>>

\* Variant: an answer takes the timeouts before it back.
AnsweredAfresh(c) ==
    /\ call[c].phase \in {"awaiting", "retrying"}
    /\ Returns(c, "answer")
    /\ timeoutCount' = 0
    /\ UNCHANGED <<now, callTimes, limited, modelCalls, timedOut>>

Answered(c) ==
    /\ call[c].phase \in {"awaiting", "retrying"}
    /\ Returns(c, "answer")
    /\ UNCHANGED <<now, callTimes, timeoutCount, limited, modelCalls, timedOut>>

\* Any exception but a timeout.
Failed(c) ==
    /\ call[c].phase = "awaiting"
    /\ Returns(c, "fallback")
    /\ UNCHANGED <<now, callTimes, timeoutCount, limited, modelCalls, timedOut>>

\* Variant: a timeout of the retry retried again.
TimedOutAgain(c) ==
    /\ call[c].phase \in {"awaiting", "retrying"}
    /\ call' = [call EXCEPT ![c].phase = "retrying"]
    /\ Asks
    /\ UNCHANGED <<now, callTimes, timeoutCount, limited, timedOut>>

\* The one retry, with a compact prompt, skips the window.
TimedOut(c) ==
    /\ call[c].phase = "awaiting"
    /\ call' = [call EXCEPT ![c].phase = "retrying"]
    /\ Asks
    /\ UNCHANGED <<now, callTimes, timeoutCount, limited, timedOut>>

\* Whatever the retry raises counts as a timeout.
RetryFailed(c) ==
    /\ call[c].phase = "retrying"
    /\ timeoutCount' = timeoutCount + 1
    /\ timedOut' = timedOut + 1
    /\ Returns(c, "fallback")
    /\ UNCHANGED <<now, callTimes, limited, modelCalls>>

Tick ==
    /\ now < MaxTime
    /\ now' = now + 1
    /\ UNCHANGED <<callTimes, timeoutCount, call, limited, modelCalls, timedOut>>

Resume(c) == Redacted(c) \/ Answered(c) \/ Failed(c) \/ TimedOut(c) \/ RetryFailed(c)

Next ==
    \/ \E c \in Calls :
           \/ \E s \in Sessions :
                  analyze_input(c, s) \/ analyze_output(c, s) \/ redact_text(c, s)
           \/ Resume(c)
    \/ Tick

Spec == Init /\ [][Next]_vars

-----------------------------------------------------------------------------
(* Properties *)

Spread(times, n) ==
    \A i \in DOMAIN times : i + n \in DOMAIN times => times[i + n] - times[i] > 1

\* First tries are limited: more than MaxCallsPerSecond of them take more than
\* a second.
FirstTriesLimited == Spread(limited, MaxCallsPerSecond)

\* With the retries every try may be made twice, and not more: the client calls
\* ainvoke at most twice for each call the window let through.  (The library
\* behind ainvoke retries on its own account, llm_guard.py:208-216 sets no
\* max_retries, and that is not counted here.)
RetriesBounded ==
    /\ Len(limited) <= modelCalls
    /\ modelCalls + Cardinality({c \in Calls : call[c].phase = "awaiting"})
           <= 2 * Len(limited)

AskingInput == {c \in Calls : call[c].phase \in UnderWay /\ call[c].kind = "input"}

\* Once three calls have timed out, of any requests and however far apart, input
\* analysis only drains: no answer of the model to a call before, between or
\* after them lets a further call ask it.
StaysOff == [][timedOut >= 3 => AskingInput' \subseteq AskingInput]_vars

TimeoutsOf(s) ==
    {c \in Calls : call[c].phase = "returned" /\ call[c].session = s
                       /\ call[c].result = "fallback"}

\* llm_guard.py:229 "Guard model has timed out too many times; disable for
\* this session": a session is switched off by timeouts of its own.
SwitchedOffBySession ==
    \A c \in Calls : call[c].phase = "returned" /\ call[c].result = "switched_off" =>
        Cardinality(TimeoutsOf(call[c].session)) >= 3
=============================================================================
