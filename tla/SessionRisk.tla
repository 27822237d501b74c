---------------------------- MODULE SessionRisk ----------------------------
(***************************************************************************)
(* The session risk engine (app/risk_engine.py): a sum of fixed weights    *)
(* over the history of the session and the facts of the request.           *)
(***************************************************************************)
EXTENDS Sessions

\* What the engine reads of a request: its input-scan score and three facts.
Inputs == [scan : 0..100, controlChars : BOOLEAN,
           systemMessage : BOOLEAN, developerMessage : BOOLEAN]

Weight(fact, points) == IF fact THEN points ELSE 0

\* Variant: exactly twenty requests count, not twenty or more.
HistoryScoreExact(s) ==
      Weight(s.refusals >= 3, 40)
    + Weight(s.toolRequests >= 5, 20)
    + Weight(s.requests = 20, 15)
    + Weight(s.injections >= 2, 20)
    + Weight(s.escalations >= 1, 25)

HistoryScore(s) ==
      Weight(s.refusals >= 3, 40)
    + Weight(s.toolRequests >= 5, 20)
    + Weight(s.requests >= 20, 15)
    + Weight(s.injections >= 2, 20)
    + Weight(s.escalations >= 1, 25)

InputScore(in) ==
      Weight(in.scan >= 70, 20)
    + Weight(in.controlChars, 10)
    + Weight(in.systemMessage, 15)
    + Weight(in.developerMessage, 15)

\* Variant: the bands written for the capped score, the sum not yet capped.
RiskStateOfCapped(score) ==
    CASE score \in 80..100 -> "blocked"
      [] score \in 50..79 -> "restricted"
      [] score \in 20..49 -> "elevated"
      [] OTHER -> "normal"

RiskState(score) ==
    CASE score >= 80 -> "blocked"
      [] score \in 50..79 -> "restricted"
      [] score \in 20..49 -> "elevated"
      [] OTHER -> "normal"

\* The state is read off the sum before the sum is capped at 100.
assess(in, s) ==
    LET score == HistoryScore(s) + InputScore(in)
    IN  [score |-> IF score < 100 THEN score ELSE 100, state |-> RiskState(score)]

Severity == [state \in RiskStates |->
                 CASE state = "normal" -> 0 [] state = "elevated" -> 1
                   [] state = "restricted" -> 2 [] OTHER -> 3]

NoLessRisk(old, new) ==
    old.score <= new.score /\ Severity[old.state] <= Severity[new.state]
=============================================================================
