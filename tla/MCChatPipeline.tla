--------------------------- MODULE MCChatPipeline ---------------------------
(* Small instances of the chat pipeline. *)
EXTENDS ChatPipeline, TLC

CONSTANTS r1, r2, r3, s1, s2, k1

MCRequests == {r1, r2, r3}
MCTwoRequests == {r1, r2}
MCSessions == {s1}
MCKeys == {k1}
MCSymmetry == Permutations(MCRequests)

Input(score) == [scan |-> score, controlChars |-> FALSE,
                 systemMessage |-> FALSE, developerMessage |-> FALSE]
MCInputs == {Input(0), Input(80)}
MCOneInput == {Input(0)}

\* A session about to cross several thresholds of the risk engine at once.
OnTheEdge == [requests |-> 18, refusals |-> 2, toolRequests |-> 4,
              injections |-> 2, escalations |-> 0, state |-> "normal"]
OverTheEdge == [OnTheEdge EXCEPT !.refusals = 3, !.injections = 3]
MCHistories == {OnTheEdge, OverTheEdge}
MCFresh == {Fresh}

MCSqlite == {"sqlite"}
MCScans == {0, 80}
MCInjectionCounts == 0..6
MCMultipliers == {1}
=============================================================================
