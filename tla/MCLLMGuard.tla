---------------------------- MODULE MCLLMGuard ----------------------------
(* Small instances of the guard model client. *)
EXTENDS LLMGuard, TLC

CONSTANTS c1, c2, c3, c4, c5, s1, s2

MCCalls == {c1, c2, c3, c4, c5}
MCOneSession == {s1}
MCSessions == {s1, s2}
MCSymmetry == Permutations(MCCalls)
=============================================================================
