------------------------ MODULE MCAttackerProfiler ------------------------
(* Small instances of the attacker profiles. *)
EXTENDS AttackerProfiler, TLC

CONSTANTS a, b, c

MCClients == {a, b, c}
\* What the reason codes of default_policy.json hold: none says ESCALATION,
\* PRIVILEGE or TOOL.
MCCodes == {{"JAILBREAK"}, {"INJECTION"}, {}}
MCSymmetry == Permutations(MCClients)
=============================================================================
