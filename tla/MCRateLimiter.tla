--------------------------- MODULE MCRateLimiter ---------------------------
(* Small instances of the rate limiter. *)
EXTENDS RateLimiter, TLC

CONSTANTS k1, k2

MCSqlite == {"sqlite"}
MCBackends == {"sqlite", "memory"}
MCKeys == {k1, k2}
MCOneKey == {k1}
MCSeverities == {0, 30, 50, 80}
MCSeveritiesShort == {0, 50}
MCInjectionCounts == {0, 2, 3}
MCInjectionCountsShort == {0, 3}
MCMultipliers == {1, 2, 20}
MCMultiplierOne == {1}
MCSymmetry == Permutations(MCKeys)
=============================================================================
