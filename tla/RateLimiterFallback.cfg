SPECIFICATION Spec
CONSTANTS
    k1 = k1
    k2 = k2
    Keys <- MCKeys
    MaxRequests = 2
    Window = 1
    CooldownSeconds = 2
    StateBackends <- MCSqlite
    StoreMayFail = TRUE
    Severities <- MCSeveritiesShort
    InjectionCounts <- MCInjectionCountsShort
    Multipliers <- MCMultiplierOne
    MaxTime = 2
    MaxRestarts = 1
SYMMETRY MCSymmetry
INVARIANT TypeOK
INVARIANT WindowBound
INVARIANT HistoryKept
INVARIANT RefusedOnlyWhenBusy
