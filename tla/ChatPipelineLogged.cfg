SPECIFICATION Spec
CONSTANTS
    r1 = r1
    r2 = r2
    r3 = r3
    s1 = s1
    s2 = s2
    k1 = k1
    Absent = Absent
    Requests <- MCTwoRequests
    SessionIds <- MCSessions
    Histories <- MCFresh
    RequestInputs <- MCInputs
    EnforceTokenBudget = TRUE
    TruncatePrompt = FALSE
    Keys <- MCKeys
    MaxRequests = 2
    Window = 1
    CooldownSeconds = 1
    StateBackends <- MCSqlite
    StoreMayFail = FALSE
    Severities <- MCScans
    InjectionCounts <- MCInjectionCounts
    Multipliers <- MCMultipliers
    MaxTime = 1
    MaxRestarts = 1
    VerifySignature = FALSE
    MaxFaults = 0
    KeyTTL = 1
    MaxRotations = 0
INVARIANT EveryRequestLogged
CHECK_DEADLOCK FALSE
