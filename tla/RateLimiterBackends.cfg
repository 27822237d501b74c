SPECIFICATION Spec
CONSTANTS
    k1 = k1
    k2 = k2
    Keys <- MCOneKey
    MaxRequests = 4
    Window = 2
    CooldownSeconds = 2
    StateBackends <- MCBackends
    StoreMayFail = FALSE
    Severities <- MCSeverities
    InjectionCounts <- MCInjectionCounts
    Multipliers <- MCMultipliers
    MaxTime = 4
    MaxRestarts = 1
PROPERTY NoAdmissionInCooldown
PROPERTY ImplementsSlidingWindow
