SPECIFICATION Spec
CONSTANTS
    c1 = c1
    c2 = c2
    c3 = c3
    c4 = c4
    c5 = c5
    s1 = s1
    s2 = s2
    Calls <- MCCalls
    Sessions <- MCSessions
    MaxCallsPerSecond = 4
    MaxTime = 0
SYMMETRY MCSymmetry
INVARIANT SwitchedOffBySession
CHECK_DEADLOCK FALSE
