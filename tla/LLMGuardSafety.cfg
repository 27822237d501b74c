SPECIFICATION Spec
CONSTANTS
    c1 = c1
    c2 = c2
    c3 = c3
    c4 = c4
    c5 = c5
    s1 = s1
    s2 = s2
    Calls <- MCCalls
    Sessions <- MCOneSession
    MaxCallsPerSecond = 3
    MaxTime = 2
SYMMETRY MCSymmetry
INVARIANT TypeOK
INVARIANT FirstTriesLimited
INVARIANT RetriesBounded
PROPERTY StaysOff
CHECK_DEADLOCK FALSE
