SPECIFICATION Spec
CONSTANTS
    s1 = s1
    s2 = s2
    Absent = Absent
    SessionIds <- MCOneSession
    MaxCount = 3
    MaxFaults = 2
INVARIANT TypeOK
INVARIANT DenyCountedTwice
INVARIANT EscalationNeedsRepeat
PROPERTY ImplementsDurableSessions
