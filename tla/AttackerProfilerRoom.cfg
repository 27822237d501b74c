SPECIFICATION Spec
CONSTANTS
    a = a
    b = b
    c = c
    Clients <- MCClients
    MaxProfiles = 1
    Codes <- MCCodes
    Absent = Absent
    MaxRefusals = 5
    MaxFaults = 2
    MaxTime = 1
SYMMETRY MCSymmetry
INVARIANT TypeOK
INVARIANT MemoryBounded
INVARIANT RefusalsCounted
PROPERTY ThrottleKept
CHECK_DEADLOCK FALSE
