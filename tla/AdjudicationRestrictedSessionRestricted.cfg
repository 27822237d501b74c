SPECIFICATION Spec
CONSTANTS
    Probes <- MCFewProbes
    Histories <- MCHistories
    MaxSteps = 3
INVARIANT RestrictedSessionRestricted
CHECK_DEADLOCK FALSE
