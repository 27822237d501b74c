SPECIFICATION Spec
CONSTANTS
    Probes <- MCProbes
    Histories <- MCHistories
    MaxSteps = 3
INVARIANT TypeOK
INVARIANT RetryNeverHelps
INVARIANT GuardAloneNeverDenies
INVARIANT OutageIsNeutral
INVARIANT NoContextForSecrets
INVARIANT EasedOnlySoFar
CHECK_DEADLOCK FALSE
