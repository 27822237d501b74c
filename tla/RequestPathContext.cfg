SPECIFICATION Spec
CONSTANTS
    Down = Down
    Malformed = Malformed
    Scenarios <- MCScenarios
    Deployments <- MCDeployments
INVARIANT TypeOK
INVARIANT ContextWithinDecision
INVARIANT RunsWhatWasAccepted
INVARIANT LeastTrustGoesFirst
INVARIANT ResidualAlerted
INVARIANT OutageStillMasks
INVARIANT GuardedTextShown
CHECK_DEADLOCK FALSE
