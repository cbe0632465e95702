SPECIFICATION FairSpec
CHECK_DEADLOCK FALSE
CONSTANTS
    Nodes = {n1, n2}
    NoNode = NoNode
    Slots = {c1, c2}
    FailureStates = {"FAILED", "FAILED_RETRYABLE"}
    MaxRetries = 1
    MaxLosses = 1
INVARIANTS
    TypeOK
    SecondNodeIsRetry
    RunningIsExplained
PROPERTIES
    EndsUnlessExplained
