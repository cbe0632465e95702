SPECIFICATION FairSpec
CHECK_DEADLOCK FALSE
CONSTANTS
    Nodes = {n1, n2}
    NoNode = NoNode
    Slots = {c1}
    FailureStates = {"FAILED"}
    MaxRetries = 1
    MaxLosses = 0
PROPERTIES
    RescheduleRunsAgain
