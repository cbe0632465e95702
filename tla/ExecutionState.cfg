SPECIFICATION FairSpec
CONSTANTS
    Execs = {e1, e2}
    Eventful = {e1}
    Nodes = {n1}
    NoExec = NoExec
    NoNode = NoNode
    Calls = {c1}
    BatchSize = 1
    Reports <- EventfulAndFailing
    MaxRetries = 1
    MaxInflight = 1
    MaxQueued = 1
    MaxCount = 2
INVARIANTS
    TypeOK
    RetryCountBounded
    StatusWasReported
PROPERTIES
    NoRestartAfterEnd
    RetryIsServed
    RescheduleIsServed
