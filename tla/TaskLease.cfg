SPECIFICATION FairSpec
CONSTANTS
    Nodes = {n1, n2}
    Tasks = {t1}
    NoNode = NoNode
    NoTask = NoTask
    PreemptedTimeout = 2
    BatchSize = 1
    Period = 1
    Horizon = 100
    Cron <- PeriodicCron
    Skew <- NoSkew
    MaxSkew = 0
    MaxTime = 3
    MaxVersion = 5
    MaxExecs = 2
    MaxEvents = 1
INVARIANTS
    TypeOK
    LeaseHasOwner
    SnapshotSound
    OverlapExplained
PROPERTIES
    LeaseNotStolen
    NextTimeMonotone
    ImplementsLease
    InactiveIsFinal
    DueIsAcquired
