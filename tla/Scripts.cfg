SPECIFICATION FairSpec
CHECK_DEADLOCK FALSE
CONSTANTS
    Jobs = {j1, j2}
    Inputs <- MCInputs
    NoJob = NoJob
    Workers = 1
    MaxTries = 2
    MaxSeconds = 2
    MaxFaults = 1
INVARIANTS
    TypeOK
    LeftoverIsExplained
    ArchiveIsWhole
PROPERTIES
    MessageIsAnswered
