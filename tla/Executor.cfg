SPECIFICATION FairSpec
CONSTANTS
    Eids = {e1}
    NoEid = NoEid
    Requests = {r1, r2}
    Interrupts = {i1, i2}
    MaxRuns = 2
INVARIANTS
    TypeOK
    ToldWasDecided
    OneLiveRun
    RunIsInterruptible
PROPERTIES
    AcceptedIsSettled
