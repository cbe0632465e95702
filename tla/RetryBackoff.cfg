SPECIFICATION Spec
CHECK_DEADLOCK FALSE
CONSTANTS
    Width = 8
    Unit = 2
    Saturates = FALSE
    Intervals <- MCIntervals
    Limits <- MCLimits
    MaxCalls = 9
INVARIANTS
    TypeOK
    WaitIsBounded
PROPERTIES
    ShrinkIsOverflow
