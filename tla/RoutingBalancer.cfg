SPECIFICATION Spec
CONSTANTS
    n1 = n1  n2 = n2
    Nodes = {n1, n2}
    Calls = {c1}
    NoNode = NoNode
    MaxLists = 3
    MaxBreaks = 1
INVARIANTS TypeOK OneConnPerNode DeliveredPickerIsCurrent
PROPERTIES RemovedIsNotCalled
SYMMETRY Symmetry
CHECK_DEADLOCK FALSE
