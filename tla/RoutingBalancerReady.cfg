SPECIFICATION Spec
CONSTANTS
    n1 = n1  n2 = n2
    Nodes = {n1, n2}
    Calls = {c1}
    NoNode = NoNode
    MaxLists = 2
    MaxBreaks = 0
INVARIANTS ReadySCsAreReady
SYMMETRY Symmetry
CHECK_DEADLOCK FALSE
