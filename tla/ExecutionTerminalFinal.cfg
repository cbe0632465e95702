SPECIFICATION Spec
CONSTANTS
    Execs = {e1}
    Eventful = {e1}
    Nodes = {n1}
    NoExec = NoExec
    NoNode = NoNode
    Calls = {c1, c2}
    BatchSize = 1
    Reports <- AllReports
    MaxRetries = 1
    MaxInflight = 1
    MaxQueued = 1
    MaxCount = 3
PROPERTIES
    TerminalIsFinal
SYMMETRY CallSymmetry
