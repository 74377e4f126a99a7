CONSTANTS
    Node = {n1, n2}
    NULL = NULL
    Delay = {1, 3}
    TicksPerMs = 1
    Word = 16
    DEFAULT_COUNT = 1
    MaxCount = 8
SYMMETRY Nodes
SPECIFICATION Spec
INVARIANTS NoDanglingTimers
CHECK_DEADLOCK FALSE
