CONSTANTS
    Node = {n1, n2, n3, n4, n5, n6}
    NULL = NULL
    Priority = {1, 2}
    Capacities = {2}
SYMMETRY Nodes
SPECIFICATION PrqSpec
INVARIANTS PrqTypeOK HeapOrdered BackPointers RoomForNext
PROPERTIES ImplementsMinQueue
