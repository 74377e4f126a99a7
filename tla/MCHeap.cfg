CONSTANTS
    HEAP_INIT_SIZE = 208
    PAGE_SIZE = 64
    MIN_WILDERNESS = 40
    MAX_WILDERNESS = 512
    BIN_COUNT = 5
    Size = {8, 40}
    ThreadSlot = {t1, t2, t3}
    IrqSlot = {i1}
    NULL = NULL
    MaxPages = 1
SYMMETRY Symmetry
SPECIFICATION Spec
INVARIANTS HeapConsistent UndefinedOnlyAfter
PROPERTIES BestFit
CHECK_DEADLOCK FALSE
