CONSTANTS
    Vas = {v1, v2, v3, v4}
    UserPages = {}
    AsidCount = 3
    IterationCount = 4
    Slices = {1, 2, 3, 4, 5, 6}
    L2TablesPerSlice = 4
    PagesPerSlice = 8
    L2Entries = 3
    KernelBase = 2
    RamMebibytes = 1
    HeapBase = 3
    HeapInitPages = 1
    MmioBase = 6
    Peripherals <- MCPeripherals
SPECIFICATION Spec
SYMMETRY VasSymmetry
INVARIANTS IsolatedBeforeReuse
CHECK_DEADLOCK FALSE
