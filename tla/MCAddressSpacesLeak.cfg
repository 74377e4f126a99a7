CONSTANTS
    Vas = {v1, v2}
    UserPages = {0, 1, 3}
    AsidCount = 2
    IterationCount = 4
    Slices = {1, 2, 3, 4, 5}
    L2TablesPerSlice = 4
    PagesPerSlice = 3
    L2Entries = 3
    KernelBase = 2
    RamMebibytes = 1
    HeapBase = 3
    HeapInitPages = 1
    MmioBase = 6
    Peripherals <- MCPeripherals
SPECIFICATION MemorySpec
INVARIANTS L2TablesReclaimed
CHECK_DEADLOCK FALSE
