CONSTANTS
    SliceCount = 11
    SliceinfoPerSlice = 3
    L2TablesPerSlice = 3
    PagesPerSlice = 2
    Reserved = {7, 8, 9, 10}
SPECIFICATION Spec
INVARIANTS TypeOK ListsConsistent NoSliceLost NoDoubleHandout LookupFindsSliceinfo
PROPERTIES ImplementsAllocator
CHECK_DEADLOCK FALSE
