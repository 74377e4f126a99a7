CONSTANTS
    Name <- Names
    Byte = {x, y}
    Count = {1, 2}
    Handle = {f1, f2}
    NULL = NULL
    TMPFS_DEFAULT_FILE_ALLOC_SIZE = 1
    TMPFS_DEFAULT_DIR_ALLOC_SIZE = 1
    FILESYSTEMS_SIZE = 1
    Word = 256
    MaxNodes = 3
    MaxWritten = 3
SYMMETRY Symmetry
SPECIFICATION Spec
INVARIANTS TreeConsistent FilesHoldWrites LookupFinds
CHECK_DEADLOCK FALSE
