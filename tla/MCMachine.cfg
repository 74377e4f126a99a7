SPECIFICATION Spec
CONSTANTS
    Ram <- RamSizes
    WordSize = 2
    FirstStep = 16
    MaxMemory = 64
    RegionStart = 60
    RegionEnd = 62
    Board = {"RaspBerryPiTwo", "RaspberryPiZero"}
    SD_BLOCK_SIZE = 3
    FifoDepth = 2
    Block = {1, 2}
    MaxTransfers = 4
    Mode = {"r", "w", "0", "x"}
    Amount <- AmountSet
    BUFSIZ = 2
    Pattern <- Patterns
    MaxFwrites = 3
    MaxMem = 100
    MaxChr = 6
    WideChar <- WideChars
    AUX_CNT = 8
    AT_PAGESZ = 6
    Image <- Images
    Constructors = 2
    ErrorList <- Errors
    MAXERR = 16
    ULONG = 64
    SysResult = {0, 1, 47, 48, 49, 50, 61, 63}
INVARIANTS BootSafe TransferSound StreamKept BytesRight ProcessStarts
PROPERTIES EachEnds
CHECK_DEADLOCK FALSE
