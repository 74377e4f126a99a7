CONSTANTS
    Node = {n1, n2}
    NULL = NULL
    Delay = {2, 11}
    TicksPerMs = 1
    Word = 10
    DEFAULT_COUNT = 1
    MaxCount = 5
SPECIFICATION FairSpec
CONSTRAINT Intact
INVARIANTS TimersSound ServedInTime
PROPERTIES EveryTimerRuns
CHECK_DEADLOCK FALSE
