SPECIFICATION FairSpec
CONSTANTS
    x1 = x1  x2 = x2  v1 = v1  v2 = v2  none = none
    Executors <- MCExecutors
    Length = 2
    Values <- MCValues
    NoValue = none
    MaxAttempts = 2
    KeysFixed = TRUE
CHECK_DEADLOCK FALSE
PROPERTIES RunIsDurable ResultIsFinal ResumesAtCheckpoint RunEnds
