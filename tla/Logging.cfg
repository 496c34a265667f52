CONSTANTS
    e1 = e1
    m1 = m1
    m2 = m2
    Lines = {e1, m1, m2}
    ErrorLines = {e1}
    MaxQueueSize = 2
    BatchSize = 2
    MaxFaults = 1
    MaxRotations = 1
    Loggers = {l1, l2}
    ArchiveAfter = 1
    CleanAfter = 1
    LastDay = 4
SPECIFICATION LoggingSpec
INVARIANTS
    LoggingTypeOK
    NoLineIsForgotten
    FilesKeepTheOrder
    LinesAreKept
PROPERTIES
    LinesGetOut
CHECK_DEADLOCK FALSE
