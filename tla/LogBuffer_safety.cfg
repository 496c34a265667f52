CONSTANTS
    e1 = e1
    m1 = m1
    m2 = m2
    Lines = {e1, m1, m2}
    ErrorLines = {e1}
    MaxSize = 2
    BatchSize = 2
    MaxOutages = 1
    MaxLostReplies = 1
    MaxWipes = 1
    MaxRestarts = 1
    MaxFaults = 1
    LongOutages = TRUE
SPECIFICATION Spec
SYMMETRY Symmetry
INVARIANTS
    TrimmedLinesAreWritten
    FileFollowsTheBuffer
CHECK_DEADLOCK FALSE
