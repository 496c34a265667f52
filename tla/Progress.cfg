CONSTANTS
    e1 = e1
    m1 = m1
    m2 = m2
    Lines = {e1, m1}
    ErrorLines = {e1}
    MaxSize = 2
    BatchSize = 2
    MaxOutages = 1
    MaxLostReplies = 0
    MaxWipes = 0
    MaxRestarts = 0
    MaxFaults = 1
    LongOutages = FALSE
    Turns = {t1, t2}
    StreamTurns = {t1}
    Kbs = {k1}
    NoKb = NoKb
    Chunks <- MCChunks
    Blank = " "
    MaxChunks = 1
    MaxAclChanges = 1
    Checks = {a1}
    Reviews = {b1}
    Similarities = {10, 59, 68, 70}
    Grades = {300, 599, 800}
    Documents <- MCDocuments
    DocTypes = {"project", "paper"}
    MaxParagraphs = 3
    StaleAge = 2
    Videos = {v1, v2}
    Talks = {g1}
    MaxAttempts = 2
SPECIFICATION ProgressSpec
INVARIANTS
    ProgressTypeOK
    ReportsAddUp
PROPERTIES
    JobsKeepTheirLife
    WorkComesToAnEnd
CHECK_DEADLOCK FALSE
