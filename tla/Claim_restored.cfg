CONSTANTS
    Sessions = {1, 2}
    Agents = {a1}
    a1 = a1
    NoOne = NoOne
    Owner <- MCOwner
    QueuedAt <- MCQueuedAt
    NoTime = NoTime
    Prios = {0}
    Absent = Absent
    Weight = 10
    MaxTime = 100
    MaxReconnectAttempts = 2
    LongOutages = TRUE
    MaxOutages = 1
    MaxRestarts = 0
    MaxRecalculations = 0
    Jobs = {"recover", "check"}
SPECIFICATION FairSpec
PROPERTIES
    RestoredAtConsistencyCheck
CHECK_DEADLOCK FALSE
