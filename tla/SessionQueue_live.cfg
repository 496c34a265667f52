CONSTANTS
    Sessions = {1, 2}
    Agents = {a1}
    a1 = a1
    NoOne = NoOne
    Owner <- MCOwner
    QueuedAt <- MCQueuedAt
    NoTime = NoTime
    Prios = {0, 1}
    Absent = Absent
    Weight = 10
    MaxTime = 100
    MaxReconnectAttempts = 2
    LongOutages = FALSE
    MaxOutages = 1
    MaxRestarts = 0
    MaxRecalculations = 1
    Jobs = {"check", "sync", "recalc"}
SPECIFICATION LiveSpec
PROPERTIES
    PositionsSettle
INVARIANTS
    QueueOrder
