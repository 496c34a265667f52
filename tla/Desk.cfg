CONSTANTS
    Sessions = {1, 2}
    Agents = {a1}
    a1 = a1
    NoOne = NoOne
    Owner <- MCOwner
    QueuedAt <- MCQueuedAt
    NoTime = NoTime
    Prios = {0, 1}
    Absent = Absent
    Weight = 10
    MaxTime = 100
    MaxReconnectAttempts = 2
    LongOutages = TRUE
    MaxOutages = 1
    MaxRestarts = 1
    MaxRecalculations = 0
    Jobs = {"close", "recover", "check"}
    Sockets = {s1, s2}
    Staff = {u1}
    Members = {u2}
    Guest = Guest
    CacheKeys = {k1, k2}
    CacheReaders = {r1, r2}
    CacheWriters = {w1, w2}
    MaxVersion = 2
    PlayerTexts = {p1, p2}
    StaffTexts = {"m1"}
    TicketTexts = {"t1"}
    TranslateCalls = {c1}
    Targets = {"en", "invalid"}
    HistoryMax = 2
    ReplyUsers = {u1, u2}
    Replies = {y1}
    Clicks = {c1, c2}
    MaxUses = 1
    Refusals = {f1, f2}
    Threshold = 3
    Window = 2
    Cooldown = 1
SPECIFICATION DeskSpec
SYMMETRY Symmetry
INVARIANTS
    DeskTypeOK
    NoUnexplainedGhosts
    OnlineIsExplained
    OldAnswersAreExplained
    FavoritesAreCounted
PROPERTIES
    SettledLanguageStays
    OpensForAReason
CHECK_DEADLOCK FALSE
