CONSTANTS
    Tickets = {t1}
    Sessions = {s1}
    Agents = {a1}
    Admins = {}
    Workers = {w1, w2}
    Legacy = {}
    StaleDays = 1
    MaxFaults = 1
    MaxCrashes = 1
    Traffic = {"create", "player", "direct", "close", "join", "status", "time"}
    NoOne = NoOne
    NoTicket = NoTicket
    NoSession = NoSession
SPECIFICATION FairSpec
PROPERTIES
    QuestionsAreAnswered
    StaleTicketsAreResolved
