CONSTANTS
    Tickets = {t1}
    Sessions = {s1}
    Agents = {a1}
    Admins = {b1}
    Workers = {w1, w2, w3}
    Legacy = {s1}
    StaleDays = 1
    MaxFaults = 0
    MaxCrashes = 0
    Traffic = {"create", "player", "agent", "close", "join", "rag", "time"}
    NoOne = NoOne
    NoTicket = NoTicket
    NoSession = NoSession
SPECIFICATION Spec
SYMMETRY Symmetry
INVARIANTS
    AgentsSpeakInOwnSessions
    TakenSessionsHearNoUnaskedAi
    NoticeOnlyWhenClosed
PROPERTIES
    ImplementsSupportCase
