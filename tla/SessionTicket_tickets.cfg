CONSTANTS
    Tickets = {t1}
    Sessions = {s1, s2}
    Agents = {a1}
    Admins = {}
    Workers = {w1, w2}
    Legacy = {}
    StaleDays = 1
    MaxFaults = 1
    MaxCrashes = 0
    Traffic = {"create", "agent", "close", "rate", "join", "reply", "token", "status", "time"}
    NoOne = NoOne
    NoTicket = NoTicket
    NoSession = NoSession
SPECIFICATION Spec
SYMMETRY Symmetry
INVARIANTS
    NoLostResolution
    
