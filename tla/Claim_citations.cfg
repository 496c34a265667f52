CONSTANTS
    Questions = {q1}
    Passages = {p1, p2, p3}
    Sql = sql
    Graph = graph
    TopK = 2
SPECIFICATION RetrievalSpec
INVARIANTS
    CitationsPointAtSources
CHECK_DEADLOCK FALSE
