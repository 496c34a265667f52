CONSTANTS
    WriteCalls = {w1, w2}
    MaxSections = 2
    TemplateSize = 2
    HistoryLimit = 2
    MaxWrites = 3
    KnowledgeBase = TRUE
    Bodies <- MCBodies
    Turns = {t1, t2}
    StreamTurns = {t1}
    Kbs = {k1}
    NoKb = NoKb
    Chunks <- MCChunks
    Blank = " "
    MaxChunks = 2
    MaxAclChanges = 1
    PageRequests = {q1, q2}
    MaxCopies = 2
    Questions = {q1}
    Passages = {p1, p2, p3}
    Sql = sql
    Graph = graph
    TopK = 2
    Papers = {p1, p2}
    Names = {a, b}
    AffiliatedNames = {a}
    Tags = {}
    LibraryRuns = {r1, r2}
    MaxStarts = 2
    MaxNamesakes = 1
    Boards = {all, g1}
    MainBoard = all
    Viewers = {v1}
    ShortTtls = {1, 2}
    SnapshotTtls = {3, 4}
    DegradedTtls = {2, 3}
    RefreshEvery = 4
    MaxQuery = 1
SPECIFICATION ResearchSpec
INVARIANTS
    ResearchTypeOK
    CompletedTurnsAreHonest
    KnowledgeIsChecked
    ShownTextIsTrue
    PagesAreKept
    NothingFoundIsExplained
    SharedPapersAreCounted
    OldNumbersAreExplained
PROPERTIES
    OnlyOverlapLosesText
CHECK_DEADLOCK FALSE
