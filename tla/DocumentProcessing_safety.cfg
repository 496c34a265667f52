CONSTANTS
    p1 = p1
    f1 = f1
    h1 = h1
    h2 = h2
    Documents = {1, 2}
    Papers = {p1}
    Files = {f1}
    NoFile = NoFile
    FileOf <- MCFileOf
    Size <- MCSize
    Handlers = {h1, h2}
    Runs = {1, 2}
    MaxFaults = 1
    Traffic = {"upload", "remove", "reprocess", "index"}
SPECIFICATION Spec
INVARIANTS
    CompletedHasAllChunks
    RowsAreSound
    DocumentsAreNotForgotten
CHECK_DEADLOCK FALSE
SYMMETRY Symmetry
VIEW View
