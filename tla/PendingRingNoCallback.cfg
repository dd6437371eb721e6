SPECIFICATION FairSpec
CONSTANTS
    k1 = k1
    k2 = k2
    p1 = p1
    p2 = p2
    PendingMax = 2
    Callers <- MCCallers
    Processors <- MCOne
    Callbacks <- MCAny
    Lossy = TRUE
    Repeats = "none"
    MaxQueries = 3
PROPERTIES
    AnsweredAreCalled
CHECK_DEADLOCK FALSE
