SPECIFICATION FairSpec
CONSTANTS
    k1 = k1
    k2 = k2
    p1 = p1
    p2 = p2
    PendingMax = 3
    Callers <- MCCallers
    Processors <- MCOne
    Callbacks <- MCFunction
    Lossy = TRUE
    Repeats = "harmless"
    MaxQueries = 5
INVARIANTS
    TypeOK
    OnceInOrder
    RightAnswer
    WireInOrder
    BusyOnlyWhenFull
    AnswersFindTheirQuery
PROPERTIES
    SlotsReusedWhenFree
    ImplementsPipeline
    AllFinish
CHECK_DEADLOCK FALSE
