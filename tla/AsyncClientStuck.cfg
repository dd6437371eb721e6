SPECIFICATION FairSpec
CONSTANTS
    k1 = k1
    k2 = k2
    k3 = k3
    p1 = p1
    p2 = p2
    PendingMax = 1
    QueueRoom = 3
    Callers <- MCTwoCallers
    Processors <- MCOneProcessor
    Reentrant = FALSE
    Faulty = FALSE
    MaxQueries = 4
PROPERTIES
    WaitEnds
CHECK_DEADLOCK FALSE
