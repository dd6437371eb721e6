SPECIFICATION FairSpec
CONSTANTS
    k1 = k1
    k2 = k2
    k3 = k3
    p1 = p1
    p2 = p2
    PendingMax = 2
    QueueRoom = 3
    Callers <- MCTwoCallers
    Processors <- MCTwoProcessors
    Reentrant = TRUE
    Faulty = TRUE
    MaxQueries = 6
INVARIANTS
    TypeOK
    PendingExact
    QueueNeverFull
PROPERTIES
    WaitEndsUnlessCrowded
CHECK_DEADLOCK FALSE
