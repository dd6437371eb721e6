SPECIFICATION Spec
CONSTANTS
    k1 = k1
    k2 = k2
    p1 = p1
    p2 = p2
    PendingMax = 2
    Callers <- MCCallers
    Processors <- MCTwo
    Callbacks <- MCFunction
    Lossy = FALSE
    Repeats = "none"
    MaxQueries = 4
SYMMETRY Symmetry
INVARIANTS
    SlotNotShared
CHECK_DEADLOCK FALSE
