SPECIFICATION Spec
CONSTANTS
    k1 = k1
    k2 = k2
    p1 = p1
    p2 = p2
    PendingMax = 2
    Callers <- MCCallers
    Processors <- MCOne
    Callbacks <- MCFunction
    Lossy = FALSE
    Repeats = "any"
    MaxQueries = 3
SYMMETRY Symmetry
INVARIANTS
    OnceInOrder
CHECK_DEADLOCK FALSE
