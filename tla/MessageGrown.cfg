SPECIFICATION Spec
CONSTANTS
    MaxDepth = 2
    Room = 1024
    Increment = 4096
    Owners <- MCBoth
    KeyLengths <- MCKeys
    Leaves <- MCLeaves
    Values <- MCValues
    MaxCells = 4
    Answers <- MCAnswers
    Heard <- MCHeard
INVARIANTS
    GrownIsOwned
CHECK_DEADLOCK FALSE
