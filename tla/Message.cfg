SPECIFICATION Spec
CONSTANTS
    MaxDepth = 2
    Room = 1024
    Increment = 4096
    Owners <- MCBoth
    KeyLengths <- MCKeys
    Leaves <- MCLeaves
    Values <- MCValues
    MaxCells = 6
    Answers <- MCAnswers
    Heard <- MCHeard
INVARIANTS
    WithinBuffer
    StackPoints
    SizeAgrees
    CountsMembers
    FoundByPath
    ReaderOnBoundary
    ReadsBack
PROPERTIES
    StopEnds
CHECK_DEADLOCK FALSE
