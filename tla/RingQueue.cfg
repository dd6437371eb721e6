SPECIFICATION FairSpec
CONSTANTS
    c1 = c1
    c2 = c2
    QSize = 1
    Consumers <- MCTwo
    MaxItems = 10
INVARIANTS
    TypeOK
    NoDataRace
    FirstInFirstOut
    EmptyAndCountAgree
PROPERTIES
    ImplementsFifo
    EveryItemTaken
CHECK_DEADLOCK FALSE
