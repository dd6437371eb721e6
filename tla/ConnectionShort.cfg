SPECIFICATION FairSpec
CONSTANTS
    Header = 3
    BufSize = 5
    Streams <- MCShort
    QueueRoom = 1
    Starts = TRUE
    Modes <- MCSync
    Signals = FALSE
PROPERTIES
    ShortMessagesArrive
CHECK_DEADLOCK FALSE
