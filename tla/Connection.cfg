SPECIFICATION FairSpec
CONSTANTS
    Header = 3
    BufSize = 5
    Streams <- MCStreams
    QueueRoom = 1
    Starts = FALSE
    Modes <- MCBoth
    Signals = TRUE
INVARIANTS
    TypeOK
    Framed
    BytesAccounted
    ConnectionTold
PROPERTIES
    MessagesArrive
    EndReported
    CloseReturns
CHECK_DEADLOCK FALSE
