SPECIFICATION FairSpec
CONSTANTS
    QueueCap = 2
    LastEpoch = 1
    NoRequest = NoRequest
    MaxChunks = 4
    MaxEpoch = 2
INVARIANT InOrder
PROPERTY AllRead
CHECK_DEADLOCK FALSE
