SPECIFICATION Spec
CONSTANTS
    MaxStreams = 2
    IdSpace = 8
    OutCap = 1
    SinkCap = 1
    WireCap = 1
    Plans <- Tunnels
INVARIANTS InOrderWithoutHoles DatagramsOnce
PROPERTIES EndArrives ChunksArrive BreakReachesSockets
CHECK_DEADLOCK FALSE
