SPECIFICATION Spec
CONSTANTS
    NULL = NULL
    Handlers <- MCHandlers
    Stale <- MCStale
    Messages <- MCMessages
    PacketSize = 11
    ReceiveWindow = 2
    SendWindow = 1
    MaxSent = 2
    MaxConnections = 2
INVARIANT
    CutBodyIsWhole
CHECK_DEADLOCK FALSE
