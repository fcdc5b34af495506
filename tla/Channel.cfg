SPECIFICATION FairSpec
CONSTANTS
    NULL = NULL
    Handlers <- MCHandlers
    Stale <- MCStale
    Messages <- MCMessages
    PacketSize = 11
    ReceiveWindow = 2
    SendWindow = 1
    MaxSent = 2
    MaxConnections = 2
INVARIANTS
    ChannelTypeOK
    BytesInOrder
    HandledInStep
    HandledWhenComplete
PROPERTY
    SentIsHandled
CHECK_DEADLOCK FALSE
