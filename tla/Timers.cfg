SPECIFICATION FairSpec
CONSTANTS
    h1 = h1
    h2 = h2
    k1 = k1
    k2 = k2
    k3 = k3
    t1 = t1
    t2 = t2
    t3 = t3
    t4 = t4
    NULL = NULL
    Handlers = {h1, h2}
    Handles = {k1, k2, k3}
    handlerOf <- MCHandlerOf
    Times = {t1, t2, t3, t4}
    Intervals = {1, 2}
    MaxClock = 2
INVARIANTS
    TypeOK
    CancelledAreCounted
    HandlesAreAlive
    CancelledAreFew
PROPERTIES
    FiresInOrder
    DueTimerFires
