SPECIFICATION FairSpec
CONSTANTS
    Tasks = {a, b, c}
    Threads = {x, y}
    normalThreadCount = 2
    extraNewAddThreadCount = 1
    maxThreadCount = 2
    NULL = NULL
INVARIANTS
    NoTaskLost
PROPERTIES
    GivenTaskIsFinished
    BufferDrainsUnderLoad
    ShutdownCompletes
CHECK_DEADLOCK FALSE
