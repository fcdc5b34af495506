SPECIFICATION Spec
CONSTANTS
    Tasks = {a, b, c, d}
    Threads = {x, y, z}
    normalThreadCount = 1
    extraNewAddThreadCount = 1
    maxThreadCount = 3
    NULL = NULL
SYMMETRY Symmetric
INVARIANTS
    TypeOK
    CountsMatchLists
    ListsMatchThreads
    EachTaskInOnePlace
    AssignedSleeperIsSignalled
CHECK_DEADLOCK FALSE
