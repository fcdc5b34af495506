SPECIFICATION Spec
CONSTANTS
    Tasks = {a, b, c}
    Threads = {x, y}
    normalThreadCount = 1
    extraNewAddThreadCount = 1
    maxThreadCount = 2
    NULL = NULL
INVARIANTS
    TimedOutThreadIsUnused
CHECK_DEADLOCK FALSE
