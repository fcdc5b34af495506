SPECIFICATION DBSpec
CONSTANTS
    q1 = q1
    q2 = q2
    q3 = q3
    login = login
    Tasks <- MCTasks
    EntityTasks <- MCEntityTasks
    entityDBID <- MCEntityDBID
    entityID <- MCEntityID
    Threads = {x, y}
    normalThreadCount = 2
    extraNewAddThreadCount = 2
    maxThreadCount = 2
    NULL = NULL
SYMMETRY Symmetric
PROPERTIES
    ImplementsQueue
\* Every request is made once; when all are presented the model stops.
CHECK_DEADLOCK FALSE
