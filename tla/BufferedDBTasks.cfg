SPECIFICATION Spec
CONSTANTS
    q1 = q1
    q2 = q2
    q3 = q3
    e1 = e1
    login = login
    EntityTasks <- MCEntityTasks
    PlainTasks <- MCPlainTasks
    entityDBID <- MCEntityDBID
    entityID <- MCEntityID
    NumWorkers = 2
    NULL = NULL
INVARIANTS
    TypeOK
    MutualExclusion
    KeyOccupiedIffHeld
    RepliesOvertakeOnlyReleased
PROPERTIES
    ServedSerially
\* Every request is made once; when all are presented the model stops.
CHECK_DEADLOCK FALSE
