SPECIFICATION FairSpec
CONSTANTS
    d = d
    m = m
    a = a
    b = b
    c = c
    Processes <- MCProcesses
    componentType <- MCComponentType
    componentID <- MCComponentID
    MayStop = {d}
    MayCrash = {a}
    MaxApps = 2
    idBegin = 1
    range_step = 1
INVARIANTS
    StartupTypeOK
    NextIdIsFresh
    OneServerPerIdentity
    DbmgrIsKnown
    DbmgrOutlivesApps
    AppsKnowEachOther
PROPERTIES
    BaseappBecomesReady
    ServersEnd
\* Servers that have ended stay so.
CHECK_DEADLOCK FALSE
