CONSTANTS
    c1 = c1
    c2 = c2
    None = None
    Connections <- MCConnections
SPECIFICATION Spec
INVARIANTS
    TypeOK
    SweepSeesCache
    ServedIsSwept
    LateServesNothing
    NoneLeftWaiting
PROPERTIES
    ShutdownReturned
    EverySessionEnds
    EveryConnectionServed
    RemovedIsStopped
