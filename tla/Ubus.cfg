SPECIFICATION FairSpec
CONSTANTS
    MaxConn = 2
    MaxReq = 3
    MaxLine = 3
    LineCap = 1
    FrameCap = 2
    Path <- MCPath
    Method <- MCMethod
    NoPath = ""
    Builtins <- MCBuiltins
    Requests <- AllRequests
INVARIANTS TypeOK RegistryConsistent ExactlyOneAnswer CallsRouted EventsInOrder
PROPERTIES LockReleased EveryCallSettles
CHECK_DEADLOCK FALSE
