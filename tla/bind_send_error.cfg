SPECIFICATION Spec
CONSTANTS
    Conns = {c1, c2}
    Clients = {s1}
    Waits = {2}
    SessionTimeout = 2
    MaxIdle = 2
    MaxQueue = 1
    Pipelining = FALSE
    MayRefuse = FALSE
    NULL = NULL
INVARIANT
    ClosedSocketsAreReported
