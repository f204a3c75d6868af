SPECIFICATION Spec
CONSTANTS
    Conns = {c1}
    Clients = {s1}
    Waits = {2}
    SessionTimeout = 2
    MaxIdle = 2
    MaxQueue = 1
    Pipelining = FALSE
    MayRefuse = TRUE
    NULL = NULL
INVARIANT
    NoCrash
