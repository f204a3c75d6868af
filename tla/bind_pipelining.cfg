SPECIFICATION Spec
CONSTANTS
    Conns = {c1}
    Clients = {s1, s2}
    Waits = {2}
    SessionTimeout = 2
    MaxIdle = 2
    MaxQueue = 1
    Pipelining = TRUE
    MayRefuse = FALSE
    NULL = NULL
INVARIANT
    HeldConnectionAllocated
