SPECIFICATION FairSpec
CONSTANTS
    Conns = {c1, c2}
    Clients = {s1, s2}
    Waits = {1}
    SessionTimeout = 1
    MaxIdle = 2
    MaxQueue = 1
    Pipelining = FALSE
    MayRefuse = FALSE
    NULL = NULL
PROPERTIES
    RequestAnswered
    IdleSessionReaped
    StopsAfterSignal
