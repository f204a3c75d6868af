SPECIFICATION Spec
CONSTANTS
    Conns = {c1, c2, c3}
    Clients = {s1, s2}
    Waits <- MCWaits
    SessionTimeout = 3
    MaxIdle = 3
    MaxQueue = 1
    Pipelining = FALSE
    MayRefuse = TRUE
    NULL = NULL
SYMMETRY Symmetry
INVARIANTS
    TypeOK
    RegistryConsistent
    PendingConnectionOpen
    CallbackPointsToHolder
    OneAnswerPerRequest
    NoMessageBehindRequest
    NeverOversleeps
PROPERTIES
    ImplementsBoshSession
