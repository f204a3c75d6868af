SPECIFICATION FairSpec
CONSTANTS
    c1 = c1
    c2 = c2
    m1 = m1
    queue = queue
    jabber_connections = jabber_connections
    to_close = to_close
    NULL = NULL
    Clients = {c1, c2}
    Messages = {m1}
    Values = {c1, c2, m1}
    HashValues = {c1, c2}
    Lists = {jabber_connections, to_close, queue}
    Keys = {1, 3}
    hash_function <- MCHash
    prime_numbers <- MCPrimes
    ALLOCATOR_BLOCK_SIZE = 2
    alloc_step = 2
    MaxObjects = 6
    MaxNodes = 3
INVARIANTS
    TypeOK
    NoObjectSharedOrLost
    RingsClosed
    HashConsistent
    RegistryAgrees
PROPERTIES
    MallocOnlyWhenNeeded
    ImplementsValueLists
    HashImplementsMap
    PassClosesExpired
    CheckTerminates
CHECK_DEADLOCK FALSE
