SPECIFICATION FairSpec
CONSTANTS
    HeaderSizes = {2, 5}
    ContentSizes = {0, 2}
    Lengths <- Claims
    MaxRequests = 2
    MaxErrors = 1
    MAX_BUFFER_SIZE = 5
    INT_MAX = 7
    SIZE_MAX = 63
INVARIANTS
    TypeOK
    RequestsWhole
    BufferAligned
    NoRequestStuck
PROPERTY
    RequestHandled
CHECK_DEADLOCK FALSE
