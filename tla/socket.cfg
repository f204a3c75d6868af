SPECIFICATION FairSpec
CONSTANTS
    MaxBytes = 5
    MaxLen = 3
    MayRefuse = TRUE
    StaleEvents = TRUE
INVARIANTS
    TypeOK
    StatusMatchesFd
    BytesInOrder
    NothingLost
    NoLostWakeup
    NeverDeaf
PROPERTY
    EveryByteSent
