SPECIFICATION ListSpec
CONSTANTS
    NULL = NULL
    Lists = {l}
    Values = {a, b}
    ALLOCATOR_BLOCK_SIZE = 2
    alloc_step = 1
    MaxObjects = 3
PROPERTY
    InsertsAfterElement
CHECK_DEADLOCK FALSE
