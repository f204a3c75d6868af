SPECIFICATION Spec
CONSTANTS
    RotateSizes = {0, 1, 2}
    MaxLines = 3
    MaxSignals = 3
    MaxSeconds = 1
INVARIANTS
    
    RotatedInTime
    LostOnlyByOverwriting
CHECK_DEADLOCK FALSE
