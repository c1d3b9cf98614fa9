CONSTANTS
    Size = 4
    Char <- MCChar
    Zero = 0
    FifoDepth = 3
    MaxBytes = 8
    Counts = {1}
    Window = 100
SPECIFICATION Spec
INVARIANT OnlyTheOldestIsLost
CHECK_DEADLOCK FALSE
