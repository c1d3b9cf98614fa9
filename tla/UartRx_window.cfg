CONSTANTS
    Size = 4
    Char <- MCChar
    Zero = 0
    FifoDepth = 3
    MaxBytes = 9
    Counts = {1, 2}
    Window = 3
SPECIFICATION FairSpec
PROPERTY ImplementsByteStream
CHECK_DEADLOCK FALSE
