CONSTANTS
    Size = 4
    Char <- MCChar
    Zero = 0
    FifoDepth = 2
    MaxBytes = 8
    Counts = {1, 3, 6}
    Transit = FALSE
SPECIFICATION FairSpec
INVARIANTS
    InOrder
    SendDoneMeansSent
PROPERTIES
    ImplementsByteStream
    GoesQuiet
CHECK_DEADLOCK FALSE
