CONSTANTS
    Size = 4
    Char <- MCChar
    Zero = 0
    FifoDepth = 3
    MaxBytes = 8
    Counts = {1, 2}
    Window = 100
SPECIFICATION FairSpec
INVARIANTS
    TailNeverPassesHead
    ExactUnlessRaced
    TheNewestAreHeld
PROPERTY Drained
CHECK_DEADLOCK FALSE
