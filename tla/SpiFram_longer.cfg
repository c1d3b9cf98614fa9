CONSTANTS
    t1 = t1
    t2 = t2
    Callers <- MCTasks
    MaxCalls <- MCTwoAndOne
    MbxSize = 3
    SpiTimeout = 2
    FramTimeout = 5
    NoOne = NoOne
SPECIFICATION Spec
INVARIANTS
    OkMeansTransferred
    NoDeadFrameWrite
CHECK_DEADLOCK FALSE
