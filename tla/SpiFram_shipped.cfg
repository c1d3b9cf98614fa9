CONSTANTS
    t1 = t1
    t2 = t2
    Callers <- MCTasks
    MaxCalls <- MCOneEach
    MbxSize = 3
    SpiTimeout = 2
    FramTimeout = 2
    NoOne = NoOne
SPECIFICATION FairSpec
INVARIANTS
    WriteOkMeansStored
    NoFalseAlarm
    DmaEndsInTheCall
PROPERTY EveryCallReturns
CHECK_DEADLOCK FALSE
