CONSTANTS
    t1 = t1
    t2 = t2
    Callers <- MCTask
    MaxCalls <- MCThree
    MbxSize = 3
    SpiTimeout = 2
    FramTimeout = 2
    NoOne = NoOne
SPECIFICATION Spec
INVARIANT OkMeansTransferred
CHECK_DEADLOCK FALSE
