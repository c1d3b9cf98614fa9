CONSTANTS
    Fifo = 3
    MbxSize = 2
    Lengths = {1, 3, 4, 6, 8}
    MaxRequests = 3
SPECIFICATION FairSpec
INVARIANTS
    SentAsGiven
    OkMeansExchanged
    SelectedWhileBusy
    FailsOnlyWhenOvertaken
PROPERTY EveryRequestAnswered
CHECK_DEADLOCK FALSE
