CONSTANTS
    PACKET_1K_SIZE = 2
    MaxFaults = 2
    Noise = {21, 24, 67, 255}
    FailingCalls = {"write"}
    MaxErrors = 2
    PacketErrors = 2
    MaxSize = 6
    Polls = 1
    Tries = 2
    Patient = FALSE
    Sizes = {3}
    OldSizes = {5}
SPECIFICATION FairSpec
INVARIANTS
    SentMeansReceived
    ReceivedMeansStored
    DamageIsNoticed
PROPERTY BothEnd
CHECK_DEADLOCK FALSE
