CONSTANTS
    PACKET_1K_SIZE = 2
    MaxFaults = 0
    Noise = {}
    FailingCalls = {"mount", "open", "write", "close", "stat"}
    MaxErrors = 1
    PacketErrors = 1
    MaxSize = 3
    Polls = 1
    Tries = 2
    Numbers = {1, 2}
    Announced = {3, 4}
    Answers = {6, 21, 24, 67}
    MaxEvents = 6
    MaxAnswers = 8
SPECIFICATION FairSpec
INVARIANTS
    TypeOK
    OnlyInOrder
    BlocksInOrder
    GivesBack
    FlagsTellTheTruth
PROPERTIES
    LiveIsSafe
    UnmountsOnlyItsOwn
    Ends
CHECK_DEADLOCK FALSE
