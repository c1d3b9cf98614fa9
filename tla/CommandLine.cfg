CONSTANTS
    BlockSz = 4
    Blocks = 2
    BytesPerLine = 2
    Width16 = 16
    Width32 = 256
    Typed = {"help", "lfs_dump", "lfs_erase", "lfs_ls", "0", "-1", "16", " ", "newline", "return", "backspace"}
    MaxInput = 4
    MaxOutput = 2
    RingSize = 2
    Drain = 2
    Tries = 2
SPECIFICATION FairSpec
INVARIANTS
    AnswersTheLine
    FreshStart
    ParametersAreWords
    DumpShowsTheBlock
    EraseIsExact
    GivesUpOnlyWhenHeld
PROPERTY PromptReturns
CHECK_DEADLOCK FALSE
