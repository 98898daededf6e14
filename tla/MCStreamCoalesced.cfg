SPECIFICATION FairSpec
CONSTANTS
    LengthBytes = 1
    FrameLengths = {2}
    Capacity = 8
    MaxCommands = 2
    Pipeline = 2
    ShortSends = FALSE
    SpuriousReady = FALSE
PROPERTY
    EveryCommandHandled
CHECK_DEADLOCK FALSE
