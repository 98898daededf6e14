SPECIFICATION FairSpec
CONSTANTS
    LengthBytes = 2
    FrameLengths = {2, 3, 5}
    Capacity = 4
    MaxCommands = 2
    Pipeline = 2
    ShortSends = TRUE
    SpuriousReady = TRUE
INVARIANTS
    TypeOK
    CommandsIntact
    InBounds
    BufferHoldsPrefix
PROPERTIES
    WaitingClientServed
CHECK_DEADLOCK FALSE
