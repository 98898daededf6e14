SPECIFICATION Spec
CONSTANTS
    BufferSize = 19
    MaxText = 1
    Lines <- TypedLines
    Texts <- SentTexts
    MaxMessages = 2
    MaxAddresses = 2
CHECK_DEADLOCK FALSE
INVARIANTS
    TypeOK
    StartupGivesBack
    LoopsAreReady
    PrintedInOrder
    NothingLost
PROPERTIES
    StaysInBounds
    CommandsUnderstood
    ResetEnds
    ClientSettles
    ClientEnds
    MessagesShown
