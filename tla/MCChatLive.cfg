SPECIFICATION FairSpec
CONSTANTS
    Conns = {c1, c2}
    Handles = {h1, h2}
    ListenSocket = ls
    RoomNames = {r1}
    Commands <- OtherCommands
    FD_SETSIZE = 3
    LengthBytes = 1
    FrameBytes = 2
    Pipeline = 1
    ReuseHandles = FALSE
    Faults = {"reset", "ioctl", "select", "send", "database", "wouldblock"}
    NoClient = NoClient
    NoSocket = NoSocket
    Stray = Stray
CHECK_DEADLOCK FALSE
INVARIANTS
    TableOwnsSockets
PROPERTIES
    CommandsServed
    ClientsReaped
