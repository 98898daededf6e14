SPECIFICATION Spec
CONSTANTS
    Conns = {c1, c2, c3, c4}
    Handles = {h1, h2, h3, h4}
    ListenSocket = ls
    RoomNames = {r1}
    Commands = {}
    FD_SETSIZE = 3
    LengthBytes = 1
    FrameBytes = 1
    Pipeline = 1
    ReuseHandles = TRUE
    Faults = {"reset"}
    NoClient = NoClient
    NoSocket = NoSocket
    Stray = Stray
CHECK_DEADLOCK FALSE
INVARIANTS
    TypeOK
    TableOwnsSockets
    NoSocketLeak
SYMMETRY Symmetry
