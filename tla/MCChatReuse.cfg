SPECIFICATION Spec
CONSTANTS
    Conns = {c1, c2, c3}
    Handles = {h1, h2}
    ListenSocket = ls
    RoomNames = {r1}
    Commands <- OneCommand
    FD_SETSIZE = 4
    LengthBytes = 1
    FrameBytes = 1
    Pipeline = 1
    ReuseHandles = TRUE
    Faults = {}
    NoClient = NoClient
    NoSocket = NoSocket
    Stray = Stray
CHECK_DEADLOCK FALSE
INVARIANT
    OnlyMembersHear
