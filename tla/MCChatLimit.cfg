SPECIFICATION Spec
CONSTANTS
    Conns = {c1, c2, c3}
    Handles = {h1, h2, h3}
    ListenSocket = ls
    RoomNames = {r1}
    Commands <- OneCommand
    FD_SETSIZE = 3
    LengthBytes = 1
    FrameBytes = 1
    Pipeline = 1
    ReuseHandles = FALSE
    Faults = {}
    NoClient = NoClient
    NoSocket = NoSocket
    Stray = Stray
CHECK_DEADLOCK FALSE
INVARIANT
    EveryClientWatched
