SPECIFICATION Spec
CONSTANTS
    WorkerCount = 2
    Connection = {c1, c2, c3}
    NoSocket = NoSocket
    InitialDeadline = 1
    IdleDeadline = 2
    FrameDeadline = 2
    SendDeadline = 1
    Pieces = 2
INVARIANTS
    SocketsHaveOneOwner
    StalledClientsAreDropped
    ShutdownIsPrompt
PROPERTIES
    ShutdownCompletes
    AcceptedIsAttended
CHECK_DEADLOCK FALSE
