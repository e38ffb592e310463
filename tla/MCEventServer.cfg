SPECIFICATION Spec
CONSTANTS
    Connection = {c1, c2}
    NoConnection = NoConnection
    MaxActive = 1
    InitialDeadline = 1
    FrameDeadline = 2
    IdleTimeout = 3
    MaxBuffered = 1
INVARIANTS
    SlotsAddUp
    StalledClientsAreDropped
    DoneIsQuiet
PROPERTIES
    ShutdownCompletes
CHECK_DEADLOCK FALSE
