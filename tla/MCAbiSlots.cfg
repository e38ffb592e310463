SPECIFICATION Spec
CONSTANTS
    Thread = {t1, t2}
    NoThread = NoThread
    SlotCount = 2
    MaxGeneration = 2
    MaxCalls = 4
INVARIANTS
    ReservationIsExact
    CreateAvoidsActive
    CallsReachTheirSession
PROPERTIES
    SessionsEndByTheirHandle
    ImplementsHandleTable
    CallsReturn
CHECK_DEADLOCK FALSE
