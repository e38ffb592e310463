SPECIFICATION Spec
CONSTANTS
    Thread = {t1, t2, t3}
    NoThread = NoThread
    SlotCount = 1
    MaxGeneration = 2
    MaxCalls = 2
PROPERTIES
    BusyMeansSameSession
CHECK_DEADLOCK FALSE
