SPECIFICATION Spec
CONSTANTS
    Processes = {1, 2}
    MaxRuns = 2
    MaxCycles = 2
    SessionIds <- MCSessionIds
    SessionOf <- MCSessionOf
    PathLists <- MCPathLists
    Hosts <- MCHosts
INVARIANTS
    DispatchHonoursTheSession
    PressureClosesTheCopyQueue
    EscalationHoldsPromotion
    OnlyEvidencedWorkAdvances
PROPERTIES
    StateFileHoldsAWholeRun
CHECK_DEADLOCK FALSE
