SPECIFICATION Spec
CONSTANTS
    ram = ram
    vram = vram
    o1 = o1
    o2 = o2
    o3 = o3
    NoResource = NoResource
    NoOp = NoOp
    NoFrame = NoFrame
    Unset = Unset
    Alias = {}
    Layer = {"ram", "vram"}
    Size = {8}
    Queue = {"copy", "graphics"}
    ResourceId = {ram, vram}
    OperationId = {o1, o2, o3}
    ResourceLimit = 2
    OperationLimit = 3
    DefaultTarget = 16
    HeavyMb = 16
    FrameId = {1}
    Targets = {10}
    MaxEvents = 6
    Requests <- HeldRequests
    Budgets <- MCBudgets
    Views <- MCViews
INVARIANTS
    DedupedWorkHappened
CHECK_DEADLOCK FALSE
