SPECIFICATION LoopSpec
CONSTANTS
    ResourceId = {r1, r2, r3, r4}
    NoResource = NoResource
    OperationId = {}
    NoOp = NoOp
    FrameId = {}
    NoFrame = NoFrame
    Alias = {x, y, z}
    Layer = {gpu}
    Size = {}
    Queue = {}
    ResourceLimit = 4
    OperationLimit = 1
INVARIANTS
    LoopComputesAffected
PROPERTIES
    LoopProgresses
CHECK_DEADLOCK FALSE
