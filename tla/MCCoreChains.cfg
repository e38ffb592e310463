SPECIFICATION TwinSpec
CONSTANTS
    src = src
    dst = dst
    peer = peer
    o1 = o1
    o2 = o2
    o3 = o3
    f1 = f1
    gpu = gpu
    x = x
    y = y
    queue = queue
    NoResource = NoResource
    NoOp = NoOp
    NoFrame = NoFrame
    FrameId = {f1}
    Alias = {x, y}
    Layer = {gpu}
    Size = {4}
    FloatBits = 2
    WireBits = 4
    Queue = {queue}
    ResourceId = {src, dst}
    OperationId = {o1, o2, o3}
    ResourceLimit = 2
    OperationLimit = 3
    Requests <- ChainRequests
    Views <- PlainViews
INVARIANTS
    AllocationProvenance
    RemovedIsClosed
PROPERTIES
    DecisionsAreFinal
CHECK_DEADLOCK FALSE
