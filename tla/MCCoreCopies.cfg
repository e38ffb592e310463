SPECIFICATION TwinSpec
CONSTANTS
    src = src
    dst = dst
    peer = peer
    o1 = o1
    o2 = o2
    o3 = o3
    f1 = f1
    gpu = gpu
    x = x
    y = y
    queue = queue
    NoResource = NoResource
    NoOp = NoOp
    NoFrame = NoFrame
    FrameId = {f1}
    Alias = {x, y}
    Layer = {gpu}
    Size = {4, 5}
    FloatBits = 2
    WireBits = 4
    Queue = {queue}
    ResourceId = {src, dst, peer}
    OperationId = {o1, o2, o3}
    ResourceLimit = 3
    OperationLimit = 3
    Requests <- CopyRequests
    Views <- MCViews
SYMMETRY CopySymmetry
INVARIANTS
    TypeOK
    CopyProvenance
    RetainedWasExecuted
    TwinsAgree
PROPERTIES
    DedupeIsSound
CHECK_DEADLOCK FALSE
