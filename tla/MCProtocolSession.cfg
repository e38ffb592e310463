SPECIFICATION TwinSpec
CONSTANTS
    src = src
    dst = dst
    extra = extra
    o1 = o1
    b1 = b1
    f1 = f1
    gpu = gpu
    x = x
    queue = queue
    stranger = stranger
    NoResource = NoResource
    NoOp = NoOp
    NoFrame = NoFrame
    Identity = Identity
    NoIdentity = NoIdentity
    ResourceId = {src, dst, extra}
    OperationId <- MCOperationId
    FrameId = {f1}
    Alias = {x}
    Layer = {gpu}
    Size = {4, 5, 15}
    FloatBits = 2
    WireBits = 4
    Queue = {queue}
    BatchId = {b1}
    ResourceLimit = 2
    OperationLimit = 2
    MaxSequence = 9
    Frames <- MCFrames
INVARIANTS
    CoreIsAnswered
    GrantedBeforeUse
    SessionsAgree
    DecisionsAreSent
PROPERTIES
    ActsOncePerSequence
    NegotiatedOnce
