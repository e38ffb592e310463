------------------------------ MODULE CoreOps ------------------------------
(***************************************************************************)
(* The decision core of the native gateway (native/src/core.cpp, class     *)
(* State) as operators on a core record                                    *)
(*                                                                         *)
(*   resources     registered id -> aliases, memory layer, copy, allocation*)
(*   operations    processed id  -> what StoredOperation keeps             *)
(*   currentFrame  the open frame, or NoFrame                              *)
(*                                                                         *)
(* Strings, sizes and queues are only ever compared for equality by the    *)
(* core, so they are members of constant sets.  A pointer to a stored      *)
(* operation is its id: the map the pointers lead into never erases.       *)
(***************************************************************************)
EXTENDS Naturals, FiniteSets

CONSTANTS
    ResourceId,      \* ids a client may register or name
    NoResource,      \* the empty source or target string
    OperationId,
    NoOp,            \* the null StoredOperation pointer
    FrameId,
    NoFrame,         \* the empty optional frame
    Alias,           \* alias names
    Layer,           \* memory layers
    Size, Queue,
    ResourceLimit,   \* resource_limit, 4096 in the code
    OperationLimit   \* operation_limit, 16384 in the code

ASSUME NullsAreNotIds ==
    /\ NoResource \notin ResourceId
    /\ NoOp \notin OperationId
    /\ NoFrame \notin FrameId

ASSUME LimitsArePositive ==
    /\ ResourceLimit \in Nat \ {0}
    /\ OperationLimit \in Nat \ {0}

OperationType ==
    {"copy", "sync", "allocate", "upload", "present", "compute", "draw"}

Transfers == {"copy", "upload"}
Writers == {"copy", "upload", "allocate", "compute", "draw"}

Opcode == {"keep", "self_copy", "dedupe", "collapse_alias", "orphan_sync",
           "empty_sync", "reuse_allocation"}

View == [memory : Layer, aliases : SUBSET Alias]

Resource == [memory : Layer, aliases : SUBSET Alias,
             copy : OperationId \cup {NoOp},
             allocation : OperationId \cup {NoOp}]

\* An operation as it arrives, without its id.  idle stands for zero
\* microseconds, transient for a reason that names a transient buffer.
Request == [type : OperationType,
            source : ResourceId \cup {NoResource},
            target : ResourceId \cup {NoResource},
            frame : FrameId \cup {NoFrame},
            bytes : Size, queue : Queue,
            deps : SUBSET OperationId,
            idle : BOOLEAN, transient : BOOLEAN]

StoredOperation == [source : ResourceId \cup {NoResource},
                    target : ResourceId \cup {NoResource},
                    frame : FrameId \cup {NoFrame},
                    bytes : Size, queue : Queue,
                    replacements : SUBSET OperationId,
                    removed : BOOLEAN, eliminated : BOOLEAN]

IsCore(c) ==
    /\ c = [resources |-> c.resources, operations |-> c.operations,
            currentFrame |-> c.currentFrame]
    /\ DOMAIN c.resources \subseteq ResourceId
    /\ c.resources \in [DOMAIN c.resources -> Resource]
    /\ DOMAIN c.operations \subseteq OperationId
    /\ c.operations \in [DOMAIN c.operations -> StoredOperation]
    /\ c.currentFrame \in FrameId \cup {NoFrame}

EmptyCore == [resources |-> [r \in {} |-> {}],
              operations |-> [o \in {} |-> {}],
              currentFrame |-> NoFrame]

Registered(c) == DOMAIN c.resources
Processed(c) == DOMAIN c.operations

\* f with x mapped to v, whether or not x was in its domain.
Bind(f, x, v) == [y \in DOMAIN f \cup {x} |-> IF y = x THEN v ELSE f[y]]

-----------------------------------------------------------------------------
(* Frames.                                                                 *)

CanBeginFrame(c) == c.currentFrame = NoFrame
CanEndFrame(c, f) == c.currentFrame = f
CanEndSession(c) == c.currentFrame = NoFrame

BeginFrame(c, f) == [c EXCEPT !.currentFrame = f]
EndFrame(c) == [c EXCEPT !.currentFrame = NoFrame]

-----------------------------------------------------------------------------
(* Resources and the provenance their copy pointers record.                *)

AliasesIntersect(a, b) ==
    /\ a.memory = b.memory
    /\ a.aliases \cap b.aliases # {}

\* S contains every registered view that shares a name with a view in S.
AliasClosed(c, S) ==
    \A r \in S, s \in Registered(c) :
        AliasesIntersect(c.resources[r], c.resources[s]) => s \in S

\* The views that reach the registered resource id through shared names: what
\* the worklist of State::invalidate collects.
Affected(c, id) ==
    {r \in Registered(c) :
        \A S \in SUBSET Registered(c) :
            id \in S /\ AliasClosed(c, S) => r \in S}

\* A faulty variant, for the check that the properties notice it: sources are
\* forgotten.
RetiredByTargetOnly(c, id, r) == id \notin Registered(c) \/ r \in Affected(c, id)

\* Whether a write to id retires the copy that resource r remembers.
Retired(c, id, r) ==
    LET copy == c.resources[r].copy
    IN  \/ id \notin Registered(c)
        \/ r \in Affected(c, id)
        \/ /\ copy # NoOp
           /\ c.operations[copy].source \in Registered(c)
           /\ c.operations[copy].source \in Affected(c, id)

Invalidate(c, id) ==
    [c EXCEPT !.resources =
        [r \in Registered(c) |->
            IF Retired(c, id, r) THEN [c.resources[r] EXCEPT !.copy = NoOp]
                                 ELSE c.resources[r]]]

CanRegister(c, id) == id \notin Registered(c)
ResourceTableFull(c) == Cardinality(Registered(c)) = ResourceLimit

RegisterResource(c, id, view) ==
    [c EXCEPT !.resources =
        Bind(c.resources, id, [memory |-> view.memory, aliases |-> view.aliases,
                               copy |-> NoOp, allocation |-> NoOp])]

\* A faulty variant, for the check that the properties notice it: provenance is
\* retired and the resource stays.
ReleaseKeepsResource(c, id) == Invalidate(c, id)

ReleaseResource(c, id) ==
    LET retired == Invalidate(c, id)
    IN  [retired EXCEPT !.resources =
            [r \in Registered(c) \ {id} |-> retired.resources[r]]]

-----------------------------------------------------------------------------
(* Operations.                                                             *)

\* A faulty variant, for the check that the properties notice it: ids are reused.
CanProcessAgain(c, id) == TRUE

CanProcess(c, id) == id \notin Processed(c)
\* A faulty variant, for the check that the properties notice it: off by one.
OperationTableOverfull(c) == Cardinality(Processed(c)) > OperationLimit

OperationTableFull(c) == Cardinality(Processed(c)) = OperationLimit

\* The frame an operation belongs to: its own, else the open one.
FrameOf(c, op) == IF op.frame = NoFrame THEN c.currentFrame ELSE op.frame

Endpoints(c, op) == /\ op.type \in Transfers
                    /\ op.source \in Registered(c)
                    /\ op.target \in Registered(c)

SelfCopy(c, op) == Endpoints(c, op) /\ op.source = op.target

CollapsesAlias(c, op) ==
    /\ Endpoints(c, op)
    /\ op.source # op.target
    /\ AliasesIntersect(c.resources[op.source], c.resources[op.target])

\* A faulty variant, for the check that the properties notice it: frames and queues
\* are not compared.
RepeatsCopyInAnyFrame(c, op) ==
    /\ Endpoints(c, op)
    /\ op.source # op.target
    /\ ~AliasesIntersect(c.resources[op.source], c.resources[op.target])
    /\ LET previous == c.resources[op.target].copy
       IN  /\ previous # NoOp
           /\ c.operations[previous].source = op.source
           /\ c.operations[previous].bytes = op.bytes

RepeatsCopy(c, op) ==
    /\ Endpoints(c, op)
    /\ op.source # op.target
    /\ ~AliasesIntersect(c.resources[op.source], c.resources[op.target])
    /\ LET previous == c.resources[op.target].copy
       IN  /\ previous # NoOp
           /\ c.operations[previous].source = op.source
           /\ c.operations[previous].bytes = op.bytes
           /\ c.operations[previous].frame = FrameOf(c, op)
           /\ c.operations[previous].queue = op.queue

\* A faulty variant, for the check that the properties notice it: waits on a
\* duplicate are dropped although the retained transfer still runs.
OrphanSyncOfEliminated(c, op) ==
    /\ op.type = "sync"
    /\ op.deps # {}
    /\ \A d \in op.deps : d \in Processed(c) /\ c.operations[d].eliminated

OrphanSync(c, op) ==
    /\ op.type = "sync"
    /\ op.deps # {}
    /\ \A d \in op.deps : d \in Processed(c) /\ c.operations[d].removed

EmptySync(c, op) == op.type = "sync" /\ op.idle /\ op.deps = {}

ReusesAllocation(c, op) ==
    /\ op.type = "allocate"
    /\ op.target \in Registered(c)
    /\ op.transient
    /\ LET previous == c.resources[op.target].allocation
       IN  /\ previous # NoOp
           /\ c.operations[previous].bytes = op.bytes
           /\ c.operations[previous].frame = FrameOf(c, op)

Decide(c, op) ==
    CASE SelfCopy(c, op) -> "self_copy"
      [] CollapsesAlias(c, op) -> "collapse_alias"
      [] RepeatsCopy(c, op) -> "dedupe"
      [] OrphanSync(c, op) -> "orphan_sync"
      [] EmptySync(c, op) -> "empty_sync"
      [] ReusesAllocation(c, op) -> "reuse_allocation"
      [] OTHER -> "keep"

\* The stored operation that keeps doing the work of an eliminated one.
Retained(c, op) ==
    CASE CollapsesAlias(c, op) -> c.resources[op.source].copy
      [] RepeatsCopy(c, op) -> c.resources[op.target].copy
      [] ReusesAllocation(c, op) -> c.resources[op.target].allocation
      [] OTHER -> NoOp

\* What stands in for dependency d: an eliminated operation's replacements,
\* or d itself, also when d has not been seen yet.
StandIns(c, d) ==
    IF d \in Processed(c) /\ c.operations[d].eliminated
    THEN c.operations[d].replacements
    ELSE {d}

\* A faulty variant, for the check that the properties notice it: the retained
\* operation is not waited for.
ReplacementsOfDependencies(c, op) == UNION {StandIns(c, d) : d \in op.deps}

Replacements(c, op) ==
    ({Retained(c, op)} \ {NoOp}) \cup UNION {StandIns(c, d) : d \in op.deps}

Record(c, op, eliminated, replacements, removed) ==
    [source |-> op.source, target |-> op.target, frame |-> FrameOf(c, op),
     bytes |-> op.bytes, queue |-> op.queue, replacements |-> replacements,
     removed |-> removed, eliminated |-> eliminated]

Store(c, id, record) == [c EXCEPT !.operations = Bind(c.operations, id, record)]

\* A faulty variant, for the check that the properties notice it: only executed
\* operations are stored.
EliminateForgets(c, id, op) == c

Eliminate(c, id, op) ==
    Store(c, id, Record(c, op, TRUE, Replacements(c, op), Replacements(c, op) = {}))

\* A faulty variant, for the check that the properties notice it: only transfers are
\* writes.
OverwrittenByTransfers(c, op) ==
    IF op.type \in Transfers THEN Invalidate(c, op.target) ELSE c

\* The core with what op overwrites no longer remembered.
Overwritten(c, op) == IF op.type \in Writers THEN Invalidate(c, op.target) ELSE c

\* The pointers of the target of op once it has executed as operation id.
Remember(resource, id, op) ==
    [resource EXCEPT !.copy = IF op.type \in Transfers THEN id ELSE @,
                     !.allocation = IF op.type = "allocate" THEN id ELSE @]

Execute(c, id, op) ==
    LET d == Store(Overwritten(c, op), id, Record(c, op, FALSE, {}, FALSE))
    IN  [d EXCEPT !.resources =
            [r \in Registered(c) |->
                IF r = op.target THEN Remember(d.resources[r], id, op) ELSE d.resources[r]]]

Process(c, id, op) ==
    IF Decide(c, op) = "keep" THEN Execute(c, id, op) ELSE Eliminate(c, id, op)

\* Where an exhausted memory budget can leave Process: the operation not
\* stored, or stored as eliminated with only a part of its replacements.
ProcessCutShort(c, id, op) ==
    {c} \cup
    {Store(c, id, Record(c, op, TRUE, some, FALSE)) :
        some \in IF Decide(c, op) = "keep" THEN {}
                 ELSE (SUBSET Replacements(c, op)) \ {Replacements(c, op)}}
=============================================================================
