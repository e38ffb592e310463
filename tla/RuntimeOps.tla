----------------------------- MODULE RuntimeOps -----------------------------
(***************************************************************************)
(* The Python decision state (fluidgateway/runtime.py, class               *)
(* RuntimeOptimizationState) as operators on a record                      *)
(*                                                                         *)
(*   resources     registered id -> its view                               *)
(*   lastCopy      target -> the transfer that filled it                   *)
(*   activeBuffers <<target, size>> -> the allocation that made it         *)
(*   replacements  eliminated id -> what stands in for it                  *)
(*   removed       eliminated ids that left nothing behind                 *)
(*   ids           every processed id                                      *)
(*                                                                         *)
(* The constants and the fields of a request are those of CoreOps, with    *)
(* size_mb in the field bytes: a size as the handler is given it, a float  *)
(* once the wire was decoded (TwinOps.Decoded).  A remembered operation    *)
(* keeps the fields that are read again.                                   *)
(***************************************************************************)
EXTENDS CoreOps

EmptyState == [resources |-> [r \in {} |-> {}],
               lastCopy |-> [r \in {} |-> {}],
               activeBuffers |-> [k \in {} |-> {}],
               replacements |-> [o \in {} |-> {}],
               removed |-> {},
               ids |-> {}]

Known(s) == DOMAIN s.resources

\* f without the points of S.
Without(f, S) == [x \in DOMAIN f \ S |-> f[x]]

Operation(id, op, frame) ==
    [id |-> id, source |-> op.source, size |-> op.bytes, frame |-> frame, queue |-> op.queue]

-----------------------------------------------------------------------------
(* Resources.                                                              *)

SharesData(a, b) == a.memory = b.memory /\ a.aliases \cap b.aliases # {}

\* The views connected to id by shared data: affected, once pending is empty.
Connected(s, id) ==
    {r \in Known(s) :
        \A S \in SUBSET Known(s) :
            /\ id \in S
            /\ \A a \in S, b \in Known(s) : SharesData(s.resources[a], s.resources[b]) => b \in S
            => r \in S}

\* A faulty variant, for the check that the properties notice it: a write to the
\* source of a remembered transfer is overlooked.
InvalidateTargetOnly(s, id) ==
    IF id \notin Known(s)
    THEN [s EXCEPT !.lastCopy = Without(@, DOMAIN @)]
    ELSE [s EXCEPT !.lastCopy = Without(@, Connected(s, id))]

\* What may have been written through a resource nobody registered is anything.
InvalidateResource(s, id) ==
    IF id \notin Known(s)
    THEN [s EXCEPT !.lastCopy = Without(@, DOMAIN @)]
    ELSE LET affected == Connected(s, id)
             stale == {t \in DOMAIN s.lastCopy :
                          t \in affected \/ s.lastCopy[t].source \in affected}
         IN  [s EXCEPT !.lastCopy = Without(@, stale)]

BuffersOf(s, id) == {key \in DOMAIN s.activeBuffers : key[1] = id}

ReleaseState(s, id) ==
    [InvalidateResource(s, id) EXCEPT
        !.activeBuffers = Without(@, BuffersOf(s, id)),
        !.resources = Without(@, {id})]

\* Of the controller: a registered id is refused.
RegisterState(s, id, view) == [s EXCEPT !.resources = Bind(@, id, view)]

-----------------------------------------------------------------------------
(* Decisions.                                                              *)

KnownEndpoints(s, op) ==
    op.type \in Transfers /\ op.source \in Known(s) /\ op.target \in Known(s)

EliminatesSelfCopy(s, op) == KnownEndpoints(s, op) /\ op.source = op.target

CollapsesAliasedCopy(s, op) ==
    /\ KnownEndpoints(s, op)
    /\ SharesData(s.resources[op.target], s.resources[op.source])

DeduplicatesTransfer(s, op, frame) ==
    /\ KnownEndpoints(s, op)
    /\ op.target \in DOMAIN s.lastCopy
    /\ LET previous == s.lastCopy[op.target]
       IN  /\ previous.source = op.source
           /\ previous.size = op.bytes
           /\ previous.frame = frame
           /\ previous.queue = op.queue

RemovesOrphanSync(s, op) == op.type = "sync" /\ op.deps # {} /\ op.deps \subseteq s.removed
RemovesEmptySync(op) == op.type = "sync" /\ op.idle /\ op.deps = {}

ReusesBuffer(s, op, frame) ==
    LET key == <<op.target, op.bytes>>
    IN  /\ op.type = "allocate"
        /\ key \in DOMAIN s.activeBuffers
        /\ s.activeBuffers[key].frame = frame
        /\ op.transient

DecideOperation(s, op, frame) ==
    CASE EliminatesSelfCopy(s, op) -> "eliminate-self-copy"
      [] CollapsesAliasedCopy(s, op) /\ ~EliminatesSelfCopy(s, op)
           -> "collapse-aliased-resource-copy"
      [] /\ DeduplicatesTransfer(s, op, frame)
         /\ ~EliminatesSelfCopy(s, op)
         /\ ~CollapsesAliasedCopy(s, op)
           -> "deduplicate-identical-transfer"
      [] RemovesOrphanSync(s, op) -> "remove-orphan-sync"
      [] RemovesEmptySync(op) -> "remove-empty-sync"
      [] ReusesBuffer(s, op, frame) -> "reuse-transient-buffer"
      [] OTHER -> "none"

\* The operation that keeps doing the work, as a set of at most one.
RetainedBy(s, op, policy) ==
    CASE policy = "deduplicate-identical-transfer" -> {s.lastCopy[op.target].id}
      [] policy = "reuse-transient-buffer" -> {s.activeBuffers[<<op.target, op.bytes>>].id}
      [] /\ policy = "collapse-aliased-resource-copy"
         /\ op.source \in DOMAIN s.lastCopy -> {s.lastCopy[op.source].id}
      [] OTHER -> {}

Dependencies(s, op) ==
    UNION {IF d \in DOMAIN s.replacements THEN s.replacements[d] ELSE {d} : d \in op.deps}

-----------------------------------------------------------------------------
(* RuntimeOptimizationState.process                                        *)

EliminateState(s, id, op, policy) ==
    LET replacements == RetainedBy(s, op, policy) \cup Dependencies(s, op)
    IN  [s EXCEPT !.ids = @ \cup {id},
                  !.replacements = Bind(@, id, replacements),
                  !.removed = IF replacements = {} THEN @ \cup {id} ELSE @]

ExecuteState(s, id, op, frame) ==
    LET w == IF op.type \in Writers THEN InvalidateResource(s, op.target) ELSE s
    IN  [w EXCEPT
            !.ids = @ \cup {id},
            !.lastCopy = IF op.type \in Transfers /\ op.target \in Known(s)
                         THEN Bind(@, op.target, Operation(id, op, frame)) ELSE @,
            !.activeBuffers =
                IF op.type = "allocate" /\ op.target \in Known(s)
                THEN Bind(Without(@, BuffersOf(s, op.target)),
                          <<op.target, op.bytes>>, Operation(id, op, frame))
                ELSE @]

ProcessState(s, id, op, frame) ==
    LET policy == DecideOperation(s, op, frame)
    IN  IF policy = "none" THEN ExecuteState(s, id, op, frame)
        ELSE EliminateState(s, id, op, policy)
=============================================================================
