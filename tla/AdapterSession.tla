--------------------------- MODULE AdapterSession ---------------------------
(***************************************************************************)
(* One RuntimeAdapterSession (fluidgateway/adapter.py) and the parts it    *)
(* drives on every event: the controller and its optimisation state, the   *)
(* policy engine, the governor, the execution gate and the lifetime        *)
(* planner.  A step is one call of process_event, accepted or refused, or  *)
(* the call of to_result that closes a replay.                             *)
(*                                                                         *)
(* Costs are whole milliseconds and sizes whole megabytes.  A request of   *)
(* this module has a cost besides the fields of CoreOps' Request; a view   *)
(* (a buffer or a texture) has a size and a lifetime.                      *)
(***************************************************************************)
EXTENDS RuntimeOps, FramePlans

CONSTANTS
    Views,           \* [ResourceId -> the views a client registers under it]
    Requests,        \* the operations a client submits
    Targets,         \* the frame targets it asks for, in ms
    Budgets,         \* the memory budgets of a session, functions on layers
    Unset,           \* a payload field that is absent
    DefaultTarget,   \* DEFAULT_FRAME_BUDGET_MS
    HeavyMb,         \* the size from which every transfer is heavy, 16
    MaxEvents        \* bound of the model: events per session

\* runtime.py refuses an operation with another number (nonnegative_number), policy.py
\* ignores another target (number_value).
ASSUME NumbersAreNatural ==
    /\ \A op \in Requests : op.cost \in Nat /\ op.bytes \in Nat
    /\ Targets \cup {DefaultTarget} \subseteq Nat

VARIABLES
    runtime,         \* controller.resources and RuntimeOptimizationState
    executed,        \* controller.executed_operations
    decisions,       \* controller.decisions: eliminated id -> why, where, for what and
                     \* the work it saved
    policy,          \* RuntimePolicyEngine
    frames,          \* frame -> AdapterFrameStats
    currentFrame,
    closed,
    directives,      \* LivePolicyGovernor._emitted, the keys of what it said
    gates,           \* execution_gates: operation -> what the client was told
    lifetime,        \* ResourceLifetimePlanner
    events           \* events_processed

vars == <<runtime, executed, decisions, policy, frames, currentFrame, closed,
          directives, gates, lifetime, events>>

Empty == [x \in {} |-> 0]

Init ==
    /\ runtime = EmptyState
    /\ executed = {}
    /\ decisions = Empty
    /\ policy = [target |-> DefaultTarget, budgets |-> Empty, residents |-> Empty, emitted |-> {}]
    /\ frames = Empty
    /\ currentFrame = NoFrame
    /\ closed = FALSE
    /\ directives = {}
    /\ gates = Empty
    /\ lifetime = [planned |-> Empty, first |-> Empty, last |-> Empty, released |-> {},
                   transfers |-> {}, plan |-> Empty]
    /\ events = 0

-----------------------------------------------------------------------------
(* Frame statistics.                                                       *)

NewStats == [target |-> DefaultTarget, begun |-> FALSE, ended |-> FALSE,
             operations |-> 0, decisions |-> 0, actions |-> 0,
             cost |-> 0, saved |-> 0, transfer |-> 0, queues |-> Empty]

\* _frame_stats creates what it does not find.
WithStats(fs, f) == IF f = NoFrame \/ f \in DOMAIN fs THEN fs ELSE Bind(fs, f, NewStats)

RecordActions(fs, f, actions) ==
    IF f = NoFrame THEN fs
    ELSE [WithStats(fs, f) EXCEPT ![f].actions = @ + Cardinality(actions)]

ChargedQueue(queues, op) ==
    Bind(queues, op.queue, op.cost + (IF op.queue \in DOMAIN queues THEN queues[op.queue] ELSE 0))

\* A faulty variant: a refused transfer is charged to the frame as well.
ChargeEverything(fs, f, op, kept) ==
    IF f = NoFrame THEN fs
    ELSE [fs EXCEPT
            ![f].operations = @ + 1,
            ![f].decisions = @ + (IF kept THEN 0 ELSE 1),
            ![f].cost = @ + op.cost,
            ![f].transfer = @ + (IF kept /\ op.type \in Transfers THEN op.bytes ELSE 0),
            ![f].queues = IF kept THEN ChargedQueue(@, op) ELSE @,
            ![f].saved = @ + (IF kept THEN 0 ELSE op.cost)]

Charge(fs, f, op, kept) ==
    IF f = NoFrame THEN fs
    ELSE [fs EXCEPT
            ![f].operations = @ + 1,
            ![f].decisions = @ + (IF kept THEN 0 ELSE 1),
            ![f].cost = @ + (IF kept THEN op.cost ELSE 0),
            ![f].transfer = @ + (IF kept /\ op.type \in Transfers THEN op.bytes ELSE 0),
            ![f].queues = IF kept THEN ChargedQueue(@, op) ELSE @,
            ![f].saved = @ + (IF kept THEN 0 ELSE op.cost)]

-----------------------------------------------------------------------------
(* The policy engine.  An action is known by its id, frame and key, and is *)
(* given once.                                                             *)

MemoryTotal(p, layer) ==
    MapThenSumSet(LAMBDA r : p.residents[r].size,
                  {r \in DOMAIN p.residents : p.residents[r].memory = layer})

OverBudget(p) == {layer \in DOMAIN p.budgets : MemoryTotal(p, layer) > p.budgets[layer]}

\* A target of zero counts as none at the first look, and is taken at the second.
Configure(p, payload) ==
    LET target == IF payload.target \in {Unset, 0} /\ payload.nested # Unset
                  THEN payload.nested ELSE payload.target
    IN  [p EXCEPT !.target = IF target = Unset THEN @ ELSE target,
                  !.budgets = [layer \in DOMAIN @ \cup DOMAIN payload.budgets |->
                                  IF layer \in DOMAIN payload.budgets
                                  THEN payload.budgets[layer] ELSE @[layer]]]

FrameBudget(p, target) == IF target \in {Unset, 0} THEN p.target ELSE target

BudgetActions(p, layer, f) ==
    {<<"budget-pressure", f, layer>> : l \in OverBudget(p) \cap {layer}} \ p.emitted

Heavy(cost, target) == cost >= 1 /\ 5 * cost >= target

TransferActions(p, id, op, kept, f, target) ==
    IF kept /\ op.type \in Transfers /\ Heavy(op.cost, target)
    THEN {<<"late-upload-pressure", f, id>>} \ p.emitted
    ELSE {}

\* A queue of the greatest cost; of several, the one that was charged first.
Busiest(queues) ==
    {q \in DOMAIN queues : \A r \in DOMAIN queues : queues[r] <= queues[q]}

\* The sets of actions that the end of a frame may give.
FinishActions(p, f, stats) ==
    LET over == IF stats.cost > stats.target THEN {<<"frame-budget-pressure", f, "frame-budget">>}
                ELSE {}
        uneven(q) == IF Cardinality(DOMAIN stats.queues) > 1 /\ 4 * stats.queues[q] > 3 * stats.target
                     THEN {<<"queue-imbalance-pressure", f, q>>}
                     ELSE {}
    IN  IF DOMAIN stats.queues = {} THEN {over \ p.emitted}
        ELSE {(over \cup uneven(q)) \ p.emitted : q \in Busiest(stats.queues)}

Emit(p, actions) == [p EXCEPT !.emitted = @ \cup actions]

-----------------------------------------------------------------------------
(* Live command, governor and gate.                                        *)

LiveCommand(op, decided, target) ==
    CASE decided = "reuse-transient-buffer" -> "reuse"
      [] decided \notin {"none", "reuse-transient-buffer"} -> "defer"
      [] /\ decided = "none"
         /\ op.type \in Transfers
         /\ Heavy(op.cost, target) \/ op.bytes >= HeavyMb -> "prefetch_now"
      [] OTHER -> "execute_now"

\* LiveStateSnapshot: the work of the open frame, and the copy queue's work in
\* every frame of the session.
FrameWork(fs, current) == IF current = NoFrame THEN 0 ELSE fs[current].cost
CopyQueueWork(fs) ==
    MapThenSumSet(LAMBDA f : fs[f].queues["copy"], {f \in DOMAIN fs : "copy" \in DOMAIN fs[f].queues})

TargetOf(fs, current, commandFrame, p) ==
    IF current # NoFrame THEN fs[current].target
    ELSE IF commandFrame # NoFrame THEN fs[commandFrame].target
    ELSE p.target

\* A faulty variant: the frame is protected only once its budget is used up.
EvaluateTooLate(fs, current, p, target, prefetches) ==
    LET budget == IF target = 0 THEN DefaultTarget ELSE target
        protect == IF current # NoFrame /\ FrameWork(fs, current) >= budget
                   THEN {<<"protect-frame-budget", current, "frame">>} ELSE {}
    IN  protect \cup {<<"reduce-memory-residency", current, layer>> : layer \in OverBudget(p)}

\* What the governor has to say about a snapshot; prefetches holds the
\* operation that was just told to prefetch and its frame, if there is one.
Evaluate(fs, current, p, target, prefetches) ==
    LET budget == IF target = 0 THEN DefaultTarget ELSE target
        copies == CopyQueueWork(fs)
        prefetch == {<<"prefetch-before-critical-path", c[2], c[1]>> : c \in prefetches}
        drain == IF copies >= 1 /\ 4 * copies >= budget
                 THEN {<<"drain-copy-queue-before-draw", current, "copy">>} ELSE {}
        protect == IF 10 * FrameWork(fs, current) >= 9 * budget
                   THEN {<<"protect-frame-budget", current, "frame">>} ELSE {}
        reduce == {<<"reduce-memory-residency", current, layer>> : layer \in OverBudget(p)}
    IN  IF current = NoFrame THEN reduce ELSE prefetch \cup drain \cup protect \cup reduce

Hold(op, fs, current, target) ==
    /\ op.type \notin {"draw", "compute", "present"}
    /\ current # NoFrame
    /\ 10 * FrameWork(fs, current) >= 9 * target

\* during and target are the open frame and the target the gate looked at.
Gate(op, command, fs, current, target) ==
    LET said(action, execute) ==
            [action |-> action, execute |-> execute, during |-> current, target |-> target]
    IN  CASE command = "reuse" -> said("reuse_existing_resource", FALSE)
          [] command = "defer" -> said("defer_redundant_work", FALSE)
          [] command \notin {"reuse", "defer"} /\ Hold(op, fs, current, target)
               -> said("hold_noncritical_work", FALSE)
          [] command = "prefetch_now" /\ ~Hold(op, fs, current, target)
               -> said("prestage_before_draw", TRUE)
          [] OTHER -> said("execute_now", TRUE)

-----------------------------------------------------------------------------
(* The lifetime planner.  plan maps the action and the resource or         *)
(* operation it is about to the frame it names; what is in it stays.       *)

RecordUse(lt, resources, f) ==
    IF f = NoFrame THEN lt
    ELSE [lt EXCEPT !.first = [r \in DOMAIN @ \cup resources |-> IF r \in DOMAIN @ THEN @[r] ELSE f],
                    !.last = [r \in DOMAIN @ \cup resources |-> IF r \in resources THEN f ELSE @[r]]]

RecordTransfer(lt, id, op, f, kept) ==
    LET used == RecordUse(lt, {op.source, op.target} \ {NoResource}, f)
    IN  IF ~kept THEN lt
        ELSE IF op.type \notin Transfers THEN used
        ELSE [used EXCEPT !.transfers = @ \cup {[id |-> id, frame |-> f, cost |-> op.cost, size |-> op.bytes]}]

Used(lt, f, r) == IF r \in DOMAIN f THEN f[r] ELSE NoFrame

Finalize(lt) ==
    LET kept == {r \in DOMAIN lt.planned :
                    /\ lt.planned[r].memory = "vram"
                    /\ lt.planned[r].lifetime \in {"frame", "transient"}
                    /\ r \in DOMAIN lt.first}
        transient == {r \in DOMAIN lt.planned : lt.planned[r].lifetime = "transient"}
        moved == {t \in lt.transfers : t.frame # NoFrame /\ (t.cost >= 1 \/ t.size >= HeavyMb)}
        proposed ==
            [k \in ({"keep-resident"} \X kept) \cup ({"release-after-frame"} \X transient)
                     \cup ({"prefetch-before-frame", "defer-upload"} \X {t.id : t \in moved}) |->
               CASE k[1] = "keep-resident" -> lt.first[k[2]]
                 [] k[1] = "release-after-frame" -> Used(lt, lt.last, k[2])
                 [] OTHER -> (CHOOSE t \in moved : t.id = k[2]).frame]
    IN  [lt EXCEPT !.plan = [k \in DOMAIN @ \cup DOMAIN proposed |->
                                IF k \in DOMAIN @ THEN @[k] ELSE proposed[k]]]

-----------------------------------------------------------------------------
(* process_event.  Every accepted event ends with a snapshot, on which the *)
(* governor is asked.                                                      *)

Received == events < MaxEvents /\ events' = events + 1

Govern(fs, current, p) ==
    directives' = directives \cup Evaluate(fs, current, p, TargetOf(fs, current, NoFrame, p), {})

SessionBegin(payload) ==
    /\ Received
    /\ policy' = Configure(policy, payload)
    /\ closed' = FALSE
    /\ Govern(frames, currentFrame, policy')
    /\ UNCHANGED <<runtime, executed, decisions, frames, currentFrame, gates, lifetime>>

SessionEnd ==
    /\ Received
    /\ currentFrame = NoFrame
    /\ closed' = TRUE
    /\ lifetime' = Finalize(lifetime)
    /\ Govern(frames, currentFrame, policy)
    /\ UNCHANGED <<runtime, executed, decisions, policy, frames, currentFrame, gates>>

FrameBegin(f, target) ==
    /\ Received
    /\ currentFrame = NoFrame
    /\ LET fs == WithStats(frames, f)
       IN  /\ ~(fs[f].begun /\ ~fs[f].ended)
           /\ frames' = [fs EXCEPT ![f].begun = TRUE, ![f].target = FrameBudget(policy, target)]
    /\ currentFrame' = f
    /\ Govern(frames', f, policy)
    /\ UNCHANGED <<runtime, executed, decisions, policy, closed, gates, lifetime>>

FrameEnd(f) ==
    /\ Received
    /\ currentFrame = f
    /\ \E actions \in FinishActions(policy, f, frames[f]) :
          /\ policy' = Emit(policy, actions)
          /\ frames' = [RecordActions(frames, f, actions) EXCEPT ![f].ended = TRUE]
    /\ currentFrame' = NoFrame
    /\ Govern(frames', NoFrame, policy')
    /\ UNCHANGED <<runtime, executed, decisions, closed, gates, lifetime>>

\* A frame event that comes too early or too late has looked up, and so created,
\* the statistics of the frame it names.
FrameRefused(f) ==
    /\ Received
    /\ \/ currentFrame # NoFrame      \* begin
       \/ currentFrame # f            \* end
    /\ frames' = WithStats(frames, f)
    /\ UNCHANGED <<runtime, executed, decisions, policy, currentFrame, closed, directives,
                   gates, lifetime>>

Register(r, view) ==
    /\ Received
    /\ r \notin Known(runtime)
    /\ runtime' = RegisterState(runtime, r, view)
    /\ lifetime' = [RecordUse(lifetime, {r}, currentFrame) EXCEPT !.planned = Bind(@, r, view)]
    /\ LET p == [policy EXCEPT !.residents = Bind(@, r, view)]
           actions == BudgetActions(p, view.memory, currentFrame)
       IN  /\ policy' = Emit(p, actions)
           /\ frames' = RecordActions(frames, currentFrame, actions)
    /\ Govern(frames', currentFrame, policy')
    /\ UNCHANGED <<executed, decisions, currentFrame, closed, gates>>

\* A faulty variant: the policy engine is not told.
ReleaseKeepingResidency(r) ==
    /\ Received
    /\ runtime' = ReleaseState(runtime, r)
    /\ lifetime' = IF r \in Known(runtime) THEN [lifetime EXCEPT !.released = @ \cup {r}] ELSE lifetime
    /\ UNCHANGED policy
    /\ Govern(frames, currentFrame, policy')
    /\ UNCHANGED <<executed, decisions, frames, currentFrame, closed, gates>>

Release(r) ==
    /\ Received
    /\ runtime' = ReleaseState(runtime, r)
    /\ lifetime' = IF r \in Known(runtime) THEN [lifetime EXCEPT !.released = @ \cup {r}] ELSE lifetime
    /\ policy' = IF r \in Known(runtime) THEN [policy EXCEPT !.residents = Without(@, {r})] ELSE policy
    /\ Govern(frames, currentFrame, policy')
    /\ UNCHANGED <<executed, decisions, frames, currentFrame, closed, gates>>

Submit(id, op) ==
    /\ Received
    /\ id \notin runtime.ids
    /\ LET frame == IF op.frame = NoFrame THEN currentFrame ELSE op.frame
           decided == DecideOperation(runtime, op, frame)
           kept == decided = "none"
           known == WithStats(frames, frame)
           target == IF frame = NoFrame THEN policy.target ELSE known[frame].target
           command == LiveCommand(op, decided, target)
           actions == TransferActions(policy, id, op, kept, frame, target)
           seen == TargetOf(frames', currentFrame, frame, policy')
       IN  /\ runtime' = ProcessState(runtime, id, op, frame)
           /\ executed' = executed \cup
                 (IF kept THEN {[id |-> id, type |-> op.type, frame |-> frame, cost |-> op.cost,
                                 size |-> op.bytes, queue |-> op.queue]} ELSE {})
           /\ decisions' = IF kept THEN decisions
                           ELSE Bind(decisions, id,
                                     [policy |-> decided, frame |-> frame, type |-> op.type,
                                      cost |-> op.cost, size |-> op.bytes,
                                      retained |-> RetainedBy(runtime, op, decided)])
           /\ policy' = Emit(policy, actions)
           /\ frames' = RecordActions(Charge(known, frame, op, kept), frame, actions)
           /\ lifetime' = RecordTransfer(lifetime, id, op, frame, kept)
           /\ directives' = directives \cup
                 Evaluate(frames', currentFrame, policy', seen,
                          IF command = "prefetch_now" THEN {<<id, frame>>} ELSE {})
           /\ gates' = Bind(gates, id, Gate(op, command, frames', currentFrame, seen))
    /\ UNCHANGED <<currentFrame, closed>>

\* A state query only takes a snapshot.
StateQuery ==
    /\ Received
    /\ Govern(frames, currentFrame, policy)
    /\ UNCHANGED <<runtime, executed, decisions, policy, frames, currentFrame, closed, gates, lifetime>>

\* The other refusals: an open frame at the end of the session, an id in use,
\* an event of an unknown type.
Refused ==
    /\ Received
    /\ UNCHANGED <<runtime, executed, decisions, policy, frames, currentFrame, closed, directives,
                   gates, lifetime>>

ToResult ==
    /\ lifetime' = Finalize(lifetime)
    /\ UNCHANGED <<runtime, executed, decisions, policy, frames, currentFrame, closed, directives,
                   gates, events>>

Next ==
    \/ \E target, nested \in Targets \cup {Unset}, budgets \in Budgets :
          SessionBegin([target |-> target, nested |-> nested, budgets |-> budgets])
    \/ SessionEnd
    \/ \E f \in FrameId, target \in Targets \cup {Unset} : FrameBegin(f, target)
    \/ \E f \in FrameId : FrameEnd(f) \/ FrameRefused(f)
    \/ \E r \in ResourceId : Release(r) \/ \E view \in Views[r] : Register(r, view)
    \/ \E id \in OperationId, op \in Requests : Submit(id, op)
    \/ StateQuery
    \/ Refused
    \/ ToResult

Spec == Init /\ [][Next]_vars

-----------------------------------------------------------------------------
(* Properties.                                                             *)

ExecutedIn(f) == {o \in executed : o.frame = f}
ExecutedOn(f, q) == {o \in ExecutedIn(f) : o.queue = q}
EliminatedIn(f) == {id \in DOMAIN decisions : decisions[id].frame = f}

CostOf(operations) == MapThenSumSet(LAMBDA o : o.cost, operations)
SizeOf(operations) ==
    MapThenSumSet(LAMBDA o : o.size, {o \in operations : o.type \in Transfers})

\* The statistics a frame is judged, held and reported by are those of the
\* controller's operations and of the policy engine's actions for it, also for a
\* frame that only a refused event named, one that is opened again and one that
\* gets operations while another is open (adapter.py _process_operation_event).
FramesAddUp ==
    \A f \in DOMAIN frames :
        LET stats == frames[f]
        IN  /\ stats.operations = Cardinality(ExecutedIn(f)) + Cardinality(EliminatedIn(f))
            /\ stats.decisions = Cardinality(EliminatedIn(f))
            /\ stats.cost = CostOf(ExecutedIn(f))
            /\ stats.transfer = SizeOf(ExecutedIn(f))
            /\ stats.queues = [q \in {o.queue : o \in ExecutedIn(f)} |-> CostOf(ExecutedOn(f, q))]
            /\ stats.actions = Cardinality({a \in policy.emitted : a[2] = f})

\* What to_result plans from: the results with what the gate said of them.
Results ==
    {[id |-> o.id, type |-> o.type, frame |-> o.frame, cost |-> o.cost, size |-> o.size,
      action |-> gates[o.id].action] : o \in executed}
    \cup {[id |-> d, type |-> decisions[d].type, frame |-> decisions[d].frame,
           cost |-> decisions[d].cost, size |-> decisions[d].size,
           action |-> gates[d].action] : d \in DOMAIN decisions}

SchedulePlan == Schedule(executed, [f \in DOMAIN frames |-> frames[f].cost], Finalize(lifetime).plan)

\* The schedule, the ledger and the statistics keep three books of one frame: what
\* is executed or prefetched is what the frame was charged, what the ledger calls
\* hot, shifted or held is that too, what it calls avoided was saved, and the copy
\* budget granted to the next frame fits beside the hot path (adapter.py to_result,
\* scheduler.py, admission.py, efficiency.py, feedback.py).
PlansMatchTheFrames ==
    LET slots == AdmissionPlan(Results)
    IN  \A f \in DOMAIN frames :
            LET stats == frames[f]
                ledger == FrameLedger(slots, f)
                plan == SchedulePlan[f]
                commanded(command) == CostSum({s \in plan.steps : CommandOf(s) = command})
            IN  /\ ledger.hotPath + ledger.shifted + ledger.held = stats.cost
                /\ ledger.avoided = stats.saved
                /\ commanded("execute_now") + commanded("prefetch_now") = stats.cost
                /\ commanded("execute_now") = plan.after
                /\ \A c \in ActuationPlan(ledger, stats.target) :
                      c.command = "set_copy_queue_budget" =>
                          c.value <= 100 * AtLeast(0, stats.target - ledger.hotPath)

\* The policy engine counts what the controller holds, and whenever that is more
\* than a layer's budget the governor has said so for the frame that is open,
\* whether a resource, a budget or the frame came last (policy.py, governor.py).
ResidencyIsTracked ==
    /\ policy.residents = runtime.resources
    /\ \A layer \in OverBudget(policy) :
          <<"reduce-memory-residency", currentFrame, layer>> \in directives

\* Work is never held back for a frame without the governor having told the
\* client to protect that frame (gate.py should_hold_noncritical_work against
\* governor.py evaluate), except that a target of zero is one for the gate only.
HeldWorkWasAnnounced ==
    \A id \in DOMAIN gates :
        gates[id].action = "hold_noncritical_work" /\ gates[id].target > 0 =>
            <<"protect-frame-budget", gates[id].during, "frame">> \in directives

\* A transfer is dropped because "Previous transfer already populated the same
\* target from the same source" (runtime.py:297): the client was told to run one.
DedupedWorkHappened ==
    \A id \in DOMAIN decisions :
        decisions[id].policy = "deduplicate-identical-transfer" =>
            \A retained \in decisions[id].retained : gates[retained].execute
=============================================================================
