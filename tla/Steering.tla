------------------------------ MODULE Steering ------------------------------
(***************************************************************************)
(* How a session's plan is turned into budgets for the next cycle, into    *)
(* the state carried from cycle to cycle and into the supervisor's         *)
(* commands: calibration.py, manager.py, control_packet.py,                *)
(* control_state.py, gateway.py, gateway_cycle.py, gateway_feedback.py,    *)
(* policy_update.py, state_accumulator.py, state_transition.py,            *)
(* supervisor.py, supervisor_plan.py and supervisor_execution.py.          *)
(*                                                                         *)
(* Times and sizes are counted as in Planning.  A frame of the session is  *)
(* a record [target, observed]; frames is a function on frame numbers.     *)
(***************************************************************************)
EXTENDS Planning

SumOver(f) == MapThenSumSet(LAMBDA x : f[x], DOMAIN f)
LeastOf(f) == IF DOMAIN f = {} THEN 0 ELSE Min({f[x] : x \in DOMAIN f})
GreatestOf(f) == Max({0} \cup {f[x] : x \in DOMAIN f})
HalfMillisecond == Millisecond \div 2
Quarter(x) == x \div 4

(* calibration.py: the planned against the observed cost of a frame.       *)
NextGuardband(observed, target, relief) ==
  IF observed <= target THEN 0
  ELSE Smaller(Quarter(target), Larger(HalfMillisecond, Quarter(relief)))

CalibrationAction(observedOver, plannedOver, relief) ==
  CASE plannedOver -> "tighten-dispatch-guardband"
    [] observedOver /\ ~plannedOver -> "apply-dispatch-before-next-frame"
    [] ~observedOver /\ ~plannedOver /\ relief > 0 -> "preserve-dispatch-shape"
    [] OTHER -> "monitor"

CalibrateFrame(steps, frame, f) ==
  LET current == CostIn(steps, f, "current")
      relief == Larger(0, frame.observed - current)
      guardband == NextGuardband(frame.observed, frame.target, relief)
  IN  [target |-> frame.target, observed |-> frame.observed, current |-> current,
       preFrame |-> CostIn(steps, f, "pre-frame"), relief |-> relief,
       guardband |-> guardband, next |-> Larger(0, frame.target - guardband),
       action |-> CalibrationAction(frame.observed > frame.target, current > frame.target, relief)]

Calibration(steps, frames) == [f \in DOMAIN frames |-> CalibrateFrame(steps, frames[f], f)]

(* manager.py: the budgets of each frame and what each memory layer does.  *)
PressureActions == {"tighten-dispatch-guardband", "apply-dispatch-before-next-frame"}

FrameDirective(c, envelope, f) ==
  LET planned == f \in DOMAIN envelope.frames
      hotPath == IF planned THEN envelope.frames[f].hotPath ELSE c.target
      copyQueue == IF planned THEN envelope.frames[f].copyQueue ELSE 0
      preFrame == IF planned THEN envelope.frames[f].preFrame ELSE 0
  IN  [next |-> c.next, hotPath |-> Smaller(hotPath, c.next),
       copyQueue |-> IF c.action \in PressureActions THEN 0 ELSE copyQueue,
       preFrame |-> Larger(preFrame, c.preFrame),
       priority |-> IF c.action \in PressureActions THEN "high"
                    ELSE IF c.action = "preserve-dispatch-shape" THEN "normal" ELSE "low"]

MemoryDirective(layer) ==
  CASE layer.status = "over-budget" ->
         [command |-> "evict_or_defer_residency", value |-> layer.pressure, active |-> TRUE]
    [] layer.status = "near-budget" ->
         [command |-> "reserve_memory_headroom", value |-> (layer.budget * 15) \div 100, active |-> TRUE]
    [] layer.status = "unbounded" -> [command |-> "observe_residency", value |-> 0, active |-> FALSE]
    [] layer.status = "within-budget" -> [command |-> "hold_residency", value |-> 0, active |-> FALSE]

Manager(calibration, envelope) ==
  [profile |-> envelope.profile,
   frames |-> [f \in DOMAIN calibration |-> FrameDirective(calibration[f], envelope, f)],
   memory |-> [m \in DOMAIN envelope.layers |-> MemoryDirective(envelope.layers[m])]]

(* control_packet.py: the directives as a stream of commands.  A command   *)
(* changes the budgets of its own frame alone, so the stream is kept frame *)
(* by frame.                                                               *)
FrameCommands(d) ==
  <<[command |-> "set_next_frame_budget", value |-> d.next, priority |-> d.priority],
    [command |-> "set_hot_path_budget", value |-> d.hotPath, priority |-> d.priority],
    [command |-> "set_copy_queue_budget", value |-> d.copyQueue, priority |-> d.priority],
    [command |-> "reserve_pre_frame_window", value |-> d.preFrame, priority |-> d.priority]>>

ControlPacket(manager) ==
  [profile |-> manager.profile,
   commands |-> [f \in DOMAIN manager.frames |-> FrameCommands(manager.frames[f])],
   memory |-> manager.memory]

(* control_state.py: the state the stream leaves behind; each frame starts *)
(* with every budget at zero and the lowest priority.                      *)
NewControl == [next |-> 0, hotPath |-> 0, copyQueue |-> 0, preFrame |-> 0, priority |-> "low"]

Stronger(a, b) == IF "high" \in {a, b} THEN "high" ELSE IF "normal" \in {a, b} THEN "normal" ELSE "low"

ApplyCommand(control, c) ==
  LET marked == [control EXCEPT !.priority = Stronger(control.priority, c.priority)]
  IN  CASE c.command = "set_next_frame_budget" -> [marked EXCEPT !.next = c.value]
        [] c.command = "set_hot_path_budget" -> [marked EXCEPT !.hotPath = c.value]
        [] c.command = "set_copy_queue_budget" -> [marked EXCEPT !.copyQueue = c.value]
        [] c.command = "reserve_pre_frame_window" -> [marked EXCEPT !.preFrame = c.value]

Applied(stream) ==
  LET after[k \in 0..Len(stream)] ==
        IF k = 0 THEN NewControl ELSE ApplyCommand(after[k - 1], stream[k])
  IN  after[Len(stream)]

ControlState(packet) ==
  [profile |-> packet.profile,
   frames |-> [f \in DOMAIN packet.commands |-> Applied(packet.commands[f])],
   memory |-> packet.memory]

(* gateway.py: the lanes of the next tick.                                 *)
FrameSteps(control, f) ==
  {[frame |-> f, lane |-> "display-frame", action |-> "protect_next_frame_budget", budget |-> control.next],
   [frame |-> f, lane |-> "gpu-hot-path", action |-> "protect_gpu_hot_path", budget |-> control.hotPath],
   [frame |-> f, lane |-> "copy-queue", budget |-> control.copyQueue,
    action |-> IF control.copyQueue <= 0 THEN "block_late_copy_queue" ELSE "budget_copy_queue"],
   [frame |-> f, lane |-> "cpu-pre-frame", action |-> "reserve_pre_frame_window", budget |-> control.preFrame]}

GatewayTick(state) ==
  [profile |-> state.profile,
   steps |-> UNION {FrameSteps(state.frames[f], f) : f \in DOMAIN state.frames},
   memory |-> state.memory]

(* gateway_cycle.py: what the tick would have applied.                     *)
MemoryApplied(memory, command) ==
  MapThenSumSet(LAMBDA m : memory[m].value, {m \in DOMAIN memory : memory[m].command = command})

CycleDriftRisk(profile, relief, headroom, blocked) ==
  CASE profile = "aggressive" /\ relief > 0 /\ blocked > 0 -> "high"
    [] relief <= 0 /\ headroom <= 0 /\ blocked = 0 -> "low"
    [] OTHER -> "medium"

NextCycleAction(relief, headroom, blocked) ==
  CASE relief > 0 \/ blocked > 0 -> "continue-pressure-management"
    [] relief <= 0 /\ blocked = 0 /\ headroom > 0 -> "monitor-headroom"
    [] OTHER -> "maintain-cycle"

GatewayCycle(tick) ==
  LET relief == MemoryApplied(tick.memory, "evict_or_defer_residency")
      headroom == MemoryApplied(tick.memory, "reserve_memory_headroom")
      blocked == Cardinality({s \in tick.steps : s.action = "block_late_copy_queue"})
  IN  [steps |-> tick.steps, relief |-> relief, headroom |-> headroom,
       nextAction |-> NextCycleAction(relief, headroom, blocked),
       driftRisk |-> CycleDriftRisk(tick.profile, relief, headroom, blocked)]

(* gateway_feedback.py: the cycle against the calibration.                 *)
FrameStepBudget(steps, f, action) ==
  MapThenSumSet(LAMBDA s : s.budget, {s \in steps : s.frame = f /\ s.action = action})

FrameFeedbackAction(observedOver, plannedOver, gap, relief) ==
  CASE plannedOver > 0 -> "tighten-cycle-guardband"
    [] plannedOver <= 0 /\ (observedOver > 0 \/ gap > 0) -> "continue-pressure-management"
    [] plannedOver <= 0 /\ observedOver <= 0 /\ gap <= 0 /\ relief > 0 -> "preserve-cycle-shape"
    [] OTHER -> "monitor-cycle"

FrameFeedback(c, cycle, f) ==
  LET next == FrameStepBudget(cycle.steps, f, "protect_next_frame_budget")
      plannedOver == Larger(0, c.current - c.target)
      gap == Larger(0, c.observed - next)
  IN  [target |-> c.target, next |-> next, plannedOver |-> plannedOver, gap |-> gap, relief |-> c.relief,
       action |-> FrameFeedbackAction(Larger(0, c.observed - c.target), plannedOver, gap, c.relief)]

FeedbackAction(cycle, feedbacks) ==
  LET asked == {feedbacks[f].action : f \in DOMAIN feedbacks}
  IN  CASE "tighten-cycle-guardband" \in asked -> "tighten-cycle-guardband"
        [] "continue-pressure-management" \in asked /\ "tighten-cycle-guardband" \notin asked ->
             "continue-pressure-management"
        [] asked \cap {"tighten-cycle-guardband", "continue-pressure-management"} = {}
           /\ cycle.nextAction = "monitor-headroom" -> "monitor-headroom"
        [] OTHER -> IF "preserve-cycle-shape" \in asked THEN "preserve-cycle-shape" ELSE "maintain-cycle"

ConvergenceStatus(cycle, feedbacks) ==
  IF cycle.driftRisk = "high" THEN "diverging"
  ELSE IF \E f \in DOMAIN feedbacks : feedbacks[f].gap > 0 THEN "needs-correction"
  ELSE IF cycle.headroom > 0 THEN "watching-headroom" ELSE "stable"

Feedback(cycle, calibration, layers) ==
  LET frames == [f \in DOMAIN calibration |-> FrameFeedback(calibration[f], cycle, f)]
  IN  [frames |-> frames, action |-> FeedbackAction(cycle, frames),
       convergence |-> ConvergenceStatus(cycle, frames), driftRisk |-> cycle.driftRisk,
       expected |-> SumOver([m \in DOMAIN ArbitrateMemory(layers) |-> layers[m].pressure]),
       relief |-> cycle.relief, headroom |-> cycle.headroom]

(* policy_update.py: the policy of the next cycle.                         *)
RecommendedGuardband(fb) ==
  CASE fb.plannedOver > 0 -> Smaller(Quarter(fb.target), Larger(HalfMillisecond, fb.plannedOver \div 2))
    [] fb.plannedOver <= 0 /\ fb.gap > 0 ->
         Smaller(Quarter(fb.target), Larger(HalfMillisecond, Quarter(fb.gap)))
    [] OTHER -> 0

FramePolicyUpdate(fb) ==
  LET guardband == RecommendedGuardband(fb)
      update(next, copyQueue, preFrame) ==
        [action |-> fb.action, next |-> next, hotPath |-> Smaller(next, fb.target),
         copyQueue |-> copyQueue, preFrame |-> preFrame, guardband |-> guardband]
  IN  CASE fb.action = "tighten-cycle-guardband" ->
             update(Larger(0, fb.target - guardband), 0, Larger(fb.relief \div 2, guardband))
        [] fb.action = "continue-pressure-management" ->
             update(fb.next, 0, Larger((fb.relief * 36) \div 100, guardband))
        [] fb.action = "preserve-cycle-shape" ->
             update(fb.target, (fb.target * 15) \div 100, fb.relief)
        [] fb.action = "monitor-cycle" -> update(fb.target, (fb.target * 15) \div 100, 0)

MemoryPolicyUpdate(feedback) ==
  CASE feedback.relief > 0 \/ feedback.relief < feedback.expected ->
         [action |-> "continue-memory-relief", headroom |-> 0,
          relief |-> Larger(feedback.expected, feedback.relief)]
    [] feedback.relief = 0 /\ feedback.expected <= 0 /\ feedback.headroom > 0 ->
         [action |-> "preserve-memory-headroom", relief |-> 0, headroom |-> feedback.headroom]
    [] OTHER -> [action |-> "hold-memory-residency", relief |-> 0, headroom |-> 0]

PolicyAction(feedbackAction) ==
  CASE feedbackAction = "tighten-cycle-guardband" -> "tighten-runtime-guardband-policy"
    [] feedbackAction = "continue-pressure-management" -> "continue-runtime-pressure-policy"
    [] feedbackAction = "monitor-headroom" -> "preserve-memory-headroom-policy"
    [] feedbackAction = "preserve-cycle-shape" -> "preserve-runtime-cycle-policy"
    [] OTHER -> "maintain-runtime-policy"

PolicyUpdate(feedback) ==
  [profile |-> IF feedback.action \in {"tighten-cycle-guardband", "continue-pressure-management"}
               THEN "aggressive" ELSE "stable",
   policy |-> PolicyAction(feedback.action), convergence |-> feedback.convergence, driftRisk |-> feedback.driftRisk,
   frames |-> [f \in DOMAIN feedback.frames |-> FramePolicyUpdate(feedback.frames[f])],
   memory |-> MemoryPolicyUpdate(feedback)]

(* state_accumulator.py: the state carried to the next cycle.              *)
NoState == [cycles |-> 0]

ActivePolicies(update) ==
  Cardinality({f \in DOMAIN update.frames : update.frames[f].action # "monitor-cycle"})
  + (IF update.memory.action # "hold-memory-residency" THEN 1 ELSE 0)

CyclesOf(previous, f, count) ==
  IF previous # NoState /\ f \in DOMAIN previous.frames THEN previous.frames[f].cycles + 1 ELSE count

\* A faulty variant: the loosest frame decides.
LoosestCopyBudget(update) ==
  GreatestOf([f \in DOMAIN update.frames |-> update.frames[f].copyQueue])
CopyBudget(update) == LeastOf([f \in DOMAIN update.frames |-> update.frames[f].copyQueue])

Accumulate(update, previous) ==
  LET count == IF previous = NoState THEN 1 ELSE previous.cycles + 1
      field(get(_)) == [f \in DOMAIN update.frames |-> get(update.frames[f])]
  IN  [profile |-> update.profile, policy |-> update.policy, convergence |-> update.convergence,
       driftRisk |-> update.driftRisk, cycles |-> count, active |-> ActivePolicies(update),
       next |-> LeastOf(field(LAMBDA u : u.next)), hotPath |-> LeastOf(field(LAMBDA u : u.hotPath)),
       copyQueue |-> CopyBudget(update),
       preFrame |-> GreatestOf(field(LAMBDA u : u.preFrame)),
       relief |-> update.memory.relief, headroom |-> update.memory.headroom,
       frames |-> [f \in DOMAIN update.frames |->
                     [cycles |-> CyclesOf(previous, f, count), copyQueue |-> update.frames[f].copyQueue]]]

(* state_transition.py: the pressure of a state, in twentieths.            *)
PressureIndex(state) ==
  (IF state.profile = "aggressive" THEN 30 ELSE 0)
  + (CASE state.policy \in {"tighten-runtime-guardband-policy", "continue-runtime-pressure-policy"} -> 40
       [] state.policy \in {"preserve-memory-headroom-policy", "preserve-runtime-cycle-policy"} -> 10
       [] OTHER -> 0)
  + (CASE state.convergence = "diverging" -> 60 [] state.convergence = "stable" -> 0 [] OTHER -> 40)
  + (CASE state.driftRisk = "high" -> 60 [] state.driftRisk = "medium" -> 30 [] OTHER -> 0)
  + (15 * Smaller(state.active, 4)) + Smaller(Larger(state.relief, 0), 60)
  + (IF state.copyQueue = 0 /\ state.active > 0 THEN 10 ELSE 0)

Trend(previous, current) ==
  IF previous = NoState THEN "baseline"
  ELSE LET delta == PressureIndex(current) - PressureIndex(previous)
       IN  IF delta <= -40 THEN "improving" ELSE IF delta >= 40 THEN "worsening" ELSE "stable"

(* supervisor.py: the posture of the next cycle.                           *)
DirectiveAction(state, trend) ==
  CASE trend = "baseline" -> "establish-supervisor-baseline"
    [] trend = "improving" -> IF state.profile = "stable" THEN "relax-supervisor-pressure"
                              ELSE "hold-recovery-supervision"
    [] trend = "worsening" -> "escalate-supervisor-pressure"
    [] trend = "stable" -> IF state.driftRisk = "low" THEN "preserve-supervisor-state"
                           ELSE "monitor-supervisor-state"

SupervisorDirective(state, trend) ==
  LET worse == trend = "worsening"
      action == DirectiveAction(state, trend)
  IN  [action |-> action,
       escalation |-> IF worse THEN 2
                      ELSE IF action \in {"hold-recovery-supervision", "monitor-supervisor-state"} THEN 1 ELSE 0,
       hotPath |-> IF worse THEN Larger(0, Smaller(state.hotPath, state.next)) ELSE state.hotPath,
       copyQueue |-> IF worse THEN 0 ELSE state.copyQueue,
       preFrame |-> IF worse THEN Larger(state.preFrame, (state.hotPath * 3) \div 4) ELSE state.preFrame,
       relief |-> IF action = "relax-supervisor-pressure" THEN 0 ELSE state.relief,
       headroom |-> state.headroom]

(* supervisor_plan.py, supervisor_execution.py: one command per domain,    *)
(* and how many of them a dry run would block.                             *)
SupervisorPlan(directive) ==
  LET escalated == directive.action = "escalate-supervisor-pressure"
  IN  {[domain |-> "scheduler", value |-> directive.preFrame, blocking |-> escalated],
       [domain |-> "admission", value |-> directive.copyQueue, blocking |-> escalated],
       [domain |-> "memory", blocking |-> directive.escalation >= 2,
        value |-> IF directive.relief # 0 THEN directive.relief ELSE directive.headroom],
       [domain |-> "frame-budget", value |-> directive.hotPath, blocking |-> FALSE],
       [domain |-> "guardband", value |-> Larger(0, directive.preFrame - directive.hotPath),
        blocking |-> FALSE]}

WouldBlock(plan) == Cardinality({c \in plan : c.blocking})
=============================================================================
