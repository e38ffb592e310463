----------------------------- MODULE FramePlans -----------------------------
(***************************************************************************)
(* The plans RuntimeAdapterSession.to_result draws from what was submitted *)
(* and executed, frame by frame: the simulated schedule and its            *)
(* enforcement (scheduler.py, enforcement.py), and the admission of every  *)
(* result, what it saved, and the commands for the next frame              *)
(* (admission.py, efficiency.py, feedback.py, actuation.py).               *)
(*                                                                         *)
(* A result is a record [id, type, frame, cost, size, action], action      *)
(* being what the execution gate said; an executed operation has no        *)
(* action.  Budgets for the next frame are counted in hundredths of the    *)
(* unit of the costs, so that the shares of a frame are whole.             *)
(***************************************************************************)
EXTENDS Integers, FiniteSets, FiniteSetsExt

AtMost(a, b) == IF a < b THEN a ELSE b
AtLeast(a, b) == IF a > b THEN a ELSE b

CostSum(S) == MapThenSumSet(LAMBDA x : x.cost, S)
SizeSum(S) == MapThenSumSet(LAMBDA x : x.size, S)

-----------------------------------------------------------------------------
(* scheduler.py, enforcement.py: plan has an entry <<action, subject>> for *)
(* every lifetime action, with the frame it names.                         *)

OperationPhase(type) ==
    CASE type \in {"copy", "upload"} -> "prepare"
      [] type \in {"draw", "compute", "present"} -> "critical"
      [] type = "sync" -> "sync"
      [] OTHER -> "work"

Prefetched(plan, o) == <<"prefetch-before-frame", o.id>> \in DOMAIN plan

OperationSteps(operations, plan, f) ==
    {[subject |-> o.id, cost |-> o.cost,
      phase |-> IF Prefetched(plan, o) THEN "prefetch" ELSE OperationPhase(o.type)] :
        o \in {x \in operations : x.frame = f}}

CleanupSteps(plan, f) ==
    {[subject |-> k[2], cost |-> 0, phase |-> "cleanup"] :
        k \in {x \in DOMAIN plan : x[1] = "release-after-frame" /\ plan[x] = f}}

ScheduleFrame(operations, before, plan, f) ==
    LET moved == CostSum({s \in OperationSteps(operations, plan, f) : s.phase = "prefetch"})
    IN  [before |-> before, moved |-> moved, after |-> AtLeast(0, before - moved),
         steps |-> OperationSteps(operations, plan, f) \cup CleanupSteps(plan, f)]

\* costs is a function on the frames that have statistics.
Schedule(operations, costs, plan) ==
    [f \in DOMAIN costs |-> ScheduleFrame(operations, costs[f], plan, f)]

CommandOf(step) ==
    CASE step.phase = "prefetch" -> "prefetch_now"
      [] step.phase \in {"critical", "prepare", "sync", "work"} -> "execute_now"
      [] step.phase = "cleanup" -> "release_after_frame"

-----------------------------------------------------------------------------
(* admission.py: what a result contributes, and the size that is booked.   *)

\* A faulty variant: work that was held is booked as waste.
ContributionOfHeld(action) ==
    CASE action = "prestage_before_draw" -> "prestaged"
      [] action \in {"defer_redundant_work", "hold_noncritical_work"} -> "avoided"
      [] action = "reuse_existing_resource" -> "reused"
      [] OTHER -> "hot-path"

Contribution(action) ==
    CASE action = "prestage_before_draw" -> "prestaged"
      [] action = "defer_redundant_work" -> "avoided"
      [] action = "reuse_existing_resource" -> "reused"
      [] action = "hold_noncritical_work" -> "held"
      [] OTHER -> "hot-path"

BookedSize(r) ==
    CASE Contribution(r.action) \in {"avoided", "reused"} -> r.size
      [] /\ Contribution(r.action) \in {"prestaged", "held"}
         /\ r.type \in {"copy", "upload", "allocate"} -> r.size
      [] OTHER -> 0

AdmissionPlan(results) ==
    {[id |-> r.id, frame |-> r.frame, cost |-> r.cost, size |-> BookedSize(r),
      contribution |-> Contribution(r.action)] : r \in results}

(* efficiency.py: the ledger of a frame.                                   *)
FrameLedger(slots, f) ==
    LET of(kinds) == {s \in slots : s.frame = f /\ s.contribution \in kinds}
    IN  [hotPath |-> CostSum(of({"hot-path"})), shifted |-> CostSum(of({"prestaged"})),
         avoided |-> CostSum(of({"avoided", "reused"})), held |-> CostSum(of({"held"})),
         relief |-> SizeSum(of({"prestaged", "avoided", "reused", "held"}))]

(* feedback.py: the budgets suggested for the next frame.                  *)
SuggestCopyBudget(target, headroom) ==
    IF headroom <= 0 THEN 0 ELSE AtMost(15 * target, 25 * headroom)

SuggestPrefetchWindow(target, shiftedOrHeld, relief) ==
    IF relief <= 0 THEN AtLeast(0, 100 * shiftedOrHeld)
    ELSE AtLeast(20 * target, 100 * shiftedOrHeld)

FeedbackActions(ledger, target) ==
    LET headroom == AtLeast(0, target - ledger.hotPath)
        says(condition, action, value) == IF condition THEN {[action |-> action, value |-> value]} ELSE {}
    IN  says(ledger.shifted > 0, "preserve-prefetch-window",
             SuggestPrefetchWindow(target, ledger.shifted + ledger.held, ledger.relief))
        \cup says(ledger.avoided > 0, "maintain-reuse-dedupe", 0)
        \cup says(ledger.relief > 0, "cap-copy-queue", SuggestCopyBudget(target, headroom))
        \cup says(10 * ledger.hotPath >= 8 * target, "protect-hot-path-headroom", 100 * target)

(* actuation.py: the commands the suggestions become.                      *)
ActuationCommand(a) ==
    CASE a.action = "preserve-prefetch-window" -> [command |-> "reserve_prefetch_window", value |-> a.value]
      [] a.action = "cap-copy-queue" -> [command |-> "set_copy_queue_budget", value |-> a.value]
      [] a.action = "maintain-reuse-dedupe" -> [command |-> "enable_reuse_dedupe", value |-> 1]
      [] a.action = "protect-hot-path-headroom" -> [command |-> "protect_hot_path_headroom", value |-> a.value]

ActuationPlan(ledger, target) == {ActuationCommand(a) : a \in FeedbackActions(ledger, target)}
=============================================================================
