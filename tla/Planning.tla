------------------------------ MODULE Planning ------------------------------
(***************************************************************************)
(* What the runtime plans for the next frame out of what a session did:   *)
(* transit.py, routing.py, windowing.py, packet.py, executor.py,           *)
(* adaptive.py, budget.py, arbiter.py, dispatch.py, applier.py, in the     *)
(* order adapter.to_result calls them.  Every stage is a pure function of  *)
(* the stage before it.                                                    *)
(*                                                                         *)
(* A result of the session is a record [id, frame, type, policy, executed, *)
(* source, target, size, cost]: policy is the policy of the decision that  *)
(* eliminated the operation, or None.  Times count ten-thousandths of a    *)
(* millisecond, the unit the stages round to; sizes count megabytes.       *)
(***************************************************************************)
EXTENDS Integers, Sequences, FiniteSets, FiniteSetsExt

None == "none"
NoFrame == -1
Millisecond == 10000
DefaultFrameBudget == 166700
KnownLayers == {"ram", "vram", "shared", "staging", "swapchain"}

Larger(a, b) == IF a > b THEN a ELSE b
Smaller(a, b) == IF a < b THEN a ELSE b
Total(cs, Chosen(_)) == MapThenSumSet(LAMBDA k : cs[k].cost, {k \in DOMAIN cs : Chosen(cs[k])})
FramesOf(cs) == {cs[k].frame : k \in DOMAIN cs} \ {NoFrame}

\* What sorted() makes of entries: a list of them in the order of Before, and those
\* that are equal in it as they came.
Sorted(entries, Before(_, _)) ==
  LET ahead(k) == {j \in DOMAIN entries : \/ Before(entries[j], entries[k])
                                          \/ ~Before(entries[k], entries[j]) /\ j < k}
  IN  [n \in 1..Cardinality(DOMAIN entries) |->
         entries[CHOOSE k \in DOMAIN entries : Cardinality(ahead(k)) = n - 1]]

(* transit.py: the hop an operation makes between memory layers.  The      *)
(* layers are those of the resource table at the end of the session.  Hops *)
(* and routes keep the places of the results they come from.               *)
IsTransit(o) ==
  \/ o.type \in {"copy", "upload", "allocate", "draw", "present", "sync"}
  \/ o.source # None
  \/ o.target # None

LayerOf(resources, r) == IF r \in DOMAIN resources THEN resources[r].memory ELSE "unknown"

SourceMemory(o, resources) ==
  IF o.type \in {"allocate", "sync"} THEN o.type ELSE LayerOf(resources, o.source)
TargetMemory(o, resources) ==
  IF o.type = "sync" THEN "queue" ELSE LayerOf(resources, o.target)

WasteClass ==
  [p \in {"deduplicate-identical-transfer", "collapse-aliased-resource-copy",
          "eliminate-self-copy", "reuse-transient-buffer", "remove-orphan-sync",
          "remove-empty-sync"} |->
     CASE p = "reuse-transient-buffer" -> "redundant-allocation"
       [] p \in {"remove-orphan-sync", "remove-empty-sync"} -> "redundant-sync"
       [] OTHER -> "redundant-transfer"]

Classify(o, resources) ==
  IF o.policy \in DOMAIN WasteClass THEN WasteClass[o.policy]
  ELSE CASE o.type = "allocate" -> "allocation"
         [] o.type = "sync" -> "synchronization"
         [] o.type \in {"draw", "present"} -> "presentation-path"
         [] OTHER -> IF SourceMemory(o, resources) = TargetMemory(o, resources)
                     THEN "same-memory-transfer" ELSE "cross-memory-transfer"

TransitSize(o, resources) ==
  IF o.size = 0 /\ o.target \in DOMAIN resources /\ o.type \in {"draw", "present", "compute"}
  THEN resources[o.target].size
  ELSE o.size

Hop(o, resources) ==
  [id |-> o.id, frame |-> o.frame, cost |-> o.cost, size |-> TransitSize(o, resources),
   source |-> SourceMemory(o, resources), target |-> TargetMemory(o, resources),
   class |-> Classify(o, resources), executed |-> o.executed,
   avoided |-> o.policy # None \/ ~o.executed]

TransitMap(results, resources) ==
  [k \in {j \in DOMAIN results : IsTransit(results[j])} |-> Hop(results[k], resources)]

(* routing.py: the directive a hop asks for, None when it asks for none.   *)
IsCrossMemory(h) ==
  /\ h.class = "cross-memory-transfer"
  /\ h.executed
  /\ "unknown" \notin {h.source, h.target}
IsLargeOrExpensive(h) == h.size >= 16 \/ h.cost >= Millisecond

DirectiveOf(h) ==
  CASE h.class = "redundant-transfer" -> "suppress_redundant_hop"
    [] h.class = "redundant-allocation" -> "reuse_transient_allocation"
    [] h.class = "redundant-sync" -> "remove_sync_wait"
    [] IsCrossMemory(h) /\ IsLargeOrExpensive(h) -> "prestage_cross_memory_transfer"
    [] h.class = "allocation" /\ h.size >= 16 -> "pool_transient_allocation"
    [] h.class = "presentation-path" -> "protect_presentation_route"
    [] OTHER -> None

RoutePlan(hops) == [k \in {j \in DOMAIN hops : DirectiveOf(hops[j]) # None} |-> hops[k]]

(* windowing.py, packet.py: the window a directive is served in, and the   *)
(* packet of commands in the order of their frame, window and operation.   *)
Windows == <<"never", "pre-frame", "setup", "hot-path">>

WindowOf(directive) ==
  CASE directive \in {"suppress_redundant_hop", "reuse_transient_allocation", "remove_sync_wait"} -> 1
    [] directive = "prestage_cross_memory_transfer" -> 2
    [] directive = "pool_transient_allocation" -> 3
    [] directive = "protect_presentation_route" -> 4

Slot(h) ==
  [id |-> h.id, frame |-> h.frame, cost |-> h.cost, order |-> WindowOf(DirectiveOf(h)),
   window |-> Windows[WindowOf(DirectiveOf(h))]]

SlotBefore(a, b) ==
  \/ a.frame < b.frame
  \/ a.frame = b.frame /\ a.order < b.order
  \/ a.frame = b.frame /\ a.order = b.order /\ a.id < b.id

WindowPlan(routes) == Sorted([k \in DOMAIN routes |-> Slot(routes[k])], SlotBefore)

ActionOf(slot) ==
  CASE slot.window = "never" -> "skip"
    [] slot.window = "pre-frame" -> "prestage_transfer"
    [] slot.window = "setup" -> "pool_allocation"
    [] slot.window = "hot-path" -> "execute_protected"

Packet(slots) ==
  [k \in DOMAIN slots |->
     [id |-> slots[k].id, frame |-> slots[k].frame, cost |-> slots[k].cost,
      window |-> slots[k].window, action |-> ActionOf(slots[k])]]

(* executor.py: what the packet does to each frame.  A command outside any *)
(* frame counts for no frame.                                              *)
EffectOf(action) ==
  CASE action = "skip" -> "removed"
    [] action = "prestage_transfer" -> "prestaged"
    [] action = "pool_allocation" -> "setup"
    [] action = "execute_protected" -> "protected"

SimulatedFrame(packet, f) ==
  LET part(effect) == Total(packet, LAMBDA c : c.frame = f /\ EffectOf(c.action) = effect)
  IN  [removed |-> part("removed"), prestaged |-> part("prestaged"),
       setup |-> part("setup"), protected |-> part("protected")]

Simulation(packet) == [f \in FramesOf(packet) |-> SimulatedFrame(packet, f)]

(* adaptive.py: the headroom of each simulated frame, and what to do.      *)
TargetFor(targets, f) == IF f \in DOMAIN targets THEN targets[f] ELSE DefaultFrameBudget

AdaptiveDirectives(simulated, target) ==
  LET over == simulated.protected - target
  IN  IF over > 0
      THEN {[action |-> "tighten-hot-path-admission", value |-> over],
            [action |-> "expand-pre-frame-window", value |-> simulated.prestaged + over],
            [action |-> "split-protected-hot-path", value |-> over]}
           \cup {d \in {[action |-> "keep-suppression-active", value |-> simulated.removed]} : d.value > 0}
      ELSE {d \in {[action |-> "preserve-pre-frame-window", value |-> simulated.prestaged],
                   [action |-> "maintain-suppression-cache", value |-> simulated.removed]} : d.value > 0}
           \cup {[action |-> "hold-current-packet", value |-> -over]}

AdaptiveLoop(simulation, targets) ==
  [f \in DOMAIN simulation |->
     [target |-> TargetFor(targets, f),
      delta |-> TargetFor(targets, f) - simulation[f].protected,
      directives |-> AdaptiveDirectives(simulation[f], TargetFor(targets, f))]]

(* budget.py: the envelope of the next frame.  A memory layer is listed    *)
(* when it holds something or has a budget.                                *)
MemoryStatus(active, budgets, m) ==
  IF m \notin DOMAIN budgets THEN "unbounded"
  ELSE CASE active > budgets[m] -> "over-budget"
         [] active <= budgets[m] /\ (100 * active) >= (85 * budgets[m]) -> "near-budget"
         [] OTHER -> "within-budget"

MemoryLayer(active, budgets, m) ==
  [status |-> MemoryStatus(active, budgets, m),
   budget |-> IF m \in DOMAIN budgets THEN budgets[m] ELSE 0,
   pressure |-> IF m \in DOMAIN budgets THEN Larger(0, active - budgets[m]) ELSE 0]

MemoryLayers(totals, budgets) ==
  LET active(m) == IF m \in DOMAIN totals THEN totals[m] ELSE 0
  IN  [m \in {l \in KnownLayers \cup DOMAIN totals \cup DOMAIN budgets :
                active(l) > 0 \/ l \in DOMAIN budgets}
        |-> MemoryLayer(active(m), budgets, m)]

SuggestCopyQueueBudget(target, delta) ==
  IF delta <= 0 THEN 0 ELSE Smaller((target * 15) \div 100, delta \div 4)

WindowValue(directives) ==
  Max({0} \cup {d.value : d \in {e \in directives :
        e.action \in {"expand-pre-frame-window", "preserve-pre-frame-window"}}})

FrameEnvelope(frame) ==
  [over |-> frame.delta < 0,
   hotPath |-> frame.target,
   copyQueue |-> IF frame.delta < 0 THEN 0 ELSE SuggestCopyQueueBudget(frame.target, frame.delta),
   preFrame |-> WindowValue(frame.directives)]

IsConstrained(layers) ==
  \E m \in DOMAIN layers : layers[m].status \in {"near-budget", "over-budget"}

Envelope(loop, totals, budgets) ==
  LET layers == MemoryLayers(totals, budgets)
      frames == [f \in DOMAIN loop |-> FrameEnvelope(loop[f])]
  IN  [frames |-> frames, layers |-> layers,
       profile |-> IF IsConstrained(layers) \/ \E f \in DOMAIN frames : frames[f].over
                   THEN "aggressive" ELSE "stable"]

(* arbiter.py: the envelope against the packet, command by command.  The   *)
(* work of a frame is added up under the key "command.frame or -1", which  *)
(* frame 0 shares with the commands outside any frame; work that was       *)
(* deferred stays in the sum.                                              *)
LedgerKey(f) == IF f = 0 THEN NoFrame ELSE f

\* A faulty variant: a command is not added before it is compared.
UsedBefore(packet, k) ==
  MapThenSumSet(LAMBDA j : packet[j].cost,
    {j \in 1..(k - 1) : packet[j].window = packet[k].window
                         /\ LedgerKey(packet[j].frame) = LedgerKey(packet[k].frame)})

UsedSoFar(packet, k) ==
  MapThenSumSet(LAMBDA j : packet[j].cost,
    {j \in 1..k : packet[j].window = packet[k].window
                   /\ LedgerKey(packet[j].frame) = LedgerKey(packet[k].frame)})

LimitOf(c, envelope) ==
  IF c.frame \notin DOMAIN envelope.frames THEN c.cost
  ELSE IF c.window = "pre-frame" THEN envelope.frames[c.frame].preFrame
  ELSE envelope.frames[c.frame].hotPath

ArbitrateCommand(packet, envelope, k) ==
  LET c == packet[k]
      fits == UsedSoFar(packet, k) <= LimitOf(c, envelope)
  IN  CASE c.window = "never" -> "drop-waste"
        [] c.window = "pre-frame" /\ fits -> "prestage-before-frame"
        [] c.window = "pre-frame" /\ ~fits -> "defer-pre-frame-overflow"
        [] c.window = "setup" -> "prepare-before-hot-path"
        [] c.window = "hot-path" /\ fits -> "admit-hot-path"
        [] c.window = "hot-path" /\ ~fits -> "split-or-defer-hot-path"

ArbitrateMemory(layers) ==
  [m \in {l \in DOMAIN layers : layers[l].status \in {"near-budget", "over-budget"}} |->
     [decision |-> IF layers[m].status = "over-budget" THEN "evict-or-defer-residency"
                   ELSE "reserve-memory-headroom",
      pressure |-> layers[m].pressure]]

Arbitration(packet, envelope) ==
  [commands |-> [k \in DOMAIN packet |->
      [id |-> packet[k].id, frame |-> packet[k].frame, cost |-> packet[k].cost,
       decision |-> ArbitrateCommand(packet, envelope, k)]],
   memory |-> ArbitrateMemory(envelope.layers)]

(* dispatch.py: the phase and the command a decision is dispatched as.     *)
Phases == <<"control", "memory", "setup", "pre-frame", "hot-path", "next-frame">>

DispatchShape(decision) ==
  CASE decision = "drop-waste" -> [order |-> 1, command |-> "drop_operation"]
    [] decision = "prestage-before-frame" -> [order |-> 4, command |-> "prestage_operation"]
    [] decision = "prepare-before-hot-path" -> [order |-> 3, command |-> "prepare_operation"]
    [] decision = "admit-hot-path" -> [order |-> 5, command |-> "execute_operation"]
    [] decision \in {"split-or-defer-hot-path", "defer-pre-frame-overflow"} ->
         [order |-> 6, command |-> "defer_or_split_operation"]

DispatchBefore(a, b) ==
  \/ a.order < b.order
  \/ a.order = b.order /\ a.frame < b.frame
  \/ a.order = b.order /\ a.frame = b.frame /\ a.id < b.id

\* A memory decision is dispatched beside these, for no operation, no frame and no cost.
Dispatched(c) ==
  LET shape == DispatchShape(c.decision)
  IN  [id |-> c.id, frame |-> c.frame, cost |-> c.cost, order |-> shape.order,
       phase |-> Phases[shape.order], command |-> shape.command]

DispatchPlan(arbitration) ==
  Sorted([k \in DOMAIN arbitration.commands |-> Dispatched(arbitration.commands[k])], DispatchBefore)

(* applier.py: what carrying the plan out would cost.  prepare_operation   *)
(* has no rule of its own, is ignored and adds nothing to any total.       *)
OutcomeOf(command) ==
  CASE command = "drop_operation" -> "avoided"
    [] command = "prestage_operation" -> "pre-frame"
    [] command = "execute_operation" -> "current"
    [] command = "defer_or_split_operation" -> "deferred"
    [] OTHER -> "ignored"

DispatchExecution(plan) ==
  [k \in DOMAIN plan |-> [id |-> plan[k].id, frame |-> plan[k].frame,
                          cost |-> plan[k].cost, outcome |-> OutcomeOf(plan[k].command)]]

CostIn(steps, f, outcome) == Total(steps, LAMBDA s : s.frame = f /\ s.outcome = outcome)
=============================================================================
