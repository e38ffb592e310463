----------------------------- MODULE Promotion -----------------------------
(***************************************************************************)
(* What the daemon makes of the last state of a run: the decisions, their  *)
(* queue and dry run, and the chain of reports that says what may advance  *)
(* (daemon_decision.py, daemon_actions.py, daemon_execution.py,            *)
(* native_backend.py, daemon_arbitration.py, daemon_control.py,            *)
(* daemon_control_execution.py, native_backend_manifest.py,                *)
(* native_backend_probe.py, native_backend_readiness.py,                   *)
(* native_backend_gate.py, presentmon_ledger.py).                          *)
(*                                                                         *)
(* A decision is named by its action; every stage is a function on the     *)
(* decisions that were taken.                                              *)
(***************************************************************************)
EXTENDS Steering, HostProfile

-----------------------------------------------------------------------------
(* daemon_decision.py                                                      *)

MemoryPressureRequired(state, host) ==
  \/ state.relief > 0
  \/ state.headroom > 0
  \/ state.policy \in {"continue-runtime-pressure-policy", "tighten-runtime-pressure-policy"}
  \/ host.hint = "tighten-memory-residency-observation"

SupervisorLoopAllowed(host, supervisorAction) ==
  /\ host.hint = "allow-daemon-supervisor-loop"
  /\ supervisorAction \in {"relax-supervisor-pressure", "preserve-supervisor-state",
                           "monitor-supervisor-state", "establish-supervisor-baseline"}

\* The decisions, by the name of their action.
Asked(state, host, supervisorAction, blocked) ==
  LET says(condition, action) == IF condition THEN {action} ELSE {}
  IN  says(~host.loaded \/ host.confidence = "low", "collect-host-telemetry")
      \cup says(host.hint = "collect-more-host-telemetry", "collect-more-host-telemetry")
      \cup says(MemoryPressureRequired(state, host), "tighten-memory-residency-observation")
      \cup says(host.hint = "prefer-low-residency-and-short-hot-path",
                "prefer-low-residency-and-short-hot-path")
      \cup says(SupervisorLoopAllowed(host, supervisorAction), "allow-daemon-supervisor-loop")
      \cup says(host.hint = "collect-gpu-telemetry-before-gpu-specific-actions",
                "collect-gpu-telemetry-before-gpu-specific-actions")
      \cup says(blocked > 0, "hold-blocking-supervisor-commands")

Decisions(state, host, supervisorAction, blocked) ==
  LET asked == Asked(state, host, supervisorAction, blocked)
  IN  IF asked = {} THEN {"preserve-observed-daemon-loop"} ELSE asked

NativeActions == {"tighten-memory-residency-observation", "prefer-low-residency-and-short-hot-path"}
ProbeActions == {"collect-host-telemetry", "collect-more-host-telemetry",
                 "collect-gpu-telemetry-before-gpu-specific-actions"}

DomainOf(action) ==
  CASE action \in {"collect-host-telemetry", "collect-more-host-telemetry"} -> "telemetry"
    [] action \in NativeActions -> "memory"
    [] action \in {"allow-daemon-supervisor-loop", "preserve-observed-daemon-loop"} -> "scheduler"
    [] action = "collect-gpu-telemetry-before-gpu-specific-actions" -> "gpu"
    [] action = "hold-blocking-supervisor-commands" -> "safety"

DomainsOf(decisions) == {DomainOf(a) : a \in decisions}

PlanDecisionAction(decisions) ==
  IF "safety" \in DomainsOf(decisions) THEN "hold-daemon-supervisor-promotion"
  ELSE IF "tighten-memory-residency-observation" \in decisions THEN "tighten-daemon-memory-observation"
  ELSE IF "allow-daemon-supervisor-loop" \in decisions THEN "continue-host-aware-supervisor-loop"
  ELSE IF "telemetry" \in DomainsOf(decisions) THEN "expand-daemon-telemetry"
  ELSE "preserve-daemon-loop"

PlanRiskLevel(decisions) ==
  IF decisions \cap {"collect-host-telemetry", "tighten-memory-residency-observation",
                     "hold-blocking-supervisor-commands"} # {} THEN "high"
  ELSE IF decisions = {"preserve-observed-daemon-loop"} THEN "low" ELSE "medium"

PlanConfidence(decisions, host) ==
  IF "telemetry" \in DomainsOf(decisions)
  THEN IF host.confidence = "high" THEN "medium" ELSE "low"
  ELSE host.confidence

-----------------------------------------------------------------------------
(* daemon_actions.py, daemon_execution.py                                  *)

ActionShape(action) ==
  [status |-> CASE action \in ProbeActions -> "would-apply-readonly"
                [] action \in NativeActions -> "blocked-native-backend-required"
                [] OTHER -> "would-apply-advisory",
   wouldApply |-> action \notin NativeActions,
   native |-> action \in NativeActions,
   privilege |-> action \in NativeActions]

Queue(decisions) == [a \in decisions |-> ActionShape(a)]

QueuePolicy(queue) ==
  LET domains == DomainsOf(DOMAIN queue)
  IN  IF "safety" \in domains THEN "hold-native-promotion"
      ELSE IF \E a \in DOMAIN queue : ~queue[a].wouldApply THEN "queue-native-backend-work"
      ELSE IF "telemetry" \in domains THEN "run-readonly-telemetry-before-native-work"
      ELSE IF "scheduler" \in domains THEN "continue-advisory-loop" ELSE "observe-only"

DryRunAction(queued) ==
  LET blocked == ~queued.wouldApply \/ queued.native \/ queued.privilege
  IN  [blocked |-> blocked,
       status |-> CASE blocked /\ queued.native /\ queued.privilege ->
                         "blocked-privileged-native-backend-required"
                    [] blocked /\ queued.native /\ ~queued.privilege -> "blocked-native-backend-required"
                    [] blocked /\ ~queued.native /\ queued.privilege -> "blocked-privilege-required"
                    [] blocked /\ ~queued.native /\ ~queued.privilege -> "blocked-by-action-queue"
                    [] ~blocked /\ queued.status = "would-apply-readonly" -> "executed-readonly-dry-run"
                    [] OTHER -> "executed-advisory-dry-run"]

ActionExecution(queue) == [a \in DOMAIN queue |-> DryRunAction(queue[a])]

-----------------------------------------------------------------------------
(* native_backend.py                                                       *)

PreflightBlockers(queued) ==
  LET says(condition, blocker) == IF condition THEN {blocker} ELSE {}
  IN  says(~queued.wouldApply, "action-queue") \cup says(queued.native, "native-backend")
      \cup says(queued.privilege, "privilege")
      \cup says(queued.native \/ queued.privilege, "safety-review")

Preflight(queue) ==
  [a \in DOMAIN queue |->
     [blockedBy |-> PreflightBlockers(queue[a]), canExecute |-> PreflightBlockers(queue[a]) = {},
      native |-> queue[a].native]]

BackendPolicy(preflight) ==
  IF \E a \in DOMAIN preflight : preflight[a].native THEN "hold-native-backend-promotion"
  ELSE IF \E a \in DOMAIN preflight : ~preflight[a].canExecute THEN "hold-advisory-guard"
  ELSE "advisory-preflight-passed"

-----------------------------------------------------------------------------
(* daemon_arbitration.py                                                   *)

PressureScore(state) ==
  Smaller(100,
    (IF state.profile = "aggressive" THEN 30 ELSE 0)
    + (IF state.driftRisk = "high" THEN 15 ELSE 0)
    + Smaller(state.active * 5, 20)
    + Smaller(state.relief \div 4, 20)
    + Smaller(state.headroom \div 4, 20)
    + (IF state.hotPath < state.next THEN 5 ELSE 0)
    + (IF state.copyQueue = 0 /\ state.active > 0 THEN 10 ELSE 0))

ArbitrationPolicy(decisions, preflight, score) ==
  IF "safety" \in DomainsOf(decisions) THEN "safety-first"
  ELSE IF \E a \in DOMAIN preflight : ~preflight[a].canExecute THEN "hold-native-and-prioritize-telemetry"
  ELSE IF score >= 60 THEN "pressure-recovery"
  ELSE IF "telemetry" \in DomainsOf(decisions) THEN "telemetry-first"
  ELSE IF "scheduler" \in DomainsOf(decisions) THEN "continue-supervisor-loop" ELSE "observe"

LaneAction(action, blockedBy) ==
  CASE blockedBy # {} -> "hold-native-backend"
    [] blockedBy = {} /\ DomainOf(action) = "telemetry" -> "collect-evidence-before-control"
    [] blockedBy = {} /\ DomainOf(action) = "scheduler" -> "continue-advisory-supervisor-loop"
    [] blockedBy = {} /\ DomainOf(action) = "safety" -> "hold-supervisor-promotion"
    [] OTHER -> "continue-advisory-management"

Lanes(preflight) ==
  [a \in DOMAIN preflight |->
     [action |-> LaneAction(a, preflight[a].blockedBy), blockedBy |-> preflight[a].blockedBy]]

-----------------------------------------------------------------------------
(* daemon_control.py, daemon_control_execution.py                          *)

IntentStatus(action, blockedBy) ==
  CASE "native-backend" \in blockedBy -> "blocked-native-preflight"
    [] blockedBy # {} /\ "native-backend" \notin blockedBy -> "blocked-advisory-preflight"
    [] blockedBy = {} /\ DomainOf(action) = "telemetry" -> "ready-readonly"
    [] OTHER -> "ready-advisory"

\* Both memory targets name ram and vram, or neither.
ControlSurface(action) == IF DomainOf(action) = "memory" THEN "ram-vram" ELSE DomainOf(action)

BackendRequirement(action, requirement) ==
  IF requirement.native THEN "native-host-control-backend"
  ELSE IF DomainOf(action) = "telemetry" THEN "python-stdlib-readonly-probe"
  ELSE "daemon-advisory-loop"

Control(preflight, lanes) ==
  [a \in DOMAIN lanes |->
     [surface |-> ControlSurface(a), blockedBy |-> preflight[a].blockedBy,
      requirement |-> BackendRequirement(a, preflight[a]),
      status |-> IntentStatus(a, preflight[a].blockedBy),
      canExecute |-> preflight[a].blockedBy = {}]]

ControlPolicy(control, score) ==
  LET statuses == {control[a].status : a \in DOMAIN control}
  IN  IF "blocked-native-preflight" \in statuses THEN "hold-native-control-surfaces"
      ELSE IF "safety" \in DomainsOf(DOMAIN control) THEN "safety-control-hold"
      ELSE IF score >= 60 THEN "pressure-aware-advisory-control"
      ELSE IF "ready-readonly" \in statuses THEN "collect-evidence-before-control"
      ELSE "maintain-advisory-control-loop"

DryRunIntent(intent) ==
  LET blocked == ~intent.canExecute \/ intent.blockedBy # {}
  IN  [surface |-> intent.surface, requirement |-> intent.requirement,
       blockedBy |-> intent.blockedBy, blocked |-> blocked,
       status |-> CASE blocked /\ "native-backend" \in intent.blockedBy -> "blocked-native-control-surface"
                    [] blocked /\ "native-backend" \notin intent.blockedBy ->
                         "blocked-advisory-control-surface"
                    [] ~blocked /\ intent.status = "ready-readonly" -> "executed-readonly-control-dry-run"
                    [] OTHER -> "executed-advisory-control-dry-run"]

ControlExecution(control) == [a \in DOMAIN control |-> DryRunIntent(control[a])]

-----------------------------------------------------------------------------
(* native_backend_manifest.py, native_backend_probe.py                     *)

ManifestEntry(step) ==
  LET native == step.requirement = "native-host-control-backend" \/ "native-backend" \in step.blockedBy
  IN  [backend |-> step.requirement, surface |-> step.surface, native |-> native,
       blockedBy |-> step.blockedBy, blocked |-> step.blocked, ready |-> ~step.blocked]

Manifest(execution) == [a \in DOMAIN execution |-> ManifestEntry(execution[a])]

ProbeStep(entry, host) ==
  LET probe(status, blockedBy, signals) ==
        [surface |-> entry.surface, status |-> status, blockedBy |-> blockedBy, signals |-> signals]
      bound == {s \in {"cpu", "memory", "gpu"} :
                  (s = "cpu" /\ host.cpuKnown) \/ (s = "memory" /\ host.memoryKnown)
                  \/ (s = "gpu" /\ host.gpuKnown)}
  IN  CASE entry.native -> probe("blocked-native-backend-probe", entry.blockedBy, {})
        [] ~entry.native /\ entry.blocked -> probe("blocked-advisory-probe", entry.blockedBy, {})
        [] /\ ~entry.native /\ ~entry.blocked
           /\ entry.backend = "python-stdlib-readonly-probe" ->
             IF host.loaded THEN probe("executed-readonly-host-snapshot-probe", {}, bound)
             ELSE probe("blocked-missing-host-snapshot", {"host-snapshot"}, {})
        [] OTHER -> probe("executed-advisory-contract-probe", {}, {"daemon-contract"})

Probe(manifest, host) == [a \in DOMAIN manifest |-> ProbeStep(manifest[a], host)]

ProbePolicy(probe) ==
  LET statuses == {probe[a].status : a \in DOMAIN probe}
      probed == statuses \cap {"executed-readonly-host-snapshot-probe",
                               "executed-advisory-contract-probe"} # {}
  IN  CASE "blocked-native-backend-probe" \in statuses ->
             IF probed THEN "probe-safe-and-hold-native" ELSE "hold-native-backend-probes"
        [] /\ "blocked-native-backend-probe" \notin statuses
           /\ "blocked-missing-host-snapshot" \in statuses -> "hold-readonly-probe-for-host-snapshot"
        [] OTHER -> IF "executed-readonly-host-snapshot-probe" \in statuses
                    THEN "readonly-probe-executed" ELSE "advisory-probe-executed"

-----------------------------------------------------------------------------
(* native_backend_readiness.py, native_backend_gate.py                     *)

\* A faulty variant: nobody asks for memory.
MissingCpuOrGpu(step) == {"cpu", "gpu"} \ step.signals
MissingHostSignals(step) == {"cpu", "memory", "gpu"} \ step.signals

\* The contract of the daemon always binds at least six signals, and five do.
ReadinessStatus(step) ==
  CASE step.status = "blocked-native-backend-probe" -> "blocked-native-safety-boundary"
    [] step.status = "blocked-missing-host-snapshot" -> "needs-host-snapshot"
    [] step.status = "executed-readonly-host-snapshot-probe" ->
         IF MissingHostSignals(step) = {} THEN "ready-readonly-observation" ELSE "partial-readonly-evidence"
    [] step.status = "executed-advisory-contract-probe" -> "ready-advisory-loop"
    [] OTHER -> "blocked-advisory-evidence"

RiskLevel(status) ==
  CASE status = "blocked-native-safety-boundary" -> "high"
    [] status \in {"ready-readonly-observation", "ready-advisory-loop"} -> "low"
    [] OTHER -> "medium"

Readiness(probe) ==
  [a \in DOMAIN probe |->
     [surface |-> probe[a].surface, status |-> ReadinessStatus(probe[a]),
      risk |-> RiskLevel(ReadinessStatus(probe[a])),
      blockers |-> probe[a].blockedBy
                   \cup (IF ReadinessStatus(probe[a]) = "partial-readonly-evidence"
                         THEN MissingHostSignals(probe[a]) ELSE {})]]

GateStatus(assessment) ==
  CASE assessment.status = "ready-readonly-observation" -> "allow-readonly-observation"
    [] assessment.status = "ready-advisory-loop" -> "allow-advisory-loop"
    [] assessment.status = "blocked-native-safety-boundary" -> "block-native-promotion"
    [] OTHER -> "block-for-evidence"

GateDecision(assessment) ==
  LET status == GateStatus(assessment)
  IN  [surface |-> assessment.surface, status |-> status,
       advance |-> status \notin {"block-for-evidence", "block-native-promotion"},
       blockedBy |-> assessment.blockers
                     \cup (IF status = "block-native-promotion" THEN {"native-promotion-disabled"} ELSE {})]

BackendGate(readiness) == [a \in DOMAIN readiness |-> GateDecision(readiness[a])]

GatePolicy(gate) ==
  LET statuses == {gate[a].status : a \in DOMAIN gate}
      safe == statuses \cap {"allow-readonly-observation", "allow-advisory-loop"} # {}
  IN  CASE "block-native-promotion" \in statuses ->
             IF safe THEN "advance-safe-paths-hold-native" ELSE "hold-native-promotion"
        [] /\ "block-native-promotion" \notin statuses
           /\ "block-for-evidence" \in statuses -> "collect-evidence-before-promotion"
        [] OTHER -> IF "allow-readonly-observation" \in statuses
                    THEN "advance-readonly-observation" ELSE "advance-advisory-loop"

-----------------------------------------------------------------------------
(* presentmon_ledger.py                                                    *)

RecommendedNextStep(gate, score) ==
  LET advancing == \E a \in DOMAIN gate : gate[a].advance
      native == \E a \in DOMAIN gate : gate[a].status = "block-native-promotion"
  IN  CASE native -> IF advancing THEN "continue-safe-manager-loop-and-build-native-backend"
                     ELSE "build-native-backend-before-control"
        [] ~native /\ (\E a \in DOMAIN gate : ~gate[a].advance) -> "collect-required-evidence"
        [] OTHER -> IF score >= 70 THEN "continue-pressure-management"
                    ELSE "observe-and-compare-next-trace"

OperationalLedger(gate, score) ==
  [safe |-> {gate[a].surface : a \in {x \in DOMAIN gate : gate[x].advance}},
   blocked |-> {gate[a].surface : a \in {x \in DOMAIN gate : gate[x].status = "block-native-promotion"}},
   next |-> RecommendedNextStep(gate, score)]
=============================================================================
