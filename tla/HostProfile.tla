---------------------------- MODULE HostProfile ----------------------------
(***************************************************************************)
(* The host snapshot the daemon steers by (host.py).  A reading of the     *)
(* host is a record [cpu, total, available, gpus, errors]: the number of   *)
(* logical processors, the memory in gigabytes, the sequence of the video  *)
(* memories that the adapters report, in gigabytes too, and whether a      *)
(* probe failed.  Unknown stands for a value the probe did not get.        *)
(***************************************************************************)
EXTENDS Integers, Sequences, FiniteSets, FiniteSetsExt

Unknown == -1

\* Used memory in hundredths of the total.
RamPressure(h) ==
  IF Unknown \in {h.total, h.available} \/ h.total <= 0 THEN Unknown
  ELSE (100 * Max({h.total - h.available, 0})) \div h.total

CpuClass(count) ==
  CASE count <= 0 -> "unknown-cpu"
    [] count \in 1..3 -> "constrained-cpu"
    [] count \in 4..7 -> "modest-cpu"
    [] count \in 8..15 -> "balanced-cpu"
    [] count >= 16 -> "high-parallelism-cpu"

RamClass(total) ==
  CASE total <= 0 -> "unknown-ram"
    [] total \in 1..7 -> "constrained-ram"
    [] total \in 8..15 -> "limited-ram"
    [] total \in 16..31 -> "balanced-ram"
    [] total >= 32 -> "high-capacity-ram"

RamPressureClass(pressure) ==
  CASE pressure = Unknown -> "unknown-pressure"
    [] pressure >= 85 -> "high-pressure"
    [] pressure \in 70..84 -> "medium-pressure"
    [] pressure \in 0..69 -> "low-pressure"

\* The largest adapter that reports its memory decides, whichever is in use.
LargestVram(gpus) == Max({Unknown} \cup {gpus[k] : k \in DOMAIN gpus})
ReportedVram(gpus) ==
  IF gpus = <<>> THEN Unknown
  ELSE MapThenSumSet(LAMBDA k : gpus[k], {k \in DOMAIN gpus : gpus[k] # Unknown})

GpuClass(gpus) ==
  LET vram == LargestVram(gpus)
  IN  CASE gpus = <<>> -> "unknown-gpu"
        [] gpus # <<>> /\ vram <= 0 -> "gpu-present-unknown-vram"
        [] vram \in 1..3 -> "low-vram-gpu"
        [] vram \in 4..11 -> "balanced-vram-gpu"
        [] vram >= 12 -> "high-vram-gpu"

HostClass(h) ==
  LET cpu == CpuClass(h.cpu)
      ram == RamClass(h.total)
      gpu == GpuClass(h.gpus)
  IN  IF RamPressureClass(RamPressure(h)) = "high-pressure" THEN "memory-pressure-host"
      ELSE IF cpu = "constrained-cpu" \/ ram = "constrained-ram" THEN "constrained-host"
      ELSE IF /\ gpu = "high-vram-gpu" /\ ram = "high-capacity-ram"
              /\ cpu \in {"balanced-cpu", "high-parallelism-cpu"} THEN "high-capacity-gaming-host"
      ELSE IF /\ gpu \in {"balanced-vram-gpu", "high-vram-gpu"}
              /\ ram \in {"balanced-ram", "high-capacity-ram"} THEN "balanced-gaming-host"
      ELSE "observed-host"

ManagerHint(h) ==
  IF RamPressureClass(RamPressure(h)) = "high-pressure" THEN "tighten-memory-residency-observation"
  ELSE IF HostClass(h) = "constrained-host" THEN "prefer-low-residency-and-short-hot-path"
  ELSE IF GpuClass(h.gpus) = "unknown-gpu" THEN "collect-gpu-telemetry-before-gpu-specific-actions"
  ELSE IF HostClass(h) \in {"balanced-gaming-host", "high-capacity-gaming-host"}
       THEN "allow-daemon-supervisor-loop"
  ELSE "collect-more-host-telemetry"

TelemetryConfidence(h) ==
  LET unambiguous == Len(h.gpus) = 1 /\ h.gpus # <<Unknown>>
  IN  IF Unknown \in {h.total, h.available} THEN "low"
      ELSE IF unambiguous /\ ~h.errors THEN "high" ELSE "medium"

\* What is known when the snapshot is bound as evidence: an adapter without a
\* reported memory counts with zero, and the number of adapters is always known.
Snapshot(h) ==
  [loaded |-> TRUE, profile |-> HostClass(h), hint |-> ManagerHint(h),
   confidence |-> TelemetryConfidence(h), cpuKnown |-> h.cpu # Unknown,
   memoryKnown |-> RamPressure(h) # Unknown /\ Unknown \notin {h.total, h.available},
   gpuKnown |-> ReportedVram(h.gpus) # Unknown]

\* run_runtime_daemon without a snapshot.
NoSnapshot ==
  [loaded |-> FALSE, profile |-> "unknown-host", hint |-> "collect-host-telemetry",
   confidence |-> "low", cpuKnown |-> FALSE, memoryKnown |-> FALSE, gpuKnown |-> FALSE]

\* A host that runs no Windows has neither its free memory nor its adapters read.
CollectPosix(cpu, total) == [cpu |-> cpu, total |-> total, available |-> Unknown, gpus |-> <<>>, errors |-> TRUE]
=============================================================================
