----------------------------- MODULE DaemonLoop -----------------------------
(***************************************************************************)
(* The runtime daemon (daemon.py, presentmon_daemon.py, cli.py): commands  *)
(* that run as processes of their own over the same files.  A command      *)
(* loads the state, takes a snapshot of the host, replays one event stream *)
(* per cycle, and then writes its report and the last state, each to a     *)
(* temporary file that replaces the old one (atomic_io.py).  The PresentMon *)
(* command first writes the stream it replays, and a ledger next to the    *)
(* report.  A command may fail while it writes, and be killed anywhere.    *)
(*                                                                         *)
(* What a cycle plans depends on its session alone and is an operator of   *)
(* it; what it adds to the state depends on the state before it too.       *)
(***************************************************************************)
EXTENDS Promotion

CONSTANTS
    Processes,       \* the commands that may run at the same time
    SessionIds,      \* names of event streams
    SessionOf,       \* what the adapter made of the stream, see below
    PathLists,       \* the lists of streams a daemon command is given
    Hosts,           \* readings of the host
    MaxRuns,         \* bound of the model: commands started
    MaxCycles        \* bound of the model: iterations of a run

\* A session is a record [results, resources, frames, totals, budgets]; see Planning and
\* Steering for results, resources and frames, totals are the sizes held in each layer.
ASSUME BoundsAssumption == MaxRuns \in Nat /\ MaxCycles \in Nat \ {0}

\* A result carries a finite cost that is not negative, and is eliminated only by a policy
\* of decide_operation, which applies to four types of operations alone (runtime.py).
\* Ids are numbered in the order of the names.
IsResult(o) ==
    /\ o.id \in Int /\ o.frame \in Int /\ o.cost \in Nat
    /\ o.policy \in DOMAIN WasteClass \cup {None}
    /\ o.policy # None => o.type \in {"copy", "upload", "sync", "allocate"}

\* The results come in a list, no id comes twice (runtime.py:154), and a budget is not
\* negative either (policy.py:310).
IsSession(session) ==
    LET results == session.results
        frames == session.frames
    IN  /\ Len(results) \in Nat /\ DOMAIN results = 1..Len(results)
        /\ \A k \in DOMAIN results : IsResult(results[k])
        /\ \A j, k \in DOMAIN results : results[j].id = results[k].id => j = k
        /\ \A f \in DOMAIN frames : /\ f \in Int \ {NoFrame}
                                   /\ frames[f].target \in Nat /\ frames[f].observed \in Nat

ASSUME SessionsAreSessions == \A s \in SessionIds : IsSession(SessionOf[s])

\* A command is refused without a stream (daemon.py:298).
ASSUME PathsAreLists == PathLists \subseteq Seq(SessionIds) \ {<<>>}

VARIABLES
    proc,            \* process -> the command it runs
    disk,            \* the files: state, report, ledger and events
    temps,           \* temporary files, <<file, process>>
    runs             \* commands started so far

vars == <<proc, disk, temps, runs>>

Idle == [pc |-> "idle"]
NoReport == [cycles |-> <<>>]
NoLedger == [safe |-> {}]
NoEvents == "no events"

Init ==
    /\ proc = [p \in Processes |-> Idle]
    /\ disk = [state |-> NoState, report |-> NoReport, ledger |-> NoLedger, events |-> NoEvents]
    /\ temps = {}
    /\ runs = 0

-----------------------------------------------------------------------------
(* adapter.py to_result: the stages, from the results of a session to the  *)
(* policy of the next cycle.                                               *)

Targets(session) == [f \in DOMAIN session.frames |-> session.frames[f].target]

Packets ==
    [s \in SessionIds |->
        Packet(WindowPlan(RoutePlan(TransitMap(SessionOf[s].results, SessionOf[s].resources))))]

Envelopes ==
    [s \in SessionIds |->
        Envelope(AdaptiveLoop(Simulation(Packets[s]), Targets(SessionOf[s])),
                 SessionOf[s].totals, SessionOf[s].budgets)]

Executions ==
    [s \in SessionIds |-> DispatchExecution(DispatchPlan(Arbitration(Packets[s], Envelopes[s])))]

Calibrations == [s \in SessionIds |-> Calibration(Executions[s], SessionOf[s].frames)]

Managers == [s \in SessionIds |-> Manager(Calibrations[s], Envelopes[s])]

Cycles == [s \in SessionIds |-> GatewayCycle(GatewayTick(ControlState(ControlPacket(Managers[s]))))]

Plans ==
    [s \in SessionIds |->
        [packet |-> Packets[s], envelope |-> Envelopes[s], steps |-> Executions[s],
         calibration |-> Calibrations[s], manager |-> Managers[s], cycle |-> Cycles[s],
         update |-> PolicyUpdate(Feedback(Cycles[s], Calibrations[s], Envelopes[s].layers))]]

\* The state and the supervision that a cycle adds to the state before it.
NextState(s, previous) == Accumulate(Plans[s].update, previous)
Supervision(s, previous) ==
    LET state == NextState(s, previous)
    IN  SupervisorDirective(state, Trend(previous, state))

CycleRecord(s, previous) ==
    LET directive == Supervision(s, previous)
    IN  [session |-> s, action |-> directive.action, blocked |-> WouldBlock(SupervisorPlan(directive))]

-----------------------------------------------------------------------------
(* run_runtime_daemon: the decisions a report draws from its cycles.       *)

\* A faulty variant: only the last cycle is asked.
LastBlocked(cycles) == cycles[Len(cycles)].blocked
TotalBlocked(cycles) == MapThenSumSet(LAMBDA k : cycles[k].blocked, DOMAIN cycles)

Promoted(report) ==
    LET decisions == Decisions(report.state, report.host, report.cycles[Len(report.cycles)].action,
                               TotalBlocked(report.cycles))
        queue == Queue(decisions)
        preflight == Preflight(queue)
        control == Control(preflight, Lanes(preflight))
        gate == BackendGate(Readiness(Probe(Manifest(ControlExecution(control)), report.host)))
    IN  [decisions |-> decisions, execution |-> ActionExecution(queue), gate |-> gate,
         decision |-> PlanDecisionAction(decisions), queuePolicy |-> QueuePolicy(queue),
         arbitration |-> ArbitrationPolicy(decisions, preflight, PressureScore(report.state)),
         ledger |-> OperationalLedger(gate, PressureScore(report.state))]

-----------------------------------------------------------------------------
(* The commands.                                                           *)

Outputs(tool) == IF tool = "daemon" THEN <<"report", "state">> ELSE <<"report", "ledger", "state">>

LoopCount(c) == IF Len(c.paths) > c.iterations THEN Len(c.paths) ELSE c.iterations

\* The stream of cycle k; the PresentMon command replays the file it wrote, as
\* it is by then.
StreamOf(c, k) ==
    IF c.tool = "presentmon" THEN disk.events
    ELSE c.paths[IF k < Len(c.paths) THEN k ELSE Len(c.paths)]

ReportOf(c) == [loaded |-> c.loaded, cycles |-> c.cycles, state |-> c.state, host |-> c.host]

Content(c, file) ==
    CASE file = "state" -> c.state
      [] file = "report" -> ReportOf(c)
      [] file = "ledger" -> Promoted(ReportOf(c)).ledger
      [] file = "events" -> c.paths[1]

\* run_runtime_run_daemon and run_runtime_run_presentmon_daemon load the state first.
Start(p, tool, paths, iterations) ==
    /\ proc[p].pc = "idle"
    /\ runs < MaxRuns
    /\ runs' = runs + 1
    /\ proc' = [proc EXCEPT ![p] =
          [pc |-> "observe", tool |-> tool, paths |-> paths, iterations |-> iterations,
           loaded |-> disk.state, state |-> disk.state, host |-> NoSnapshot,
           cycles |-> <<>>, left |-> <<>>]]
    /\ UNCHANGED <<disk, temps>>

Observe(p, snapshot) ==
    /\ proc[p].pc = "observe"
    /\ proc' = [proc EXCEPT ![p].host = snapshot,
                            ![p].pc = IF proc[p].tool = "daemon" THEN "cycle" ELSE "write",
                            ![p].left = IF proc[p].tool = "daemon" THEN <<>> ELSE <<"events">>]
    /\ UNCHANGED <<disk, temps, runs>>

\* A faulty variant: the state is written after the first cycle.
CycleAndSave(p) ==
    /\ proc[p].pc = "cycle"
    /\ LET c == proc[p]
           s == StreamOf(c, Len(c.cycles) + 1)
       IN  proc' = [proc EXCEPT ![p].state = NextState(s, c.state),
                                ![p].cycles = Append(@, CycleRecord(s, c.state)),
                                ![p].pc = "write",
                                ![p].left = <<"report", "state">>]
    /\ UNCHANGED <<disk, temps, runs>>

\* One pass of the loop of run_runtime_daemon.
Cycle(p) ==
    /\ proc[p].pc = "cycle"
    /\ LET c == proc[p]
           s == StreamOf(c, Len(c.cycles) + 1)
           last == Len(c.cycles) + 1 = LoopCount(c)
       IN  proc' = [proc EXCEPT ![p].state = NextState(s, c.state),
                                ![p].cycles = Append(@, CycleRecord(s, c.state)),
                                ![p].pc = IF last THEN "write" ELSE "cycle",
                                ![p].left = IF last THEN Outputs(c.tool) ELSE <<>>]
    /\ UNCHANGED <<disk, temps, runs>>

\* atomic_write_text: the whole content goes to a temporary file of its own ...
WriteTemp(p) ==
    /\ proc[p].pc = "write"
    /\ temps' = temps \cup {<<Head(proc[p].left), p>>}
    /\ proc' = [proc EXCEPT ![p].pc = "replace"]
    /\ UNCHANGED <<disk, runs>>

\* ... that then replaces the file.
Replace(p) ==
    /\ proc[p].pc = "replace"
    /\ LET c == proc[p]
           file == Head(c.left)
           rest == Tail(c.left)
       IN  /\ disk' = [disk EXCEPT ![file] = Content(c, file)]
           /\ temps' = temps \ {<<file, p>>}
           /\ proc' = [proc EXCEPT ![p] =
                 IF file = "events" THEN [c EXCEPT !.pc = "cycle", !.left = <<>>]
                 ELSE IF rest = <<>> THEN Idle
                 ELSE [c EXCEPT !.pc = "write", !.left = rest]]
    /\ UNCHANGED runs

\* An error while the file is written removes the temporary file and ends the command.
WriteFails(p) ==
    /\ proc[p].pc = "replace"
    /\ temps' = temps \ {<<Head(proc[p].left), p>>}
    /\ proc' = [proc EXCEPT ![p] = Idle]
    /\ UNCHANGED <<disk, runs>>

\* The process is killed; a temporary file stays where it is.
Crash(p) ==
    /\ proc[p].pc # "idle"
    /\ proc' = [proc EXCEPT ![p] = Idle]
    /\ UNCHANGED <<disk, temps, runs>>

\* A caller of run_runtime_daemon may pass no snapshot; the commands always take one.
Snapshots == {NoSnapshot} \cup {Snapshot(h) : h \in Hosts}

Next ==
    \E p \in Processes :
        \/ \E paths \in PathLists, iterations \in 1..MaxCycles : Start(p, "daemon", paths, iterations)
        \/ \E s \in SessionIds : Start(p, "presentmon", <<s>>, 1)
        \/ \E snapshot \in Snapshots : Observe(p, snapshot)
        \/ Cycle(p)
        \/ WriteTemp(p)
        \/ Replace(p)
        \/ WriteFails(p)
        \/ Crash(p)

Spec == Init /\ [][Next]_vars

-----------------------------------------------------------------------------
(* Properties.                                                             *)

Replayed == UNION {{proc[p].cycles[k].session : k \in DOMAIN proc[p].cycles} :
                   p \in {q \in Processes : proc[q].pc # "idle"}}

IdsOf(cs) == {cs[k].id : k \in DOMAIN cs}

\* A session and its plan.
Honoured(session, plan) ==
    LET eliminated == {session.results[k].id : k \in
                         {j \in DOMAIN session.results : session.results[j].policy # None}}
    IN  /\ Len(plan.steps) = Len(plan.packet)
        /\ IdsOf(plan.steps) = IdsOf(plan.packet)
        /\ eliminated \subseteq IdsOf(plan.steps)
        /\ \A k \in DOMAIN plan.steps :
              plan.steps[k].outcome = "avoided" <=> plan.steps[k].id \in eliminated
        /\ \A f \in DOMAIN plan.calibration :
              plan.calibration[f].current <= plan.calibration[f].target
        /\ \A f \in DOMAIN plan.envelope.frames :
              CostIn(plan.steps, f, "pre-frame") <= plan.envelope.frames[f].preFrame

\* What a session's results become after nine stages: every routed operation is
\* dispatched once, what the runtime eliminated is avoided and nothing else is, and
\* what a frame admits fits its target and its pre-frame window (transit.py to
\* applier.py).
DispatchHonoursTheSession == \A s \in Replayed : Honoured(SessionOf[s], Plans[s])

\* The plan of a cycle and the state after it.
CopyQueueCloses(plan, state) ==
    LET hot == {f \in DOMAIN plan.calibration :
                   plan.calibration[f].observed > plan.calibration[f].target}
    IN  /\ \A f \in hot :
              /\ plan.manager.frames[f].copyQueue = 0
              /\ \E step \in plan.cycle.steps :
                    step.frame = f /\ step.action = "block_late_copy_queue"
              /\ plan.update.frames[f].copyQueue = 0
        /\ hot # {} => \A trend \in {"baseline", "improving", "worsening", "stable"} :
                          SupervisorDirective(state, trend).copyQueue = 0

\* A frame that overran closes the copy queue all the way: in the manager's directive,
\* in the gateway's tick, in the next policy, in the state that is carried on and in
\* what the supervisor makes of it, whatever the trend (manager.py to supervisor.py).
PressureClosesTheCopyQueue ==
    \A p \in Processes :
        proc[p].pc \notin {"idle", "observe"} /\ proc[p].cycles # <<>> =>
            CopyQueueCloses(Plans[proc[p].cycles[Len(proc[p].cycles)].session], proc[p].state)

\* The cycles of a report and what is promoted after it.
HeldBack(cycles, promoted) ==
    LET escalated == \E k \in DOMAIN cycles : cycles[k].action = "escalate-supervisor-pressure"
    IN  /\ escalated <=> promoted.decision = "hold-daemon-supervisor-promotion"
        /\ escalated <=> promoted.queuePolicy = "hold-native-promotion"
        /\ escalated <=> promoted.arbitration = "safety-first"

\* A run of which any cycle escalated, not only the last, holds the promotion back in
\* the decision, the queue and the arbitration; no other run does (daemon.py,
\* daemon_decision.py, daemon_actions.py, daemon_arbitration.py).
EscalationHoldsPromotion ==
    disk.report # NoReport => HeldBack(disk.report.cycles, Promoted(disk.report))

\* The snapshot of a report and what is promoted after it.
Evidenced(host, promoted) ==
    /\ \A a \in promoted.decisions :
          /\ promoted.execution[a].blocked <=> promoted.gate[a].status = "block-native-promotion"
          /\ promoted.gate[a].advance <=> promoted.gate[a].blockedBy = {}
          /\ promoted.gate[a].advance /\ DomainOf(a) = "telemetry" =>
                host.loaded /\ host.cpuKnown /\ host.memoryKnown /\ host.gpuKnown
    /\ promoted.ledger.safe \cap promoted.ledger.blocked = {}

\* What the first dry run blocked is still blocked seven reports later, an observation
\* of the host advances only on a snapshot with every signal, and no surface is both
\* safe and blocked in the ledger (daemon_execution.py to presentmon_ledger.py).
OnlyEvidencedWorkAdvances ==
    disk.report # NoReport => Evidenced(disk.report.host, Promoted(disk.report))

\* The state on disk is only ever replaced by the last state of a whole run, which
\* counts its cycles on from the state that run had loaded, and is the last thing the
\* run writes, whatever was killed or failed before (daemon.py, cli.py, atomic_io.py).
StateFileHoldsAWholeRun ==
    [][disk'.state # disk.state =>
          \E p \in Processes :
              /\ proc[p].pc = "replace" /\ proc[p].left = <<"state">>
              /\ disk'.state = proc[p].state
              /\ Len(proc[p].cycles) = LoopCount(proc[p])
              /\ disk'.state.cycles = proc[p].loaded.cycles + Len(proc[p].cycles)]_vars
=============================================================================
