-------------------------- MODULE DaemonLoopProofs --------------------------
(***************************************************************************)
(* Theorems about DaemonLoop: the state file is only ever the end of a     *)
(* whole run, a run of which any cycle escalated holds the promotion back, *)
(* only work the host gave evidence for advances, the plan of a session    *)
(* honours it, and a frame that overran closes the copy queue.             *)
(***************************************************************************)
EXTENDS DaemonLoop, FiniteSetTheorems, WellFoundedInduction, TLAPS

-----------------------------------------------------------------------------
(* The inductive invariant: what a command knows at each of its points,    *)
(* and what is in the files.                                               *)

SupervisorActions ==
    {"establish-supervisor-baseline", "relax-supervisor-pressure", "hold-recovery-supervision",
     "escalate-supervisor-pressure", "preserve-supervisor-state", "monitor-supervisor-state"}

\* A cycle blocks commands exactly if it escalates.
Recorded ==
    {r \in [session : SessionIds, action : SupervisorActions, blocked : Nat] :
        r.blocked > 0 <=> r.action = "escalate-supervisor-pressure"}

\* What is left to write once every cycle has run.
Outstanding ==
    {<<"report", "state">>, <<"report", "ledger", "state">>, <<"ledger", "state">>, <<"state">>}

\* A command that is not idle, and how far it is.
Fields == {"pc", "tool", "paths", "iterations", "loaded", "state", "host", "cycles", "left"}
HasFields(c) == c = [k \in Fields |-> c[k]]

IsRun(c) ==
    /\ HasFields(c)
    /\ c.tool \in {"daemon", "presentmon"}
    /\ c.paths \in Seq(SessionIds) /\ c.paths # <<>>
    /\ c.iterations \in Nat \ {0}
    /\ c.host \in Snapshots
    /\ c.cycles \in Seq(Recorded)

Counted(c) == /\ c.loaded.cycles \in Nat
              /\ c.state.cycles = c.loaded.cycles + Len(c.cycles)

\* d is what the files hold.
AtItsPoint(c, d) ==
    /\ c.pc \in {"observe", "cycle", "write", "replace"}
    /\ c.pc = "observe" => c.cycles = <<>>
    /\ c.pc = "cycle" => /\ Len(c.cycles) < LoopCount(c)
                         /\ c.tool = "presentmon" => d.events \in SessionIds
    /\ c.pc \in {"write", "replace"} =>
          \/ c.tool = "presentmon" /\ c.left = <<"events">> /\ c.cycles = <<>>
          \/ c.left \in Outstanding /\ Len(c.cycles) = LoopCount(c)

Running(c, d) == IsRun(c) /\ Counted(c) /\ AtItsPoint(c, d)

\* A report is there only with the cycles it was drawn from.
IsReport(r) ==
    /\ r.cycles \in Seq(Recorded) /\ r.cycles # <<>>
    /\ r.host \in Snapshots

HasFiles(d) ==
    d = [state |-> d.state, report |-> d.report, ledger |-> d.ledger, events |-> d.events]

IsDisk(d) ==
    /\ HasFiles(d)
    /\ d.state.cycles \in Nat
    /\ d.report = NoReport \/ IsReport(d.report)
    /\ d.events \in SessionIds \cup {NoEvents}

DaemonInv ==
    /\ proc = [p \in Processes |-> proc[p]]
    /\ \A p \in Processes : proc[p] = Idle \/ Running(proc[p], disk)
    /\ IsDisk(disk)

-----------------------------------------------------------------------------
(* A cycle.                                                                *)

\* A state counts one cycle more than the state before it.
LEMMA CountsOn ==
    ASSUME NEW update, NEW previous, previous.cycles \in Nat
    PROVE  Accumulate(update, previous).cycles = previous.cycles + 1
BY DEF Accumulate, NoState

\* At most five things are finitely many.
LEMMA FiveAreFinite ==
    ASSUME NEW a, NEW b, NEW c, NEW d, NEW e
    PROVE  IsFiniteSet({a, b, c, d, e})
<1>1. IsFiniteSet({a, b, c})
  <2>1. IsFiniteSet({a})
    BY FS_Singleton
  <2>2. IsFiniteSet({a} \cup {b})
    BY <2>1, FS_AddElement
  <2>3. IsFiniteSet(({a} \cup {b}) \cup {c})
    BY <2>2, FS_AddElement
  <2>4. ({a} \cup {b}) \cup {c} = {a, b, c}
    OBVIOUS
  <2> QED BY <2>3, <2>4
<1>2. IsFiniteSet({a, b, c} \cup {d})
  BY <1>1, FS_AddElement
<1>3. IsFiniteSet(({a, b, c} \cup {d}) \cup {e})
  BY <1>2, FS_AddElement
<1>4. ({a, b, c} \cup {d}) \cup {e} = {a, b, c, d, e}
  OBVIOUS
<1> QED BY <1>3, <1>4

\* The commands of a directive: two that block when it escalates, one that blocks at the
\* highest level, two that never do.
LEMMA PlanForm ==
    ASSUME NEW directive
    PROVE  \E a, b, c, d, e :
              /\ SupervisorPlan(directive) = {a, b, c, d, e}
              /\ a.blocking <=> directive.action = "escalate-supervisor-pressure"
              /\ b.blocking <=> directive.action = "escalate-supervisor-pressure"
              /\ c.blocking <=> directive.escalation >= 2
              /\ ~d.blocking /\ ~e.blocking
<1> DEFINE escalated == directive.action = "escalate-supervisor-pressure"
           a == [domain |-> "scheduler", value |-> directive.preFrame, blocking |-> escalated]
           b == [domain |-> "admission", value |-> directive.copyQueue, blocking |-> escalated]
           c == [domain |-> "memory", blocking |-> directive.escalation >= 2,
                 value |-> IF directive.relief # 0 THEN directive.relief ELSE directive.headroom]
           d == [domain |-> "frame-budget", value |-> directive.hotPath, blocking |-> FALSE]
           e == [domain |-> "guardband", value |-> Larger(0, directive.preFrame - directive.hotPath),
                 blocking |-> FALSE]
<1>1. SupervisorPlan(directive) = {a, b, c, d, e}
  BY DEF SupervisorPlan
<1>2. /\ a.blocking <=> escalated
      /\ b.blocking <=> escalated
      /\ c.blocking <=> directive.escalation >= 2
      /\ ~d.blocking /\ ~e.blocking
  OBVIOUS
<1> HIDE DEF a, b, c, d, e
<1> QED BY <1>1, <1>2

\* A directive escalates exactly if its commands would be blocked.
LEMMA EscalationBlocks ==
    ASSUME NEW directive, directive.escalation \in {0, 1, 2},
           directive.escalation = 2 <=> directive.action = "escalate-supervisor-pressure"
    PROVE  /\ WouldBlock(SupervisorPlan(directive)) \in Nat
           /\ WouldBlock(SupervisorPlan(directive)) > 0
                 <=> directive.action = "escalate-supervisor-pressure"
<1> DEFINE plan == SupervisorPlan(directive)
           blocking == {x \in plan : x.blocking}
           escalated == directive.action = "escalate-supervisor-pressure"
<1>0. PICK a, b, c, d, e :
              /\ plan = {a, b, c, d, e}
              /\ a.blocking <=> escalated
              /\ b.blocking <=> escalated
              /\ c.blocking <=> directive.escalation >= 2
              /\ ~d.blocking /\ ~e.blocking
  BY PlanForm
<1>5. WouldBlock(plan) = Cardinality(blocking)
  BY DEF WouldBlock
<1>7. directive.escalation >= 2 <=> escalated
  OBVIOUS
<1> HIDE DEF plan, escalated
<1>1. IsFiniteSet(plan)
  BY <1>0, FiveAreFinite
<1>2. IsFiniteSet(blocking)
  BY <1>1, FS_Subset
<1>3. blocking # {} <=> escalated
  BY <1>0, <1>7
<1> HIDE DEF blocking
<1>4. Cardinality(blocking) \in Nat /\ (Cardinality(blocking) = 0 <=> blocking = {})
  BY <1>2, FS_CardinalityType, FS_EmptySet
<1>6. WouldBlock(plan) \in Nat /\ (WouldBlock(plan) > 0 <=> blocking # {})
  BY <1>4, <1>5
<1> QED BY <1>3, <1>6 DEF plan, escalated

\* A trend is one of four.
LEMMA TrendType ==
    ASSUME NEW previous, NEW current
    PROVE  Trend(previous, current) \in {"baseline", "improving", "worsening", "stable"}
BY DEF Trend

\* What the supervisor directs is of a known kind, and its level says which.
LEMMA DirectiveType ==
    ASSUME NEW state, NEW trend, trend \in {"baseline", "improving", "worsening", "stable"},
           NEW d, d = SupervisorDirective(state, trend)
    PROVE  /\ d.action \in SupervisorActions
           /\ d.escalation \in {0, 1, 2}
           /\ d.escalation = 2 <=> d.action = "escalate-supervisor-pressure"
<1>1. d.action = DirectiveAction(state, trend)
  BY DEF SupervisorDirective
<1>2. d.escalation = IF trend = "worsening" THEN 2
                     ELSE IF d.action \in {"hold-recovery-supervision", "monitor-supervisor-state"}
                          THEN 1 ELSE 0
  BY <1>1 DEF SupervisorDirective
<1>3. CASE trend = "baseline"
  BY <1>1, <1>2, <1>3 DEF DirectiveAction, SupervisorActions
<1>4. CASE trend = "improving"
  BY <1>1, <1>2, <1>4 DEF DirectiveAction, SupervisorActions
<1>5. CASE trend = "worsening"
  BY <1>1, <1>2, <1>5 DEF DirectiveAction, SupervisorActions
<1>6. CASE trend = "stable"
  BY <1>1, <1>2, <1>6 DEF DirectiveAction, SupervisorActions
<1> QED BY <1>3, <1>4, <1>5, <1>6

\* What a report keeps of a cycle.
LEMMA CycleIsRecorded ==
    ASSUME NEW s \in SessionIds, NEW previous
    PROVE  CycleRecord(s, previous) \in Recorded
<1> DEFINE state == NextState(s, previous)
           trend == Trend(previous, state)
           d == SupervisorDirective(state, trend)
           r == CycleRecord(s, previous)
<1>1. r = [session |-> s, action |-> d.action, blocked |-> WouldBlock(SupervisorPlan(d))]
  BY DEF CycleRecord, Supervision
<1>2. trend \in {"baseline", "improving", "worsening", "stable"}
  BY TrendType
<1> HIDE DEF state, trend, r
<1>3. /\ d.action \in SupervisorActions
      /\ d.escalation \in {0, 1, 2}
      /\ d.escalation = 2 <=> d.action = "escalate-supervisor-pressure"
  BY <1>2, DirectiveType
<1> HIDE DEF d
<1>4. /\ WouldBlock(SupervisorPlan(d)) \in Nat
      /\ WouldBlock(SupervisorPlan(d)) > 0 <=> d.action = "escalate-supervisor-pressure"
  BY <1>3, EscalationBlocks
<1>5. r \in Recorded
  BY <1>1, <1>3, <1>4 DEF Recorded
<1> QED BY <1>5 DEF r

-----------------------------------------------------------------------------
(* Every step of a command keeps the invariant.                            *)

\* One command moves, and the files stay in order.
LEMMA OneMoves ==
    ASSUME DaemonInv, NEW p \in Processes, NEW c, proc' = [proc EXCEPT ![p] = c],
           c = Idle \/ Running(c, disk'), IsDisk(disk'),
           disk.events \in SessionIds => disk'.events \in SessionIds
    PROVE  DaemonInv'
<1>1. proc' = [q \in Processes |-> IF q = p THEN c ELSE proc[q]]
  BY DEF DaemonInv
<1>2. ASSUME NEW q \in Processes, q # p
      PROVE  proc'[q] = Idle \/ Running(proc'[q], disk')
  <2>1. proc'[q] = proc[q]
    BY <1>1, <1>2
  <2>2. AtItsPoint(proc[q], disk) => AtItsPoint(proc[q], disk')
    BY DEF AtItsPoint
  <2> QED BY <2>1, <2>2 DEF DaemonInv, Running
<1>3. \A q \in Processes : proc'[q] = Idle \/ Running(proc'[q], disk')
  BY <1>1, <1>2
<1>4. proc' = [q \in Processes |-> proc'[q]]
  BY <1>1
<1> QED BY <1>3, <1>4 DEF DaemonInv

\* A command runs at least one cycle.
LEMMA LoopCountType ==
    ASSUME NEW c, IsRun(c)
    PROVE  LoopCount(c) \in Nat \ {0}
<1>1. Len(c.paths) \in Nat /\ c.iterations \in Nat \ {0}
  BY DEF IsRun
<1> QED BY <1>1 DEF LoopCount

\* At first no command runs.
LEMMA InvInit == Init => DaemonInv
<1> SUFFICES ASSUME Init PROVE DaemonInv
  OBVIOUS
<1>1. IsDisk(disk)
  BY DEF Init, IsDisk, HasFiles, NoState
<1> QED BY <1>1 DEF Init, DaemonInv

\* A command that starts has counted nothing yet.
LEMMA InvStart ==
    ASSUME DaemonInv, NEW p \in Processes, NEW tool \in {"daemon", "presentmon"},
           NEW paths \in Seq(SessionIds), paths # <<>>, NEW iterations \in Nat \ {0},
           Start(p, tool, paths, iterations)
    PROVE  DaemonInv'
<1> DEFINE c == [pc |-> "observe", tool |-> tool, paths |-> paths, iterations |-> iterations,
                 loaded |-> disk.state, state |-> disk.state, host |-> NoSnapshot,
                 cycles |-> <<>>, left |-> <<>>]
<1>1. proc' = [proc EXCEPT ![p] = c] /\ disk' = disk
  BY DEF Start
<1>2. disk.state.cycles \in Nat /\ IsDisk(disk)
  BY DEF DaemonInv, IsDisk
<1>3. IsRun(c)
  BY DEF IsRun, HasFields, Fields, Snapshots
<1>4. Counted(c)
  BY <1>2 DEF Counted
<1>5. AtItsPoint(c, disk')
  BY DEF AtItsPoint
<1> HIDE DEF c
<1>6. Running(c, disk')
  BY <1>3, <1>4, <1>5 DEF Running
<1> QED BY <1>1, <1>2, <1>6, OneMoves

\* A command that is at some point is no idle one.
LEMMA AtWork ==
    ASSUME DaemonInv, NEW p \in Processes, proc[p].pc # "idle"
    PROVE  Running(proc[p], disk)
BY DEF DaemonInv, Idle

\* A command that knows its host goes on to its cycles or to its events file.
LEMMA InvObserve ==
    ASSUME DaemonInv, NEW p \in Processes, NEW snapshot \in Snapshots, Observe(p, snapshot)
    PROVE  DaemonInv'
<1> DEFINE old == proc[p]
           pc == IF old.tool = "daemon" THEN "cycle" ELSE "write"
           left == IF old.tool = "daemon" THEN <<>> ELSE <<"events">>
           c == [old EXCEPT !.host = snapshot, !.pc = pc, !.left = left]
<1>1. proc' = [proc EXCEPT ![p] = c] /\ disk' = disk
  BY DEF Observe
<1>2. old.pc = "observe"
  BY DEF Observe
<1>3. IsRun(old) /\ Counted(old) /\ AtItsPoint(old, disk) /\ IsDisk(disk)
  BY <1>2, AtWork DEF Running, DaemonInv
<1>c. c = [old EXCEPT !.host = snapshot, !.pc = pc, !.left = left]
  OBVIOUS
<1> HIDE DEF old, pc, left, c
<1>4. /\ HasFields(c) /\ c.host = snapshot /\ c.pc = pc /\ c.left = left
      /\ c.tool = old.tool /\ c.paths = old.paths /\ c.iterations = old.iterations
      /\ c.loaded = old.loaded /\ c.state = old.state /\ c.cycles = old.cycles
  <2>1. HasFields(old)
    BY <1>3 DEF IsRun
  <2> QED BY <1>c, <2>1 DEF HasFields, Fields
<1>5. IsRun(c)
  BY <1>3, <1>4 DEF IsRun
<1>6. Counted(c)
  BY <1>3, <1>4 DEF Counted
<1>7. c.cycles = <<>> /\ Len(c.cycles) = 0 /\ LoopCount(c) \in Nat \ {0}
  BY <1>2, <1>3, <1>4, <1>5, LoopCountType DEF AtItsPoint
<1>8. AtItsPoint(c, disk')
  <2>1. CASE old.tool = "daemon"
    BY <1>4, <1>5, <1>7, <2>1 DEF AtItsPoint, pc, left
  <2>2. CASE old.tool = "presentmon"
    BY <1>4, <1>5, <1>7, <2>2 DEF AtItsPoint, pc, left
  <2> QED BY <1>3, <2>1, <2>2 DEF IsRun
<1>9. Running(c, disk')
  BY <1>5, <1>6, <1>8 DEF Running
<1> QED BY <1>1, <1>3, <1>9, OneMoves

\* A cycle counts on from the state before it.
LEMMA InvCycle ==
    ASSUME DaemonInv, NEW p \in Processes, Cycle(p)
    PROVE  DaemonInv'
<1> DEFINE old == proc[p]
           s == StreamOf(old, Len(old.cycles) + 1)
           last == Len(old.cycles) + 1 = LoopCount(old)
           pc == IF last THEN "write" ELSE "cycle"
           left == IF last THEN Outputs(old.tool) ELSE <<>>
           state == NextState(s, old.state)
           cycles == Append(old.cycles, CycleRecord(s, old.state))
           c == [old EXCEPT !.state = state, !.cycles = cycles, !.pc = pc, !.left = left]
<1>1. proc' = [proc EXCEPT ![p] = c] /\ disk' = disk
  BY DEF Cycle
<1>2. old.pc = "cycle"
  BY DEF Cycle
<1>3. IsRun(old) /\ Counted(old) /\ AtItsPoint(old, disk) /\ IsDisk(disk)
  BY <1>2, AtWork DEF Running, DaemonInv
<1>4. c = [old EXCEPT !.state = state, !.cycles = cycles, !.pc = pc, !.left = left]
  OBVIOUS
<1>5. s \in SessionIds
  <2>1. CASE old.tool = "presentmon"
    BY <1>2, <1>3, <2>1 DEF StreamOf, AtItsPoint
  <2>2. CASE old.tool = "daemon"
    <3>1. s = old.paths[IF Len(old.cycles) + 1 < Len(old.paths) THEN Len(old.cycles) + 1
                        ELSE Len(old.paths)]
      BY <2>2 DEF StreamOf
    <3>2. old.paths \in Seq(SessionIds) /\ old.paths # <<>> /\ Len(old.cycles) \in Nat
      BY <1>3 DEF IsRun
    <3> HIDE DEF old, s
    <3>3. Len(old.paths) \in Nat /\ Len(old.paths) >= 1
      BY <3>2
    <3> QED BY <3>1, <3>2, <3>3
  <2> QED BY <1>3, <2>1, <2>2 DEF IsRun
<1>6. CycleRecord(s, old.state) \in Recorded
  BY <1>5, CycleIsRecorded
<1>7. state.cycles = old.state.cycles + 1
  <2>1. old.state.cycles \in Nat
    BY <1>3 DEF Counted, IsRun
  <2> QED BY <2>1, CountsOn DEF NextState
<1> HIDE DEF old, s, state, c
<1>8. cycles \in Seq(Recorded) /\ Len(cycles) = Len(old.cycles) + 1 /\ Len(old.cycles) \in Nat
  BY <1>3, <1>6 DEF IsRun
<1> HIDE DEF last, pc, left, cycles
<1>9. /\ HasFields(c) /\ c.state = state /\ c.cycles = cycles /\ c.pc = pc /\ c.left = left
      /\ c.tool = old.tool /\ c.paths = old.paths /\ c.iterations = old.iterations
      /\ c.loaded = old.loaded /\ c.host = old.host
  <2>1. HasFields(old)
    BY <1>3 DEF IsRun
  <2> QED BY <1>4, <2>1 DEF HasFields, Fields
<1>10. IsRun(c) /\ LoopCount(c) = LoopCount(old)
  BY <1>3, <1>8, <1>9 DEF IsRun, LoopCount
<1>11. Counted(c)
  <2>1. old.loaded.cycles \in Nat /\ old.state.cycles = old.loaded.cycles + Len(old.cycles)
    BY <1>3 DEF Counted
  <2>2. state.cycles = old.loaded.cycles + Len(cycles)
    BY ONLY <2>1, <1>7, <1>8
  <2> QED BY ONLY <2>1, <2>2, <1>9 DEF Counted
<1>12. Len(old.cycles) < LoopCount(old) /\ LoopCount(old) \in Nat
  BY <1>2, <1>3, LoopCountType DEF AtItsPoint
<1>13. AtItsPoint(c, disk')
  <2>1. CASE last
    <3>1. left \in Outstanding
      BY <2>1 DEF left, Outputs, Outstanding
    <3>2. c.pc = "write" /\ Len(c.cycles) = LoopCount(c)
      BY <1>8, <1>9, <1>10, <2>1 DEF last, pc
    <3> QED BY <1>9, <3>1, <3>2 DEF AtItsPoint
  <2>2. CASE ~last
    <3>1. c.pc = "cycle" /\ Len(c.cycles) < LoopCount(c)
      BY <1>8, <1>9, <1>10, <1>12, <2>2 DEF last, pc
    <3>2. c.tool = "presentmon" => disk.events \in SessionIds
      BY <1>2, <1>3, <1>9 DEF AtItsPoint
    <3> QED BY <1>1, <3>1, <3>2 DEF AtItsPoint
  <2> QED BY <2>1, <2>2
<1>14. Running(c, disk')
  BY <1>10, <1>11, <1>13 DEF Running
<1> QED BY <1>1, <1>3, <1>14, OneMoves

\* A command that fills its temporary file leaves the targets as they are.
LEMMA InvWriteTemp ==
    ASSUME DaemonInv, NEW p \in Processes, WriteTemp(p)
    PROVE  DaemonInv'
<1> DEFINE old == proc[p]
           c == [old EXCEPT !.pc = "replace"]
<1>1. proc' = [proc EXCEPT ![p] = c] /\ disk' = disk
  BY DEF WriteTemp
<1>2. old.pc = "write"
  BY DEF WriteTemp
<1>3. IsRun(old) /\ Counted(old) /\ AtItsPoint(old, disk) /\ IsDisk(disk)
  BY <1>2, AtWork DEF Running, DaemonInv
<1>4. c = [old EXCEPT !.pc = "replace"]
  OBVIOUS
<1> HIDE DEF old, c
<1>5. /\ HasFields(c) /\ c.pc = "replace" /\ c.left = old.left
      /\ c.tool = old.tool /\ c.paths = old.paths /\ c.iterations = old.iterations
      /\ c.loaded = old.loaded /\ c.state = old.state /\ c.host = old.host /\ c.cycles = old.cycles
  <2>1. HasFields(old)
    BY <1>3 DEF IsRun
  <2> QED BY <1>4, <2>1 DEF HasFields, Fields
<1>6. IsRun(c) /\ LoopCount(c) = LoopCount(old)
  BY <1>3, <1>5 DEF IsRun, LoopCount
<1>7. Counted(c)
  BY <1>3, <1>5 DEF Counted
<1>8. AtItsPoint(c, disk')
  BY <1>2, <1>3, <1>5, <1>6 DEF AtItsPoint
<1>9. Running(c, disk')
  BY <1>6, <1>7, <1>8 DEF Running
<1> QED BY <1>1, <1>3, <1>9, OneMoves

\* A command that ends, however it ends, leaves the files alone.
LEMMA InvEnds ==
    ASSUME DaemonInv, NEW p \in Processes, WriteFails(p) \/ Crash(p)
    PROVE  DaemonInv'
<1>1. proc' = [proc EXCEPT ![p] = Idle] /\ disk' = disk
  BY DEF WriteFails, Crash
<1>2. IsDisk(disk)
  BY DEF DaemonInv
<1> QED BY <1>1, <1>2, OneMoves

\* e is d with one file replaced.
Replaced(d, e, file, content) == e = [d EXCEPT ![file] = content]

\* What stays of the files when one of them is replaced.
LEMMA FileReplaced ==
    ASSUME NEW d, IsDisk(d), NEW file \in {"state", "report", "ledger", "events"}, NEW content,
           NEW e, Replaced(d, e, file, content)
    PROVE  /\ HasFiles(e)
           /\ e.state = IF file = "state" THEN content ELSE d.state
           /\ e.report = IF file = "report" THEN content ELSE d.report
           /\ e.events = IF file = "events" THEN content ELSE d.events
<1>1. d = [k \in {"state", "report", "ledger", "events"} |-> d[k]]
  BY DEF IsDisk, HasFiles
<1>2. e = [k \in {"state", "report", "ledger", "events"} |-> IF k = file THEN content ELSE d[k]]
  BY <1>1 DEF Replaced
<1> QED BY <1>2 DEF HasFiles

\* What a command writes is in order.
LEMMA ContentIsSound ==
    ASSUME NEW c, NEW d, IsRun(c), Counted(c), AtItsPoint(c, d), c.pc = "replace"
    PROVE  /\ Head(c.left) \in {"state", "report", "ledger", "events"}
           /\ Head(c.left) = "events" => /\ Content(c, Head(c.left)) \in SessionIds
                                         /\ c.tool = "presentmon" /\ c.cycles = <<>>
           /\ Head(c.left) = "report" => IsReport(Content(c, Head(c.left)))
           /\ Head(c.left) = "state" => /\ Content(c, Head(c.left)) = c.state
                                        /\ c.state.cycles \in Nat
           /\ Head(c.left) # "events" => /\ Len(c.cycles) = LoopCount(c)
                                         /\ Tail(c.left) # <<>> => Tail(c.left) \in Outstanding
                                         /\ Head(c.left) = "state" => c.left = <<"state">>
<1>1. \/ c.tool = "presentmon" /\ c.left = <<"events">> /\ c.cycles = <<>>
      \/ c.left \in Outstanding /\ Len(c.cycles) = LoopCount(c)
  BY DEF AtItsPoint
<1>2. CASE c.tool = "presentmon" /\ c.left = <<"events">> /\ c.cycles = <<>>
  <2>1. Head(c.left) = "events"
    BY <1>2
  <2>2. Content(c, "events") = c.paths[1]
    BY DEF Content
  <2>3. c.paths[1] \in SessionIds
    BY DEF IsRun
  <2> QED BY <1>2, <2>1, <2>2, <2>3
<1>3. CASE c.left \in Outstanding /\ Len(c.cycles) = LoopCount(c)
  <2>1. /\ Head(c.left) \in {"state", "report", "ledger"}
        /\ Tail(c.left) # <<>> => Tail(c.left) \in Outstanding
        /\ Head(c.left) = "state" => c.left = <<"state">>
    <3>1. CASE c.left = <<"report", "state">>
      BY <3>1 DEF Outstanding
    <3>2. CASE c.left = <<"report", "ledger", "state">>
      BY <3>2 DEF Outstanding
    <3>3. CASE c.left = <<"ledger", "state">>
      BY <3>3 DEF Outstanding
    <3>4. CASE c.left = <<"state">>
      BY <3>4 DEF Outstanding
    <3> QED BY <1>3, <3>1, <3>2, <3>3, <3>4 DEF Outstanding
  <2>2. IsReport(Content(c, "report"))
    <3>1. Content(c, "report") = ReportOf(c)
      BY DEF Content
    <3>2. ReportOf(c).cycles = c.cycles /\ ReportOf(c).host = c.host
      BY DEF ReportOf
    <3>3. Len(c.cycles) # 0
      BY <1>3, LoopCountType
    <3>4. c.cycles # <<>>
      BY <3>3
    <3> QED BY <3>1, <3>2, <3>4 DEF IsReport, IsRun
  <2>3. Content(c, "state") = c.state
    BY DEF Content
  <2>4. c.state.cycles \in Nat
    BY DEF Counted, IsRun
  <2> QED BY <1>3, <2>1, <2>2, <2>3, <2>4
<1> QED BY <1>1, <1>2, <1>3

\* A temporary file takes the place of its target.
LEMMA InvReplace ==
    ASSUME DaemonInv, NEW p \in Processes, Replace(p)
    PROVE  DaemonInv'
<1> DEFINE old == proc[p]
           file == Head(old.left)
           rest == Tail(old.left)
           content == Content(old, file)
           c == IF file = "events" THEN [old EXCEPT !.pc = "cycle", !.left = <<>>]
                ELSE IF rest = <<>> THEN Idle
                ELSE [old EXCEPT !.pc = "write", !.left = rest]
<1>1. proc' = [proc EXCEPT ![p] = c] /\ disk' = [disk EXCEPT ![file] = content]
  BY DEF Replace
<1>2. old.pc = "replace"
  BY DEF Replace
<1>3. IsRun(old) /\ Counted(old) /\ AtItsPoint(old, disk) /\ IsDisk(disk)
  BY <1>2, AtWork DEF Running, DaemonInv
<1>4. /\ file \in {"state", "report", "ledger", "events"}
      /\ file = "events" => content \in SessionIds /\ old.tool = "presentmon" /\ old.cycles = <<>>
      /\ file = "report" => IsReport(content)
      /\ file = "state" => content.cycles \in Nat
      /\ file # "events" => /\ Len(old.cycles) = LoopCount(old)
                            /\ rest # <<>> => rest \in Outstanding
  BY <1>2, <1>3, ContentIsSound
<1>c. /\ file = "events" => c = [old EXCEPT !.pc = "cycle", !.left = <<>>]
      /\ file # "events" /\ rest # <<>> => c = [old EXCEPT !.pc = "write", !.left = rest]
      /\ file # "events" /\ rest = <<>> => c = Idle
  OBVIOUS
<1> HIDE DEF old, file, rest, content, c
<1>5. /\ HasFiles(disk')
      /\ disk'.state = IF file = "state" THEN content ELSE disk.state
      /\ disk'.report = IF file = "report" THEN content ELSE disk.report
      /\ disk'.events = IF file = "events" THEN content ELSE disk.events
  <2>1. Replaced(disk, disk', file, content)
    BY <1>1 DEF Replaced
  <2> QED BY <1>3, <1>4, <2>1, FileReplaced
<1>6. IsDisk(disk')
  BY <1>3, <1>4, <1>5 DEF IsDisk
<1>7. disk.events \in SessionIds => disk'.events \in SessionIds
  BY <1>4, <1>5
<1>8. HasFields(old)
  BY <1>3 DEF IsRun
<1>9. ASSUME file = "events"
      PROVE  Running(c, disk')
  <2>1. /\ HasFields(c) /\ c.pc = "cycle"
        /\ c.tool = old.tool /\ c.paths = old.paths /\ c.iterations = old.iterations
        /\ c.loaded = old.loaded /\ c.state = old.state /\ c.host = old.host /\ c.cycles = old.cycles
    BY <1>c, <1>8, <1>9 DEF HasFields, Fields
  <2>2. IsRun(c)
    BY <1>3, <2>1 DEF IsRun
  <2>3. Counted(c)
    BY <1>3, <2>1 DEF Counted
  <2>4. Len(c.cycles) < LoopCount(c) /\ disk'.events \in SessionIds
    BY <1>4, <1>5, <1>9, <2>1, <2>2, LoopCountType
  <2>5. AtItsPoint(c, disk')
    BY <2>1, <2>4 DEF AtItsPoint
  <2> QED BY <2>2, <2>3, <2>5 DEF Running
<1>10. ASSUME file # "events", rest # <<>>
       PROVE  Running(c, disk')
  <2>1. /\ HasFields(c) /\ c.pc = "write" /\ c.left = rest
        /\ c.tool = old.tool /\ c.paths = old.paths /\ c.iterations = old.iterations
        /\ c.loaded = old.loaded /\ c.state = old.state /\ c.host = old.host /\ c.cycles = old.cycles
    BY <1>c, <1>8, <1>10 DEF HasFields, Fields
  <2>2. IsRun(c) /\ LoopCount(c) = LoopCount(old)
    BY <1>3, <2>1 DEF IsRun, LoopCount
  <2>3. Counted(c)
    BY <1>3, <2>1 DEF Counted
  <2>4. Len(c.cycles) = LoopCount(c) /\ c.left \in Outstanding
    BY <1>4, <1>10, <2>1, <2>2
  <2>5. AtItsPoint(c, disk')
    BY <2>1, <2>4 DEF AtItsPoint
  <2> QED BY <2>2, <2>3, <2>5 DEF Running
<1>11. c = Idle \/ Running(c, disk')
  BY <1>c, <1>9, <1>10
<1> QED BY <1>1, <1>6, <1>7, <1>11, OneMoves

\* No step of any command leaves the invariant.
LEMMA InvNext == DaemonInv /\ [Next]_vars => DaemonInv'
<1> SUFFICES ASSUME DaemonInv, [Next]_vars PROVE DaemonInv'
  OBVIOUS
<1>1. CASE UNCHANGED vars
  BY <1>1 DEF vars, DaemonInv, IsDisk
<1>2. ASSUME NEW p \in Processes, NEW paths \in PathLists, NEW iterations \in 1..MaxCycles,
             Start(p, "daemon", paths, iterations)
      PROVE  DaemonInv'
  BY <1>2, InvStart, PathsAreLists, BoundsAssumption
<1>3. ASSUME NEW p \in Processes, NEW s \in SessionIds, Start(p, "presentmon", <<s>>, 1)
      PROVE  DaemonInv'
  <2>1. <<s>> \in Seq(SessionIds) /\ <<s>> # <<>>
    OBVIOUS
  <2>2. 1 \in Nat \ {0} /\ "presentmon" \in {"daemon", "presentmon"}
    OBVIOUS
  <2> QED BY <1>3, <2>1, <2>2, InvStart
<1>4. ASSUME NEW p \in Processes, NEW snapshot \in Snapshots, Observe(p, snapshot)
      PROVE  DaemonInv'
  BY <1>4, InvObserve
<1>5. ASSUME NEW p \in Processes, Cycle(p) \/ WriteTemp(p) \/ Replace(p) \/ WriteFails(p) \/ Crash(p)
      PROVE  DaemonInv'
  BY <1>5, InvCycle, InvWriteTemp, InvReplace, InvEnds
<1> QED BY <1>1, <1>2, <1>3, <1>4, <1>5 DEF Next

\* Commands and files are in order whatever runs side by side, fails or is killed, for any
\* sessions, hosts and number of commands.
THEOREM DaemonInvariant == Spec => []DaemonInv
<1> QED BY InvInit, InvNext, PTL DEF Spec

-----------------------------------------------------------------------------
(* The state file.                                                         *)

\* A step that changes the state on disk is the last one of a whole run.
LEMMA StateIsReplaced ==
    ASSUME DaemonInv, [Next]_vars, disk'.state # disk.state
    PROVE  \E p \in Processes :
              /\ proc[p].pc = "replace" /\ proc[p].left = <<"state">>
              /\ disk'.state = proc[p].state
              /\ Len(proc[p].cycles) = LoopCount(proc[p])
              /\ disk'.state.cycles = proc[p].loaded.cycles + Len(proc[p].cycles)
<1>1. PICK p \in Processes : Replace(p)
  BY DEF Next, vars, Start, Observe, Cycle, WriteTemp, WriteFails, Crash
<1> DEFINE c == proc[p]
           file == Head(c.left)
<1>2. c.pc = "replace" /\ disk' = [disk EXCEPT ![file] = Content(c, file)]
  BY <1>1 DEF Replace
<1>3. IsRun(c) /\ Counted(c) /\ AtItsPoint(c, disk) /\ IsDisk(disk)
  BY <1>2, AtWork DEF Running, DaemonInv
<1>4. /\ file \in {"state", "report", "ledger", "events"}
      /\ file = "state" => Content(c, file) = c.state /\ c.left = <<"state">>
      /\ file # "events" => Len(c.cycles) = LoopCount(c)
  BY <1>2, <1>3, ContentIsSound
<1>5. disk'.state = IF file = "state" THEN Content(c, file) ELSE disk.state
  <2>1. Replaced(disk, disk', file, Content(c, file))
    BY <1>2 DEF Replaced
  <2> HIDE DEF c, file
  <2> QED BY <1>3, <1>4, <2>1, FileReplaced
<1>6. c.state.cycles = c.loaded.cycles + Len(c.cycles)
  BY <1>3 DEF Counted
<1> QED BY <1>2, <1>4, <1>5, <1>6

\* The state on disk is only ever replaced by the last state of a whole run, counted on
\* from the state that run had loaded, however many commands share the file.
THEOREM StateFileAlwaysHoldsAWholeRun == Spec => StateFileHoldsAWholeRun
<1>1. DaemonInv /\ [Next]_vars =>
         [disk'.state # disk.state =>
            \E p \in Processes :
               /\ proc[p].pc = "replace" /\ proc[p].left = <<"state">>
               /\ disk'.state = proc[p].state
               /\ Len(proc[p].cycles) = LoopCount(proc[p])
               /\ disk'.state.cycles = proc[p].loaded.cycles + Len(proc[p].cycles)]_vars
  BY StateIsReplaced
<1> QED BY <1>1, DaemonInvariant, PTL DEF Spec, StateFileHoldsAWholeRun

-----------------------------------------------------------------------------
(* The sum of what the cycles of a run blocked.                            *)

\* Among some subsets of a finite set there is one that holds no other of them.
LEMMA LeastSubset ==
    ASSUME NEW S, IsFiniteSet(S), NEW B, B \subseteq SUBSET S, B # {}
    PROVE  \E least \in B : \A T \in B : T \subseteq least => T = least
<1> DEFINE Less == StrictSubsetOrdering(S)
           All == FiniteSubsetsOf(S)
<1>1. IsWellFoundedOn(Less, All)
  BY FS_StrictSubsetOrderingWellFounded
<1>2. All = SUBSET S
  BY FS_FiniteSubsetsOfFinite
<1>3. \A T, U \in SUBSET S : T \subseteq U /\ T # U => <<T, U>> \in Less
  BY DEF StrictSubsetOrdering
<1> HIDE DEF Less, All
<1>4. PICK least \in B : \A T \in B : <<T, least>> \notin Less
  BY <1>1, <1>2, WFMin
<1> QED BY <1>3, <1>4

\* f sums the weights w over every subset of S, the way the folds of the library do:
\* some element first, then the rest.
First(s) == CHOOSE x \in s : TRUE

Sums(f, w, S) ==
    f = [s \in SUBSET S |-> IF s = {} THEN 0 ELSE w[First(s)] + f[s \ {First(s)}]]

\* The first element is one of them.
LEMMA FirstIn == \A s : s # {} => First(s) \in s
BY DEF First

\* What such a function says of the subsets.
SumsParts(f, w, S) ==
    /\ f[{}] = 0
    /\ \A s \in SUBSET S : s # {} => First(s) \in s /\ f[s] = w[First(s)] + f[s \ {First(s)}]

\* Read off the definition of such a function.
LEMMA SumsAt ==
    ASSUME NEW S, NEW w, NEW f, Sums(f, w, S)
    PROVE  SumsParts(f, w, S)
<1> DEFINE value(s) == IF s = {} THEN 0 ELSE w[First(s)] + f[s \ {First(s)}]
<1>1. f = [s \in SUBSET S |-> value(s)]
  BY DEF Sums
<1> HIDE DEF value
<1>2. \A s \in SUBSET S : f[s] = value(s)
  BY <1>1
<1> QED BY <1>2, FirstIn DEF value, SumsParts

\* Two of them say the same of a common subset.
LEMMA SumsAgree ==
    ASSUME NEW S, IsFiniteSet(S), NEW T, NEW w, NEW f, NEW g,
           Sums(f, w, S), Sums(g, w, T), S \subseteq T
    PROVE  \A s \in SUBSET S : f[s] = g[s]
<1> DEFINE B == {s \in SUBSET S : f[s] # g[s]}
<1> SUFFICES ASSUME B # {} PROVE FALSE
  OBVIOUS
<1>0. B \subseteq SUBSET S
  OBVIOUS
<1>1. PICK s \in B : \A t \in B : t \subseteq s => t = s
  <2> HIDE DEF B
  <2> QED BY <1>0, LeastSubset
<1>f. SumsParts(f, w, S) /\ SumsParts(g, w, T)
  BY SumsAt
<1>2. f[{}] = 0 /\ (s # {} => First(s) \in s /\ f[s] = w[First(s)] + f[s \ {First(s)}])
  BY <1>f DEF SumsParts
<1>3. g[{}] = 0 /\ (s # {} => g[s] = w[First(s)] + g[s \ {First(s)}])
  BY <1>f DEF SumsParts
<1>4. s # {}
  BY <1>2, <1>3
<1>5. s \ {First(s)} \notin B
  BY <1>1, <1>2, <1>4
<1> QED BY <1>2, <1>3, <1>4, <1>5

\* There is one for every finite set.
LEMMA SumsExist ==
    ASSUME NEW S, IsFiniteSet(S), NEW w
    PROVE  \E f : Sums(f, w, S)
<1> DEFINE B == {s \in SUBSET S : ~ \E f : Sums(f, w, s)}
<1> SUFFICES ASSUME B # {} PROVE FALSE
  OBVIOUS
<1>0. B \subseteq SUBSET S
  OBVIOUS
<1>1. PICK s \in B : \A t \in B : t \subseteq s => t = s
  <2> HIDE DEF B
  <2> QED BY <1>0, LeastSubset
<1> DEFINE smaller(t) == CHOOSE f : Sums(f, w, t)
           sum(t) == IF t = {} THEN 0
                     ELSE w[First(t)] + smaller(t \ {First(t)})[t \ {First(t)}]
           f == [t \in SUBSET s |-> sum(t)]
<1>2. ASSUME NEW t \in SUBSET s, t # s PROVE Sums(smaller(t), w, t)
  BY <1>1, <1>2
<1>3. ASSUME NEW t \in SUBSET s, t # {}
      PROVE  f[t \ {First(t)}] = smaller(t \ {First(t)})[t \ {First(t)}]
  <2> DEFINE u == t \ {First(t)}
             v == u \ {First(u)}
  <2>1. First(t) \in t /\ u \in SUBSET s /\ u # s /\ v \in SUBSET s /\ v \in SUBSET u /\ v # s
    BY <1>3, FirstIn
  <2>2. Sums(smaller(u), w, u) /\ Sums(smaller(v), w, v)
    BY <1>2, <2>1
  <2>3. f[u] = IF u = {} THEN 0 ELSE w[First(u)] + smaller(v)[v]
    BY <2>1
  <2>4. IsFiniteSet(v)
    BY <2>1, <1>1, FS_Subset
  <2> HIDE DEF smaller, f, u, v
  <2>5. smaller(u)[u] = IF u = {} THEN 0 ELSE w[First(u)] + smaller(u)[v]
    <3>1. SumsParts(smaller(u), w, u)
      BY <2>2, SumsAt
    <3> QED BY <3>1 DEF SumsParts, v
  <2>6. smaller(v)[v] = smaller(u)[v]
    BY <2>1, <2>2, <2>4, SumsAgree
  <2>7. f[u] = smaller(u)[u]
    BY <2>3, <2>5, <2>6
  <2> QED BY <2>7 DEF u
<1>4. \A t \in SUBSET s : sum(t) = IF t = {} THEN 0 ELSE w[First(t)] + f[t \ {First(t)}]
  <2> HIDE DEF smaller, f
  <2> QED BY <1>3
<1>5. Sums(f, w, s)
  <2> HIDE DEF sum
  <2> SUFFICES f = [t \in SUBSET s |-> IF t = {} THEN 0 ELSE w[First(t)] + f[t \ {First(t)}]]
    BY DEF Sums
  <2> QED BY <1>4
<1> QED BY <1>1, <1>5

\* A sum of naturals is a natural, and positive exactly if one of them is.
LEMMA SumIsPositive ==
    ASSUME NEW S, IsFiniteSet(S), NEW w, \A x \in S : w[x] \in Nat, NEW f, Sums(f, w, S)
    PROVE  f[S] \in Nat /\ (f[S] > 0 <=> \E x \in S : w[x] > 0)
<1> DEFINE Right(t) == f[t] \in Nat /\ (f[t] > 0 <=> \E x \in t : w[x] > 0)
           B == {t \in SUBSET S : ~Right(t)}
<1> SUFFICES ASSUME B # {} PROVE FALSE
  OBVIOUS
<1>0. B \subseteq SUBSET S
  OBVIOUS
<1>1. PICK t \in B : \A u \in B : u \subseteq t => u = t
  <2> HIDE DEF B
  <2> QED BY <1>0, LeastSubset
<1>2. SumsParts(f, w, S)
  BY SumsAt
<1>3. t # {}
  <2>1. f[{}] = 0
    BY <1>2 DEF SumsParts
  <2>2. Right({})
    BY <2>1
  <2> QED BY <2>2
<1> DEFINE x == First(t)
           rest == t \ {x}
<1>4. x \in t /\ f[t] = w[x] + f[rest]
  BY <1>2, <1>3 DEF SumsParts
<1>5. Right(rest)
  BY <1>1, <1>4
<1>6. w[x] \in Nat
  BY <1>4
<1>7. (\E y \in t : w[y] > 0) <=> w[x] > 0 \/ \E y \in rest : w[y] > 0
  BY <1>4
<1> HIDE DEF x, rest
<1>8. Right(t)
  BY <1>4, <1>5, <1>6, <1>7
<1> QED BY <1>1, <1>8

\* What the library's sum computes.
LEMMA BlockedSumIs ==
    ASSUME NEW cycles, IsFiniteSet(DOMAIN cycles),
           NEW w, \A k \in DOMAIN cycles : w[k] = cycles[k].blocked
    PROVE  \E f : Sums(f, w, DOMAIN cycles) /\ TotalBlocked(cycles) = f[DOMAIN cycles]
<1> DEFINE S == DOMAIN cycles
           Folds(f) == f = [s \in SUBSET S |-> IF s = {} THEN 0
                                               ELSE cycles[First(s)].blocked + f[s \ {First(s)}]]
<1>1. TotalBlocked(cycles) = (CHOOSE f : Folds(f))[S]
  BY DEF TotalBlocked, MapThenSumSet, MapThenFoldSet, First
<1>2. \A f : Folds(f) <=> Sums(f, w, S)
  <2>1. \A s \in SUBSET S : s # {} => w[First(s)] = cycles[First(s)].blocked
    BY FirstIn
  <2>2. ASSUME NEW f
        PROVE  [s \in SUBSET S |-> IF s = {} THEN 0
                                   ELSE cycles[First(s)].blocked + f[s \ {First(s)}]]
               = [s \in SUBSET S |-> IF s = {} THEN 0 ELSE w[First(s)] + f[s \ {First(s)}]]
    BY <2>1
  <2> QED BY <2>2 DEF Sums
<1> HIDE DEF Folds
<1>3. Folds(CHOOSE f : Folds(f))
  BY <1>2, SumsExist
<1> QED BY <1>1, <1>2, <1>3

\* A run blocked commands in all exactly if one of its cycles escalated, whichever it was.
LEMMA EscalationIsCounted ==
    ASSUME NEW cycles \in Seq(Recorded)
    PROVE  /\ TotalBlocked(cycles) \in Nat
           /\ TotalBlocked(cycles) > 0 <=>
                 \E k \in DOMAIN cycles : cycles[k].action = "escalate-supervisor-pressure"
<1> DEFINE S == DOMAIN cycles
           w == [k \in S |-> cycles[k].blocked]
<1>1. S = 1..Len(cycles) /\ Len(cycles) \in Nat
  OBVIOUS
<1>2. IsFiniteSet(S)
  BY <1>1, FS_Interval
<1>3. \A k \in S : w[k] = cycles[k].blocked
  OBVIOUS
<1>4. \A k \in S : /\ cycles[k].blocked \in Nat
                   /\ cycles[k].blocked > 0 <=> cycles[k].action = "escalate-supervisor-pressure"
  <2>1. \A k \in S : cycles[k] \in Recorded
    OBVIOUS
  <2> QED BY <2>1 DEF Recorded
<1> HIDE DEF S, w
<1>5. PICK f : Sums(f, w, S) /\ TotalBlocked(cycles) = f[S]
  BY <1>2, <1>3, BlockedSumIs DEF S
<1>6. f[S] \in Nat /\ (f[S] > 0 <=> \E k \in S : w[k] > 0)
  BY <1>2, <1>3, <1>4, <1>5, SumIsPositive
<1> QED BY <1>3, <1>4, <1>5, <1>6 DEF S

-----------------------------------------------------------------------------
(* What a report holds back.                                               *)

Actions ==
    {"collect-host-telemetry", "collect-more-host-telemetry", "tighten-memory-residency-observation",
     "prefer-low-residency-and-short-hot-path", "allow-daemon-supervisor-loop",
     "collect-gpu-telemetry-before-gpu-specific-actions", "hold-blocking-supervisor-commands",
     "preserve-observed-daemon-loop"}

\* There is always a decision, and blocked commands are held exactly if there are any.
LEMMA DecisionsForm ==
    ASSUME NEW state, NEW host, NEW action, NEW blocked, NEW ds,
           ds = Decisions(state, host, action, blocked)
    PROVE  /\ ds \subseteq Actions
           /\ "hold-blocking-supervisor-commands" \in ds <=> blocked > 0
<1> DEFINE asked == Asked(state, host, action, blocked)
<1>1. asked \subseteq Actions
  BY DEF Asked, Actions
<1>2. "hold-blocking-supervisor-commands" \in asked <=> blocked > 0
  BY DEF Asked
<1>3. ds = IF asked = {} THEN {"preserve-observed-daemon-loop"} ELSE asked
  BY DEF Decisions
<1> HIDE DEF asked
<1> QED BY <1>1, <1>2, <1>3 DEF Actions

\* Only that decision is about safety, and two are about memory.
LEMMA DomainForm ==
    ASSUME NEW a \in Actions
    PROVE  /\ DomainOf(a) \in {"telemetry", "memory", "scheduler", "gpu", "safety"}
           /\ DomainOf(a) = "safety" <=> a = "hold-blocking-supervisor-commands"
           /\ DomainOf(a) = "memory" <=> a \in NativeActions
           /\ a \in NativeActions => DomainOf(a) # "telemetry"
<1>1. CASE a \in {"collect-host-telemetry", "collect-more-host-telemetry"}
  BY <1>1 DEF DomainOf, NativeActions
<1>2. CASE a \in NativeActions
  BY <1>2 DEF DomainOf, NativeActions
<1>3. CASE a \in {"allow-daemon-supervisor-loop", "preserve-observed-daemon-loop"}
  BY <1>3 DEF DomainOf, NativeActions
<1>4. CASE a = "collect-gpu-telemetry-before-gpu-specific-actions"
  BY <1>4 DEF DomainOf, NativeActions
<1>5. CASE a = "hold-blocking-supervisor-commands"
  BY <1>5 DEF DomainOf, NativeActions
<1> QED BY <1>1, <1>2, <1>3, <1>4, <1>5 DEF Actions, NativeActions

\* The decisions touch on safety exactly if commands are held.
LEMMA SafetyIsHolding ==
    ASSUME NEW ds, ds \subseteq Actions
    PROVE  "safety" \in DomainsOf(ds) <=> "hold-blocking-supervisor-commands" \in ds
BY DomainForm DEF DomainsOf, Actions

\* The decision, the queue and the arbitration hold exactly if commands were blocked.
LEMMA HoldsBack ==
    ASSUME NEW report, TotalBlocked(report.cycles) \in Nat
    PROVE  LET promoted == Promoted(report)
               held == TotalBlocked(report.cycles) > 0
           IN  /\ promoted.decision = "hold-daemon-supervisor-promotion" <=> held
               /\ promoted.queuePolicy = "hold-native-promotion" <=> held
               /\ promoted.arbitration = "safety-first" <=> held
<1> DEFINE blocked == TotalBlocked(report.cycles)
           ds == Decisions(report.state, report.host, report.cycles[Len(report.cycles)].action,
                           blocked)
           queue == Queue(ds)
           promoted == Promoted(report)
<1>1. /\ promoted.decision = PlanDecisionAction(ds)
      /\ promoted.queuePolicy = QueuePolicy(queue)
      /\ promoted.arbitration = ArbitrationPolicy(ds, Preflight(queue), PressureScore(report.state))
  BY DEF Promoted
<1>2. DOMAIN queue = ds
  BY DEF Queue
<1>3. ds \subseteq Actions /\ ("hold-blocking-supervisor-commands" \in ds <=> blocked > 0)
  BY DecisionsForm
<1> HIDE DEF ds, queue, promoted, blocked
<1>4. "safety" \in DomainsOf(ds) <=> blocked > 0
  BY <1>3, SafetyIsHolding
<1>5. PlanDecisionAction(ds) = "hold-daemon-supervisor-promotion" <=> "safety" \in DomainsOf(ds)
  BY DEF PlanDecisionAction
<1>6. QueuePolicy(queue) = "hold-native-promotion" <=> "safety" \in DomainsOf(ds)
  BY <1>2 DEF QueuePolicy
<1>7. ArbitrationPolicy(ds, Preflight(queue), PressureScore(report.state)) = "safety-first"
         <=> "safety" \in DomainsOf(ds)
  BY DEF ArbitrationPolicy
<1> QED BY <1>1, <1>4, <1>5, <1>6, <1>7 DEF promoted, blocked

\* A run of which any cycle escalated, however early, holds the promotion back in all three
\* reports, and no other run does.
THEOREM EscalationAlwaysHoldsPromotion == Spec => []EscalationHoldsPromotion
<1>1. DaemonInv => EscalationHoldsPromotion
  <2> SUFFICES ASSUME DaemonInv, disk.report # NoReport
               PROVE  HeldBack(disk.report.cycles, Promoted(disk.report))
    BY DEF EscalationHoldsPromotion
  <2> DEFINE report == disk.report
  <2>1. report.cycles \in Seq(Recorded)
    BY DEF DaemonInv, IsDisk, IsReport
  <2> HIDE DEF report
  <2>2. /\ TotalBlocked(report.cycles) \in Nat
        /\ TotalBlocked(report.cycles) > 0 <=>
              \E k \in DOMAIN report.cycles : report.cycles[k].action = "escalate-supervisor-pressure"
    BY <2>1, EscalationIsCounted
  <2>3. /\ Promoted(report).decision = "hold-daemon-supervisor-promotion"
              <=> TotalBlocked(report.cycles) > 0
        /\ Promoted(report).queuePolicy = "hold-native-promotion"
              <=> TotalBlocked(report.cycles) > 0
        /\ Promoted(report).arbitration = "safety-first" <=> TotalBlocked(report.cycles) > 0
    BY <2>2, HoldsBack
  <2> QED BY <2>2, <2>3 DEF HeldBack, report
<1> QED BY <1>1, DaemonInvariant, PTL

-----------------------------------------------------------------------------
(* What may advance.                                                       *)

\* An action goes through the reports alone: from the queue to the gate.
Queued(a) == ActionShape(a)
Flown(a) == [blockedBy |-> PreflightBlockers(Queued(a)),
             canExecute |-> PreflightBlockers(Queued(a)) = {}, native |-> Queued(a).native]
Intended(a) == [surface |-> ControlSurface(a), blockedBy |-> Flown(a).blockedBy,
                requirement |-> BackendRequirement(a, Flown(a)),
                status |-> IntentStatus(a, Flown(a).blockedBy),
                canExecute |-> Flown(a).blockedBy = {}]
Entered(a) == ManifestEntry(DryRunIntent(Intended(a)))
Probed(a, host) == ProbeStep(Entered(a), host)
Assessed(a, host) ==
    LET step == Probed(a, host)
    IN  [surface |-> step.surface, status |-> ReadinessStatus(step),
         risk |-> RiskLevel(ReadinessStatus(step)),
         blockers |-> step.blockedBy
                      \cup (IF ReadinessStatus(step) = "partial-readonly-evidence"
                            THEN MissingHostSignals(step) ELSE {})]

\* What the gate says of an action is what it says of that action alone.
LEMMA ReportsAreByAction ==
    ASSUME NEW ds, NEW host, NEW preflight, preflight = Preflight(Queue(ds)),
           NEW gate,
           gate = BackendGate(Readiness(Probe(Manifest(ControlExecution(
                                  Control(preflight, Lanes(preflight)))), host)))
    PROVE  /\ DOMAIN gate = ds
           /\ \A a \in ds : gate[a] = GateDecision(Assessed(a, host))
<1>1. preflight = [a \in ds |-> Flown(a)]
  BY DEF Preflight, Queue, Queued, Flown
<1> DEFINE lanes == Lanes(preflight)
           control == Control(preflight, lanes)
           manifest == Manifest(ControlExecution(control))
           probe == Probe(manifest, host)
           readiness == Readiness(probe)
<1>2. DOMAIN lanes = ds
  BY <1>1 DEF Lanes
<1>3. control = [a \in ds |-> Intended(a)]
  <2> HIDE DEF lanes
  <2> QED BY <1>1, <1>2 DEF Control, Intended
<1>4. manifest = [a \in ds |-> Entered(a)]
  <2> HIDE DEF lanes, control
  <2> QED BY <1>3 DEF Manifest, ControlExecution, Entered
<1>5. probe = [a \in ds |-> Probed(a, host)]
  <2> HIDE DEF manifest
  <2> QED BY <1>4 DEF Probe, Probed
<1>6. readiness = [a \in ds |-> Assessed(a, host)]
  <2> HIDE DEF probe
  <2> QED BY <1>5 DEF Readiness, Assessed
<1>7. gate = BackendGate(readiness)
  OBVIOUS
<1> HIDE DEF readiness
<1> QED BY <1>6, <1>7 DEF BackendGate

\* An action that needs a native backend is blocked at the end, by a reason of its own.
LEMMA NativeIsBlocked ==
    ASSUME NEW a \in NativeActions, NEW host, NEW g, g = GateDecision(Assessed(a, host))
    PROVE  /\ g.status = "block-native-promotion"
           /\ g.blockedBy # {} /\ g.advance = FALSE /\ g.surface = ControlSurface(a)
<1>1. Queued(a).native /\ ~Queued(a).wouldApply /\ Queued(a).privilege
  BY DEF Queued, ActionShape
<1>2. "native-backend" \in Flown(a).blockedBy
  BY <1>1 DEF Flown, PreflightBlockers
<1>3. "native-backend" \in Intended(a).blockedBy /\ Intended(a).surface = ControlSurface(a)
  BY <1>2 DEF Intended
<1>4. Entered(a).native = TRUE /\ Entered(a).surface = ControlSurface(a)
  BY <1>3 DEF Entered, ManifestEntry, DryRunIntent
<1>5. /\ Probed(a, host).status = "blocked-native-backend-probe"
      /\ Probed(a, host).surface = ControlSurface(a)
  BY <1>4 DEF Probed, ProbeStep
<1>6. /\ Assessed(a, host).status = "blocked-native-safety-boundary"
      /\ Assessed(a, host).surface = ControlSurface(a)
  BY <1>5 DEF Assessed, ReadinessStatus
<1>7. GateStatus(Assessed(a, host)) = "block-native-promotion"
  BY <1>6 DEF GateStatus
<1> QED BY <1>6, <1>7 DEF GateDecision

\* Any other action is blocked by nothing before it is probed.
LEMMA OthersAreProbed ==
    ASSUME NEW a \in Actions, a \notin NativeActions
    PROVE  /\ Entered(a).native = FALSE /\ Entered(a).blocked = FALSE /\ Entered(a).blockedBy = {}
           /\ Entered(a).surface = ControlSurface(a)
           /\ DomainOf(a) = "telemetry" => Entered(a).backend = "python-stdlib-readonly-probe"
           /\ DomainOf(a) # "telemetry" => Entered(a).backend = "daemon-advisory-loop"
<1>1. ~Queued(a).native /\ Queued(a).wouldApply /\ ~Queued(a).privilege
  BY DEF Queued, ActionShape
<1>2. Flown(a).blockedBy = {} /\ ~Flown(a).native
  BY <1>1 DEF Flown, PreflightBlockers
<1>3. /\ Intended(a).blockedBy = {} /\ Intended(a).canExecute = TRUE
      /\ Intended(a).surface = ControlSurface(a)
      /\ Intended(a).requirement = IF DomainOf(a) = "telemetry" THEN "python-stdlib-readonly-probe"
                                   ELSE "daemon-advisory-loop"
  BY <1>2 DEF Intended, BackendRequirement
<1> QED BY <1>3 DEF Entered, ManifestEntry, DryRunIntent

\* An action without a native backend is never blocked as one, advances only if nothing
\* blocks it, and observes the host only with every signal of it.
LEMMA OthersNeedEvidence ==
    ASSUME NEW a \in Actions, a \notin NativeActions, NEW host,
           NEW g, g = GateDecision(Assessed(a, host))
    PROVE  /\ g.status # "block-native-promotion" /\ g.surface = ControlSurface(a)
           /\ g.advance <=> g.blockedBy = {}
           /\ g.advance /\ DomainOf(a) = "telemetry" =>
                 host.loaded /\ host.cpuKnown /\ host.memoryKnown /\ host.gpuKnown
<1> DEFINE step == Probed(a, host)
           assessment == Assessed(a, host)
<1>1. CASE DomainOf(a) # "telemetry"
  <2>1. step.status = "executed-advisory-contract-probe" /\ step.blockedBy = {}
        /\ step.surface = ControlSurface(a)
    BY <1>1, OthersAreProbed DEF Probed, ProbeStep
  <2>2. assessment.status = "ready-advisory-loop" /\ assessment.blockers = {}
        /\ assessment.surface = ControlSurface(a)
    BY <2>1 DEF Assessed, ReadinessStatus
  <2>3. GateStatus(assessment) = "allow-advisory-loop"
    BY <2>2 DEF GateStatus
  <2> QED BY <1>1, <2>2, <2>3 DEF GateDecision
<1>2. CASE DomainOf(a) = "telemetry" /\ ~host.loaded
  <2>1. step.status = "blocked-missing-host-snapshot" /\ step.blockedBy = {"host-snapshot"}
        /\ step.surface = ControlSurface(a)
    BY <1>2, OthersAreProbed DEF Probed, ProbeStep
  <2>2. assessment.status = "needs-host-snapshot" /\ assessment.blockers = {"host-snapshot"}
        /\ assessment.surface = ControlSurface(a)
    BY <2>1 DEF Assessed, ReadinessStatus
  <2>3. GateStatus(assessment) = "block-for-evidence"
    BY <2>2 DEF GateStatus
  <2> QED BY <2>2, <2>3 DEF GateDecision
<1>3. CASE DomainOf(a) = "telemetry" /\ host.loaded
  <2> DEFINE known == {s \in {"cpu", "memory", "gpu"} :
                         (s = "cpu" /\ host.cpuKnown) \/ (s = "memory" /\ host.memoryKnown)
                         \/ (s = "gpu" /\ host.gpuKnown)}
             missing == {"cpu", "memory", "gpu"} \ known
  <2>1. step.status = "executed-readonly-host-snapshot-probe" /\ step.blockedBy = {}
        /\ step.signals = known /\ step.surface = ControlSurface(a)
    BY <1>3, OthersAreProbed DEF Probed, ProbeStep
  <2>2. MissingHostSignals(step) = missing
    BY <2>1 DEF MissingHostSignals
  <2>3. missing = {} => host.cpuKnown /\ host.memoryKnown /\ host.gpuKnown
    OBVIOUS
  <2> HIDE DEF step, known, missing
  <2>4. /\ assessment.status = (IF missing = {} THEN "ready-readonly-observation"
                                ELSE "partial-readonly-evidence")
        /\ assessment.blockers = missing
        /\ assessment.surface = ControlSurface(a)
    BY <2>1, <2>2 DEF Assessed, ReadinessStatus, step
  <2>5. GateStatus(assessment) = IF missing = {} THEN "allow-readonly-observation"
                                 ELSE "block-for-evidence"
    BY <2>4 DEF GateStatus
  <2> QED BY <1>3, <2>3, <2>4, <2>5 DEF GateDecision
<1> QED BY <1>1, <1>2, <1>3

\* A dry run blocks what it would not apply, and what needs the native side or a privilege.
LEMMA DryRunForm ==
    ASSUME NEW queued
    PROVE  DryRunAction(queued).blocked <=> ~queued.wouldApply \/ queued.native \/ queued.privilege
BY DEF DryRunAction

\* The shape of an action: it applies, or needs the native side and a privilege.
LEMMA ShapeForm ==
    ASSUME NEW a
    PROVE  /\ ActionShape(a).native <=> a \in NativeActions
           /\ ActionShape(a).privilege <=> a \in NativeActions
           /\ ActionShape(a).wouldApply <=> a \notin NativeActions
BY DEF ActionShape

\* The dry run blocks exactly the actions that need the native side.
LEMMA DryRunBlocks ==
    ASSUME NEW ds, NEW a \in ds, NEW execution, execution = ActionExecution(Queue(ds))
    PROVE  execution[a].blocked <=> a \in NativeActions
<1>1. execution[a] = DryRunAction(ActionShape(a))
  <2>1. Queue(ds) = [x \in ds |-> ActionShape(x)]
    BY DEF Queue
  <2>2. execution = [x \in ds |-> DryRunAction(ActionShape(x))]
    BY <2>1 DEF ActionExecution
  <2> QED BY <2>2
<1> QED BY ONLY <1>1, DryRunForm, ShapeForm

\* The surface of memory is one no other action is about.
LEMMA SurfaceForm ==
    ASSUME NEW a \in Actions
    PROVE  ControlSurface(a) = "ram-vram" <=> a \in NativeActions
BY DomainForm DEF ControlSurface

\* What a report promotes is evidenced, and nothing in its ledger is both safe and blocked.
LEMMA AdvanceIsEvidenced ==
    ASSUME NEW report
    PROVE  Evidenced(report.host, Promoted(report))
<1> DEFINE ds == Decisions(report.state, report.host, report.cycles[Len(report.cycles)].action,
                           TotalBlocked(report.cycles))
           host == report.host
           queue == Queue(ds)
           preflight == Preflight(queue)
           gate == BackendGate(Readiness(Probe(Manifest(ControlExecution(
                                    Control(preflight, Lanes(preflight)))), host)))
           promoted == Promoted(report)
<1>1. /\ promoted.decisions = ds /\ promoted.execution = ActionExecution(queue)
      /\ promoted.gate = gate
      /\ promoted.ledger = OperationalLedger(gate, PressureScore(report.state))
  BY DEF Promoted
<1>2. ds \subseteq Actions
  BY DecisionsForm
<1>3. DOMAIN gate = ds /\ \A a \in ds : gate[a] = GateDecision(Assessed(a, host))
  <2> HIDE DEF ds, host
  <2> QED BY ReportsAreByAction
<1>4. \A a \in ds : ActionExecution(queue)[a].blocked <=> a \in NativeActions
  <2> HIDE DEF ds
  <2> QED BY DryRunBlocks
<1> HIDE DEF ds, host, queue, preflight, gate, promoted
<1>5. ASSUME NEW a \in ds
      PROVE  /\ promoted.execution[a].blocked <=> gate[a].status = "block-native-promotion"
             /\ gate[a].advance <=> gate[a].blockedBy = {}
             /\ gate[a].advance /\ DomainOf(a) = "telemetry" =>
                   host.loaded /\ host.cpuKnown /\ host.memoryKnown /\ host.gpuKnown
             /\ gate[a].surface = ControlSurface(a)
             /\ a \in NativeActions => gate[a].status = "block-native-promotion" /\ ~gate[a].advance
             /\ a \notin NativeActions => gate[a].status # "block-native-promotion"
  <2>1. a \in Actions /\ gate[a] = GateDecision(Assessed(a, host))
    BY <1>2, <1>3
  <2>2. promoted.execution[a].blocked <=> a \in NativeActions
    BY <1>1, <1>4
  <2>3. CASE a \in NativeActions
    BY <2>1, <2>2, <2>3, NativeIsBlocked
  <2>4. CASE a \notin NativeActions
    BY <2>1, <2>2, <2>4, OthersNeedEvidence
  <2> QED BY <2>3, <2>4
<1> DEFINE safe == {gate[a].surface : a \in {x \in ds : gate[x].advance}}
           blocked == {gate[a].surface : a \in {x \in ds : gate[x].status = "block-native-promotion"}}
<1>6. promoted.ledger.safe = safe /\ promoted.ledger.blocked = blocked
  BY <1>1, <1>3 DEF OperationalLedger
<1>7. safe \cap blocked = {}
  <2>1. \A s \in safe : s # "ram-vram"
    BY <1>2, <1>5, SurfaceForm
  <2>2. \A s \in blocked : s = "ram-vram"
    BY <1>2, <1>5, SurfaceForm
  <2> QED BY <2>1, <2>2
<1> HIDE DEF safe, blocked
<1> QED BY <1>1, <1>5, <1>6, <1>7 DEF Evidenced, host, promoted

\* On any host, whatever ran: what the first dry run blocks is blocked to the end, an
\* observation advances only on a snapshot with every signal, and no surface is called both
\* safe and blocked.
THEOREM OnlyEvidencedWorkEverAdvances == Spec => []OnlyEvidencedWorkAdvances
<1>1. OnlyEvidencedWorkAdvances
  BY AdvanceIsEvidenced DEF OnlyEvidencedWorkAdvances
<1> QED BY <1>1, PTL

-----------------------------------------------------------------------------
(* Lists in the order of a sort.                                          *)

\* The places of a finite set, each of which has others ahead of it: in a line.
InLine(K, ahead) ==
    /\ \A k \in K : ahead[k] \subseteq K /\ k \notin ahead[k]
    /\ \A j, k \in K : j = k \/ j \in ahead[k] \/ k \in ahead[j]
    /\ \A i, j, k \in K : i \in ahead[j] /\ j \in ahead[k] => i \in ahead[k]

\* In a line every number of places ahead comes once.
LEMMA LineIsNumbered ==
    ASSUME NEW K, IsFiniteSet(K), NEW ahead, InLine(K, ahead)
    PROVE  /\ \A k \in K : Cardinality(ahead[k]) \in 0..(Cardinality(K) - 1)
           /\ \A n \in 1..Cardinality(K) : \E k \in K : Cardinality(ahead[k]) = n - 1
           /\ \A j, k \in K : Cardinality(ahead[j]) = Cardinality(ahead[k]) => j = k
<1> DEFINE N == Cardinality(K)
           rank == [k \in K |-> Cardinality(ahead[k]) + 1]
<1>0. N \in Nat
  BY FS_CardinalityType
<1>1. ASSUME NEW k \in K
      PROVE  IsFiniteSet(ahead[k]) /\ Cardinality(ahead[k]) \in Nat /\ Cardinality(ahead[k]) < N
  <2>1. ahead[k] \in SUBSET K /\ ahead[k] # K
    BY DEF InLine
  <2>2. /\ IsFiniteSet(ahead[k]) /\ Cardinality(ahead[k]) <= N
        /\ Cardinality(ahead[k]) # N
    BY <2>1, FS_Subset
  <2>3. Cardinality(ahead[k]) \in Nat
    BY <2>2, FS_CardinalityType
  <2> QED BY <1>0, <2>2, <2>3
<1>2. ASSUME NEW j \in K, NEW k \in K, j \in ahead[k]
      PROVE  Cardinality(ahead[j]) # Cardinality(ahead[k])
  <2>1. ahead[j] \in SUBSET ahead[k] /\ ahead[j] # ahead[k]
    BY <1>2 DEF InLine
  <2>2. IsFiniteSet(ahead[k])
    BY <1>1
  <2> QED BY <2>1, <2>2, FS_Subset
<1>3. \A j, k \in K : Cardinality(ahead[j]) = Cardinality(ahead[k]) => j = k
  BY <1>2 DEF InLine
<1>4. rank \in [K -> 1..N]
  <2>1. \A k \in K : Cardinality(ahead[k]) + 1 \in 1..N
    BY <1>0, <1>1
  <2> QED BY <2>1
<1>5. rank \in Injection(K, 1..N)
  <2>1. \A j, k \in K : rank[j] = rank[k] => Cardinality(ahead[j]) = Cardinality(ahead[k])
    BY <1>1
  <2> HIDE DEF rank
  <2> QED BY <1>3, <1>4, <2>1 DEF Injection, IsInjective
<1>6. IsFiniteSet(1..N) /\ Cardinality(1..N) = N
  BY <1>0, FS_Interval
<1>7. rank \in Surjection(K, 1..N)
  BY <1>5, <1>6, FS_Injection
<1>8. \A n \in 1..N : \E k \in K : rank[k] = n
  BY <1>7 DEF Surjection
<1>9. \A n \in 1..N : \E k \in K : Cardinality(ahead[k]) = n - 1
  BY <1>1, <1>8
<1>10. \A k \in K : Cardinality(ahead[k]) \in 0..(N - 1)
  BY <1>0, <1>1
<1> QED BY <1>3, <1>9, <1>10

\* q holds the entries of e in another order: at says from which place each one comes.
Reorders(q, e, at) ==
    /\ DOMAIN q = 1..Cardinality(DOMAIN e) /\ DOMAIN at = DOMAIN q
    /\ \A n \in DOMAIN q : at[n] \in DOMAIN e /\ q[n] = e[at[n]]
    /\ \A m, n \in DOMAIN q : at[m] = at[n] => m = n
    /\ \A k \in DOMAIN e : \E n \in DOMAIN q : at[n] = k

\* A list made by picking the place with so many others ahead holds every entry once.
LEMMA LineReorders ==
    ASSUME NEW e, IsFiniteSet(DOMAIN e), NEW ahead, InLine(DOMAIN e, ahead), NEW at, NEW q,
           DOMAIN at = 1..Cardinality(DOMAIN e), DOMAIN q = DOMAIN at,
           \A n \in DOMAIN at :
              (\E k \in DOMAIN e : Cardinality(ahead[k]) = n - 1) =>
                 at[n] \in DOMAIN e /\ Cardinality(ahead[at[n]]) = n - 1,
           \A n \in DOMAIN at : q[n] = e[at[n]]
    PROVE  Reorders(q, e, at)
<1> DEFINE K == DOMAIN e
           N == Cardinality(K)
<1>1. N \in Nat
  BY FS_CardinalityType
<1> HIDE DEF N
<1>2. /\ \A k \in K : Cardinality(ahead[k]) \in 0..(N - 1)
      /\ \A n \in 1..N : \E k \in K : Cardinality(ahead[k]) = n - 1
      /\ \A j, k \in K : Cardinality(ahead[j]) = Cardinality(ahead[k]) => j = k
  BY LineIsNumbered DEF N
<1>3. \A n \in 1..N : at[n] \in K /\ Cardinality(ahead[at[n]]) = n - 1
  BY <1>2 DEF N
<1>4. \A m, n \in 1..N : at[m] = at[n] => m = n
  BY <1>1, <1>3
<1>5. ASSUME NEW k \in K PROVE \E n \in 1..N : at[n] = k
  <2> DEFINE n == Cardinality(ahead[k]) + 1
  <2>1. n \in 1..N /\ n - 1 = Cardinality(ahead[k])
    BY <1>1, <1>2
  <2>2. Cardinality(ahead[at[n]]) = Cardinality(ahead[k]) /\ at[n] \in K
    BY <1>3, <2>1
  <2>3. at[n] = k
    BY <1>2, <2>2
  <2> QED BY <2>1, <2>3
<1> QED BY <1>3, <1>4, <1>5 DEF Reorders, N

\* Entries that can be told apart by their places, and compared as slots are.
IsKeyed(a) == a.id \in Int /\ a.frame \in Int /\ a.order \in Int

Comparable(e) ==
    /\ IsFiniteSet(DOMAIN e) /\ DOMAIN e \subseteq Int
    /\ \A k \in DOMAIN e : IsKeyed(e[k])

\* An order on entries, place by place: strict, and the same on both sides of a tie.
IsOrder(K, before) ==
    /\ \A k \in K : <<k, k>> \notin before
    /\ \A j, k \in K : <<j, k>> \in before => <<k, j>> \notin before
    /\ \A i, j, k \in K : <<i, j>> \in before /\ <<k, j>> \notin before => <<i, k>> \in before

\* Who is ahead of a place: what the order puts there, and its equals that came first.
LineOf(K, before) ==
    [k \in K |-> {j \in K : \/ <<j, k>> \in before
                            \/ <<k, j>> \notin before /\ j < k}]

\* Every order puts the places in a line, equals as they came.
LEMMA OrderLines ==
    ASSUME NEW K, K \subseteq Int, NEW before, IsOrder(K, before)
    PROVE  InLine(K, LineOf(K, before))
<1> DEFINE ahead == LineOf(K, before)
<1>0. \A j, k \in K : j \in ahead[k] <=> <<j, k>> \in before \/ (<<k, j>> \notin before /\ j < k)
  BY DEF LineOf
<1>1. \A k \in K : ahead[k] \subseteq K
  BY DEF LineOf
<1> HIDE DEF ahead
<1>i. \A k \in K : k \in Int
  OBVIOUS
<1>2. ASSUME NEW k \in K PROVE k \notin ahead[k]
  <2>1. k \in Int /\ ~(k < k)
    BY <1>i
  <2> QED BY <1>0, <2>1 DEF IsOrder
<1>3. ASSUME NEW j \in K, NEW k \in K PROVE j = k \/ j \in ahead[k] \/ k \in ahead[j]
  <2>1. j = k \/ j < k \/ k < j
    BY <1>i
  <2> QED BY <1>0, <2>1 DEF IsOrder
<1>4. ASSUME NEW i \in K, NEW j \in K, NEW k \in K, i \in ahead[j], j \in ahead[k]
      PROVE  i \in ahead[k]
  <2>0. i < j /\ j < k => i < k
    BY <1>i
  <2>1. CASE <<i, j>> \in before
    BY <1>0, <1>4, <2>1 DEF IsOrder
  <2>2. CASE <<j, k>> \in before /\ <<i, j>> \notin before
    BY <1>0, <1>4, <2>2 DEF IsOrder
  <2>3. CASE <<i, j>> \notin before /\ <<j, k>> \notin before
    <3>1. <<j, i>> \notin before /\ i < j /\ <<k, j>> \notin before /\ j < k
      BY <1>0, <1>4, <2>3
    <3>2. <<k, i>> \in before => <<k, j>> \in before
      BY <2>3, <3>1 DEF IsOrder
    <3> QED BY <1>0, <2>0, <3>1, <3>2
  <2> QED BY <2>1, <2>2, <2>3
<1> QED BY <1>1, <1>2, <1>3, <1>4 DEF InLine, ahead

\* The slots of the windows are sorted so.
LEMMA SlotsAreSorted ==
    ASSUME NEW e, Comparable(e)
    PROVE  \E at : Reorders(Sorted(e, SlotBefore), e, at)
<1> DEFINE K == DOMAIN e
           line(k) == {j \in K : \/ SlotBefore(e[j], e[k])
                                 \/ ~SlotBefore(e[k], e[j]) /\ j < k}
           place(n) == CHOOSE k \in K : Cardinality(line(k)) = n - 1
           before == {x \in K \X K : SlotBefore(e[x[1]], e[x[2]])}
           ahead == LineOf(K, before)
           at == [n \in 1..Cardinality(K) |-> place(n)]
           q == Sorted(e, SlotBefore)
<1>1. q = [n \in 1..Cardinality(K) |-> e[place(n)]]
  BY DEF Sorted
<1>2. \A j, k \in K : <<j, k>> \in before <=> SlotBefore(e[j], e[k])
  OBVIOUS
<1>3. IsOrder(K, before)
  <2> HIDE DEF before
  <2>1. \A k \in K : IsKeyed(e[k])
    BY DEF Comparable
  <2> HIDE DEF K
  <2>2. ASSUME NEW j \in K, NEW k \in K
        PROVE  <<k, k>> \notin before /\ (<<j, k>> \in before => <<k, j>> \notin before)
    <3>1. IsKeyed(e[j]) /\ IsKeyed(e[k])
      BY <2>1
    <3>2. ~SlotBefore(e[k], e[k]) /\ (SlotBefore(e[j], e[k]) => ~SlotBefore(e[k], e[j]))
      BY ONLY <3>1 DEF SlotBefore, IsKeyed
    <3> QED BY <1>2, <3>2
  <2>3. \A i, j, k \in K : <<i, j>> \in before /\ <<k, j>> \notin before => <<i, k>> \in before
    BY <1>2, <2>1 DEF SlotBefore, IsKeyed
  <2> QED BY <2>2, <2>3 DEF IsOrder
<1>4. \A k \in K : ahead[k] = line(k)
  <2> HIDE DEF before, K
  <2> QED BY <1>2 DEF LineOf
<1>5. InLine(K, ahead)
  BY <1>3, OrderLines DEF Comparable
<1>6. \A n \in DOMAIN at : (\E k \in K : Cardinality(line(k)) = n - 1) =>
                              at[n] \in K /\ Cardinality(line(at[n])) = n - 1
  <2> HIDE DEF line, K
  <2> QED OBVIOUS
<1>7. DOMAIN at = 1..Cardinality(K) /\ DOMAIN q = DOMAIN at /\ \A n \in DOMAIN at : q[n] = e[at[n]]
  BY <1>1
<1> HIDE DEF before, ahead, at, q, line, place
<1>8. \A n \in DOMAIN at : (\E k \in K : Cardinality(ahead[k]) = n - 1) =>
                              at[n] \in K /\ Cardinality(ahead[at[n]]) = n - 1
  BY <1>4, <1>6
<1>9. Reorders(q, e, at)
  BY <1>5, <1>7, <1>8, LineReorders DEF Comparable
<1> QED BY <1>9 DEF q

\* And so are the commands of the dispatch.
LEMMA DispatchIsSorted ==
    ASSUME NEW e, Comparable(e)
    PROVE  \E at : Reorders(Sorted(e, DispatchBefore), e, at)
<1> DEFINE K == DOMAIN e
           line(k) == {j \in K : \/ DispatchBefore(e[j], e[k])
                                 \/ ~DispatchBefore(e[k], e[j]) /\ j < k}
           place(n) == CHOOSE k \in K : Cardinality(line(k)) = n - 1
           before == {x \in K \X K : DispatchBefore(e[x[1]], e[x[2]])}
           ahead == LineOf(K, before)
           at == [n \in 1..Cardinality(K) |-> place(n)]
           q == Sorted(e, DispatchBefore)
<1>1. q = [n \in 1..Cardinality(K) |-> e[place(n)]]
  BY DEF Sorted
<1>2. \A j, k \in K : <<j, k>> \in before <=> DispatchBefore(e[j], e[k])
  OBVIOUS
<1>3. IsOrder(K, before)
  <2> HIDE DEF before
  <2>1. \A k \in K : IsKeyed(e[k])
    BY DEF Comparable
  <2> HIDE DEF K
  <2>2. ASSUME NEW j \in K, NEW k \in K
        PROVE  <<k, k>> \notin before /\ (<<j, k>> \in before => <<k, j>> \notin before)
    <3>1. IsKeyed(e[j]) /\ IsKeyed(e[k])
      BY <2>1
    <3>2. ~DispatchBefore(e[k], e[k]) /\ (DispatchBefore(e[j], e[k]) => ~DispatchBefore(e[k], e[j]))
      BY ONLY <3>1 DEF DispatchBefore, IsKeyed
    <3> QED BY <1>2, <3>2
  <2>3. \A i, j, k \in K : <<i, j>> \in before /\ <<k, j>> \notin before => <<i, k>> \in before
    BY <1>2, <2>1 DEF DispatchBefore, IsKeyed
  <2> QED BY <2>2, <2>3 DEF IsOrder
<1>4. \A k \in K : ahead[k] = line(k)
  <2> HIDE DEF before, K
  <2> QED BY <1>2 DEF LineOf
<1>5. InLine(K, ahead)
  BY <1>3, OrderLines DEF Comparable
<1>6. \A n \in DOMAIN at : (\E k \in K : Cardinality(line(k)) = n - 1) =>
                              at[n] \in K /\ Cardinality(line(at[n])) = n - 1
  <2> HIDE DEF line, K
  <2> QED OBVIOUS
<1>7. DOMAIN at = 1..Cardinality(K) /\ DOMAIN q = DOMAIN at /\ \A n \in DOMAIN at : q[n] = e[at[n]]
  BY <1>1
<1> HIDE DEF before, ahead, at, q, line, place
<1>8. \A n \in DOMAIN at : (\E k \in K : Cardinality(ahead[k]) = n - 1) =>
                              at[n] \in K /\ Cardinality(ahead[at[n]]) = n - 1
  BY <1>4, <1>6
<1>9. Reorders(q, e, at)
  BY <1>5, <1>7, <1>8, LineReorders DEF Comparable
<1> QED BY <1>9 DEF q

-----------------------------------------------------------------------------
(* The packet: every result that is routed, once.                          *)

\* What is routed of a session, and from where.
Routed(o, resources) == IsTransit(o) /\ DirectiveOf(Hop(o, resources)) # None

\* The routes in one go, place by place.
Routes(results, resources) ==
    [k \in {j \in DOMAIN results : Routed(results[j], resources)} |-> Hop(results[k], resources)]

\* Two stages make them.
LEMMA RoutesAre ==
    ASSUME NEW results, NEW resources
    PROVE  RoutePlan(TransitMap(results, resources)) = Routes(results, resources)
<1> DEFINE routes == RoutePlan(TransitMap(results, resources))
           hops == TransitMap(results, resources)
           K == {j \in DOMAIN results : IsTransit(results[j])}
<1>1. hops = [k \in K |-> Hop(results[k], resources)]
  BY DEF TransitMap
<1>2. routes = [k \in {j \in DOMAIN hops : DirectiveOf(hops[j]) # None} |-> hops[k]]
  BY DEF RoutePlan
<1> HIDE DEF hops, routes
<1>3. {j \in DOMAIN hops : DirectiveOf(hops[j]) # None}
        = {j \in DOMAIN results : Routed(results[j], resources)}
  BY <1>1 DEF Routed
<1>4. \A k \in {j \in DOMAIN hops : DirectiveOf(hops[j]) # None} : hops[k] = Hop(results[k], resources)
  BY <1>1
<1>5. routes = Routes(results, resources)
  BY <1>2, <1>3, <1>4 DEF Routes
<1> QED BY <1>5 DEF routes

\* The windows a directive may be served in.
Served == {"never", "pre-frame", "setup", "hot-path"}

\* The class of a hop says what eliminated the operation, if anything did.
LEMMA ClassForm ==
    ASSUME NEW o, IsResult(o), NEW resources, NEW class, class = Classify(o, resources)
    PROVE  o.policy # None <=>
              class \in {"redundant-transfer", "redundant-allocation", "redundant-sync"}
<1>1. CASE o.policy = None
  <2>1. None \notin DOMAIN WasteClass
    BY DEF WasteClass, None
  <2> QED BY <1>1, <2>1 DEF Classify
<1>2. CASE o.policy # None
  <2>1. o.policy \in DOMAIN WasteClass /\ class = WasteClass[o.policy]
    BY <1>2 DEF Classify, IsResult
  <2> QED BY <1>2, <2>1 DEF WasteClass
<1> QED BY <1>1, <1>2

\* A directive is served in one of the windows, never if it is about waste.
LEMMA DirectiveForm ==
    ASSUME NEW h, NEW d, d = DirectiveOf(h)
    PROVE  /\ h.class \in {"redundant-transfer", "redundant-allocation", "redundant-sync"} =>
                 d # None /\ WindowOf(d) = 1
           /\ h.class \notin {"redundant-transfer", "redundant-allocation", "redundant-sync"} /\ d # None =>
                 WindowOf(d) \in {2, 3, 4}
<1>1. CASE h.class = "redundant-transfer"
  BY <1>1 DEF DirectiveOf, IsCrossMemory, WindowOf, None
<1>2. CASE h.class = "redundant-allocation"
  BY <1>2 DEF DirectiveOf, IsCrossMemory, WindowOf, None
<1>3. CASE h.class = "redundant-sync"
  BY <1>3 DEF DirectiveOf, IsCrossMemory, WindowOf, None
<1>4. CASE h.class \notin {"redundant-transfer", "redundant-allocation", "redundant-sync"}
  <2>1. d \in {"prestage_cross_memory_transfer", "pool_transient_allocation",
               "protect_presentation_route", None}
    BY <1>4 DEF DirectiveOf
  <2> QED BY <1>4, <2>1 DEF WindowOf, None
<1> QED BY <1>1, <1>2, <1>3, <1>4

\* The slot of a result that is routed.
LEMMA SlotForm ==
    ASSUME NEW o, IsResult(o), NEW resources, NEW slot, slot = Slot(Hop(o, resources))
    PROVE  /\ o.policy # None => Routed(o, resources)
           /\ Routed(o, resources) =>
                 /\ IsKeyed(slot) /\ slot.window \in Served
                 /\ slot.id = o.id /\ slot.frame = o.frame /\ slot.cost = o.cost
                 /\ slot.window = "never" <=> o.policy # None
<1> DEFINE h == Hop(o, resources)
           d == DirectiveOf(h)
<1>1. h.id = o.id /\ h.frame = o.frame /\ h.cost = o.cost /\ h.class = Classify(o, resources)
  BY DEF Hop
<1>2. /\ slot.id = h.id /\ slot.frame = h.frame /\ slot.cost = h.cost
      /\ slot.order = WindowOf(d) /\ slot.window = Windows[WindowOf(d)]
  BY DEF Slot
<1>3. o.policy # None => IsTransit(o)
  BY DEF IsResult, IsTransit
<1> HIDE DEF h, d
<1>4. o.policy # None <=> h.class \in {"redundant-transfer", "redundant-allocation", "redundant-sync"}
  BY <1>1, ClassForm
<1>5. /\ o.policy # None => d # None /\ WindowOf(d) = 1
      /\ o.policy = None /\ d # None => WindowOf(d) \in {2, 3, 4}
  BY <1>4, DirectiveForm DEF d
<1>6. ASSUME d # None
      PROVE  /\ slot.window \in Served /\ slot.order \in Int
             /\ slot.window = "never" <=> o.policy # None
  <2>1. CASE o.policy # None
    BY <1>2, <1>5, <2>1 DEF Windows, Served
  <2>2. CASE o.policy = None
    BY <1>2, <1>5, <1>6, <2>2 DEF Windows, Served
  <2> QED BY <2>1, <2>2
<1>7. Routed(o, resources) <=> IsTransit(o) /\ d # None
  BY DEF Routed, d, h
<1>8. o.id \in Int /\ o.frame \in Int
  BY DEF IsResult
<1> QED BY <1>1, <1>2, <1>3, <1>5, <1>6, <1>7, <1>8 DEF IsKeyed

\* A packet holds the routed results of a session, and at says which is where.
Holds(packet, results, at) ==
    /\ Len(packet) \in Nat /\ DOMAIN packet = 1..Len(packet) /\ DOMAIN at = DOMAIN packet
    /\ \A n \in DOMAIN packet :
          /\ at[n] \in DOMAIN results
          /\ packet[n].id = results[at[n]].id /\ packet[n].frame = results[at[n]].frame
          /\ packet[n].cost = results[at[n]].cost /\ packet[n].window \in Served
          /\ packet[n].action = ActionOf(packet[n])
          /\ packet[n].window = "never" <=> results[at[n]].policy # None
    /\ \A m, n \in DOMAIN packet : at[m] = at[n] => m = n
    /\ \A k \in DOMAIN results : results[k].policy # None => \E n \in DOMAIN packet : at[n] = k

\* Three stages, a sort among them, make a packet that holds the routed results.
LEMMA PacketHolds ==
    ASSUME NEW session, IsSession(session), NEW packet,
           packet = Packet(WindowPlan(RoutePlan(TransitMap(session.results, session.resources))))
    PROVE  \E at : Holds(packet, session.results, at)
<1> DEFINE results == session.results
           resources == session.resources
           routes == RoutePlan(TransitMap(results, resources))
           K == {j \in DOMAIN results : Routed(results[j], resources)}
           e == [k \in DOMAIN routes |-> Slot(routes[k])]
           slots == Sorted(e, SlotBefore)
<1>1. /\ Len(results) \in Nat /\ DOMAIN results = 1..Len(results)
      /\ \A k \in DOMAIN results : IsResult(results[k])
  BY DEF IsSession
<1>2. packet = Packet(slots)
  BY DEF WindowPlan
<1>3. DOMAIN routes = K /\ \A k \in K : routes[k] = Hop(results[k], resources)
  <2> HIDE DEF results, resources, routes
  <2>1. routes = Routes(results, resources)
    BY RoutesAre DEF routes
  <2> QED BY <2>1 DEF Routes
<1> HIDE DEF results, resources, routes
<1>4. DOMAIN e = K /\ \A k \in K : e[k] = Slot(Hop(results[k], resources))
  BY <1>3
<1> HIDE DEF e
<1>5. \A k \in K : /\ IsKeyed(e[k]) /\ e[k].window \in Served
                   /\ e[k].id = results[k].id /\ e[k].frame = results[k].frame
                   /\ e[k].cost = results[k].cost
                   /\ e[k].window = "never" <=> results[k].policy # None
  BY <1>1, <1>4, SlotForm
<1>6. IsFiniteSet(K) /\ K \subseteq Int /\ Cardinality(K) \in Nat
  <2>1. IsFiniteSet(1..Len(results))
    BY <1>1, FS_Interval
  <2>2. K \in SUBSET (1..Len(results))
    BY <1>1
  <2>3. IsFiniteSet(K)
    BY <2>1, <2>2, FS_Subset
  <2> QED BY <1>1, <2>2, <2>3, FS_CardinalityType
<1>7. PICK at : Reorders(slots, e, at)
  <2>1. Comparable(e)
    BY <1>4, <1>5, <1>6 DEF Comparable
  <2> QED BY <2>1, SlotsAreSorted
<1> HIDE DEF slots
<1>8. packet = [k \in DOMAIN slots |->
                  [id |-> slots[k].id, frame |-> slots[k].frame, cost |-> slots[k].cost,
                   window |-> slots[k].window, action |-> ActionOf(slots[k])]]
  BY <1>2 DEF Packet
<1>9. DOMAIN slots = 1..Cardinality(K)
  BY <1>4, <1>7 DEF Reorders
<1>10. Len(packet) = Cardinality(K) /\ DOMAIN packet = 1..Cardinality(K)
  BY <1>6, <1>8, <1>9
<1>11. ASSUME NEW n \in DOMAIN packet
       PROVE  /\ at[n] \in K
              /\ packet[n].id = results[at[n]].id /\ packet[n].frame = results[at[n]].frame
              /\ packet[n].cost = results[at[n]].cost /\ packet[n].window \in Served
              /\ packet[n].action = ActionOf(packet[n])
              /\ packet[n].window = "never" <=> results[at[n]].policy # None
  <2>1. at[n] \in K /\ slots[n] = e[at[n]]
    BY <1>4, <1>7, <1>9, <1>10 DEF Reorders
  <2>2. /\ packet[n].id = slots[n].id /\ packet[n].frame = slots[n].frame
        /\ packet[n].cost = slots[n].cost /\ packet[n].window = slots[n].window
        /\ packet[n].action = ActionOf(slots[n])
    BY <1>8
  <2>3. ActionOf(slots[n]) = ActionOf(packet[n])
    BY <2>2 DEF ActionOf
  <2> QED BY <1>5, <2>1, <2>2, <2>3
<1>12. ASSUME NEW k \in DOMAIN results, results[k].policy # None
       PROVE  \E n \in DOMAIN packet : at[n] = k
  <2>1. k \in K
    BY <1>1, <1>12, SlotForm
  <2> QED BY <1>4, <1>7, <1>9, <1>10, <2>1 DEF Reorders
<1>13. \A m, n \in DOMAIN packet : at[m] = at[n] => m = n
  BY <1>7, <1>9, <1>10 DEF Reorders
<1>14. DOMAIN at = DOMAIN packet
  BY <1>7, <1>9, <1>10 DEF Reorders
<1> HIDE DEF K
<1>15. K \subseteq DOMAIN results
  BY DEF K
<1>16. Holds(packet, results, at)
  BY <1>6, <1>10, <1>11, <1>12, <1>13, <1>14, <1>15 DEF Holds
<1> QED BY <1>16 DEF results

-----------------------------------------------------------------------------
(* The steps: every command of the packet, once.                           *)

\* A command and what was used before it stay within the limit.
Fits(packet, envelope, k) == UsedSoFar(packet, k) <= LimitOf(packet[k], envelope)

\* What the arbiter decides about a command, and what becomes of it.
LEMMA DecisionForm ==
    ASSUME NEW packet, NEW envelope, NEW k, packet[k].window \in Served,
           NEW d, d = ArbitrateCommand(packet, envelope, k)
    PROVE  /\ DispatchShape(d).order \in Int
           /\ OutcomeOf(DispatchShape(d).command) = "avoided" <=> packet[k].window = "never"
           /\ OutcomeOf(DispatchShape(d).command) = "current"
                 <=> packet[k].window = "hot-path" /\ Fits(packet, envelope, k)
           /\ OutcomeOf(DispatchShape(d).command) = "pre-frame"
                 <=> packet[k].window = "pre-frame" /\ Fits(packet, envelope, k)
<1> DEFINE w == packet[k].window
           fits == Fits(packet, envelope, k)
<1>0. /\ w = "never" => d = "drop-waste"
      /\ w = "setup" => d = "prepare-before-hot-path"
      /\ w = "pre-frame" /\ fits => d = "prestage-before-frame"
      /\ w = "pre-frame" /\ ~fits => d = "defer-pre-frame-overflow"
      /\ w = "hot-path" /\ fits => d = "admit-hot-path"
      /\ w = "hot-path" /\ ~fits => d = "split-or-defer-hot-path"
  BY DEF ArbitrateCommand, Fits
<1> DEFINE Shaped(x, n, outcome) ==
              DispatchShape(x).order = n /\ OutcomeOf(DispatchShape(x).command) = outcome
<1>1. /\ Shaped("drop-waste", 1, "avoided")
      /\ Shaped("prepare-before-hot-path", 3, "ignored")
      /\ Shaped("prestage-before-frame", 4, "pre-frame")
      /\ Shaped("admit-hot-path", 5, "current")
      /\ Shaped("split-or-defer-hot-path", 6, "deferred")
      /\ Shaped("defer-pre-frame-overflow", 6, "deferred")
  BY DEF DispatchShape, OutcomeOf
<1>2. w \in Served
  OBVIOUS
<1> HIDE DEF w, fits
<1>3. /\ DispatchShape(d).order \in Int
      /\ OutcomeOf(DispatchShape(d).command) = "avoided" <=> w = "never"
      /\ OutcomeOf(DispatchShape(d).command) = "current" <=> w = "hot-path" /\ fits
      /\ OutcomeOf(DispatchShape(d).command) = "pre-frame" <=> w = "pre-frame" /\ fits
  <2>1. CASE w = "never"
    BY <1>0, <1>1, <2>1
  <2>2. CASE w = "setup"
    BY <1>0, <1>1, <2>2
  <2>3. CASE w = "pre-frame" /\ fits
    BY <1>0, <1>1, <2>3
  <2>4. CASE w = "pre-frame" /\ ~fits
    BY <1>0, <1>1, <2>4
  <2>5. CASE w = "hot-path" /\ fits
    BY <1>0, <1>1, <2>5
  <2>6. CASE w = "hot-path" /\ ~fits
    BY <1>0, <1>1, <2>6
  <2> QED BY <1>2, <2>1, <2>2, <2>3, <2>4, <2>5, <2>6 DEF Served
<1> QED BY <1>3 DEF w, fits

\* The steps are the commands of a packet, and to says which is which.
CarriesOut(steps, packet, envelope, to) ==
    /\ Len(steps) = Len(packet) /\ DOMAIN steps = DOMAIN packet /\ DOMAIN to = DOMAIN packet
    /\ \A n \in DOMAIN packet :
          /\ to[n] \in DOMAIN packet
          /\ steps[n].id = packet[to[n]].id /\ steps[n].frame = packet[to[n]].frame
          /\ steps[n].cost = packet[to[n]].cost
          /\ steps[n].outcome = "avoided" <=> packet[to[n]].window = "never"
          /\ steps[n].outcome = "current"
                <=> packet[to[n]].window = "hot-path" /\ Fits(packet, envelope, to[n])
          /\ steps[n].outcome = "pre-frame"
                <=> packet[to[n]].window = "pre-frame" /\ Fits(packet, envelope, to[n])
    /\ \A m, n \in DOMAIN packet : to[m] = to[n] => m = n
    /\ \A k \in DOMAIN packet : \E n \in DOMAIN packet : to[n] = k

\* What the stages need to know of a packet.
IsPacket(packet) ==
    /\ Len(packet) \in Nat /\ DOMAIN packet = 1..Len(packet)
    /\ \A n \in DOMAIN packet :
          /\ packet[n].id \in Int /\ packet[n].frame \in Int /\ packet[n].cost \in Nat
          /\ packet[n].window \in Served /\ packet[n].action = ActionOf(packet[n])

\* Three stages, a sort among them, carry a packet out.
LEMMA StepsCarryOut ==
    ASSUME NEW packet, IsPacket(packet), NEW envelope, NEW steps,
           steps = DispatchExecution(DispatchPlan(Arbitration(packet, envelope)))
    PROVE  \E to : CarriesOut(steps, packet, envelope, to)
<1> DEFINE K == DOMAIN packet
           decision(k) == ArbitrateCommand(packet, envelope, k)
           commands == Arbitration(packet, envelope).commands
           e == [k \in DOMAIN commands |-> Dispatched(commands[k])]
           plan == Sorted(e, DispatchBefore)
<1>1. /\ Len(packet) \in Nat /\ K = 1..Len(packet)
      /\ \A k \in K : packet[k].id \in Int /\ packet[k].frame \in Int /\ packet[k].window \in Served
  BY DEF IsPacket
<1>2. commands = [k \in K |-> [id |-> packet[k].id, frame |-> packet[k].frame,
                               cost |-> packet[k].cost, decision |-> decision(k)]]
  BY DEF Arbitration
<1>3. steps = DispatchExecution(plan)
  BY DEF DispatchPlan
<1> HIDE DEF commands, decision
<1>4. DOMAIN e = K /\ \A k \in K : e[k] = Dispatched(commands[k])
  BY <1>2
<1> HIDE DEF e
<1>5. ASSUME NEW k \in K
      PROVE  /\ IsKeyed(e[k])
             /\ e[k].id = packet[k].id /\ e[k].frame = packet[k].frame /\ e[k].cost = packet[k].cost
             /\ OutcomeOf(e[k].command) = "avoided" <=> packet[k].window = "never"
             /\ OutcomeOf(e[k].command) = "current"
                   <=> packet[k].window = "hot-path" /\ Fits(packet, envelope, k)
             /\ OutcomeOf(e[k].command) = "pre-frame"
                   <=> packet[k].window = "pre-frame" /\ Fits(packet, envelope, k)
  <2>1. /\ commands[k].id = packet[k].id /\ commands[k].frame = packet[k].frame
        /\ commands[k].cost = packet[k].cost /\ commands[k].decision = decision(k)
    BY <1>2
  <2>2. /\ e[k].id = packet[k].id /\ e[k].frame = packet[k].frame /\ e[k].cost = packet[k].cost
        /\ e[k].order = DispatchShape(decision(k)).order
        /\ e[k].command = DispatchShape(decision(k)).command
    BY <1>4, <2>1 DEF Dispatched
  <2>3. packet[k].window \in Served
    BY <1>1
  <2>4. /\ DispatchShape(decision(k)).order \in Int
        /\ OutcomeOf(DispatchShape(decision(k)).command) = "avoided" <=> packet[k].window = "never"
        /\ OutcomeOf(DispatchShape(decision(k)).command) = "current"
              <=> packet[k].window = "hot-path" /\ Fits(packet, envelope, k)
        /\ OutcomeOf(DispatchShape(decision(k)).command) = "pre-frame"
              <=> packet[k].window = "pre-frame" /\ Fits(packet, envelope, k)
    BY <2>3, DecisionForm DEF decision
  <2> QED BY <1>1, <2>2, <2>4 DEF IsKeyed
<1>6. IsFiniteSet(K) /\ K \subseteq Int /\ Cardinality(K) = Len(packet)
  BY <1>1, FS_Interval
<1>7. PICK to : Reorders(plan, e, to)
  <2>1. Comparable(e)
    BY <1>4, <1>5, <1>6 DEF Comparable
  <2> QED BY <2>1, DispatchIsSorted
<1> HIDE DEF plan
<1>8. DOMAIN plan = K /\ DOMAIN plan = 1..Len(packet)
  BY <1>1, <1>4, <1>6, <1>7 DEF Reorders
<1>9. steps = [k \in DOMAIN plan |-> [id |-> plan[k].id, frame |-> plan[k].frame,
                                     cost |-> plan[k].cost, outcome |-> OutcomeOf(plan[k].command)]]
  BY <1>3 DEF DispatchExecution
<1>10. Len(steps) = Len(packet) /\ DOMAIN steps = K /\ DOMAIN to = K
  BY <1>1, <1>7, <1>8, <1>9 DEF Reorders
<1>11. ASSUME NEW n \in K
       PROVE  /\ to[n] \in K
              /\ steps[n].id = packet[to[n]].id /\ steps[n].frame = packet[to[n]].frame
              /\ steps[n].cost = packet[to[n]].cost
              /\ steps[n].outcome = "avoided" <=> packet[to[n]].window = "never"
              /\ steps[n].outcome = "current"
                    <=> packet[to[n]].window = "hot-path" /\ Fits(packet, envelope, to[n])
              /\ steps[n].outcome = "pre-frame"
                    <=> packet[to[n]].window = "pre-frame" /\ Fits(packet, envelope, to[n])
  <2>1. to[n] \in K /\ plan[n] = e[to[n]]
    BY <1>4, <1>7, <1>8 DEF Reorders
  <2>2. /\ steps[n].id = plan[n].id /\ steps[n].frame = plan[n].frame
        /\ steps[n].cost = plan[n].cost /\ steps[n].outcome = OutcomeOf(plan[n].command)
    BY <1>8, <1>9
  <2> QED BY <1>5, <2>1, <2>2
<1>12. /\ \A m, n \in K : to[m] = to[n] => m = n
       /\ \A k \in K : \E n \in K : to[n] = k
  BY <1>4, <1>7, <1>8 DEF Reorders
<1>13. CarriesOut(steps, packet, envelope, to)
  BY ONLY <1>10, <1>11, <1>12 DEF CarriesOut
<1> QED BY <1>13

-----------------------------------------------------------------------------
(* What the commands of a frame cost together.                             *)

\* The sum of naturals is one, whichever element is added last.
LEMMA SumsSplit ==
    ASSUME NEW S, IsFiniteSet(S), NEW w, \A x \in S : w[x] \in Nat, NEW f, Sums(f, w, S)
    PROVE  \A s \in SUBSET S : /\ f[s] \in Nat
                               /\ \A x \in s : f[s] = w[x] + f[s \ {x}]
<1>0. SumsParts(f, w, S)
  BY SumsAt
<1>1. \A s \in SUBSET S : s # {} => First(s) \in s /\ f[s] = w[First(s)] + f[s \ {First(s)}]
  BY <1>0 DEF SumsParts
<1>2. f[{}] = 0
  BY <1>0 DEF SumsParts
<1>3. ASSUME NEW s \in SUBSET S PROVE f[s] \in Nat
  <2> DEFINE B == {t \in SUBSET S : f[t] \notin Nat}
  <2> SUFFICES ASSUME B # {} PROVE FALSE
    OBVIOUS
  <2>0. B \subseteq SUBSET S
    OBVIOUS
  <2>1. PICK t \in B : \A u \in B : u \subseteq t => u = t
    <3> HIDE DEF B
    <3> QED BY <2>0, LeastSubset
  <2>2. t # {} /\ t \in SUBSET S /\ f[t] \notin Nat
    BY <1>2
  <2>3. First(t) \in t /\ f[t] = w[First(t)] + f[t \ {First(t)}]
    BY <1>1, <2>2
  <2>4. f[t \ {First(t)}] \in Nat
    BY <2>1, <2>3
  <2>5. w[First(t)] \in Nat
    BY <2>2, <2>3
  <2> QED BY <2>2, <2>3, <2>4, <2>5
<1>4. ASSUME NEW s \in SUBSET S, NEW x \in s PROVE f[s] = w[x] + f[s \ {x}]
  <2> DEFINE B == {t \in SUBSET S : \E y \in t : f[t] # w[y] + f[t \ {y}]}
  <2> SUFFICES ASSUME B # {} PROVE FALSE
    BY <1>4
  <2>0. B \subseteq SUBSET S
    OBVIOUS
  <2>1. PICK t \in B : \A u \in B : u \subseteq t => u = t
    <3> HIDE DEF B
    <3> QED BY <2>0, LeastSubset
  <2>2. t \in SUBSET S
    OBVIOUS
  <2>3. PICK y \in t : f[t] # w[y] + f[t \ {y}]
    OBVIOUS
  <2> DEFINE z == First(t)
             both == t \ {y, z}
  <2>4. z \in t /\ f[t] = w[z] + f[t \ {z}]
    BY <1>1, <2>2, <2>3
  <2>5. y # z
    BY <2>3, <2>4
  <2>6. /\ t \ {z} \in SUBSET S /\ t \ {z} # t /\ y \in t \ {z} /\ (t \ {z}) \ {y} = both
        /\ t \ {y} \in SUBSET S /\ t \ {y} # t /\ z \in t \ {y} /\ (t \ {y}) \ {z} = both
        /\ both \in SUBSET S
    BY <2>2, <2>3, <2>4, <2>5
  <2>7. t \ {z} \notin B /\ t \ {y} \notin B
    BY <2>1, <2>6
  <2>8. f[t \ {z}] = w[y] + f[both] /\ f[t \ {y}] = w[z] + f[both]
    BY <2>6, <2>7
  <2>9. w[y] \in Nat /\ w[z] \in Nat /\ f[both] \in Nat
    BY <1>3, <2>2, <2>3, <2>4, <2>6
  <2> HIDE DEF z, both
  <2> QED BY <2>3, <2>4, <2>8, <2>9
<1> QED BY <1>3, <1>4

\* A part of a set weighs no more than the set.
LEMMA SumsGrow ==
    ASSUME NEW S, IsFiniteSet(S), NEW w, \A x \in S : w[x] \in Nat, NEW f, Sums(f, w, S),
           NEW T, T \subseteq S
    PROVE  f[T] <= f[S]
<1>0. \A s \in SUBSET S : f[s] \in Nat /\ \A x \in s : f[s] = w[x] + f[s \ {x}]
  BY SumsSplit
<1> DEFINE B == {s \in SUBSET S : T \subseteq s /\ ~(f[T] <= f[s])}
<1> SUFFICES ASSUME B # {} PROVE FALSE
  OBVIOUS
<1>1. B \subseteq SUBSET S
  OBVIOUS
<1>2. PICK s \in B : \A u \in B : u \subseteq s => u = s
  <2> HIDE DEF B
  <2> QED BY <1>1, LeastSubset
<1>3. s \in SUBSET S /\ T \subseteq s /\ ~(f[T] <= f[s])
  OBVIOUS
<1>4. f[T] \in Nat /\ f[s] \in Nat
  BY <1>0, <1>3
<1>5. s # T
  BY <1>3, <1>4
<1>6. PICK x \in s : x \notin T
  BY <1>3, <1>5
<1>7. T \subseteq s \ {x} /\ s \ {x} \in SUBSET S /\ s \ {x} # s
  BY <1>3, <1>6
<1>8. f[T] <= f[s \ {x}]
  BY <1>2, <1>7
<1>9. f[s] = w[x] + f[s \ {x}] /\ w[x] \in Nat /\ f[s \ {x}] \in Nat
  BY <1>0, <1>3, <1>6, <1>7
<1> QED BY <1>3, <1>4, <1>8, <1>9

\* m takes the things of S to things of the same weight, no two to one.
Copies(S, w, m, T, v) ==
    /\ \A x \in S : m[x] \in T /\ w[x] = v[m[x]]
    /\ \A x, y \in S : m[x] = m[y] => x = y

\* What is copied weighs no more than all there is where it is copied to.
LEMMA SumsCopied ==
    ASSUME NEW S, IsFiniteSet(S), NEW T, IsFiniteSet(T), NEW w, NEW v, NEW m,
           Copies(S, w, m, T, v), \A y \in T : v[y] \in Nat,
           NEW f, Sums(f, w, S), NEW g, Sums(g, v, T)
    PROVE  f[S] <= g[T]
<1> DEFINE Image(s) == {m[x] : x \in s}
           B == {s \in SUBSET S : f[s] # g[Image(s)]}
<1>w. \A x \in S : m[x] \in T /\ w[x] = v[m[x]] /\ w[x] \in Nat
  BY DEF Copies
<1>f. \A s \in SUBSET S : f[s] \in Nat /\ \A x \in s : f[s] = w[x] + f[s \ {x}]
  BY <1>w, SumsSplit
<1>v. \A x \in T : v[x] \in Nat
  OBVIOUS
<1>g. \A t \in SUBSET T : g[t] \in Nat /\ \A y \in t : g[t] = v[y] + g[t \ {y}]
  <2>1. Sums(g, v, T) /\ IsFiniteSet(T)
    OBVIOUS
  <2> QED BY ONLY <1>v, <2>1, SumsSplit
<1>0. f[{}] = 0 /\ g[{}] = 0
  BY SumsAt DEF SumsParts
<1>1. ASSUME B # {} PROVE FALSE
  <2>1. B \subseteq SUBSET S
    OBVIOUS
  <2>2. PICK s \in B : \A u \in B : u \subseteq s => u = s
    <3> HIDE DEF B
    <3> QED BY <1>1, <2>1, LeastSubset
  <2>3. s \in SUBSET S /\ f[s] # g[Image(s)]
    OBVIOUS
  <2>4. s # {}
    <3>1. Image({}) = {}
      OBVIOUS
    <3> QED BY <1>0, <2>3, <3>1
  <2>5. PICK x \in s : TRUE
    BY <2>4
  <2> DEFINE rest == s \ {x}
  <2>6. rest \in SUBSET S /\ rest # s /\ rest \subseteq s
    BY <2>3, <2>5
  <2>7. f[rest] = g[Image(rest)]
    BY <2>2, <2>6
  <2>8. Image(s) \in SUBSET T /\ m[x] \in Image(s)
    BY <1>w, <2>3, <2>5
  <2>9. Image(rest) = Image(s) \ {m[x]}
    BY <2>3, <2>5 DEF Copies
  <2>10. f[s] = w[x] + f[rest] /\ w[x] = v[m[x]]
    BY <1>f, <1>w, <2>3, <2>5
  <2>11. g[Image(s)] = v[m[x]] + g[Image(s) \ {m[x]}]
    BY <1>g, <2>8
  <2> HIDE DEF Image, rest, B
  <2> QED BY <2>3, <2>7, <2>9, <2>10, <2>11
<1>2. f[S] = g[Image(S)]
  BY <1>1
<1>3. Image(S) \subseteq T
  BY <1>w
<1> HIDE DEF Image
<1>4. g[Image(S)] <= g[T]
  BY <1>3, SumsGrow
<1> QED BY <1>2, <1>4

\* What some commands cost, as the stages add it up.
CostOf(cs, S) == MapThenSumSet(LAMBDA k : cs[k].cost, S)
\* Finitely many commands, none of a negative cost.
Priced(cs, S) == IsFiniteSet(S) /\ \A k \in S : cs[k].cost \in Nat

\* What the library's sum computes of them.
LEMMA CostsAre ==
    ASSUME NEW cs, NEW S, IsFiniteSet(S), NEW w, \A k \in S : w[k] = cs[k].cost
    PROVE  \E f : Sums(f, w, S) /\ CostOf(cs, S) = f[S]
<1> DEFINE Folds(f) == f = [s \in SUBSET S |-> IF s = {} THEN 0
                                               ELSE cs[First(s)].cost + f[s \ {First(s)}]]
<1>1. CostOf(cs, S) = (CHOOSE f : Folds(f))[S]
  BY DEF CostOf, MapThenSumSet, MapThenFoldSet, First
<1>2. \A f : Folds(f) <=> Sums(f, w, S)
  <2>1. \A s \in SUBSET S : s # {} => w[First(s)] = cs[First(s)].cost
    BY FirstIn
  <2>2. ASSUME NEW f
        PROVE  [s \in SUBSET S |-> IF s = {} THEN 0 ELSE cs[First(s)].cost + f[s \ {First(s)}]]
               = [s \in SUBSET S |-> IF s = {} THEN 0 ELSE w[First(s)] + f[s \ {First(s)}]]
    BY <2>1
  <2> QED BY <2>2 DEF Sums
<1> HIDE DEF Folds
<1>3. Folds(CHOOSE f : Folds(f))
  BY <1>2, SumsExist
<1> QED BY <1>1, <1>2, <1>3

\* Their sum is a natural.
LEMMA CostOfType ==
    ASSUME NEW cs, NEW S, Priced(cs, S)
    PROVE  CostOf(cs, S) \in Nat /\ (S = {} => CostOf(cs, S) = 0)
<1> DEFINE w == [k \in S |-> cs[k].cost]
<1>1. IsFiniteSet(S) /\ \A k \in S : w[k] = cs[k].cost /\ w[k] \in Nat
  BY DEF Priced
<1> HIDE DEF w
<1>2. PICK f : Sums(f, w, S) /\ CostOf(cs, S) = f[S]
  BY <1>1, CostsAre
<1>3. f[S] \in Nat
  BY <1>1, <1>2, SumsSplit
<1>4. f[{}] = 0
  BY <1>2, SumsAt DEF SumsParts
<1> QED BY <1>2, <1>3, <1>4

\* Steps that are different commands of a packet cost no more than commands they are among.
LEMMA CostOfCopied ==
    ASSUME NEW ss, NEW S, IsFiniteSet(S), NEW cs, NEW T, Priced(cs, T), NEW m,
           \A n \in S : m[n] \in T /\ ss[n].cost = cs[m[n]].cost,
           \A j, n \in S : m[j] = m[n] => j = n
    PROVE  CostOf(ss, S) <= CostOf(cs, T)
<1> DEFINE w == [n \in S |-> ss[n].cost]
           v == [k \in T |-> cs[k].cost]
<1>1. /\ IsFiniteSet(T)
      /\ \A n \in S : w[n] = ss[n].cost
      /\ \A k \in T : v[k] = cs[k].cost /\ v[k] \in Nat
  BY DEF Priced
<1> HIDE DEF w, v
<1>2. Copies(S, w, m, T, v)
  BY <1>1 DEF Copies
<1>3. PICK f : Sums(f, w, S) /\ CostOf(ss, S) = f[S]
  BY <1>1, CostsAre
<1>4. PICK g : Sums(g, v, T) /\ CostOf(cs, T) = g[T]
  BY <1>1, CostsAre
<1>5. f[S] <= g[T]
  BY <1>1, <1>2, <1>3, <1>4, SumsCopied
<1> QED BY <1>3, <1>4, <1>5

-----------------------------------------------------------------------------
(* What a frame admits fits its budgets.                                   *)

\* Some numbers, if there are any and only finitely many, have a greatest.
LEMMA GreatestExists ==
    ASSUME NEW A, IsFiniteSet(A), A \subseteq Int, A # {}
    PROVE  \E top \in A : \A k \in A : k <= top
<1> DEFINE From(k) == {j \in A : k <= j}
           B == {From(k) : k \in A}
<1>1. B \subseteq SUBSET A /\ B # {}
  OBVIOUS
<1>2. PICK least \in B : \A T \in B : T \subseteq least => T = least
  <2> HIDE DEF B
  <2>1. IsFiniteSet(A)
    OBVIOUS
  <2> QED BY ONLY <1>1, <2>1, LeastSubset
<1>3. PICK top \in A : least = From(top)
  OBVIOUS
<1>i. \A k \in A : k \in Int
  OBVIOUS
<1>4. ASSUME NEW k \in A, ~(k <= top) PROVE FALSE
  <2>1. top <= k /\ top <= top /\ \A j \in A : k <= j => top <= j
    BY <1>i, <1>4
  <2>2. From(k) \subseteq From(top) /\ From(k) \in B
    BY <2>1
  <2>3. From(k) = From(top)
    BY <1>2, <1>3, <2>2
  <2>4. top \in From(k)
    BY <2>1, <2>3
  <2> QED BY <1>4, <2>4
<1> QED BY <1>4

\* The values the headroom of a frame gives rise to.
LEMMA WindowValueType ==
    ASSUME NEW simulated, simulated.prestaged \in Nat, simulated.protected \in Nat,
           NEW target \in Nat
    PROVE  WindowValue(AdaptiveDirectives(simulated, target)) \in Nat
<1> DEFINE over == simulated.protected - target
           ds == AdaptiveDirectives(simulated, target)
           V == {d.value : d \in {e \in ds :
                    e.action \in {"expand-pre-frame-window", "preserve-pre-frame-window"}}}
<1>0. over \in Int
  OBVIOUS
<1>1. \A x \in V : x \in Nat /\ \A y \in V : x = y
  <2>1. CASE over > 0
    <3>1. \A d \in ds : d.action \in {"expand-pre-frame-window", "preserve-pre-frame-window"} =>
                           d.value = simulated.prestaged + over
      BY <2>1 DEF AdaptiveDirectives
    <3>2. simulated.prestaged + over \in Nat
      BY <1>0, <2>1
    <3> HIDE DEF ds, over
    <3> QED BY <3>1, <3>2
  <2>2. CASE ~(over > 0)
    <3>1. \A d \in ds : d.action \in {"expand-pre-frame-window", "preserve-pre-frame-window"} =>
                           d.value = simulated.prestaged
      BY <2>2 DEF AdaptiveDirectives
    <3> HIDE DEF ds, over
    <3> QED BY <3>1
  <2> QED BY <2>1, <2>2
<1>2. WindowValue(ds) = Max({0} \cup V)
  BY DEF WindowValue
<1> HIDE DEF V, ds
<1>3. \E x \in {0} \cup V : x \in Nat /\ \A y \in {0} \cup V : x >= y
  <2>1. CASE V = {}
    BY <2>1
  <2>2. CASE V # {}
    <3>1. PICK x \in V : TRUE
      BY <2>2
    <3>2. x \in Nat /\ \A y \in {0} \cup V : x >= y
      BY <1>1
    <3> QED BY <3>2
  <2> QED BY <2>1, <2>2
<1>4. \A x \in {0} \cup V : x \in Nat
  BY <1>1
<1>5. Max({0} \cup V) \in {0} \cup V
  BY <1>3 DEF Max
<1> QED BY <1>2, <1>4, <1>5 DEF ds

\* The envelope knows the frames of the packet, each with its target and a window.
LEMMA EnvelopeForm ==
    ASSUME NEW packet, IsPacket(packet), NEW targets, \A f \in DOMAIN targets : targets[f] \in Nat,
           NEW totals, NEW budgets, NEW envelope,
           envelope = Envelope(AdaptiveLoop(Simulation(packet), targets), totals, budgets)
    PROVE  /\ DOMAIN envelope.frames = FramesOf(packet)
           /\ \A f \in FramesOf(packet) : /\ envelope.frames[f].hotPath = TargetFor(targets, f)
                                          /\ envelope.frames[f].preFrame \in Nat
<1> DEFINE simulation == Simulation(packet)
           loop == AdaptiveLoop(simulation, targets)
           target(f) == TargetFor(targets, f)
<1>1. DOMAIN simulation = FramesOf(packet)
      /\ \A f \in FramesOf(packet) : simulation[f] = SimulatedFrame(packet, f)
  BY DEF Simulation
<1> HIDE DEF simulation
<1>2. /\ DOMAIN loop = FramesOf(packet)
      /\ \A f \in FramesOf(packet) :
            /\ loop[f].target = target(f)
            /\ loop[f].directives = AdaptiveDirectives(SimulatedFrame(packet, f), target(f))
  BY <1>1 DEF AdaptiveLoop
<1>e. envelope = Envelope(loop, totals, budgets)
  BY DEF simulation
<1> HIDE DEF loop
<1>3. envelope.frames = [f \in DOMAIN loop |-> FrameEnvelope(loop[f])]
  BY <1>e DEF Envelope
<1>4. ASSUME NEW f \in FramesOf(packet)
      PROVE  /\ envelope.frames[f].hotPath = target(f)
             /\ envelope.frames[f].preFrame \in Nat
  <2> DEFINE simulated == SimulatedFrame(packet, f)
             Part(effect) == {k \in DOMAIN packet :
                                packet[k].frame = f /\ EffectOf(packet[k].action) = effect}
  <2>1. envelope.frames[f].hotPath = target(f)
        /\ envelope.frames[f].preFrame = WindowValue(AdaptiveDirectives(simulated, target(f)))
    BY <1>2, <1>3 DEF FrameEnvelope
  <2>2. target(f) \in Nat
    BY DEF TargetFor, DefaultFrameBudget
  <2>3. simulated.prestaged = CostOf(packet, Part("prestaged"))
        /\ simulated.protected = CostOf(packet, Part("protected"))
    BY DEF SimulatedFrame, Total, CostOf
  <2>4. Priced(packet, Part("prestaged")) /\ Priced(packet, Part("protected"))
    <3>1. IsFiniteSet(DOMAIN packet)
      BY FS_Interval DEF IsPacket
    <3>2. IsFiniteSet(Part("prestaged")) /\ IsFiniteSet(Part("protected"))
      BY <3>1, FS_Subset
    <3> QED BY <3>2 DEF Priced, IsPacket
  <2> HIDE DEF simulated, Part
  <2>5. simulated.prestaged \in Nat /\ simulated.protected \in Nat
    BY <2>3, <2>4, CostOfType
  <2> QED BY <2>1, <2>2, <2>5, WindowValueType
<1> QED BY <1>2, <1>3, <1>4

\* The steps of a frame with an outcome, and the commands of a window they come from.
StepsOf(steps, f, outcome) == {n \in DOMAIN steps : steps[n].frame = f /\ steps[n].outcome = outcome}

\* What a frame spends with an outcome is such a sum.
LEMMA CostInIs ==
    ASSUME NEW steps, NEW f, NEW outcome
    PROVE  CostIn(steps, f, outcome) = CostOf(steps, StepsOf(steps, f, outcome))
BY DEF CostIn, Total, CostOf, StepsOf

\* The work of a frame in a window that is carried out stays within the budget of it.
LEMMA AdmittedFits ==
    ASSUME NEW packet, IsPacket(packet), NEW envelope, NEW steps, NEW to,
           CarriesOut(steps, packet, envelope, to),
           NEW f, NEW window \in {"pre-frame", "hot-path"}, NEW outcome,
           \A n \in DOMAIN packet : steps[n].outcome = outcome
                 <=> packet[to[n]].window = window /\ Fits(packet, envelope, to[n]),
           NEW budget \in Nat,
           \A k \in DOMAIN packet : packet[k].frame = f /\ packet[k].window = window =>
                 LimitOf(packet[k], envelope) = budget
    PROVE  CostIn(steps, f, outcome) \in Nat /\ CostIn(steps, f, outcome) <= budget
<1> DEFINE N == DOMAIN packet
           S == StepsOf(steps, f, outcome)
           A == {to[n] : n \in S}
<1>1. /\ N = 1..Len(packet) /\ Len(packet) \in Nat /\ DOMAIN steps = N
      /\ \A k \in N : packet[k].cost \in Nat
      /\ \A n \in N : /\ to[n] \in N /\ steps[n].frame = packet[to[n]].frame
                      /\ steps[n].cost = packet[to[n]].cost
      /\ \A m, n \in N : to[m] = to[n] => m = n
  BY DEF IsPacket, CarriesOut
<1>2. S \subseteq N /\ \A n \in S : /\ packet[to[n]].frame = f /\ packet[to[n]].window = window
                                   /\ Fits(packet, envelope, to[n])
  BY <1>1 DEF StepsOf
<1>3. IsFiniteSet(N)
  BY <1>1, FS_Interval
<1>4. Priced(steps, S)
  <2>1. IsFiniteSet(S)
    BY <1>2, <1>3, FS_Subset
  <2>2. \A n \in S : steps[n].cost \in Nat
    BY <1>1, <1>2
  <2> QED BY <2>1, <2>2 DEF Priced
<1> HIDE DEF N, S
<1>5. CostOf(steps, S) \in Nat /\ (S = {} => CostOf(steps, S) = 0)
  BY <1>4, CostOfType
<1>6. ASSUME S # {} PROVE CostOf(steps, S) <= budget
  <2>1. A \subseteq N /\ A # {} /\ A \subseteq Int
    <3>1. A \subseteq N /\ A # {}
      <4>1. \A n \in S : to[n] \in N
        BY <1>1, <1>2
      <4> QED BY ONLY <4>1, <1>6
    <3>2. N \subseteq Int
      BY <1>1
    <3> HIDE DEF A
    <3> QED BY <3>1, <3>2
  <2>2. IsFiniteSet(A)
    BY <1>3, <2>1, FS_Subset
  <2>3. PICK top \in A : \A k \in A : k <= top
    <3> HIDE DEF A
    <3> QED BY <2>1, <2>2, GreatestExists
  <2>4. /\ top \in N /\ packet[top].frame = f /\ packet[top].window = window
        /\ Fits(packet, envelope, top)
    BY <1>1, <1>2
  <2> DEFINE T == {j \in 1..top : /\ packet[j].window = packet[top].window
                                  /\ LedgerKey(packet[j].frame) = LedgerKey(packet[top].frame)}
  <2>5. UsedSoFar(packet, top) = CostOf(packet, T)
    BY DEF UsedSoFar, CostOf
  <2>6. T \subseteq N
    BY <1>1, <2>4
  <2>7. Priced(packet, T)
    <3>1. IsFiniteSet(T)
      BY <1>3, <2>6, FS_Subset
    <3> QED BY <1>1, <2>6, <3>1 DEF Priced
  <2>8. ASSUME NEW n \in S PROVE to[n] \in T /\ steps[n].cost = packet[to[n]].cost
    <3>1. to[n] \in 1..top
      <4>1. to[n] \in 1..Len(packet) /\ to[n] <= top /\ top \in 1..Len(packet)
        BY <1>1, <1>2, <2>3, <2>4
      <4> QED BY <4>1
    <3>2. packet[to[n]].window = packet[top].window /\ packet[to[n]].frame = packet[top].frame
      BY <1>2, <2>4
    <3> QED BY <1>1, <1>2, <3>1, <3>2
  <2>9. \A m, n \in S : to[m] = to[n] => m = n
    BY <1>1, <1>2
  <2> HIDE DEF T
  <2>10. CostOf(steps, S) <= CostOf(packet, T)
    BY <1>4, <2>7, <2>8, <2>9, CostOfCopied DEF Priced
  <2>11. CostOf(packet, T) <= budget
    BY <2>4, <2>5 DEF Fits, N
  <2>12. CostOf(packet, T) \in Nat
    BY <2>7, CostOfType
  <2> QED BY <1>5, <2>10, <2>11, <2>12
<1>7. CostIn(steps, f, outcome) = CostOf(steps, S)
  BY CostInIs DEF S
<1> QED BY <1>5, <1>6, <1>7

-----------------------------------------------------------------------------
(* Every session is honoured.                                              *)

\* A packet that holds the results of a session is one.
LEMMA HeldIsPacket ==
    ASSUME NEW session, IsSession(session), NEW packet, NEW at, Holds(packet, session.results, at)
    PROVE  IsPacket(packet)
<1>1. \A k \in DOMAIN session.results : IsResult(session.results[k])
  BY DEF IsSession
<1>2. ASSUME NEW n \in DOMAIN packet
      PROVE  /\ packet[n].id \in Int /\ packet[n].frame \in Int /\ packet[n].cost \in Nat
             /\ packet[n].window \in Served /\ packet[n].action = ActionOf(packet[n])
  <2>1. IsResult(session.results[at[n]])
    BY <1>1 DEF Holds
  <2> QED BY <2>1 DEF Holds, IsResult
<1> QED BY <1>2 DEF IsPacket, Holds

\* The operations of a session that were eliminated.
Eliminated(results) ==
    {results[k].id : k \in {j \in DOMAIN results : results[j].policy # None}}

\* Every routed operation is dispatched once, and what was eliminated is avoided.
LEMMA NothingIsLost ==
    ASSUME NEW session, IsSession(session), NEW packet, NEW at, Holds(packet, session.results, at),
           NEW envelope, NEW steps, NEW to, CarriesOut(steps, packet, envelope, to),
           NEW eliminated, eliminated = Eliminated(session.results)
    PROVE  /\ Len(steps) = Len(packet) /\ IdsOf(steps) = IdsOf(packet)
           /\ eliminated \subseteq IdsOf(steps)
           /\ \A n \in DOMAIN steps : steps[n].outcome = "avoided" <=> steps[n].id \in eliminated
<1> DEFINE results == session.results
           N == DOMAIN packet
<1>1. /\ Len(steps) = Len(packet) /\ DOMAIN steps = N
      /\ \A n \in N : /\ to[n] \in N /\ steps[n].id = packet[to[n]].id
                      /\ steps[n].outcome = "avoided" <=> packet[to[n]].window = "never"
      /\ \A k \in N : \E n \in N : to[n] = k
  BY DEF CarriesOut
<1>2. /\ \A n \in N : /\ at[n] \in DOMAIN results /\ packet[n].id = results[at[n]].id
                      /\ packet[n].window = "never" <=> results[at[n]].policy # None
      /\ \A k \in DOMAIN results : results[k].policy # None => \E n \in N : at[n] = k
  BY DEF Holds
<1>3. \A j, k \in DOMAIN results : results[j].id = results[k].id => j = k
  BY DEF IsSession
<1>4. \A x : x \in eliminated <=>
                \E k \in DOMAIN results : results[k].policy # None /\ x = results[k].id
  BY DEF Eliminated
<1> HIDE DEF N, results
<1>5. IdsOf(steps) = IdsOf(packet)
  <2>1. IdsOf(steps) \subseteq IdsOf(packet)
    <3>1. ASSUME NEW n \in DOMAIN steps PROVE steps[n].id \in IdsOf(packet)
      <4>1. to[n] \in DOMAIN packet /\ steps[n].id = packet[to[n]].id
        BY <1>1 DEF N
      <4> QED BY ONLY <4>1 DEF IdsOf
    <3> QED BY ONLY <3>1 DEF IdsOf
  <2>2. ASSUME NEW k \in N PROVE packet[k].id \in IdsOf(steps)
    <3>1. PICK n \in N : to[n] = k
      BY <1>1
    <3>2. steps[n].id = packet[k].id /\ n \in DOMAIN steps
      BY <1>1, <3>1
    <3> QED BY <3>2 DEF IdsOf
  <2> QED BY <2>1, <2>2 DEF IdsOf, N
<1>6. eliminated \subseteq IdsOf(packet)
  <2> SUFFICES ASSUME NEW k \in DOMAIN results, results[k].policy # None
               PROVE  results[k].id \in IdsOf(packet)
    BY <1>4
  <2>1. PICK n \in N : at[n] = k
    BY <1>2
  <2> QED BY <1>2, <2>1 DEF IdsOf, N
<1>7. ASSUME NEW n \in DOMAIN steps
      PROVE  steps[n].outcome = "avoided" <=> steps[n].id \in eliminated
  <2> DEFINE k == at[to[n]]
  <2>1. /\ k \in DOMAIN results /\ steps[n].id = results[k].id
        /\ steps[n].outcome = "avoided" <=> results[k].policy # None
    BY <1>1, <1>2
  <2>2. results[k].id \in eliminated <=> results[k].policy # None
    BY <1>3, <1>4, <2>1
  <2> QED BY <2>1, <2>2
<1> QED BY <1>1, <1>5, <1>6, <1>7

\* A plan, stage by stage.
LEMMA PlanIs ==
    ASSUME NEW s \in SessionIds
    PROVE  LET session == SessionOf[s]
               plan == Plans[s]
           IN  /\ plan.packet = Packet(WindowPlan(RoutePlan(
                                    TransitMap(session.results, session.resources))))
               /\ plan.envelope = Envelope(AdaptiveLoop(Simulation(plan.packet), Targets(session)),
                                           session.totals, session.budgets)
               /\ plan.steps = DispatchExecution(DispatchPlan(Arbitration(plan.packet, plan.envelope)))
               /\ plan.calibration = Calibration(plan.steps, session.frames)
               /\ plan.manager = Manager(plan.calibration, plan.envelope)
               /\ plan.cycle = GatewayCycle(GatewayTick(ControlState(ControlPacket(plan.manager))))
               /\ plan.update = PolicyUpdate(Feedback(plan.cycle, plan.calibration,
                                                      plan.envelope.layers))
<1>1. /\ Plans[s].packet = Packets[s] /\ Plans[s].envelope = Envelopes[s]
      /\ Plans[s].steps = Executions[s] /\ Plans[s].calibration = Calibrations[s]
      /\ Plans[s].manager = Managers[s] /\ Plans[s].cycle = Cycles[s]
      /\ Plans[s].update = PolicyUpdate(Feedback(Cycles[s], Calibrations[s], Envelopes[s].layers))
  BY DEF Plans
<1>2. Packets[s] = Packet(WindowPlan(RoutePlan(
                       TransitMap(SessionOf[s].results, SessionOf[s].resources))))
  BY DEF Packets
<1>3. Envelopes[s] = Envelope(AdaptiveLoop(Simulation(Packets[s]), Targets(SessionOf[s])),
                              SessionOf[s].totals, SessionOf[s].budgets)
  BY DEF Envelopes
<1>4. Executions[s] = DispatchExecution(DispatchPlan(Arbitration(Packets[s], Envelopes[s])))
  BY DEF Executions
<1>5. Calibrations[s] = Calibration(Executions[s], SessionOf[s].frames)
  BY DEF Calibrations
<1>6. Managers[s] = Manager(Calibrations[s], Envelopes[s])
  BY DEF Managers
<1>7. Cycles[s] = GatewayCycle(GatewayTick(ControlState(ControlPacket(Managers[s]))))
  BY DEF Cycles
<1> QED BY <1>1, <1>2, <1>3, <1>4, <1>5, <1>6, <1>7

\* What a frame admits fits its target, and what it prestages its window.
LEMMA BudgetsHold ==
    ASSUME NEW session, IsSession(session), NEW packet, IsPacket(packet), NEW envelope,
           envelope = Envelope(AdaptiveLoop(Simulation(packet), Targets(session)),
                               session.totals, session.budgets),
           NEW steps, NEW to, CarriesOut(steps, packet, envelope, to)
    PROVE  /\ \A f \in DOMAIN session.frames :
                 /\ CostIn(steps, f, "current") \in Nat
                 /\ CostIn(steps, f, "current") <= session.frames[f].target
           /\ \A f \in DOMAIN envelope.frames :
                 CostIn(steps, f, "pre-frame") <= envelope.frames[f].preFrame
<1> DEFINE targets == Targets(session)
           N == DOMAIN packet
<1>1. /\ DOMAIN targets = DOMAIN session.frames
      /\ \A f \in DOMAIN session.frames : /\ targets[f] = session.frames[f].target
                                          /\ targets[f] \in Nat /\ f \in Int \ {NoFrame}
  BY DEF Targets, IsSession
<1>2. \A f \in DOMAIN targets : targets[f] \in Nat
  BY <1>1
<1>3. /\ DOMAIN envelope.frames = FramesOf(packet)
      /\ \A f \in FramesOf(packet) : /\ envelope.frames[f].hotPath = TargetFor(targets, f)
                                     /\ envelope.frames[f].preFrame \in Nat
  <2> HIDE DEF targets
  <2> QED BY <1>2, EnvelopeForm DEF targets
<1>4. \A n \in N : /\ steps[n].outcome = "current"
                         <=> packet[to[n]].window = "hot-path" /\ Fits(packet, envelope, to[n])
                   /\ steps[n].outcome = "pre-frame"
                         <=> packet[to[n]].window = "pre-frame" /\ Fits(packet, envelope, to[n])
  BY DEF CarriesOut
<1>5. \A k \in N : packet[k].frame # NoFrame => packet[k].frame \in FramesOf(packet)
  BY DEF FramesOf
<1> HIDE DEF targets
<1>6. ASSUME NEW f \in DOMAIN session.frames
      PROVE  /\ CostIn(steps, f, "current") \in Nat
             /\ CostIn(steps, f, "current") <= session.frames[f].target
  <2>1. \A k \in N : packet[k].frame = f /\ packet[k].window = "hot-path" =>
                        LimitOf(packet[k], envelope) = targets[f]
    <3> SUFFICES ASSUME NEW k \in N, packet[k].frame = f, packet[k].window = "hot-path"
                 PROVE  LimitOf(packet[k], envelope) = targets[f]
      OBVIOUS
    <3>1. f \in FramesOf(packet)
      BY <1>1, <1>5
    <3>2. envelope.frames[f].hotPath = targets[f]
      BY <1>1, <1>3, <3>1 DEF TargetFor
    <3> QED BY <1>3, <3>1, <3>2 DEF LimitOf
  <2>2. targets[f] \in Nat /\ targets[f] = session.frames[f].target
    BY <1>1
  <2>3. \A n \in N : steps[n].outcome = "current"
                        <=> packet[to[n]].window = "hot-path" /\ Fits(packet, envelope, to[n])
    BY <1>4
  <2> QED BY <2>1, <2>2, <2>3, AdmittedFits
<1>7. ASSUME NEW f \in DOMAIN envelope.frames
      PROVE  CostIn(steps, f, "pre-frame") <= envelope.frames[f].preFrame
  <2>1. \A k \in N : packet[k].frame = f /\ packet[k].window = "pre-frame" =>
                        LimitOf(packet[k], envelope) = envelope.frames[f].preFrame
    BY <1>7 DEF LimitOf
  <2>2. envelope.frames[f].preFrame \in Nat
    BY <1>3
  <2>3. \A n \in N : steps[n].outcome = "pre-frame"
                        <=> packet[to[n]].window = "pre-frame" /\ Fits(packet, envelope, to[n])
    BY <1>4
  <2> QED BY <2>1, <2>2, <2>3, AdmittedFits
<1> QED BY <1>6, <1>7

\* What the calibration says of a frame.
LEMMA CalibrationForm ==
    ASSUME NEW steps, NEW frames, NEW calibration, calibration = Calibration(steps, frames)
    PROVE  /\ DOMAIN calibration = DOMAIN frames
           /\ \A f \in DOMAIN frames :
                 /\ calibration[f].target = frames[f].target
                 /\ calibration[f].observed = frames[f].observed
                 /\ calibration[f].current = CostIn(steps, f, "current")
                 /\ calibration[f].action =
                       CalibrationAction(frames[f].observed > frames[f].target,
                                         CostIn(steps, f, "current") > frames[f].target,
                                         calibration[f].relief)
BY DEF Calibration, CalibrateFrame

\* Every session is honoured by its plan.
LEMMA SessionIsHonoured ==
    ASSUME NEW s \in SessionIds
    PROVE  /\ Honoured(SessionOf[s], Plans[s])
           /\ \A f \in DOMAIN SessionOf[s].frames : Plans[s].calibration[f].current \in Nat
<1> DEFINE session == SessionOf[s]
           plan == Plans[s]
           packet == plan.packet
           envelope == plan.envelope
           steps == plan.steps
           calibration == plan.calibration
           eliminated == Eliminated(session.results)
<1>1. IsSession(session)
  BY SessionsAreSessions
<1>2. /\ packet = Packet(WindowPlan(RoutePlan(TransitMap(session.results, session.resources))))
      /\ envelope = Envelope(AdaptiveLoop(Simulation(packet), Targets(session)),
                             session.totals, session.budgets)
      /\ steps = DispatchExecution(DispatchPlan(Arbitration(packet, envelope)))
      /\ calibration = Calibration(steps, session.frames)
  BY PlanIs
<1> HIDE DEF session, plan
<1>3. PICK at : Holds(packet, session.results, at)
  BY <1>1, <1>2, PacketHolds
<1>4. IsPacket(packet)
  BY <1>1, <1>3, HeldIsPacket
<1>5. PICK to : CarriesOut(steps, packet, envelope, to)
  BY <1>2, <1>4, StepsCarryOut
<1>6. /\ Len(steps) = Len(packet) /\ IdsOf(steps) = IdsOf(packet)
      /\ eliminated \subseteq IdsOf(steps)
      /\ \A n \in DOMAIN steps : steps[n].outcome = "avoided" <=> steps[n].id \in eliminated
  BY <1>1, <1>3, <1>5, NothingIsLost
<1>7. /\ \A f \in DOMAIN session.frames :
            /\ CostIn(steps, f, "current") \in Nat
            /\ CostIn(steps, f, "current") <= session.frames[f].target
      /\ \A f \in DOMAIN envelope.frames :
            CostIn(steps, f, "pre-frame") <= envelope.frames[f].preFrame
  BY <1>1, <1>2, <1>4, <1>5, BudgetsHold
<1>8. /\ DOMAIN calibration = DOMAIN session.frames
      /\ \A f \in DOMAIN session.frames :
            /\ calibration[f].target = session.frames[f].target
            /\ calibration[f].current = CostIn(steps, f, "current")
  BY <1>2, CalibrationForm
<1>9. \A f \in DOMAIN calibration : calibration[f].current <= calibration[f].target
  BY <1>7, <1>8
<1>10. Honoured(session, plan)
  BY <1>6, <1>7, <1>9 DEF Honoured, Eliminated
<1> QED BY <1>7, <1>8, <1>10 DEF session, plan

\* Whatever sessions are replayed, by however many commands: every routed operation is
\* dispatched once, what was eliminated is avoided and nothing else is, and no frame admits
\* more than its target or prestages more than its window.
THEOREM DispatchAlwaysHonoursTheSession == Spec => []DispatchHonoursTheSession
<1>1. DaemonInv => DispatchHonoursTheSession
  <2> SUFFICES ASSUME DaemonInv, NEW s \in Replayed PROVE Honoured(SessionOf[s], Plans[s])
    BY DEF DispatchHonoursTheSession
  <2>1. PICK p \in Processes : /\ proc[p].pc # "idle"
                               /\ \E k \in DOMAIN proc[p].cycles : s = proc[p].cycles[k].session
    BY DEF Replayed
  <2>2. proc[p].cycles \in Seq(Recorded)
    BY <2>1, AtWork DEF Running, IsRun
  <2>3. \A k \in DOMAIN proc[p].cycles : proc[p].cycles[k] \in Recorded
    BY <2>2
  <2>4. s \in SessionIds
    BY <2>1, <2>3 DEF Recorded
  <2> QED BY <2>4, SessionIsHonoured
<1> QED BY <1>1, DaemonInvariant, PTL

-----------------------------------------------------------------------------
(* The copy queue of a frame that overran.                                 *)

\* The frames that overran.
Pressed(calibration) ==
    {f \in DOMAIN calibration : calibration[f].observed > calibration[f].target}

\* What a calibration knows of its frames.
IsCalibration(calibration) ==
    \A f \in DOMAIN calibration : /\ calibration[f].target \in Nat
                                  /\ calibration[f].observed \in Nat
                                  /\ calibration[f].current \in Nat

\* A function that applies the first commands of a stream of four one by one.
Applies(g, stream) ==
    g = [k \in 0..4 |-> IF k = 0 THEN NewControl ELSE ApplyCommand(g[k - 1], stream[k])]

\* Four commands are applied one after the other.
LEMMA AppliedForm ==
    ASSUME NEW stream, Len(stream) = 4
    PROVE  Applied(stream) =
              ApplyCommand(ApplyCommand(ApplyCommand(ApplyCommand(
                 NewControl, stream[1]), stream[2]), stream[3]), stream[4])
<1> DEFINE c1 == ApplyCommand(NewControl, stream[1])
           c2 == ApplyCommand(c1, stream[2])
           c3 == ApplyCommand(c2, stream[3])
           c4 == ApplyCommand(c3, stream[4])
           g == [k \in 0..4 |-> IF k = 0 THEN NewControl ELSE IF k = 1 THEN c1
                                ELSE IF k = 2 THEN c2 ELSE IF k = 3 THEN c3 ELSE c4]
           after == CHOOSE h : Applies(h, stream)
<1>1. Applied(stream) = after[4]
  BY DEF Applied, Applies
<1>2. Applies(g, stream)
  <2>1. /\ g[0] = NewControl /\ g[1] = c1 /\ g[2] = c2 /\ g[3] = c3 /\ g[4] = c4
    OBVIOUS
  <2>2. \A k \in 0..4 : k \in {0, 1, 2, 3, 4}
    OBVIOUS
  <2>3. g = [k \in 0..4 |-> g[k]]
    OBVIOUS
  <2> HIDE DEF g
  <2>4. ASSUME NEW k \in 0..4
        PROVE  g[k] = IF k = 0 THEN NewControl ELSE ApplyCommand(g[k - 1], stream[k])
    <3>1. CASE k = 0
      BY <2>1, <3>1
    <3>2. CASE k = 1
      BY <2>1, <3>2
    <3>3. CASE k = 2
      BY <2>1, <3>3
    <3>4. CASE k = 3
      BY <2>1, <3>4
    <3>5. CASE k = 4
      BY <2>1, <3>5
    <3> QED BY <2>2, <3>1, <3>2, <3>3, <3>4, <3>5
  <2> QED BY <2>3, <2>4 DEF Applies
<1>3. Applies(after, stream)
  BY <1>2
<1> HIDE DEF after, g, c1, c2, c3, c4
<1>4. /\ after[0] = NewControl
      /\ after[1] = ApplyCommand(after[0], stream[1])
      /\ after[2] = ApplyCommand(after[1], stream[2])
      /\ after[3] = ApplyCommand(after[2], stream[3])
      /\ after[4] = ApplyCommand(after[3], stream[4])
  BY <1>3 DEF Applies
<1> QED BY <1>1, <1>4

\* Which budget a command sets.
LEMMA CommandSets ==
    ASSUME NEW control, NEW c, "copyQueue" \in DOMAIN control,
           c.command \in {"set_copy_queue_budget", "reserve_pre_frame_window"}
    PROVE  /\ DOMAIN ApplyCommand(control, c) = DOMAIN control
           /\ ApplyCommand(control, c).copyQueue =
                 IF c.command = "set_copy_queue_budget" THEN c.value ELSE control.copyQueue
<1> DEFINE marked == [control EXCEPT !.priority = Stronger(control.priority, c.priority)]
<1>1. DOMAIN marked = DOMAIN control /\ marked.copyQueue = control.copyQueue
  OBVIOUS
<1> HIDE DEF marked
<1>2. CASE c.command = "set_copy_queue_budget"
  BY <1>1, <1>2 DEF ApplyCommand, marked
<1>3. CASE c.command = "reserve_pre_frame_window"
  BY <1>1, <1>3 DEF ApplyCommand, marked
<1> QED BY <1>2, <1>3

\* The stream of a frame carries the copy budget of its directive.
LEMMA StreamCarriesCopyBudget ==
    ASSUME NEW d
    PROVE  Applied(FrameCommands(d)).copyQueue = d.copyQueue
<1> DEFINE stream == FrameCommands(d)
           fields == DOMAIN NewControl
           c2 == ApplyCommand(ApplyCommand(NewControl, stream[1]), stream[2])
           c3 == ApplyCommand(c2, stream[3])
<1>1. /\ Len(stream) = 4
      /\ stream[1].command = "set_next_frame_budget"
      /\ stream[2].command = "set_hot_path_budget"
      /\ stream[3].command = "set_copy_queue_budget" /\ stream[3].value = d.copyQueue
      /\ stream[4].command = "reserve_pre_frame_window"
  BY DEF FrameCommands
<1> HIDE DEF stream
<1>2. Applied(stream) = ApplyCommand(c3, stream[4])
  BY <1>1, AppliedForm
<1>3. ASSUME NEW control, NEW c,
             c.command \in {"set_next_frame_budget", "set_hot_path_budget"}
      PROVE  DOMAIN ApplyCommand(control, c) = DOMAIN control
  <2>1. CASE c.command = "set_next_frame_budget"
    BY <2>1 DEF ApplyCommand
  <2>2. CASE c.command = "set_hot_path_budget"
    BY <2>2 DEF ApplyCommand
  <2> QED BY <1>3, <2>1, <2>2
<1>4. "copyQueue" \in DOMAIN c2
  BY <1>1, <1>3 DEF NewControl
<1> HIDE DEF c2
<1>5. "copyQueue" \in DOMAIN c3 /\ c3.copyQueue = d.copyQueue
  BY <1>1, <1>4, CommandSets
<1> HIDE DEF c3
<1> QED BY <1>1, <1>2, <1>5, CommandSets DEF stream

\* A frame that overran gets no copy budget.
LEMMA DirectiveCloses ==
    ASSUME NEW c, NEW envelope, NEW f, c.action \in PressureActions
    PROVE  FrameDirective(c, envelope, f).copyQueue = 0
BY DEF FrameDirective

\* Without a copy budget the tick blocks the copies of the frame.
LEMMA TickBlocks ==
    ASSUME NEW manager, NEW f \in DOMAIN manager.frames, manager.frames[f].copyQueue = 0,
           NEW cycle, cycle = GatewayCycle(GatewayTick(ControlState(ControlPacket(manager))))
    PROVE  \E step \in cycle.steps : step.frame = f /\ step.action = "block_late_copy_queue"
<1> DEFINE state == ControlState(ControlPacket(manager))
           tick == GatewayTick(state)
           control == state.frames[f]
           step == [frame |-> f, lane |-> "copy-queue", budget |-> control.copyQueue,
                    action |-> IF control.copyQueue <= 0 THEN "block_late_copy_queue"
                               ELSE "budget_copy_queue"]
<1>1. DOMAIN state.frames = DOMAIN manager.frames
      /\ control = Applied(FrameCommands(manager.frames[f]))
  BY DEF ControlState, ControlPacket
<1>2. control.copyQueue = 0
  BY <1>1, StreamCarriesCopyBudget
<1>3. tick.steps = UNION {FrameSteps(state.frames[g], g) : g \in DOMAIN state.frames}
  BY DEF GatewayTick
<1>4. step \in FrameSteps(control, f)
  BY DEF FrameSteps
<1>5. cycle.steps = tick.steps
  BY DEF GatewayCycle
<1>6. step.frame = f /\ step.action = "block_late_copy_queue"
  BY <1>2
<1> HIDE DEF state, tick, step
<1> QED BY <1>1, <1>3, <1>4, <1>5, <1>6

\* What the feedback asks of a frame.
FeedbackActions ==
    {"tighten-cycle-guardband", "continue-pressure-management", "preserve-cycle-shape",
     "monitor-cycle"}

\* The feedback manages the pressure of a frame that overran.
LEMMA FeedbackForm ==
    ASSUME NEW c, c.target \in Nat, c.observed \in Nat, c.current \in Nat, NEW cycle, NEW f,
           NEW fb, fb = FrameFeedback(c, cycle, f)
    PROVE  /\ fb.target = c.target
           /\ fb.action \in FeedbackActions
           /\ c.observed > c.target =>
                 fb.action \in {"tighten-cycle-guardband", "continue-pressure-management"}
<1> DEFINE over == Larger(0, c.observed - c.target)
           plannedOver == Larger(0, c.current - c.target)
           gap == Larger(0, c.observed - FrameStepBudget(cycle.steps, f, "protect_next_frame_budget"))
<1>1. fb.target = c.target /\ fb.action = FrameFeedbackAction(over, plannedOver, gap, c.relief)
  BY DEF FrameFeedback
<1>2. over \in Nat /\ plannedOver \in Nat /\ (c.observed > c.target => over > 0)
  BY DEF Larger
<1> HIDE DEF over, plannedOver, gap
<1>3. CASE plannedOver > 0
  BY <1>1, <1>2, <1>3 DEF FrameFeedbackAction, FeedbackActions
<1>4. CASE plannedOver <= 0 /\ over > 0
  BY <1>1, <1>2, <1>4 DEF FrameFeedbackAction, FeedbackActions
<1>5. CASE plannedOver <= 0 /\ over <= 0
  BY <1>1, <1>2, <1>5 DEF FrameFeedbackAction, FeedbackActions
<1> QED BY <1>2, <1>3, <1>4, <1>5

\* The copy budget of the next policy, closed under pressure.
LEMMA UpdateForm ==
    ASSUME NEW fb, fb.target \in Nat, fb.action \in FeedbackActions
    PROVE  /\ FramePolicyUpdate(fb).copyQueue \in Nat
           /\ fb.action \in {"tighten-cycle-guardband", "continue-pressure-management"} =>
                 FramePolicyUpdate(fb).copyQueue = 0
<1>1. CASE fb.action = "tighten-cycle-guardband"
  BY <1>1 DEF FramePolicyUpdate
<1>2. CASE fb.action = "continue-pressure-management"
  BY <1>2 DEF FramePolicyUpdate
<1>3. (fb.target * 15) \div 100 \in Nat
  OBVIOUS
<1>4. CASE fb.action = "preserve-cycle-shape"
  BY <1>3, <1>4 DEF FramePolicyUpdate
<1>5. CASE fb.action = "monitor-cycle"
  BY <1>3, <1>5 DEF FramePolicyUpdate
<1> QED BY <1>1, <1>2, <1>4, <1>5 DEF FeedbackActions

\* One frame under pressure closes the copy queue of the whole policy.
LEMMA PressureClosesTheBudget ==
    ASSUME NEW calibration, IsCalibration(calibration), NEW cycle, NEW layers,
           NEW update, update = PolicyUpdate(Feedback(cycle, calibration, layers))
    PROVE  /\ \A f \in Pressed(calibration) : update.frames[f].copyQueue = 0
           /\ Pressed(calibration) # {} => CopyBudget(update) = 0
<1> DEFINE copies(f) == update.frames[f].copyQueue
<1>1. /\ DOMAIN update.frames = DOMAIN calibration
      /\ \A f \in DOMAIN calibration :
            update.frames[f] = FramePolicyUpdate(FrameFeedback(calibration[f], cycle, f))
  BY DEF PolicyUpdate, Feedback
<1>2. ASSUME NEW f \in DOMAIN calibration
      PROVE  copies(f) \in Nat /\ (f \in Pressed(calibration) => copies(f) = 0)
  <2> DEFINE fb == FrameFeedback(calibration[f], cycle, f)
  <2>1. /\ fb.target \in Nat /\ fb.action \in FeedbackActions
        /\ f \in Pressed(calibration) =>
              fb.action \in {"tighten-cycle-guardband", "continue-pressure-management"}
    BY FeedbackForm DEF IsCalibration, Pressed
  <2> HIDE DEF fb
  <2>2. copies(f) = FramePolicyUpdate(fb).copyQueue
    BY <1>1 DEF fb
  <2> QED BY <2>1, <2>2, UpdateForm
<1>3. Pressed(calibration) \subseteq DOMAIN calibration
  BY DEF Pressed
<1>4. ASSUME Pressed(calibration) # {}
      PROVE  CopyBudget(update) = 0
  <2> DEFINE budgets == {copies(f) : f \in DOMAIN calibration}
  <2>1. CopyBudget(update) = Min(budgets)
    <3>1. DOMAIN calibration # {}
      BY <1>3, <1>4
    <3> QED BY <1>1, <3>1 DEF CopyBudget, LeastOf
  <2>2. 0 \in budgets /\ budgets \subseteq Nat
    BY <1>2, <1>3, <1>4
  <2> HIDE DEF budgets
  <2>3. Min(budgets) \in budgets /\ \A n \in budgets : Min(budgets) <= n
    <3>1. \E m \in budgets : \A n \in budgets : m <= n
      BY <2>2
    <3> QED BY <3>1 DEF Min
  <2> DEFINE least == Min(budgets)
  <2>4. least \in Nat /\ least <= 0
    BY <2>2, <2>3
  <2>5. CopyBudget(update) = least
    BY <2>1
  <2> HIDE DEF least
  <2>6. least = 0
    BY ONLY <2>4
  <2> QED BY ONLY <2>5, <2>6
<1> QED BY <1>2, <1>3, <1>4

\* The supervisor opens no copy queue that is closed.
LEMMA SupervisorCloses ==
    ASSUME NEW state, NEW trend, state.copyQueue = 0
    PROVE  SupervisorDirective(state, trend).copyQueue = 0
BY DEF SupervisorDirective

\* The copy queue of a plan closes with any state of its copy budget.
LEMMA PlanCloses ==
    ASSUME NEW s \in SessionIds, NEW state, state.copyQueue = CopyBudget(Plans[s].update)
    PROVE  CopyQueueCloses(Plans[s], state)
<1> DEFINE session == SessionOf[s]
           plan == Plans[s]
           calibration == plan.calibration
           hot == Pressed(calibration)
<1>1. /\ calibration = Calibration(plan.steps, session.frames)
      /\ plan.manager = Manager(calibration, plan.envelope)
      /\ plan.cycle = GatewayCycle(GatewayTick(ControlState(ControlPacket(plan.manager))))
      /\ plan.update = PolicyUpdate(Feedback(plan.cycle, calibration, plan.envelope.layers))
  BY PlanIs
<1>2. /\ IsSession(session)
      /\ \A f \in DOMAIN session.frames : calibration[f].current \in Nat
  BY SessionsAreSessions, SessionIsHonoured
<1>3. state.copyQueue = CopyBudget(plan.update)
  OBVIOUS
<1> HIDE DEF session, plan
<1>4. /\ DOMAIN calibration = DOMAIN session.frames
      /\ \A f \in DOMAIN session.frames :
            /\ calibration[f].target = session.frames[f].target
            /\ calibration[f].observed = session.frames[f].observed
            /\ calibration[f].current = CostIn(plan.steps, f, "current")
            /\ calibration[f].action =
                  CalibrationAction(calibration[f].observed > calibration[f].target,
                                    calibration[f].current > calibration[f].target,
                                    calibration[f].relief)
  BY <1>1, CalibrationForm
<1>5. IsCalibration(calibration)
  BY <1>2, <1>4 DEF IsCalibration, IsSession
<1>6. ASSUME NEW f \in hot
      PROVE  calibration[f].action \in PressureActions
  <2>1. calibration[f].action =
           CalibrationAction(TRUE, calibration[f].current > calibration[f].target,
                             calibration[f].relief)
    BY <1>4 DEF Pressed
  <2>2. CASE calibration[f].current > calibration[f].target
    BY <2>1, <2>2 DEF CalibrationAction, PressureActions
  <2>3. CASE ~(calibration[f].current > calibration[f].target)
    BY <2>1, <2>3 DEF CalibrationAction, PressureActions
  <2> QED BY <2>2, <2>3
<1>7. /\ DOMAIN plan.manager.frames = DOMAIN calibration
      /\ \A f \in DOMAIN calibration :
            plan.manager.frames[f] = FrameDirective(calibration[f], plan.envelope, f)
  BY <1>1 DEF Manager
<1>8. hot \subseteq DOMAIN calibration
  BY DEF Pressed
<1>9. ASSUME NEW f \in hot
      PROVE  /\ plan.manager.frames[f].copyQueue = 0
             /\ \E step \in plan.cycle.steps :
                   step.frame = f /\ step.action = "block_late_copy_queue"
  <2>1. plan.manager.frames[f].copyQueue = 0
    BY <1>6, <1>7, <1>8, DirectiveCloses
  <2> QED BY <1>1, <1>7, <1>8, <2>1, TickBlocks
<1>10. /\ \A f \in hot : plan.update.frames[f].copyQueue = 0
       /\ hot # {} => CopyBudget(plan.update) = 0
  BY <1>1, <1>5, PressureClosesTheBudget
<1>11. hot # {} => \A trend : SupervisorDirective(state, trend).copyQueue = 0
  BY <1>3, <1>10, SupervisorCloses
<1>12. hot = {f \in DOMAIN plan.calibration :
                 plan.calibration[f].observed > plan.calibration[f].target}
  BY DEF Pressed
<1> HIDE DEF hot
<1>13. CopyQueueCloses(plan, state)
  BY <1>9, <1>10, <1>11, <1>12 DEF CopyQueueCloses
<1> QED BY <1>13 DEF plan

\* The state of a command carries the copy budget of the last plan it replayed.
CarriesCopyBudget(c) ==
    c.pc # "idle" /\ c.cycles # <<>> =>
        c.state.copyQueue = CopyBudget(Plans[c.cycles[Len(c.cycles)].session].update)

\* With DaemonInv, the inductive invariant behind the copy queue.
CopyBudgetIsCarried == \A p \in Processes : CarriesCopyBudget(proc[p])

\* One command moves and its state is as it should be.
LEMMA OneCarries ==
    ASSUME DaemonInv, CopyBudgetIsCarried, NEW p \in Processes, NEW c,
           proc' = [proc EXCEPT ![p] = c], CarriesCopyBudget(c)
    PROVE  CopyBudgetIsCarried'
<1>1. proc' = [q \in Processes |-> IF q = p THEN c ELSE proc[q]]
  BY DEF DaemonInv
<1>2. ASSUME NEW q \in Processes PROVE CarriesCopyBudget(proc'[q])
  BY <1>1 DEF CopyBudgetIsCarried
<1> QED BY <1>2 DEF CopyBudgetIsCarried, CarriesCopyBudget

\* A command that keeps its cycles and its state, or ends, carries what it did.
LEMMA KeepsCarrying ==
    ASSUME NEW c, NEW d, CarriesCopyBudget(c), c.pc # "idle",
           d = Idle \/ (d.cycles = c.cycles /\ d.state = c.state)
    PROVE  CarriesCopyBudget(d)
BY DEF CarriesCopyBudget, Idle

\* A cycle takes the budget over from its plan.
LEMMA CycleCarries ==
    ASSUME DaemonInv, CopyBudgetIsCarried, NEW p \in Processes, Cycle(p)
    PROVE  CopyBudgetIsCarried'
<1> DEFINE old == proc[p]
           s == StreamOf(old, Len(old.cycles) + 1)
           last == Len(old.cycles) + 1 = LoopCount(old)
           pc == IF last THEN "write" ELSE "cycle"
           left == IF last THEN Outputs(old.tool) ELSE <<>>
           record == CycleRecord(s, old.state)
           cycles == Append(old.cycles, record)
           state == NextState(s, old.state)
           c == [old EXCEPT !.state = state, !.cycles = cycles, !.pc = pc, !.left = left]
<1>1. proc' = [proc EXCEPT ![p] = c] /\ old.pc = "cycle"
  BY DEF Cycle
<1>2. IsRun(old)
  BY <1>1, AtWork DEF Running
<1>3. record.session = s
  BY DEF CycleRecord
<1>4. state.copyQueue = CopyBudget(Plans[s].update)
  BY DEF NextState, Accumulate
<1>5. c = [old EXCEPT !.state = state, !.cycles = cycles, !.pc = pc, !.left = left]
  OBVIOUS
<1>6. old.cycles \in Seq(Recorded)
  BY <1>2 DEF IsRun
<1>7. cycles[Len(cycles)] = record
  <2> HIDE DEF old, record
  <2> QED BY <1>6
<1> HIDE DEF old, s, record, state, cycles, pc, left, c
<1>8. c.state = state /\ c.cycles = cycles
  <2>1. HasFields(old)
    BY <1>2 DEF IsRun
  <2> QED BY <1>5, <2>1 DEF HasFields, Fields
<1>9. CarriesCopyBudget(c)
  BY <1>3, <1>4, <1>7, <1>8 DEF CarriesCopyBudget
<1> QED BY <1>1, <1>9, OneCarries

\* No step of any command takes the copy budget from its state.
LEMMA CarriedNext == DaemonInv /\ CopyBudgetIsCarried /\ [Next]_vars => CopyBudgetIsCarried'
<1> SUFFICES ASSUME DaemonInv, CopyBudgetIsCarried, [Next]_vars PROVE CopyBudgetIsCarried'
  OBVIOUS
<1>1. CASE UNCHANGED vars
  BY <1>1 DEF vars, CopyBudgetIsCarried, CarriesCopyBudget
<1>2. ASSUME NEW p \in Processes, NEW tool, NEW paths, NEW iterations,
             Start(p, tool, paths, iterations)
      PROVE  CopyBudgetIsCarried'
  <2> DEFINE c == [pc |-> "observe", tool |-> tool, paths |-> paths, iterations |-> iterations,
                   loaded |-> disk.state, state |-> disk.state, host |-> NoSnapshot,
                   cycles |-> <<>>, left |-> <<>>]
  <2>1. proc' = [proc EXCEPT ![p] = c]
    BY <1>2 DEF Start
  <2>2. c.cycles = <<>>
    OBVIOUS
  <2> HIDE DEF c
  <2> QED BY <2>1, <2>2, OneCarries DEF CarriesCopyBudget
<1>3. ASSUME NEW p \in Processes, NEW snapshot, Observe(p, snapshot)
      PROVE  CopyBudgetIsCarried'
  <2> DEFINE old == proc[p]
             pc == IF old.tool = "daemon" THEN "cycle" ELSE "write"
             left == IF old.tool = "daemon" THEN <<>> ELSE <<"events">>
             c == [old EXCEPT !.host = snapshot, !.pc = pc, !.left = left]
  <2>1. proc' = [proc EXCEPT ![p] = c] /\ old.pc = "observe"
    BY <1>3 DEF Observe
  <2>2. c.cycles = old.cycles /\ c.state = old.state
    <3>1. HasFields(old)
      BY <2>1, AtWork DEF Running, IsRun
    <3> HIDE DEF old, pc, left
    <3> QED BY <3>1 DEF HasFields, Fields
  <2> HIDE DEF c
  <2> QED BY <2>1, <2>2, OneCarries, KeepsCarrying DEF CopyBudgetIsCarried
<1>4. ASSUME NEW p \in Processes, Cycle(p)
      PROVE  CopyBudgetIsCarried'
  BY <1>4, CycleCarries
<1>5. ASSUME NEW p \in Processes, WriteTemp(p)
      PROVE  CopyBudgetIsCarried'
  <2> DEFINE old == proc[p]
             c == [old EXCEPT !.pc = "replace"]
  <2>1. proc' = [proc EXCEPT ![p] = c] /\ old.pc = "write"
    BY <1>5 DEF WriteTemp
  <2>2. c.cycles = old.cycles /\ c.state = old.state
    BY <2>1, AtWork DEF Running, IsRun, HasFields, Fields
  <2> HIDE DEF c
  <2> QED BY <2>1, <2>2, OneCarries, KeepsCarrying DEF CopyBudgetIsCarried
<1>6. ASSUME NEW p \in Processes, Replace(p)
      PROVE  CopyBudgetIsCarried'
  <2> DEFINE old == proc[p]
             file == Head(old.left)
             rest == Tail(old.left)
             c == IF file = "events" THEN [old EXCEPT !.pc = "cycle", !.left = <<>>]
                  ELSE IF rest = <<>> THEN Idle
                  ELSE [old EXCEPT !.pc = "write", !.left = rest]
  <2>1. proc' = [proc EXCEPT ![p] = c] /\ old.pc = "replace"
    BY <1>6 DEF Replace
  <2>2. HasFields(old)
    BY <2>1, AtWork DEF Running, IsRun
  <2>3. c = Idle \/ (c.cycles = old.cycles /\ c.state = old.state)
    <3> HIDE DEF old, file, rest
    <3> QED BY <2>2 DEF HasFields, Fields
  <2> HIDE DEF c
  <2> QED BY <2>1, <2>3, OneCarries, KeepsCarrying DEF CopyBudgetIsCarried
<1>7. ASSUME NEW p \in Processes, WriteFails(p) \/ Crash(p)
      PROVE  CopyBudgetIsCarried'
  <2>1. proc' = [proc EXCEPT ![p] = Idle]
    BY <1>7 DEF WriteFails, Crash
  <2>2. CarriesCopyBudget(Idle)
    BY DEF CarriesCopyBudget, Idle
  <2> QED BY <2>1, <2>2, OneCarries
<1> QED BY <1>1, <1>2, <1>3, <1>4, <1>5, <1>6, <1>7 DEF Next

\* Whatever state a command began with, whatever sessions it replays and whatever runs beside
\* it: a frame that overran closes the copy queue in the directive, the tick, the next policy,
\* the state that is carried on and every supervision of it.
THEOREM PressureAlwaysClosesTheCopyQueue == Spec => []PressureClosesTheCopyQueue
<1>1. Init => CopyBudgetIsCarried
  BY DEF Init, Idle, CopyBudgetIsCarried, CarriesCopyBudget
<1>2. DaemonInv /\ CopyBudgetIsCarried => PressureClosesTheCopyQueue
  <2> SUFFICES ASSUME DaemonInv, CopyBudgetIsCarried, NEW p \in Processes,
                      proc[p].pc \notin {"idle", "observe"}, proc[p].cycles # <<>>
               PROVE  CopyQueueCloses(Plans[proc[p].cycles[Len(proc[p].cycles)].session],
                                      proc[p].state)
    BY DEF PressureClosesTheCopyQueue
  <2> DEFINE cycles == proc[p].cycles
             s == cycles[Len(cycles)].session
  <2>1. proc[p].state.copyQueue = CopyBudget(Plans[s].update)
    BY DEF CopyBudgetIsCarried, CarriesCopyBudget
  <2>2. cycles \in Seq(Recorded)
    BY AtWork DEF Running, IsRun
  <2>3. cycles # <<>>
    OBVIOUS
  <2> HIDE DEF cycles
  <2>4. cycles[Len(cycles)] \in Recorded
    BY <2>2, <2>3
  <2>5. s \in SessionIds
    BY <2>4 DEF Recorded
  <2> HIDE DEF s
  <2>6. CopyQueueCloses(Plans[s], proc[p].state)
    BY <2>1, <2>5, PlanCloses
  <2> QED BY <2>6 DEF s, cycles
<1>3. [](DaemonInv) /\ [][Next]_vars /\ CopyBudgetIsCarried => []CopyBudgetIsCarried
  BY CarriedNext, PTL
<1> QED BY <1>1, <1>2, <1>3, DaemonInvariant, PTL DEF Spec
=============================================================================
