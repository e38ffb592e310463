# A TLA+ model of FluidGateway

FluidGateway takes declarations of GPU work from an application (resources,
frames, transfers, allocations, waits) and answers each operation with an
advice: keep it, drop it, or take the result of an earlier one. The advice is only useful
if it is right: a dropped copy must really have been redundant. The program
exists twice. `native/` is a C++ gateway for the FluidLink v2 protocol, over TCP
or in process; `fluidgateway/` is the Python reference, which also plans,
simulates and supervises offline.

This directory holds specifications of both sides and of their agreement, the
configurations TLC checks them with, and theorems TLAPS proves of them. Line numbers are those of the modelled commit;
`PROJECT.json` maps every definition to the lines it stands for.

## Inventory

### Native gateway

| Part | State | Operations | What is hard | What makes it correct |
| --- | --- | --- | --- | --- |
| Decision core, `core.cpp`, `core.hpp` (`State`) | resources with their aliases, last copy and last allocation; every operation with its elimination, removal mark and replacements; current frame; memory budget | `begin_frame`, `end_frame`, `register_resource`, `release_resource`, `process` | provenance that goes stale through views connected only indirectly; eliminations resting on eliminations; forward dependencies; the budget running out half way | no transfer is dropped unless the one kept still gives the same bytes; a wait is dropped only if nothing it waits for is executed |
| Session, `protocol.cpp`, `protocol.hpp` (`ProtocolSession`) | negotiated capabilities, next sequence number, closed flag, one core | `process` of hello, events, batches, heartbeat, goodbye | sequence numbers used up by failing requests and at the end of their range; batches that fail in the middle; fatal errors | what the core holds has been answered; nothing before the handshake; nothing after the end |
| C interface, `abi.cpp`, `fluidgateway_native.h` | eight slots, each with an atomic reservation flag, a mutex, a generation, a handle and a session | `create`, `exchange`, `get_metrics`, `destroy`, by any thread | stale handles, creates that fail half way, destroys that race, generations that run out | the slots are a table of sessions under handles never used twice |
| TCP server, `server.cpp` | listener, eight workers with mutex, condition variable, pending socket, busy and exiting flags; stop flag | accept and assign, serve under deadlines, stop, destroy | a stop between any two steps, lost notifications, stalled clients | each socket has one owner, nobody holds a worker for ever, the shutdown ends at once |

They nest: a server worker or an exchange through a slot calls `ProtocolSession::process`
one frame at a time, and only the session calls its core. A session is
never shared between threads at one time: in the server it is a local of `serve`,
in the C interface the slot's mutex guards it. So the core and the session are modelled
as sequential programs driven by an arbitrary client, and the two that use them
as concurrent ones.

### Python side

| Part | State | Operations | What is hard | What makes it correct |
| --- | --- | --- | --- | --- |
| Decision state, `runtime.py` (`RuntimeOptimizationState`) | last copy by target, active buffers, replacements, removed ids | `register_resource`, `release_resource`, `process`, `decide_operation` | the provenance of the native core in other tables | the twins give the same advice for the same events, as far as floats tell sizes apart |
| Sessions, `fluidlink.py`, `fluidlink_v2.py` | sequence, capabilities, contract, closed | hello, event, batch, heartbeat, goodbye | the checks of the native session in another order and with other error paths | the three servers are interchangeable, but for sizes that no float or answer holds |
| Event server, `server.py` | semaphore, active requests and their count, shutdown event | accept, serve under deadlines, early release, `server_close` | a slot given back at goodbye, at the end and by a failing start; a close that races handlers | slots add up, deadlines hold, closing ends |
| Adapter session, `adapter.py` with `events.py`, `control.py`, `live.py`, `policy.py`, `governor.py`, `gate.py`, `lifetime.py`, `state.py` | controller, frame statistics, budgets and residents, what was already said, lifetime plan | `process_event` of seven kinds, `to_result` | refused events that have done part of their work; three observers of one frame with rules of their own | statistics and residency are those of what ran; advice is consistent |
| Plans of one session, `scheduler.py` to `policy_update.py` with `admission.py`, `efficiency.py` | none: report to report | one function a stage, some twenty of them | figures handed through ten reports | no work is lost or booked twice, pressure arrives at the end |
| State and supervision, `state_*.py`, `supervisor*.py`, `atomic_io.py` | a state file that counts cycles | accumulate, compare, direct; write and replace | failing writes, kills, two processes | the file is always the end of a whole run |
| Daemon and backend preparation, `daemon*.py`, `native_backend*.py`, `host.py`, `presentmon_*.py` | report, ledger and event files | a run of cycles, then a chain of reports on what may advance | an early cycle forgotten, an unknown signal taken for a known one | escalation holds the promotion, only evidenced work advances |
| Not modelled: `parser.py`, `analyzer.py`, `heuristics.py`, `stats.py`, `report.py`, `management.py`, `tracker.py`, `client.py`, `doctor.py`, summaries, tools, packaging | recorded traces, a registry file | -- | see Not modelled | -- |

A handler thread of the event server owns one FluidLink session (or a JSON lines loop) and one adapter
session, and nothing is shared between handlers but the server's slots, so sessions are again modelled as
sequential programs and the server as the concurrent one. A daemon run replays event files through an adapter
session per cycle, sends each result through the stages, and accumulates the last one's policy in the state.

## Modules

| Module | Models | Run |
| --- | --- | --- |
| `CoreOps` | the core as operators on a record: `core.cpp` function by function | through the others |
| `GatewayCore` | one core driven by arbitrary events, beside an observer who knows the storage | through `TwinCores` |
| `RuntimeOps` | the Python decision state, `runtime.py`, in its own tables | through the next ones |
| `TwinOps`, `TwinCores` | when the two states are the same; both driven by one client | `core_copies`, `core_chains`, `core_late_registration` |
| `TwinOpsProofs` | lemmas about `CoreOps`, `RuntimeOps` and `TwinOps`, for the three proofs that use them | -- |
| `GatewayCoreProofs` | theorems about `GatewayCore`, `TwinCores` and `AliasClosure` | -- |
| `AliasClosure` | the worklist of `State::invalidate`, array by array | `alias_closure` |
| `ProtocolSession` | a native session with a `CoreOps` core inside | through `TwinSessions` |
| `TwinSessions` | the Python v2 and v1 sessions that get the same frames | `protocol_session` |
| `ProtocolSessionProofs` | theorems about `ProtocolSession` and `TwinSessions` | -- |
| `HandleTable` | what the C header promises: the abstract specification | property of `abi_slots` |
| `AbiSlots` | slots, flags, mutexes and handles, one atomic step at a time | `abi_slots`, `abi_busy` |
| `AbiSlotsProofs` | theorems about `AbiSlots`, with the refinement of `HandleTable` | -- |
| `NativeServer` | main thread, workers, deadlines and shutdown | `native_server` |
| `NativeServerProofs` | theorems about `NativeServer` | -- |
| `EventServer` | the Python server: slots, threads, deadlines and shutdown | `event_server` |
| `EventServerProofs` | theorems about `EventServer` | -- |
| `AdapterSession` | an adapter session and the parts it drives on every event | `adapter`, `adapter_held` |
| `FramePlans` | schedule, admission, ledger and next frame's commands of a session | with `AdapterSession` |
| `AdapterSessionProofs` | theorems about `AdapterSession` and the plans of `FramePlans` | -- |
| `Planning`, `Steering` | the stages from transit to dispatch, and from calibration to the supervisor | with `DaemonLoop` |
| `HostProfile`, `Promotion` | a host's readings; decisions and the reports on what may advance | with `DaemonLoop` |
| `DaemonLoop` | daemon commands as processes over the same files | `daemon` |
| `DaemonLoopProofs` | theorems about `DaemonLoop`, the stages of `Planning` and `Steering` and the reports of `Promotion` | -- |
| `MCGatewayCore`, `MCProtocolSession`, `MCAdapterSession`, `MCDaemonLoop` | values for TLC | -- |

`TwinCores` extends `GatewayCore`, `TwinSessions` extends `ProtocolSession`, and `DaemonLoop` reaches `Planning`,
`Steering`, `HostProfile` and `Promotion` through `Promotion`.

Operators whose names are those of a step with a defect (`ReachAndDrop`,
`OwnsAny`, `AssignSilently` ...) are not part of any specification. Each stands before the
definition it varies and shows, when put in its place, that a property
does notice the defect; `PROJECT.json` pairs them with the properties.

### Decision core

A core is a record: `resources` is a function on the registered ids, `operations`
one on the ids processed, `currentFrame` the open frame. `State::process` is
split as the code is: `Decide` gives the opcode, with one operator for each branch
(`SelfCopy`, `CollapsesAlias`, `RepeatsCopy`, `OrphanSync`, `EmptySync`,
`ReusesAllocation`) in the code's order; `Replacements` is the set of operations a later dependency
on this one is rewritten to; `Execute` invalidates, and remembers the copy
or allocation. A resource's pointer to an operation is the operation's id. `Process` is
a whole call, `ProcessCutShort` one in which the budget throws after the record is
stored: replacements may then be incomplete.

Abstracted: saved times and costs, which decide nothing
(the sizes that `RepeatsCopy` and `ReusesAllocation` compare are the exact byte counts of the wire); the budget,
which runs out whenever it likes; strings, which are model values. The resource
aliases are sets of names, and a resource's storage is what its view says.

`GatewayCore` adds an observer. `storage` is the view each resource really
occupies, also when the gateway has not been told of it; `intact` holds the executed
transfers neither of whose endpoints was changed since, where a write through
one view changes all that overlap with it; `sourced` holds those made between two
registered resources; `since` what ran on a resource since it was
registered; `log` the requests and answers. The properties compare the core, which
sees none of this, with the observer. A dropped transfer does not change anything
for the observer, since its bytes were there before: that is what is to be shown.

### The Python decision state

`RuntimeOps` keeps the tables of `RuntimeOptimizationState` as they are: `lastCopy` is by target and survives
as long as neither end is touched, `activeBuffers` is by target and size, `replacements` and `removed` are by id.
`DecideOperation` is `decide_operation` branch by branch, `RetainedBy` what a dropped operation is replaced by,
`ProcessState` the whole of `process`. `TwinCores` gives every event that a native core accepts to the Python
state as well.

The two do not get the same sizes. The native core keeps the `u64` of the wire, Python the float
`reader.u64() / MEBIBYTE` (`fluidlink_v2.py:1289`, for batches line 873), so above 2^53 bytes adjacent sizes fall together in Python
alone; `docs/native-gateway.md:84` says that the native core deliberately does not round. `TwinOps` has that: `AsFloat` is the
nearest number with `FloatBits` significant bits, ties to even (the division by a power of two rounds nothing itself), and
`Decoded` is the operation the handler gets. What the core takes for another transfer or buffer Python may then deduplicate or reuse.

`TwinsAgree` says what the twins have in common all the same. Whatever the sizes, they refuse the same events and know the same
resources, operations and frame (`SameAdmission`). As long as the sizes processed are told apart by their floats
(`ToldApart`), they also hold the same provenance and eliminations (`SameState`) and give the same answer to every
request that could come next whose size is told apart from those, with what it would be made to wait for (`SameAdvice`). It ends where the native core's budget does, for
Python has none. Sizes up to 2^53 bytes are always told apart; for those `ExactTwinsAgree` proves the agreement without reservation.

### The worklist

`Affected` in `CoreOps` is a closure: the least set that contains the written view
and every view that shares a name with one of its members. The code computes it with two arrays and two
indices. `AliasClosure` has those arrays, from every order the hash table can
give them; `LoopComputesAffected` says that the two definitions agree,
`LoopProgresses` that the loop ends.

### Session

`frame` records carry what `handle` looks at: whether it is a request, opcode,
session identity, whether flags and stream are plain, and a body that is well formed
or not. Byte layouts are left out: a frame that does not decode is `Undecodable`.
The order of the checks in `handle` is kept, as is the point at which the sequence number
is used up (before the body is parsed), so that a request that fails afterwards
cannot be repeated under its number. `batch` is set by a hello before its
capabilities are checked, as in the code. A batch applies `Process` item by item
and stops at the first that is refused, which closes the session.
`OutOfMemory` covers an answer that cannot be allocated, after its effect.

`TwinSessions` adds the two Python sessions, `V2Hello`, `V2Event`, `OperationBatch` and `V1Hello`,
`V1Request` being their handlers and `Serve` what `process` does around them. They get every frame the native session gets while it
is open. FluidLink v1 has no batches, ignores capabilities it does not know and takes any goodbye: the
frames read differently on purpose are `ReadDifferently`, and the comparison with v1 ends at the first.
The JSON of v1 and the bytes of v2 are abstracted alike, but for one difference that has consequences: the answers. JSON has room for any
number; v2 writes the saving into 64 bits, and a size of at least 2^64 - 1024 bytes was read as 2^64. If such an
operation is eliminated with a saving, the encoding fails *after* the event handler has taken it in (`Answerable`, `Handled`). A single event is then answered
`RUNTIME_EVENT_REJECTED` with the operation in the state and the session open (`fluidlink_v2.py:1485-1494`); a batch closes the
session (`OperationBatch`, `Broken`), though all its operations were processed. The session record's `answered` holds what the client was really told.

`DecisionsAreSent` says how far that can go: an operation that took effect while its client was told it was rejected is always one
that was eliminated, so no transfer or allocation that later decisions rest on (`Relied`) is unknown to the
client, and v1 tells everything. `SessionsAgree` says that nothing but such a saving (`Oversized`) separates the versions: it may keep an answer from a v2 client, or
close its session in a batch, and otherwise all three admit, grant and take in alike, and decide alike as `TwinsAgree` has it.

### C interface

Every atomic operation and every taking and leaving of a mutex is a step; what
happens under a mutex is one step, for no other thread can look. Handles are
pairs of slot and generation. A session is known by its birth, a history value.
`HandleTable` is the promise of the header: open under a new handle, exchange,
close, end. `AbiSlots` implements it under the mapping at its end (`live` are the
handles of slots that have a session, `used` all that were ever returned).
Buffer and pointer checks, which return before any state is looked at, and the
counters of `get_metrics` are left out. What happens inside an exchange is
`ProtocolSession`.

### TCP server

`shared[w]` is what worker `w`'s mutex guards, `thread[w]` the program counter
and locals of its thread. `phase` is what it waits for (the prefix of a
frame, the rest, or the sending of the answer), `left` the time to the deadline,
`pieces` how many more partial reads or writes there may be. `ready` is two steps: the
look at the flag and the clock (`Check`), and WSAPoll, which ends with bytes
(`Piece`, `PrefixComes`, `FrameComes`, `AnswerSent`), an error (`Lost`) or after
250 ms (`Tick`). A stop can come between the two, so one more frame may be
processed after it. The destructors run from the last worker to the first, also
when a thread cannot be created.

Time is an assumption: it advances by 250 ms at once for everybody, and only when every
thread is blocked. A system so loaded that a thread does not run for
a quarter of a second can exceed the deadlines by that delay. Ownership of sockets
does not depend on it: within a quantum threads interleave freely, and a
deadline can pass before or after any of a client's moves.

Not modelled: failures of `WSAPoll` on the listener, the backlog of the
listener, and the set-up before the first worker exists.

### Event server

`EventServer` has a thread per connection (`handler[c]`: program counter, wire format, what it waits for, time left)
and the main thread (`main`). A critical section of `_connection_count_lock` is one step, and the semaphore is
counted outside it, as in the code: between `ForgetRequest` and `GiveSlot` a slot belongs to nobody. The
slot is released at three places, at goodbye (`Process`), at the end of the thread (`ReleaseLast`) and when a
thread cannot be started (`Undo`); whoever takes the connection out of `active` gives the slot back. An interrupt of the main thread
can come at any of its points; the one between acquiring a slot and registering the
request loses that slot (`leaked`), which no longer matters, for the server is about to close. Time is as in `NativeServer`, with quanta of
`SHUTDOWN_POLL_SECONDS`.

### Adapter session

A step of `AdapterSession` is one whole `process_event`, including the snapshot after it and the governor's turn. `runtime`,
`executed` and `decisions` are the controller, `policy` the policy engine with what it has emitted, `frames` the
statistics, `directives` and `gates` what the client was told, `lifetime` the planner. An event that is refused keeps the
effects it had before the exception: `FrameRefused` creates statistics. `ToResult` is the call that also finalises the
lifetime plan and may be followed by more events. The plans of `to_result` that depend only on one session's frames are
`FramePlans`, evaluated in `PlansMatchTheFrames` in every reachable state.

### Plans, promotion and daemon

`Planning` and `Steering` have one operator (or a few) for each stage and `DaemonLoop` composes them in the order of `to_result`,
from `Packets` to `Plans`. Times count ten-thousandths of a millisecond, the unit the code rounds to. A frame number may be 0, which
the arbiter's `command.frame or -1` takes for none; `LedgerKey` keeps that. It is never -1, which stands for no frame here as it does
in the sort keys of `windowing.py` and `dispatch.py`.
Hops and routes are functions on the places of the results they come from, so that a filter is a smaller domain. The two sorts are
one operator, `Sorted`, which puts an entry where the number of entries ahead of it says and leaves equals as they came. A control
command changes the budgets of its own frame alone, so the stream of `control_packet.py` is kept frame by frame and applied
command by command (`Applied`).
`Promotion` is the chain from a run's last state to the native backend gate, keyed by the action of each decision;
`HostProfile` derives classes and the hint from a reading in which any value may be unknown. It takes the code's own notion of a known
signal: an adapter that reports no memory makes the GPU known (`host.py:143-149`). `OnlyEvidencedWorkAdvances` therefore follows
what that notion lets through, and does not judge it.

In `DaemonLoop` a command is a process: `Start` loads the state, `Observe` takes the snapshot, each `Cycle` replays a
stream and accumulates, then each output is written to a temporary file (`WriteTemp`) that replaces it (`Replace`), or
is given up (`WriteFails`); `Crash` can come anywhere. The PresentMon command first writes its event stream, which another one
may replace before it is replayed. A constant `SessionOf` gives the sessions; what a stage makes of them is computed.

`Planning`, `Steering`, `HostProfile` and `Promotion` translate a great many decision tables, so they were compared with the
Python functions on several hundred random sessions, states and hosts each, field by field, and agree on all of them.

### Not modelled

* Codecs: byte layouts, JSON, and their limits on lengths. A frame is well formed or not. Of the numbers only sizes are decoded and
  encoded as the code does. The one field of an answer that may be too small is the saving in bytes; times are far below their
  limit and the decisions of v2 hold no texts (`fluidlink_v2.py:752-763`).
* `parser.py`, `analyzer.py`, `heuristics.py`, `stats.py`, `report.py`, `management.py`, most of `presentmon_runtime.py`:
  statistics over samples, whose thresholds are judgements and not promises.
* `tracker.py`: its registry is read, extended and replaced like the state file of `DaemonLoop`, and loses updates like it.
* The manifest optimiser of `runtime.py`, the client, the command line apart from the daemon commands, `doctor.py`, summaries, tools,
  packaging: they call what is modelled and print it, or keep no state.
* Reasons, evidence, confidence and counters kept only for reports; rounding; the priority order of reports.

## Runs

Numbers of distinct states are those of the configurations here.

| Run | Question | States |
| --- | --- | --- |
| `core_copies` | Is a transfer only deduplicated while the one kept is intact? Does what a resource remembers stem from its present life? Does Python say the same? | 1,366,000 |
| `core_chains` | Do chains of eliminations, forward dependencies, transients and the budget leave anything executed that is taken for removed? | 191,000 |
| `core_late_registration` | The same without the exception for unregistered endpoints: violated, see Findings | -- |
| `alias_closure` | Does the worklist compute the closure, lose nothing, and end? | 865,000 |
| `protocol_session` | Is what the core holds answered? Does anything act twice, too early or too late? Do the three servers agree, and what can an answer that does not fit do? | 65,000 |
| `abi_slots` | Do slots implement handles? Does every call reach its own session and return? | 481,000 |
| `abi_busy` | Does BUSY mean the same session? Violated, see Findings | -- |
| `native_server` | One owner for each socket, no stalled workers, prompt and complete shutdown? | 700,000 |
| `event_server` | Are slots given back once, deadlines kept, and does closing end and leave nothing? | 605,000 |
| `adapter` | Do statistics, residency, live advice and plans rest on what ran? | 1,436,000 |
| `adapter_held` | Did the transfer that makes another one redundant happen? Violated, see Findings | -- |
| `daemon` | Does the chain of plans keep work, pressure, escalation and missing evidence? Is the state file the end of a whole run? | 1,104,000 |

`TwinsAgree` is checked with `core_copies`, whose requests for that include an allocation and a wait.

### Bounds, and why they are enough

* `core_copies`: three resources and three operations of six kinds, with direct and absent sharing. `FloatBits` is 2 and `WireBits`
  4, in place of 53 and 64: of the sizes 4 and 5 the second is read as the first, so transfers that differ for the core
  alone are among them, and others that are told apart. The ids `o2` and `o3`, which no request names, are interchangeable, and the run uses that symmetry.
  A stale deduplication needs a transfer, a foreign write or a recreation, and
  the repeated transfer; the third resource is the foreign view, and it may change its
  storage when recreated. Longer chains of views are `alias_closure`, where four
  resources with three names give chains of three links, and the theorems, where any number does.
* `core_chains`: three operations, each of seven kinds, are one elimination resting on
  another and one more that relies on both; ids may be submitted in any order, so a
  dependency may name one that comes later, or the operation itself.
* `protocol_session`: `MaxSequence` is 9, enough for a hello that is refused, one
  that is granted, all tables filled to their limits of two, and the last number used up
  (a bound of the model for 2^64 - 1; the code's comparison is the same).
  The third resource and the batch of two go beyond the limits. Sizes are 4, 5 (read as 4) and 15 (read as 16,
  for which a field of four bits has no room), alone and in a batch. Frames arrive with
  any sequence number, so a lost, repeated or late one is among them.
* `abi_slots`: two threads with four calls each, two slots and two generations.
  A stale handle needs create, destroy and create on one slot (three calls) and a late fourth;
  a second generation is also the last, so exhaustion happens.
  `abi_busy` needs a third thread and one slot.
* `native_server`: two workers and three clients, so one finds every worker busy; deadlines of
  one and two quanta keep the two of a prefix apart; two pieces tell a
  deadline per frame from one per read.
* `event_server`: two connections and one slot, so a connection is refused, and one is accepted on a slot that
  another handler still answers from; deadlines of one, two and three quanta tell prefix, frame and idle apart.
* `adapter`: six events (configuration, frame, two resources and two operations, or three operations in two frames), with targets
  of 0 and 10 ms, a budget that one resource exceeds, and costs that together cross nine tenths of a frame, a quarter of it on the copy queue
  and the whole of it.
* `daemon`: two commands, since a third changes nothing the first two cannot; two cycles are the least in which one escalates and a later one does
  not. Six hosts: complete, POSIX (nothing beyond counts known), short of memory, weak without adapters, memory unknown, small adapter. The sessions:
  calm, overrunning with every kind of operation in and outside frame 0, near its budget, and empty.

The runs say CHECK_DEADLOCK FALSE because ids, sequence numbers, calls, events, commands or clients
are used up, a fatal error ends a session, the loop ends and the servers stop. That nothing
waits for ever is `CallsReturn`, `ShutdownCompletes` (of both servers) and `AcceptedIsAttended`.

### Fairness

* `AbiSlots`: weak fairness of each thread's steps inside a call. No fairness between
  waiters of one mutex is assumed. Starting a call is not fair.
* `NativeServer`: weak fairness of the main thread, of each worker's own steps, and
  of time. These are the scheduler's: a thread that can run does. Clients are not fair, so
  a worker may wait for one until the deadline; neither are spurious wake-ups, so a missing
  notification is not covered up by one; nor is the stop.
* `EventServer`: weak fairness of what each handler does by itself (`Alone`: a look at the flag and the deadline, a request already in the buffer,
  processing, releasing, and the end of a read or write whose deadline is over or whose socket is shut), of the main thread, and of time. No client
  is relied upon: receiving a byte, an orderly end and a write that a client takes are not fair.
* The others state no liveness beyond `LoopProgresses`, which is a descent and needs none.

## Proofs

All are about any values of the constants: any ids, aliases, sizes, requests, views and limits of a core; any number
of threads, slots and generations; any number of workers, clients and connection slots, with any deadlines; any events,
targets, budgets and weights of an adapter session; any streams, hosts and number of daemon commands. The
assumptions are that null values are not ids (`NullsAreNotIds`, `NoThreadIsNoThread`, `NoConnectionIsNone`,
`NoSocketIsNoConnection`), that limits, deadlines and counts are positive (`LimitsArePositive`, `BoundsArePositive`,
`ServerBounds`, `EventServerBounds`, `BoundsAssumption`), and that inputs are of their kind (`RequestsAreRequests`, `ViewsAreViews`,
`PathsAreLists`: a daemon command without a stream is refused, `daemon.py:298`; `SessionsAreSessions`: what a replayed stream leaves is a
list of results with ids of their own (`runtime.py:154`), eliminated only by a policy for their type (`decide_operation`), with costs and
targets that are not negative; `EventsAreEvents`: what decoding a well-formed event can yield, and `NumbersAreNatural`: costs, sizes and targets are never
negative, which `nonnegative_number` of `runtime.py` and `number_value` of `policy.py` see to, and are whole in the unit the
reports round to).

`GatewayCoreProofs`:

* `TypeCorrect`: `TypeOK`, by the lemmas of `TwinOpsProofs`, which state for each operator of `CoreOps`
  that it maps cores to cores and what it leaves alone.
* `ProvenanceInvariant`: `ProvenanceInv`, the inductive strengthening of
  `CopyProvenance` and `AllocationProvenance`. The two are not inductive alone: a write
  must be known to retire the copies it touches, which needs `StorageDeclared` (a
  registered resource is stored where it said, so that overlapping storage is shared
  aliases) and `SourcesStay` (a remembered copy made between registered
  endpoints still has a registered source: releasing the source retires it). `OverlapIsAffected` is the central lemma: a
  registered view that overlaps the written one is in `Affected`.
* `DedupeSound`: `DedupeIsSound`, from the invariant and `DedupeRepeats` (a dedupe verdict
  names the copy its target remembers).
* `RemovedSound`: `RemovedIsClosed` and `OrphanSyncIsSound`, by `RemovedInv`: while the
  session lives, an operation is marked removed exactly if it was eliminated and left no
  replacements. This is false once the budget has run out half way, hence its condition `alive`.
* `RetainedSound` and `DecisionsAreAlwaysFinal`: `StepStores` says what a step does to the operations (nothing, or it stores one
  more for the frame it belongs to), and `RetainedIsLive` that what is retained is a copy or an allocation some
  resource remembers, which `ProvenanceInv` says was executed.

* `TwinsAlwaysAgree`: the native core and the Python reference admit the same and, as long as floats tell the sizes apart, remember the same and
  give the same advice, for any precision; from `TwinInvariant`. The invariant is `Tracks` (in `TwinOpsProofs`): the same resources, operations and frame always, and
  `Same` if the sizes processed are told apart. `Same` relates the two states table by table: a resource's copy pointer to `lastCopy`, its allocation pointer
  to the entry of `activeBuffers` under its id and the float of the size stored with the allocation, the flags of a stored operation to
  `replacements` and `removed`, with what the Python side copied of an operation (`Kept`) equal to what the native side reads
  through the pointer. `SameConditions` shows each condition of one to be one of the other's (where two floats are compared it needs the sizes to be `Distinguished`),
  `OneCondition` that the order they are asked in does not matter, and one lemma per operation that `Tracks` is kept (`ProcessTracks` uses that sizes told apart after an
  operation were told apart before it: no operation is forgotten). These are in `TwinOpsProofs`, for the sessions
  need them too. `ExactTwinsAgree` drops the condition where every size is at most 2^`FloatBits`.
  `TwinsImplementCore` says that the runs' `TwinSpec` implements `GatewayCore`'s `Spec`.

Of the worklist, `LoopInvariant` (the views settled by the cursor meet nothing that is left; both arrays together hold every
resource; the first holds only members of the closure), and from it `LoopIsCorrect`, `LoopLosesNothing` and `LoopDescends`: the
closure these proofs rely on is what the code computes.

`ProtocolSessionProofs`: `SessionInvariant` joins `TypeOK`, `CoreIsAnswered`, `GrantedBeforeUse` and the limits of the two tables;
`CoreIsAlwaysAnswered`, `GrantedAlwaysBeforeUse` and `TablesStayWithinLimits` are read off. Each request is shown to be `Accounted` for: unless the session
ends, what it added to the core is what its answer tells. For a batch that is an induction over its operations (`BatchProgress`),
whose cores `BatchCores` defines recursively. The induction is over a set of numbers (`InductiveSet`, by
the least number outside it), which the provers can instantiate; it also shows that the recursive definition has a solution
(`BatchCoresDefined`). `ActsAtMostOnce` (nothing happens twice under one number, nor anything after the end), `NegotiatedAtMostOnce` and `ClosedIsAlwaysFinal` are about single steps.

Of the Python sessions, `SessionsAlwaysAgree` and `DecisionsAreAlwaysSent` are read off `TwinSessionInvariant`. A Python session is `Level`
with the native one if it expects the same sequence number, accepted the same capabilities, `Tracks` the native core and
`Tells` its client of the same operations, but for those of v2 whose saving did not fit. FluidLink v2 is level until the native session closes or such a saving ends its
own in a batch (`OversizedIn`, which cannot become empty again, for the core keeps what it stored: `Keeps`), v1 until the native one closes or
a frame was read differently (`parted`). That the decisions told are those relied on (`Honest`) is part of `Sent`, which holds in any case, also after the native session closed; `ProcessRelies` is
the reason: what is executed always has an answer that fits, for it saves nothing, and what is eliminated adds nothing that is relied on. Each handler is shown to treat
a level session as the native one does: a hello, an event, a goodbye, and a batch, which is again an induction (`BatchRun` of the Python side
beside `BatchCores` of the native). Here a proof failed that had to: the Python
`release_resource` also invalidates what is remembered of an id that is not registered, which an earlier `ResourceEvent` of
`TwinSessions` left out. The operator now does what the code does, and the run's events release ids that are and are not registered.

`AbiSlotsProofs`: the inductive invariant says of each thread what it holds and owns at each program counter (`ThreadInv`), of each
slot that a session has the handle it was issued under and that a reserved slot has a session, a create or no handles left (`SlotInv`),
that at most one create is at work on a slot (`CreatorsApart`) and that no handle is ahead of its slot's generation (`Issued`). Then `ReservationsAreExact`, `CreatesAvoidSessions`
and `CallsReachTheirs` are read off; `SessionsEndByTheirs` is about steps, by the few ways a session's field can change
(`SessionSteps`). `SlotsImplementHandleTable` maps each step to one of the table or to a stutter: storing a session is
`Open` (there is room for one, `RoomForOne`), clearing it is the end of a session, and the handle is fresh because of `Issued`.

`NativeServerProofs`:

* `StalledClientsAreAlwaysDropped`: what a worker has been held and the time it has left never add up to more than the end of the
  phase it is in (`Timely`), and the three phases end one after the other.
* `ShutdownIsAlwaysPrompt`: where the main thread is tells which threads have begun (`MainInv`), a worker that sleeps
  and has been told to exit is the one about to be notified (`AsleepInv`), and after one quantum of a shutdown nobody polls (`DrainInv`).
  `NoQuietShutdown` concludes that time cannot pass again: the main thread joins a worker that has something to do.
* `SocketsAlwaysHaveOneOwner`: the hands that can hold a socket hold the open connections, each once (`HandInv`). Five moves keep
  that (`HandlingKeepsHands`), and every step is one of them; the assignment needs that a worker is busy from it until
  it has closed the socket, and is gone only when there is none (`WorkerInv`).

`EventServerProofs`: `StalledClientsDropped` from `Clocks` (what was held and what is left keep to the deadline of the stage);
`SlotsAlwaysAddUp` from where a slot can be at each program counter (`SlotInv`); `DoneIsAlwaysQuiet` from who sees to a
connection at its end (`Ends`): its thread, `server_close`, or the step that could not start the thread.

`AdapterSessionProofs` needs sums. The model adds up costs and sizes with the `MapThenSumSet` of the community modules; `SumsExist` and
`SumsAgree` show that a function with the equations of such a sum exists over every finite set and is unique, by a
least subset without it (`LeastSubset`), and `CostAdd`, `CostUnion` and `CostImage` are what the proofs use: adding an element, joining disjoint sets,
and an injective image.

* `FramesAlwaysAddUp`: the statistics a frame keeps (`WithStats`, `Charge`, `Book`) are the sums over what was executed and dropped in it.
  `BooksInv` adds that an operation counts once because its id is used once (`Identified`: what was executed or dropped is
  among the ids the controller knows), and that actions are counted once because each is remembered under what it is
  about. It is shown for one book kept (`BookedKept`), dropped, charged and marked, and then for each event.
* `ResidencyIsAlwaysTracked`: `ResidencyInv` says that what the policy engine holds resident is what the controller has registered, for an
  event the controller refuses does not reach the engine, and that the open frame was warned of each layer over its budget: every step
  that can change either ends with the governor's turn (`EventsGovern`).
* `HeldWorkIsAlwaysAnnounced`: the gate holds work back by the statistics before the operation, the governor speaks by
  those after it. As costs are never negative, the governor's are no less (`GovernorProtects`).
* `PlansAlwaysMatchTheFrames`: by `AnsweredInv`, the gate's answer to an executed operation lets it run and that to a dropped one does not. The
  steps of a frame's schedule and the entries of the ledger are then injective images of the executed operations, so their
  sums are those of the statistics (`ScheduleAddsUp`, `LedgerAddsUp`); `CopyBudgetFits` does the arithmetic of the copy budget.

`DaemonLoopProofs`: `DaemonInvariant` says of a command at each point that it has counted its cycles on from the state it loaded
(`Counted`), that its other outputs are due only when every cycle has run (`Outstanding`), and that the events file a PresentMon
command replays is there. Its strengthening over what the runs check is `Recorded`: a cycle blocks commands exactly if it escalated, which
`EscalationBlocks` reads off the supervisor's plan and its execution.

* `StateFileAlwaysHoldsAWholeRun` is about steps: only one replaces the state (`StateIsReplaced`), and it is the last of its run.
* `EscalationAlwaysHoldsPromotion`: the daemon decides by the number of commands blocked over all cycles. That number is positive
  exactly if one of the cycles escalated, whichever it was (`SumIsPositive`, by a least subset without it, and
  `EscalationIsCounted`), and then `HoldsBack` follows it through decision, queue and arbitration.
* `OnlyEvidencedWorkEverAdvances`: the reports from queue to gate are functions on the same actions, and what they say of one depends on no
  other (`ReportsAreByAction`). So each action is followed alone: one that needs the native side is stopped for that reason
  (`NativeIsBlocked`), any other is probed and may lack evidence, but is never blocked as native (`OthersNeedEvidence`).

* `DispatchAlwaysHonoursTheSession`: the plan of any session is followed result by result. In a line of places the number of
  places ahead is different for each, and so runs through all numbers (`LineIsNumbered`); hence a sort by any order is a bijection
  (`LineReorders`, `OrderLines`), whether it is the windows' (`SlotsAreSorted`) or the phases' (`DispatchIsSorted`). `Holds` says that a packet has every
  routed result once and no other, `CarriesOut` that the steps have every command of it once, with the outcome its window and its
  ledger give it; `NothingIsLost` composes the two. For the budgets, what the arbiter admits of a frame's window is a
  part of what was used up to the last command it admits, so the sum of it is no more than the limit that command met
  (`AdmittedFits`). Sums over parts are compared with `SumsSplit` and `SumsGrow`, and those over a packet and over its steps with `SumsCopied`.
* `PressureAlwaysClosesTheCopyQueue` needs an invariant of its own beside `DaemonInv`, `CopyBudgetIsCarried`: what a command holds is the state
  of the last plan it replayed, whatever it loaded. Then `PlanCloses` follows a frame that overran through the stages: the calibration
  asks for pressure, the manager gives no copy budget (`DirectiveCloses`), four commands carry that to the gateway
  (`StreamCarriesCopyBudget`), whose tick blocks (`TickBlocks`), the feedback asks for pressure again (`FeedbackForm`), and as no copy budget is
  negative the least of them is zero (`PressureClosesTheBudget`), which no supervision changes (`SupervisorCloses`). That a
  planned cost is a number at all comes from the theorem before.

Every invariant and every action property of a passing run is stated by a theorem. Only model-checked are the four liveness
properties, which this prover does not reach under fairness: `CallsReturn` of the C interface, `AcceptedIsAttended` of the native server, and
`ShutdownCompletes` of both servers. That `Planning` and `Steering` say of a session what the Python functions compute is
tested, not proved (see Plans, promotion and daemon).

## Findings

* `core_late_registration`. `docs/code-review-2026-09-05.md:13` lists stale cached transfers after
  writes to aliases as fixed. `State::invalidate` retires a remembered copy for a write to an
  alias of its source only if the source is registered at that time. A copy from a source that is
  not registered yet is remembered all the same (only the target need be). If a view of the source
  is then written, the source is registered and the copy repeated, it is deduplicated. The same
  document asks for truthful declarations, line 29; these are truthful, but late. `DedupeIsSound`
  therefore excepts copies made while an endpoint was unknown, and is proved with that exception.
* `abi_busy`. `docs/inprocess-gateway.md:51` says that BUSY means a simultaneous call on the
  same session. The slot's mutex is tried before the handle is compared, so a call with the handle
  of an earlier session of the slot makes a call of the present session BUSY.
* `adapter_held`. `runtime.py:297` drops a transfer because "Previous transfer already populated the same target from the same
  source." The adapter has the controller record an operation as executed before the execution gate is asked (`adapter.py:504`), and
  a gate that holds it back (`should_execute` false, `gate.py:119`) takes nothing back. A client that follows both answers
  never runs the transfer: the first is held out of the hot frame, its repetition is dropped as redundant.

Two things met while modelling that are not disagreements with a text: `daemon_decision.py:252` waits for a policy action
`tighten-runtime-pressure-policy` that no stage produces (`policy_update.py:233` says `tighten-runtime-guardband-policy`), and two daemon commands on one state
file lose the cycles of the one that ends first.

## Plan

Done, in this order: the core and its proofs, the worklist, the session, the C interface, the native server; the Python decision state beside
the core, the Python sessions beside the native one, the event server, the adapter session, the plans, the daemon.
Next:

1. A refinement of an abstract counting semaphore by `EventServer`.
2. The trace registry with `DaemonLoop`'s files, and the manifest optimiser over `RuntimeOps`.
