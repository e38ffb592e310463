-------------------------- MODULE ProtocolSession --------------------------
(***************************************************************************)
(* One FluidLink v2 session of the native gateway: ProtocolSession in      *)
(* native/src/protocol.cpp around the decision core.  Any frame may arrive *)
(* at any time: repeated, out of sequence, before the handshake, after the *)
(* end, for another session, or one that cannot be decoded.                *)
(*                                                                         *)
(* A frame is [request, opcode, sequence, session, plain, body]: whether   *)
(* it is a request, what it asks, the two correlation fields, whether the  *)
(* header fields that must be zero are, and the decoded payload.           *)
(***************************************************************************)
EXTENDS CoreOps

CONSTANTS
    Identity, NoIdentity,   \* the session's UUID, and the absent one
    MaxSequence,            \* the largest sequence number, 2^64 - 1 in the code
    Frames,                 \* what clients send, sequence numbers left out
    BatchId                 \* batch identities: <<b, i>> is operation i of b

ASSUME MaxSequenceIsPositive == MaxSequence \in Nat \ {0}

\* What decoding a well formed event yields, by the object it is about.
EventBody(b) ==
    \/ b.subject \in {"session", "snapshot", "unknown"}
    \/ b.subject = "frame" /\ b.frame \in FrameId
    \/ b.subject = "resource" /\ b.action = "release"
    \/ b.subject = "resource" /\ b.action = "register" /\ b.id \in ResourceId /\ b.view \in View
    \/ b.subject = "operation" /\ b.id \in OperationId /\ b.op \in Request
    \/ /\ b.subject = "batch" /\ b.count \in Nat /\ b.op \in Request
       /\ \A i \in 0..(b.count - 1) : <<b.batch, i>> \in OperationId

ASSUME EventsAreEvents ==
    \A f \in Frames : f.opcode = "event" /\ f.body.wellFormed => EventBody(f.body)

\* Capability bits by weight.
Offered == {1, 2, 4, 8, 16, 32, 64, 128}
Runtime == {1, 2, 8, 16}
Heartbeat == 4
Batch == 128

VARIABLES
    core,
    sequence,       \* the next sequence number to be accepted
    negotiated, capabilities,
    batch,          \* the batch contract was asked for
    closed,
    answered        \* operations whose decision was returned to the client

vars == <<core, sequence, negotiated, capabilities, batch, closed, answered>>

TypeOK ==
    /\ IsCore(core)
    /\ sequence \in 1..MaxSequence
    /\ negotiated \in BOOLEAN
    /\ capabilities \subseteq Offered
    /\ batch \in BOOLEAN
    /\ closed \in BOOLEAN
    /\ answered \subseteq Processed(core)

Init ==
    /\ core = EmptyCore
    /\ sequence = 1
    /\ negotiated = FALSE
    /\ capabilities = {}
    /\ batch = FALSE
    /\ closed = FALSE
    /\ answered = {}

-----------------------------------------------------------------------------
(* Which frames get as far as being acted on.                              *)

Admissible(f, n) ==
    /\ f.request
    /\ n = sequence
    /\ negotiated => f.session = Identity
    /\ ~closed

\* Refused without a trace (errors 1, 6, 7 and 12).
Refuse(f, n) == ~Admissible(f, n) /\ UNCHANGED vars

\* The last number is never used up: the session ends instead.
SequenceExhausted(f, n) ==
    /\ Admissible(f, n)
    /\ sequence = MaxSequence
    /\ closed' = TRUE
    /\ UNCHANGED <<core, sequence, negotiated, capabilities, batch, answered>>

\* A faulty variant, for the check that the properties notice it: an event may be
\* sent again.
ConsumeUnlessEvent(f, n) ==
    /\ Admissible(f, n)
    /\ sequence # MaxSequence
    /\ sequence' = IF f.opcode = "event" THEN sequence ELSE sequence + 1

\* An admitted frame uses up its sequence number before anything else.
Consume(f, n) ==
    /\ Admissible(f, n)
    /\ sequence # MaxSequence
    /\ sequence' = sequence + 1

\* Bytes that are no frame: both hosts of a session end it.
Undecodable ==
    /\ closed' = TRUE
    /\ UNCHANGED <<core, sequence, negotiated, capabilities, batch, answered>>

-----------------------------------------------------------------------------
(* Handshake.                                                              *)

HelloParses(f) ==
    /\ f.opcode = "hello"
    /\ f.plain /\ f.session = NoIdentity
    /\ f.body.wellFormed
    /\ f.body.requested \cup f.body.required \subseteq Offered

KnownContract(f) == HelloParses(f) /\ f.body.contract \in {"base", "batch"}

\* A faulty variant, for the check that the properties notice it: batches are granted
\* under any contract.
AvailableAlways(f) == Offered

Available(f) == IF f.body.contract = "batch" THEN Offered ELSE Offered \ {Batch}

CanNegotiate(f) ==
    /\ KnownContract(f)
    /\ f.body.contract = "batch" => Batch \in f.body.required
    /\ f.body.required \subseteq Available(f)

\* A faulty variant, for the check that the properties notice it: a hello needs
\* no session, and a session can be negotiated again.
HelloAgain(f, n) ==
    /\ f.request /\ n = sequence /\ ~closed
    /\ sequence # MaxSequence
    /\ sequence' = sequence + 1
    /\ CanNegotiate(f)
    /\ batch' = (f.body.contract = "batch")
    /\ capabilities' = (f.body.requested \cup f.body.required) \cap Available(f)
    /\ negotiated' = TRUE
    /\ closed' \in BOOLEAN
    /\ UNCHANGED <<core, answered>>

Hello(f, n) ==
    /\ Consume(f, n)
    /\ ~negotiated
    /\ CanNegotiate(f)
    /\ batch' = (f.body.contract = "batch")
    /\ capabilities' = (f.body.requested \cup f.body.required) \cap Available(f)
    /\ negotiated' = TRUE
    /\ closed' \in BOOLEAN    \* no memory for the answer ends the session
    /\ UNCHANGED <<core, answered>>

\* The contract a refused hello named is still remembered.
HelloRefused(f, n) ==
    /\ Consume(f, n)
    /\ ~negotiated
    /\ ~CanNegotiate(f)
    /\ batch' = IF KnownContract(f) THEN f.body.contract = "batch" ELSE batch
    /\ UNCHANGED <<core, negotiated, capabilities, closed, answered>>

-----------------------------------------------------------------------------
(* Requests within the session.                                            *)

\* What became of a request: the core after it, whether the session ends, and
\* the operations answered.
Outcome(c, fatal, ids) == [core |-> c, fatal |-> fatal, answered |-> ids]

Unchanged == Outcome(core, FALSE, {})
Done(c) == Outcome(c, FALSE, {})
Ended(c) == Outcome(c, TRUE, {})

FrameOutcomes(b) ==
    {CASE b.action = "begin" /\ CanBeginFrame(core) -> Done(BeginFrame(core, b.frame))
       [] b.action = "end" /\ CanEndFrame(core, b.frame) -> Done(EndFrame(core))
       [] OTHER -> Unchanged}

ResourceOutcomes(b) ==
    CASE b.action = "release" -> {Done(ReleaseResource(core, b.id))}
      [] b.action = "register" /\ ~CanRegister(core, b.id) -> {Unchanged}
      [] b.action = "register" /\ CanRegister(core, b.id) ->
            {Ended(core)} \cup
            IF ResourceTableFull(core) THEN {} ELSE {Done(RegisterResource(core, b.id, b.view))}

\* Processing one operation on core c, or running out of memory in it.
OperationOutcomes(c, id, op) ==
    CASE ~CanProcess(c, id) -> {Outcome(c, FALSE, {})}
      [] CanProcess(c, id) /\ OperationTableFull(c) -> {Ended(c)}
      [] CanProcess(c, id) /\ ~OperationTableFull(c) ->
            {Outcome(Process(c, id, op), FALSE, {id})} \cup
            {Ended(d) : d \in ProcessCutShort(c, id, op)}

\* What operation i of a batch makes of the cores it may find.
BatchStep(b, cores, i) == UNION {OperationOutcomes(c, <<b.batch, i - 1>>, b.op) : c \in cores}

\* The cores a batch goes through: as far as each operation gets an answer.
BatchCores(b) ==
    LET run[i \in 0..b.count] ==
            IF i = 0 THEN {core}
            ELSE {o.core : o \in {p \in BatchStep(b, run[i - 1], i) : p.answered # {}}}
    IN  run

BatchIds(b) == {<<b.batch, i>> : i \in 0..(b.count - 1)}

\* Where it stopped, if an operation got none.
BatchStops(b, i) ==
    {o.core : o \in {p \in BatchStep(b, BatchCores(b)[i - 1], i) : p.answered = {}}}

\* A faulty variant, for the check that the properties notice it: a batch that stops
\* half way is refused and the session goes on.
BatchOutcomesOpen(b) ==
    {Outcome(c, FALSE, BatchIds(b)) : c \in BatchCores(b)[b.count]} \cup
    {Done(c) : c \in UNION {BatchStops(b, i) : i \in 1..b.count}}

\* A batch is answered as a whole, or ends the session wherever it stopped.
BatchOutcomes(b) ==
    {Outcome(c, FALSE, BatchIds(b)) : c \in BatchCores(b)[b.count]} \cup
    {Ended(c) : c \in UNION {BatchStops(b, i) : i \in 1..b.count}}

EventOutcomes(b) ==
    CASE ~b.wellFormed -> {Unchanged}
      [] b.wellFormed /\ b.subject = "frame" -> FrameOutcomes(b)
      [] b.wellFormed /\ b.subject = "resource" -> ResourceOutcomes(b)
      [] b.wellFormed /\ b.subject = "operation" -> OperationOutcomes(core, b.id, b.op)
      [] b.wellFormed /\ b.subject = "batch" ->
            IF batch /\ Batch \in capabilities THEN BatchOutcomes(b) ELSE {Unchanged}
      [] b.wellFormed /\ b.subject \in {"session", "snapshot", "unknown"} -> {Unchanged}

Event(f, n) ==
    /\ Consume(f, n)
    /\ negotiated
    /\ f.opcode = "event"
    /\ \E o \in IF f.plain /\ Runtime \subseteq capabilities
                THEN EventOutcomes(f.body) ELSE {Unchanged} :
           /\ core' = o.core
           /\ \/ closed' = o.fatal /\ answered' = answered \cup o.answered
              \/ closed' = TRUE /\ UNCHANGED answered   \* no memory for the answer
    /\ UNCHANGED <<negotiated, capabilities, batch>>

\* Heartbeats, answered or refused, and opcodes nobody knows change nothing.
NoEffect(f, n) ==
    /\ Consume(f, n)
    /\ negotiated
    /\ \/ f.opcode \notin {"event", "goodbye"}
       \/ f.opcode = "goodbye" /\ ~(f.plain /\ f.body.wellFormed)
    /\ UNCHANGED <<core, negotiated, capabilities, batch, closed, answered>>

Goodbye(f, n) ==
    /\ Consume(f, n)
    /\ negotiated
    /\ f.opcode = "goodbye" /\ f.plain /\ f.body.wellFormed
    /\ closed' = TRUE
    /\ UNCHANGED <<core, negotiated, capabilities, batch, answered>>

\* No memory to read the request: the session ends.
OutOfMemory(f, n) ==
    /\ Consume(f, n)
    /\ closed' = TRUE
    /\ UNCHANGED <<core, negotiated, capabilities, batch, answered>>

Arrive(f, n) ==
    \/ Refuse(f, n) \/ SequenceExhausted(f, n)
    \/ Hello(f, n) \/ HelloRefused(f, n)
    \/ Event(f, n) \/ NoEffect(f, n) \/ Goodbye(f, n)
    \/ OutOfMemory(f, n)

Next == Undecodable \/ \E f \in Frames, n \in 1..MaxSequence : Arrive(f, n)

Spec == Init /\ [][Next]_vars

-----------------------------------------------------------------------------
(* Properties.                                                             *)

\* While the session is open the client has been told the decision of exactly
\* the operations the core holds: no operation is processed without an answer,
\* and a batch that stops half way takes the session with it.
CoreIsAnswered == ~closed => Processed(core) = answered

\* Nothing reaches the core but through a handshake that granted all of the
\* runtime capabilities, and batches are granted only under their contract.
GrantedBeforeUse ==
    /\ core # EmptyCore => negotiated /\ Runtime \subseteq capabilities
    /\ negotiated => (Batch \in capabilities <=> batch)

\* The tables never outgrow their limits, not even in the middle of a batch.
WithinLimits ==
    /\ Cardinality(Registered(core)) <= ResourceLimit
    /\ Cardinality(Processed(core)) <= OperationLimit

\* A request acts at most once, and only until the session ends: whatever acts uses up
\* its sequence number, a number, once used, is never admitted again, and after a goodbye
\* or an error that ends the session nothing acts.
ActsOncePerSequence ==
    [][/\ sequence' \in {sequence, sequence + 1}
       /\ <<core, answered, negotiated, batch>>' # <<core, answered, negotiated, batch>>
              => ~closed /\ sequence' = sequence + 1
       /\ closed => closed']_vars

\* What was negotiated stays: no later hello widens or takes away a capability.
NegotiatedOnce ==
    [][negotiated => UNCHANGED <<negotiated, capabilities, batch>>]_vars

\* A session that ended, by goodbye or by an error, decides nothing any more.
ClosedIsFinal == [][closed => UNCHANGED vars]_vars
=============================================================================
