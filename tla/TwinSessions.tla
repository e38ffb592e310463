---------------------------- MODULE TwinSessions ----------------------------
(***************************************************************************)
(* The Python sessions beside the native one: every frame that reaches the *)
(* native ProtocolSession is also given to FluidLinkV2ServerSession        *)
(* (fluidlink_v2.py) and, said in JSON, to FluidLinkServerSession          *)
(* (fluidlink.py), each in front of a RuntimeAdapterSession of its own.    *)
(* The Python sessions have no limits and no memory budget, so a           *)
(* comparison with the native one ends where that session does.            *)
(*                                                                         *)
(* A Python session is a record                                            *)
(*   expected      the next sequence number                                *)
(*   negotiated    session_id is set                                       *)
(*   accepted      the accepted capabilities                               *)
(*   batch         the contract digest is the batch contract's             *)
(*   closed                                                                *)
(*   state, frame  the runtime state and the open frame behind the handler *)
(*   answered      operations whose decision was returned                  *)
(*   json          answers are JSON (v1), not fields of a fixed width (v2)  *)
(* A size comes to either handler as a float.                              *)
(***************************************************************************)
EXTENDS ProtocolSession, TwinOps

VARIABLES
    v2, v1,     \* the sessions of the two versions
    parted      \* v1 was sent something the versions read differently

twinVars == <<v2, v1, parted>>

NewSession(json) ==
    [expected |-> 1, negotiated |-> FALSE, accepted |-> {}, batch |-> FALSE, closed |-> FALSE,
     state |-> EmptyState, frame |-> NoFrame, answered |-> {}, json |-> json]

TwinInit == Init /\ v2 = NewSession(FALSE) /\ v1 = NewSession(TRUE) /\ parted = FALSE

-----------------------------------------------------------------------------
(* The event handler: RuntimeAdapterSession, or an exception.              *)

TwinFrameOf(p, op) == IF op.frame = NoFrame THEN p.frame ELSE op.frame

PolicyFor(p, op) == DecideOperation(p.state, Decoded(op), TwinFrameOf(p, op))

\* A faulty variant, for the check that the properties notice it: the answer repeats the
\* size, whether it was saved or not.
AnswerableBySize(p, op) == p.json \/ FitsField(op.bytes)

\* Whether the answer can be encoded: the fields of v2 have no room for a saving that
\* was rounded up too far.  A wait that is dropped saves no memory.
Answerable(p, op) ==
    \/ p.json
    \/ PolicyFor(p, op) \in {"none", "remove-orphan-sync", "remove-empty-sync"}
    \/ FitsField(op.bytes)

\* p with operation id processed.  Where the answer cannot be encoded the client is told
\* that the event was rejected, but the state has taken it in.
Handled(p, id, op) ==
    [p EXCEPT !.state = ProcessState(@, id, Decoded(op), TwinFrameOf(p, op)),
              !.answered = IF Answerable(p, op) THEN @ \cup {id} ELSE @]

FrameEvent(p, b) ==
    CASE b.action = "begin" /\ p.frame = NoFrame -> [p EXCEPT !.frame = b.frame]
      [] b.action = "end" /\ p.frame = b.frame -> [p EXCEPT !.frame = NoFrame]
      [] OTHER -> p

\* A release is carried out also for an id that is not registered.
ResourceEvent(p, b) ==
    CASE b.action = "release" -> [p EXCEPT !.state = ReleaseState(@, b.id)]
      [] b.action = "register" /\ b.id \notin Known(p.state) ->
            [p EXCEPT !.state = RegisterState(@, b.id, b.view)]
      [] OTHER -> p

OperationEvent(p, b) == IF b.id \in p.state.ids THEN p ELSE Handled(p, b.id, b.op)

RuntimeEvent(p, b) ==
    CASE ~b.wellFormed -> p
      [] b.wellFormed /\ b.subject = "frame" -> FrameEvent(p, b)
      [] b.wellFormed /\ b.subject = "resource" -> ResourceEvent(p, b)
      [] b.wellFormed /\ b.subject = "operation" -> OperationEvent(p, b)
      [] b.wellFormed /\ b.subject \in {"session", "snapshot", "unknown"} -> p

\* A session that ends in the middle of a batch; the decisions of the batch are not sent.
Broken(r, p) == [r EXCEPT !.closed = TRUE, !.answered = p.answered]

\* The operations are handled one by one, and what was handled stays: the session ends
\* where one is refused.
BatchRun(p, b) ==
    LET Member(i) == <<b.batch, i - 1>>
        run[i \in 0..b.count] ==
            IF i = 0 THEN p
            ELSE IF run[i - 1].closed THEN run[i - 1]
            ELSE IF Member(i) \in run[i - 1].state.ids THEN Broken(run[i - 1], p)
            ELSE Handled(run[i - 1], Member(i), b.op)
    IN  run

\* It also ends if one of the decisions, all taken by then, cannot be encoded.
OperationBatch(p, b) ==
    LET last == BatchRun(p, b)[b.count]
    IN  IF last.closed \/ BatchIds(b) \subseteq last.answered THEN last ELSE Broken(last, p)

-----------------------------------------------------------------------------
(* FluidLink v2.                                                           *)

V2Hello(p, f) ==
    LET available == IF f.body.contract = "batch" THEN Offered ELSE Offered \ {Batch}
        agreed == /\ f.plain /\ f.session = NoIdentity
                  /\ f.body.wellFormed
                  /\ f.body.requested \cup f.body.required \subseteq Offered
                  /\ f.body.contract \in {"base", "batch"}
                  /\ f.body.contract = "batch" => Batch \in f.body.required
                  /\ f.body.required \subseteq available
    IN  IF agreed
        THEN [p EXCEPT !.negotiated = TRUE,
                       !.batch = (f.body.contract = "batch"),
                       !.accepted = (f.body.requested \cup f.body.required) \cap available]
        ELSE p

V2Event(p, b) ==
    CASE ~(Runtime \subseteq p.accepted) -> p
      [] Runtime \subseteq p.accepted /\ b.wellFormed /\ b.subject = "batch" ->
            IF p.batch /\ Batch \in p.accepted THEN OperationBatch(p, b) ELSE p
      [] OTHER -> RuntimeEvent(p, b)

V2Request(p, f) ==
    CASE f.opcode = "event" /\ f.plain -> V2Event(p, f.body)
      [] f.opcode = "goodbye" /\ f.plain /\ f.body.wellFormed -> [p EXCEPT !.closed = TRUE]
      [] OTHER -> p

-----------------------------------------------------------------------------
(* FluidLink v1: one contract, named capabilities of which unknown ones    *)
(* are ignored unless required, no batches, and a goodbye may say anything.*)

V1Hello(p, f) ==
    LET named == f.body.requested \cup f.body.required
        agreed == /\ f.plain /\ f.session = NoIdentity
                  /\ f.body.wellFormed
                  /\ f.body.contract = "base"
                  /\ f.body.required \subseteq Offered \ {Batch}
    IN  IF agreed
        THEN [p EXCEPT !.negotiated = TRUE, !.accepted = named \cap (Offered \ {Batch})]
        ELSE p

V1Request(p, f) ==
    CASE /\ f.opcode = "event" /\ f.plain
         /\ Runtime \subseteq p.accepted
         /\ f.body.wellFormed => f.body.subject # "batch"
            -> RuntimeEvent(p, f.body)
      [] f.opcode = "goodbye" /\ f.plain -> [p EXCEPT !.closed = TRUE]
      [] OTHER -> p

\* Where the two versions differ by design.
ReadDifferently(f) ==
    \/ /\ f.opcode = "hello"
       /\ \/ f.body.contract = "batch"
          \/ ~(f.body.requested \cup f.body.required \subseteq Offered)
    \/ f.opcode = "event" /\ f.body.wellFormed /\ f.body.subject = "batch"
    \/ f.opcode = "goodbye" /\ ~f.body.wellFormed

-----------------------------------------------------------------------------
(* process of either version.                                              *)

Counted(p) == [p EXCEPT !.expected = @ + 1]

\* A faulty variant, for the check that the properties notice it: a frame of another
\* session uses up the number.
ServeStrangers(p, f, n, greeted, served) ==
    CASE ~(f.request /\ n = p.expected) -> p
      [] f.request /\ n = p.expected /\ ~p.negotiated ->
            IF f.opcode = "hello" THEN greeted ELSE Counted(p)
      [] f.request /\ n = p.expected /\ p.negotiated ->
            IF f.session # Identity \/ p.closed THEN Counted(p) ELSE served

\* Session p after the request; greeted and served are what its two handlers make of it.
Serve(p, f, n, greeted, served) ==
    CASE ~(f.request /\ n = p.expected) -> p
      [] f.request /\ n = p.expected /\ ~p.negotiated ->
            IF f.opcode = "hello" THEN greeted ELSE Counted(p)
      [] f.request /\ n = p.expected /\ p.negotiated ->
            IF f.session # Identity \/ p.closed THEN p ELSE served

ServeV2(p, f, n) == Serve(p, f, n, V2Hello(Counted(p), f), V2Request(Counted(p), f))
ServeV1(p, f, n) == Serve(p, f, n, V1Hello(Counted(p), f), V1Request(Counted(p), f))

\* A frame that reaches an open native session is read by all three, by the v1 session
\* as long as the versions read it alike.
TwinNext ==
    \/ Undecodable /\ UNCHANGED twinVars
    \/ /\ ~closed
       /\ \E f \in Frames, n \in 1..MaxSequence :
            /\ Arrive(f, n)
            /\ v2' = ServeV2(v2, f, n)
            /\ parted' = (parted \/ ReadDifferently(f))
            /\ v1' = IF parted' THEN NewSession(TRUE) ELSE ServeV1(v1, f, n)
    \/ /\ closed
       /\ \E f \in Frames, n \in 1..MaxSequence : Arrive(f, n)
       /\ UNCHANGED twinVars

TwinSpec == TwinInit /\ [][TwinNext]_<<vars, twinVars>>

-----------------------------------------------------------------------------
(* Properties.                                                             *)

\* The operations of the core whose saving v2 could not put into an answer.
Oversized == {o \in Processed(core) : ~FitsField(core.operations[o].bytes)}

Alike(p) ==
    /\ p.expected = sequence
    /\ p.negotiated = negotiated
    /\ negotiated => p.accepted = capabilities
    /\ SameAdmission(core, p.state, p.frame)
    /\ ToldApart(SizesOf(core)) => SameState(core, p.state, p.frame)
    /\ p.answered \subseteq answered
    /\ answered \ p.answered \subseteq IF p.json THEN {} ELSE Oversized

\* The three servers of the protocol are interchangeable: whatever is sent, in whatever
\* order, they admit the same frames, grant the same capabilities, take in the same
\* operations and end by the same frames, and they decide alike as long as Python tells
\* the sizes apart; FluidLink v1 as long as nothing is sent that v2 added.  Only a saving
\* that does not fit costs a v2 client an answer, and in a batch its session.
SessionsAgree ==
    /\ v2.closed => closed \/ Oversized # {}
    /\ ~closed /\ ~v2.closed => Alike(v2) /\ (negotiated => v2.batch = batch)
    /\ ~closed /\ ~parted => Alike(v1) /\ ~v1.closed

\* The transfers and allocations that later decisions may rest on.
Relied(s) == {s.lastCopy[t].id : t \in DOMAIN s.lastCopy}
                 \cup {s.activeBuffers[key].id : key \in DOMAIN s.activeBuffers}

\* A Python session that is still open has sent the decision of every operation its
\* runtime state has taken in, but for some that it eliminated (fluidlink_v2.py:1487):
\* what a client was told is rejected is nothing that a later decision makes it rely on.
DecisionsAreSent ==
    \A p \in {v1, v2} : ~p.closed =>
        /\ p.answered \subseteq p.state.ids
        /\ p.json => p.state.ids \subseteq p.answered
        /\ p.state.ids \ p.answered \subseteq DOMAIN p.state.replacements
        /\ Relied(p.state) \subseteq p.answered
=============================================================================
