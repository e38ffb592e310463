------------------------- MODULE MCProtocolSession -------------------------
(***************************************************************************)
(* Model checking values for TwinSessions: good and bad hellos under       *)
(* both contracts, every event once, releases of ids that are and are not  *)
(* registered, batches of two whose second id a single operation may have  *)
(* taken, with sizes that floats merge or round up too far, and the frames  *)
(* that end a session.                                                     *)
(***************************************************************************)
EXTENDS TwinSessions, TLC

CONSTANTS src, dst, extra, o1, b1, f1, gpu, x, queue, stranger

MCOperationId == {o1} \cup ({b1} \X (0..1))

Frame(opcode, session, plain, body) ==
    [request |-> TRUE, opcode |-> opcode, session |-> session, plain |-> plain, body |-> body]

HelloFrame(contract, requested, required) ==
    Frame("hello", NoIdentity, TRUE,
          [wellFormed |-> TRUE, contract |-> contract, requested |-> requested,
           required |-> required])

Hellos ==
    {HelloFrame("base", Offered, {1}),
     HelloFrame("base", {1, 2, 4}, {8}),
     HelloFrame("base", {}, Runtime \cup {Batch}),
     HelloFrame("batch", Offered, Runtime \cup {Batch}),
     HelloFrame("batch", Offered, Runtime),
     HelloFrame("unknown", Offered, {}),
     HelloFrame("base", {1, 256}, {})}

EventFrame(body) == Frame("event", Identity, TRUE, body)

\* With floats of two bits, 5 bytes are read as 4 and 15 as 16, for which a field of
\* four bits has no room.
Copy(bytes) ==
    [type |-> "copy", source |-> src, target |-> dst, frame |-> NoFrame,
     bytes |-> bytes, queue |-> queue, deps |-> {}, idle |-> FALSE, transient |-> FALSE]

OperationBody(id, op) == [wellFormed |-> TRUE, subject |-> "operation", id |-> id, op |-> op]

Events ==
    {EventFrame(body) : body \in
        {[wellFormed |-> TRUE, subject |-> "resource", action |-> "register", id |-> r,
          view |-> [memory |-> gpu, aliases |-> {}]] : r \in {src, dst, extra}} \cup
        {[wellFormed |-> TRUE, subject |-> "resource", action |-> "release", id |-> dst],
         [wellFormed |-> TRUE, subject |-> "frame", action |-> "begin", frame |-> f1],
         [wellFormed |-> TRUE, subject |-> "frame", action |-> "end", frame |-> f1],
         [wellFormed |-> TRUE, subject |-> "resource", action |-> "release", id |-> extra],
         [wellFormed |-> TRUE, subject |-> "snapshot"],
         [wellFormed |-> FALSE],
         OperationBody(o1, Copy(5)),
         OperationBody(o1, Copy(15)),
         OperationBody(<<b1, 1>>, Copy(4)),
         OperationBody(<<b1, 1>>, Copy(15))} \cup
        {[wellFormed |-> TRUE, subject |-> "batch", batch |-> b1, count |-> 2,
          op |-> Copy(bytes)] : bytes \in {4, 15}}}

MCFrames ==
    Hellos \cup Events \cup
    {Frame("heartbeat", Identity, TRUE, [wellFormed |-> TRUE]),
     Frame("goodbye", Identity, TRUE, [wellFormed |-> TRUE]),
     Frame("goodbye", Identity, TRUE, [wellFormed |-> FALSE]),
     Frame("goodbye", stranger, TRUE, [wellFormed |-> TRUE])}
=============================================================================
