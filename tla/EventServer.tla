---------------------------- MODULE EventServer ----------------------------
(***************************************************************************)
(* The TCP server of the Python runtime (fluidgateway/server.py): the main *)
(* thread accepts and starts one thread per connection, as many as there   *)
(* are slots; each thread reads requests under deadlines, answers them and *)
(* gives its slot back, early if the session said goodbye.  A keyboard     *)
(* interrupt of the main thread starts the shutdown.                       *)
(*                                                                         *)
(* A critical section of _connection_count_lock is one step.  Time         *)
(* advances by the SHUTDOWN_POLL_SECONDS after which a receive looks at    *)
(* the shutdown event again, and only when every thread is blocked.        *)
(* ThreadingMixIn and BaseServer of the standard library are modelled as   *)
(* far as the code relies on them.                                         *)
(***************************************************************************)
EXTENDS Integers, FiniteSets

CONSTANTS
    Connection,       \* clients that connect, each once
    NoConnection,
    MaxActive,        \* max_active_connections, 8 in the code
    \* in units of 250 ms: 1 s, 2 s and 30 s in the code
    InitialDeadline, FrameDeadline, IdleTimeout,
    MaxBuffered       \* bound of the model: whole lines in the reader's buffer

ASSUME NoConnectionIsNone == NoConnection \notin Connection
ASSUME EventServerBounds ==
    /\ {MaxActive, InitialDeadline, FrameDeadline, IdleTimeout} \subseteq Nat \ {0}
    /\ MaxBuffered \in Nat

VARIABLES
    slots,       \* _connection_slots, the semaphore's counter
    active,      \* _active_requests
    count,       \* _active_connection_count
    shutdown,    \* shutdown_event
    main,        \* main thread: pc, the connection in hand, sockets left to close
    sock,        \* connection -> "new", "open", "shut" (both ways) or "closed"
    handler,     \* connection -> the thread that serves it
    leaked       \* slots an interrupt took from the main thread's hand (history)

vars == <<slots, active, count, shutdown, main, sock, handler, leaked>>

NoThread == [pc |-> "off", wire |-> "none", stage |-> "prefix", left |-> 0, slice |-> 0,
             held |-> 0, buffered |-> 0, closed |-> FALSE]

Init ==
    /\ slots = MaxActive
    /\ active = {}
    /\ count = 0
    /\ shutdown = FALSE
    /\ main \in [pc : {"select"}, once : BOOLEAN, hand : {NoConnection}, todo : {{}}]
    /\ sock = [c \in Connection |-> "new"]
    /\ handler = [c \in Connection |-> NoThread]
    /\ leaked = 0

At(c, pc) == handler[c].pc = pc
Goto(c, pc) == handler' = [handler EXCEPT ![c].pc = pc]

\* shutdown_request of the standard library.
CloseSocket(c) == sock' = [sock EXCEPT ![c] = "closed"]

-----------------------------------------------------------------------------
(* The slot of a connection.  It is given back in two steps, the lock held *)
(* in the first one only.                                                  *)

\* A faulty variant, for the check that the properties notice it: whether the
\* connection is still among the active ones is not asked.
ForgetAnyRequest(c, held, released) ==
    /\ active' = active \ {c}
    /\ count' = count - 1
    /\ held

ForgetRequest(c, held, released) ==
    IF c \in active
    THEN /\ active' = active \ {c}
         /\ count' = count - 1
         /\ held
    ELSE released /\ UNCHANGED <<active, count>>

-----------------------------------------------------------------------------
(* The main thread: serve_forever, or handle_request_and_wait.             *)

Accept(c) ==
    /\ main.pc = "select" /\ sock[c] = "new"
    /\ sock' = [sock EXCEPT ![c] = "open"]
    /\ main' = [main EXCEPT !.pc = "acquire", !.hand = c]
    /\ UNCHANGED <<slots, active, count, shutdown, handler, leaked>>

Acquire ==
    /\ main.pc = "acquire" /\ slots > 0
    /\ slots' = slots - 1
    /\ main' = [main EXCEPT !.pc = "add"]
    /\ UNCHANGED <<active, count, shutdown, sock, handler, leaked>>

\* No slot is free: the client is dropped without an answer.
Refuse ==
    /\ main.pc = "acquire" /\ slots = 0
    /\ CloseSocket(main.hand)
    /\ main' = [main EXCEPT !.pc = "select", !.hand = NoConnection]
    /\ UNCHANGED <<slots, active, count, shutdown, handler, leaked>>

AddActiveRequest ==
    /\ main.pc = "add"
    /\ active' = active \cup {main.hand}
    /\ count' = count + 1
    /\ main' = [main EXCEPT !.pc = "start"]
    /\ UNCHANGED <<slots, shutdown, sock, handler, leaked>>

Started == [NoThread EXCEPT !.pc = "read", !.left = InitialDeadline, !.slice = 1]

\* A thread is started, or, of one connection only, the main thread serves it.
Start ==
    /\ main.pc = "start"
    /\ handler' = [handler EXCEPT ![main.hand] = Started]
    /\ main' = IF main.once THEN [main EXCEPT !.pc = "serve"]
               ELSE [main EXCEPT !.pc = "select", !.hand = NoConnection]
    /\ UNCHANGED <<slots, active, count, shutdown, sock, leaked>>

ServedOnce ==
    /\ main.pc = "serve" /\ At(main.hand, "gone")
    /\ main' = [main EXCEPT !.pc = "close", !.hand = NoConnection]
    /\ UNCHANGED <<slots, active, count, shutdown, sock, handler, leaked>>

\* The thread cannot be started: the slot goes back, the socket is closed and the
\* server goes on.
StartFails ==
    /\ main.pc = "start" /\ ~main.once
    /\ main' = [main EXCEPT !.pc = "undo"]
    /\ UNCHANGED <<slots, active, count, shutdown, sock, handler, leaked>>

Undo ==
    /\ main.pc \in {"undo", "undo_stop"}
    /\ ForgetRequest(main.hand,
          main' = [main EXCEPT !.pc = IF @ = "undo" THEN "give" ELSE "give_stop"],
          main' = [main EXCEPT !.pc = IF @ = "undo" THEN "drop" ELSE "drop_stop"])
    /\ UNCHANGED <<slots, shutdown, sock, handler, leaked>>

GiveBack ==
    /\ main.pc \in {"give", "give_stop"}
    /\ slots' = slots + 1
    /\ main' = [main EXCEPT !.pc = IF @ = "give" THEN "drop" ELSE "drop_stop"]
    /\ UNCHANGED <<active, count, shutdown, sock, handler, leaked>>

\* handle_error and shutdown_request of the standard library.
Drop ==
    /\ main.pc \in {"drop", "drop_stop"}
    /\ CloseSocket(main.hand)
    /\ main' = [main EXCEPT !.pc = IF @ = "drop" THEN "select" ELSE "close",
                            !.hand = NoConnection]
    /\ UNCHANGED <<slots, active, count, shutdown, handler, leaked>>

\* KeyboardInterrupt.  With a connection in hand it is raised through
\* process_request, which gives the slot back only once the thread is being started,
\* and may be running already.  One that comes while the main thread serves the only
\* connection itself is left out.
Interrupt ==
    /\ CASE main.pc = "select" -> main' = [main EXCEPT !.pc = "close"]
         [] main.pc \in {"acquire", "add"} -> main' = [main EXCEPT !.pc = "drop_stop"]
         [] main.pc = "start" /\ ~main.once -> main' = [main EXCEPT !.pc = "undo_stop"]
         [] OTHER -> FALSE
    /\ leaked' = IF main.pc = "add" THEN leaked + 1 ELSE leaked
    /\ \/ UNCHANGED handler
       \/ main.pc = "start" /\ handler' = [handler EXCEPT ![main.hand] = Started]
    /\ UNCHANGED <<slots, active, count, shutdown, sock>>

-----------------------------------------------------------------------------
(* server_close.                                                           *)

SetShutdown ==
    /\ main.pc = "close"
    /\ shutdown' = TRUE
    /\ main' = [main EXCEPT !.pc = "copy"]
    /\ UNCHANGED <<slots, active, count, sock, handler, leaked>>

CopyActive ==
    /\ main.pc = "copy"
    /\ main' = [main EXCEPT !.pc = "shut", !.todo = active]
    /\ UNCHANGED <<slots, active, count, shutdown, sock, handler, leaked>>

\* The handler's file object keeps a socket from being closed under it; one that is
\* closed already is passed over.
ShutRequest(c) ==
    /\ main.pc = "shut" /\ c \in main.todo
    /\ sock' = [sock EXCEPT ![c] = IF @ = "open" THEN "shut" ELSE @]
    /\ main' = [main EXCEPT !.todo = @ \ {c}]
    /\ UNCHANGED <<slots, active, count, shutdown, handler, leaked>>

\* A faulty variant: the threads are left to themselves, as with daemon_threads.
JoinNobody ==
    /\ main.pc = "shut" /\ main.todo = {}
    /\ main' = [main EXCEPT !.pc = "done"]
    /\ UNCHANGED <<slots, active, count, shutdown, sock, handler, leaked>>

\* block_on_close: the threads are waited for.
Join ==
    /\ main.pc = "shut" /\ main.todo = {}
    /\ \A c \in Connection : At(c, "off") \/ At(c, "gone")
    /\ main' = [main EXCEPT !.pc = "done"]
    /\ UNCHANGED <<slots, active, count, shutdown, sock, handler, leaked>>

-----------------------------------------------------------------------------
(* A handler reads: the prefix that tells the wires apart, then requests.  *)

Reading(c) == At(c, "read") /\ handler[c].slice > 0

\* What receive waits for next.
Slice(left) == IF left > 0 THEN 1 ELSE 0

\* The wait of a receive is over without a byte: it looks at the shutdown event and
\* at its deadline.
Look(c) ==
    /\ At(c, "read") /\ handler[c].slice = 0
    /\ IF shutdown \/ handler[c].left = 0
       THEN Goto(c, "finish")
       ELSE handler' = [handler EXCEPT ![c].slice = 1]
    /\ UNCHANGED <<slots, active, count, shutdown, main, sock, leaked>>

\* A faulty variant: every piece starts the deadline again.
PieceAgain(c) ==
    /\ Reading(c) /\ sock[c] = "open"
    /\ handler' = [handler EXCEPT ![c] =
          [@ EXCEPT !.stage = IF @ = "idle" THEN "frame" ELSE @,
                    !.left = IF handler[c].stage = "prefix" THEN @ ELSE FrameDeadline,
                    !.held = IF handler[c].stage = "idle" THEN 0 ELSE @]]
    /\ UNCHANGED <<slots, active, count, shutdown, main, sock, leaked>>

\* Part of what is expected arrives; the first part of a request starts the frame's
\* deadline.
Piece(c) ==
    /\ Reading(c) /\ sock[c] = "open"
    /\ IF handler[c].stage = "idle"
       THEN handler' = [handler EXCEPT ![c] =
               [@ EXCEPT !.stage = "frame", !.left = FrameDeadline, !.held = 0]]
       ELSE UNCHANGED handler
    /\ UNCHANGED <<slots, active, count, shutdown, main, sock, leaked>>

\* The magic and a version, or a byte that is not the magic's: the rest of the first
\* request gets a deadline of its own.
Prefix(c, wire) ==
    /\ Reading(c) /\ sock[c] = "open" /\ handler[c].stage = "prefix"
    /\ handler' = [handler EXCEPT ![c] =
          [@ EXCEPT !.wire = wire, !.stage = "frame", !.left = FrameDeadline, !.held = 0]]
    /\ UNCHANGED <<slots, active, count, shutdown, main, sock, leaked>>

\* The request is there.  A read of lines may have more of them in its buffer.
Request(c, lines) ==
    /\ Reading(c) /\ sock[c] = "open" /\ handler[c].stage \in {"idle", "frame"}
    /\ lines > 0 => handler[c].wire = "jsonl"
    /\ handler' = [handler EXCEPT ![c] = [@ EXCEPT !.pc = "process", !.buffered = lines]]
    /\ UNCHANGED <<slots, active, count, shutdown, main, sock, leaked>>

\* A request that is in the buffer already is not received.
BufferedRequest(c) ==
    /\ At(c, "next") /\ handler[c].buffered > 0
    /\ handler' = [handler EXCEPT ![c] =
          [@ EXCEPT !.pc = "process", !.buffered = handler[c].buffered - 1]]
    /\ UNCHANGED <<slots, active, count, shutdown, main, sock, leaked>>

\* The client is gone, sends what is not a frame, or an unknown version.
Lost(c) ==
    /\ Reading(c)
    /\ Goto(c, "finish")
    /\ UNCHANGED <<slots, active, count, shutdown, main, sock, leaked>>

\* The client closes its side in the middle of a line: what there is, is a line.
LastLine(c) ==
    /\ Reading(c) /\ handler[c].wire \in {"none", "jsonl"} /\ handler[c].stage # "idle"
    /\ handler' = [handler EXCEPT ![c] = [@ EXCEPT !.pc = "process", !.wire = "jsonl"]]
    /\ UNCHANGED <<slots, active, count, shutdown, main, sock, leaked>>

-----------------------------------------------------------------------------
(* It answers.                                                             *)

StartWrite(c) ==
    handler' = [handler EXCEPT ![c] = [@ EXCEPT !.pc = "write", !.left = FrameDeadline, !.held = 0]]

\* The session answers and goes on.
Process(c) ==
    /\ At(c, "process")
    /\ StartWrite(c)
    /\ UNCHANGED <<slots, active, count, shutdown, main, sock, leaked>>

\* A comment or an empty line is not answered.
Comment(c) ==
    /\ At(c, "process") /\ handler[c].wire = "jsonl"
    /\ Goto(c, "next")
    /\ UNCHANGED <<slots, active, count, shutdown, main, sock, leaked>>

\* A line that is too long or no UTF-8 is answered, and the last one.
BadLine(c) ==
    /\ At(c, "process") /\ handler[c].wire = "jsonl"
    /\ handler' = [handler EXCEPT ![c] = [@ EXCEPT !.pc = "write", !.left = FrameDeadline,
                                                   !.held = 0, !.closed = TRUE]]
    /\ UNCHANGED <<slots, active, count, shutdown, main, sock, leaked>>

\* The session is closed by a goodbye or a fatal error: the slot goes first.
ProcessLast(c) ==
    /\ At(c, "process") /\ handler[c].wire # "jsonl"
    /\ ForgetRequest(c,
          handler' = [handler EXCEPT ![c] = [@ EXCEPT !.pc = "give", !.closed = TRUE]],
          handler' = [handler EXCEPT ![c] = [@ EXCEPT !.pc = "write", !.left = FrameDeadline,
                                                      !.held = 0, !.closed = TRUE]])
    /\ UNCHANGED <<slots, shutdown, main, sock, leaked>>

GiveSlot(c) ==
    /\ At(c, "give")
    /\ slots' = slots + 1
    /\ StartWrite(c)
    /\ UNCHANGED <<active, count, shutdown, main, sock, leaked>>

Written(c) ==
    /\ At(c, "write") /\ sock[c] = "open"
    /\ Goto(c, IF handler[c].closed THEN "finish" ELSE "next")
    /\ UNCHANGED <<slots, active, count, shutdown, main, sock, leaked>>

\* A faulty variant: a write has no timeout.
WriteFailsOnly(c) ==
    /\ At(c, "write") /\ sock[c] # "open"
    /\ Goto(c, "finish")
    /\ UNCHANGED <<slots, active, count, shutdown, main, sock, leaked>>

\* The client is gone, the socket was shut, or the client does not read in time.
WriteFails(c) ==
    /\ At(c, "write")
    /\ Goto(c, "finish")
    /\ UNCHANGED <<slots, active, count, shutdown, main, sock, leaked>>

\* The next request: the idle timeout runs until its first byte, unless part of it is
\* in the buffer.
AwaitRequest(c, begun) ==
    /\ At(c, "next") /\ handler[c].buffered = 0
    /\ begun => handler[c].wire = "jsonl"
    /\ handler' = [handler EXCEPT ![c] =
          [@ EXCEPT !.pc = "read", !.slice = IF shutdown THEN 0 ELSE 1, !.held = 0,
                    !.stage = IF begun THEN "frame" ELSE "idle",
                    !.left = IF begun THEN FrameDeadline ELSE IdleTimeout]]
    /\ UNCHANGED <<slots, active, count, shutdown, main, sock, leaked>>

\* finish_request is over: shutdown_request, then the slot.
Finish(c) ==
    /\ At(c, "finish")
    /\ CloseSocket(c)
    /\ Goto(c, "final")
    /\ UNCHANGED <<slots, active, count, shutdown, main, leaked>>

ReleaseLast(c) ==
    /\ At(c, "final")
    /\ ForgetRequest(c, Goto(c, "final_give"), Goto(c, "gone"))
    /\ UNCHANGED <<slots, shutdown, main, sock, leaked>>

GiveLast(c) ==
    /\ At(c, "final_give")
    /\ slots' = slots + 1
    /\ Goto(c, "gone")
    /\ UNCHANGED <<active, count, shutdown, main, sock, leaked>>

-----------------------------------------------------------------------------
(* Time passes while every thread is blocked: in a receive, in a write to  *)
(* a client that does not read, in select or in join.                      *)

Blocked(c) ==
    \/ handler[c].pc \in {"off", "gone"}
    \/ Reading(c) /\ sock[c] = "open"
    \/ At(c, "write") /\ sock[c] = "open" /\ handler[c].left > 0

MainBlocked ==
    \/ main.pc \in {"select", "serve", "done"}
    \/ main.pc = "shut" /\ main.todo = {}

Waited(h) ==
    IF h.pc \in {"read", "write"} THEN [h EXCEPT !.left = @ - 1, !.slice = 0, !.held = @ + 1]
    ELSE h

Tick ==
    /\ \A c \in Connection : Blocked(c)
    /\ \E c \in Connection : handler[c].pc \in {"read", "write"}
    /\ MainBlocked
    /\ handler' = [c \in Connection |-> Waited(handler[c])]
    /\ UNCHANGED <<slots, active, count, shutdown, main, sock, leaked>>

-----------------------------------------------------------------------------
HandlerStep(c) ==
    \/ Look(c) \/ Piece(c) \/ Lost(c) \/ LastLine(c)
    \/ \E wire \in {"v1", "v2", "jsonl"} : Prefix(c, wire)
    \/ \E lines \in 0..MaxBuffered : Request(c, lines)
    \/ BufferedRequest(c) \/ Process(c) \/ Comment(c) \/ BadLine(c) \/ ProcessLast(c) \/ GiveSlot(c)
    \/ Written(c) \/ WriteFails(c)
    \/ \E begun \in BOOLEAN : AwaitRequest(c, begun)
    \/ Finish(c) \/ ReleaseLast(c) \/ GiveLast(c)

MainStep ==
    \/ Acquire \/ Refuse \/ AddActiveRequest \/ Start \/ ServedOnce \/ StartFails
    \/ Undo \/ GiveBack \/ Drop
    \/ SetShutdown \/ CopyActive \/ (\E c \in Connection : ShutRequest(c)) \/ Join

Next ==
    \/ \E c \in Connection : Accept(c) \/ HandlerStep(c)
    \/ MainStep
    \/ Interrupt
    \/ Tick

\* What a thread does when no client does anything for it.
Alone(c) ==
    \/ Look(c) \/ BufferedRequest(c) \/ Process(c) \/ GiveSlot(c)
    \/ (\E begun \in BOOLEAN : AwaitRequest(c, begun)) \/ Finish(c) \/ ReleaseLast(c) \/ GiveLast(c)
    \/ (sock[c] # "open" \/ handler[c].left = 0) /\ WriteFails(c)
    \/ sock[c] # "open" /\ Lost(c)

\* Threads are scheduled and time passes; no client is relied upon.
Spec ==
    /\ Init /\ [][Next]_vars
    /\ \A c \in Connection : WF_vars(Alone(c))
    /\ WF_vars(MainStep) /\ WF_vars(Tick)

-----------------------------------------------------------------------------
(* Properties.                                                             *)

\* Connections whose slot a thread has in hand: taken from the active ones, not yet
\* given back to the semaphore.
Returning ==
    Cardinality({c \in Connection : handler[c].pc \in {"give", "final_give"}})
    + (IF main.pc \in {"give", "give_stop"} THEN 1 ELSE 0)

\* No slot is lost or given back twice, although the goodbye, the end of the thread
\* and a failing start all give back the same one (server.py _release_connection_slot).
SlotsAddUp ==
    /\ count = Cardinality(active)
    /\ slots + count + Returning + leaked + (IF main.pc = "add" THEN 1 ELSE 0) = MaxActive

\* A client that stops in the prefix, sends its request in small pieces, or does not
\* read its answer has lost its connection when the deadline of what it is at is over
\* (server.py _DeadlineSocketReader).
StalledClientsAreDropped ==
    \A c \in Connection :
        /\ At(c, "read") => handler[c].held <=
              (CASE handler[c].stage = "prefix" -> InitialDeadline
                 [] handler[c].stage = "frame" -> FrameDeadline
                 [] handler[c].stage = "idle" -> IdleTimeout)
        /\ At(c, "write") => handler[c].held <= FrameDeadline

\* When server_close returns nobody serves, every socket that was accepted is closed
\* and every slot is back, but one an interrupt took away.
DoneIsQuiet ==
    main.pc = "done" =>
        /\ active = {} /\ slots = MaxActive - leaked
        /\ \A c \in Connection :
              /\ handler[c].pc \in {"off", "gone"}
              /\ sock[c] \in {"new", "closed"}

\* server_close returns, although no client does anything, and although a connection
\* that gave its slot back before its last answer is not among those it shuts.
ShutdownCompletes == main.pc = "close" ~> main.pc = "done"
=============================================================================
