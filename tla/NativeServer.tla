---------------------------- MODULE NativeServer ----------------------------
(***************************************************************************)
(* The TCP endpoint of the native gateway (native/src/server.cpp): the     *)
(* main thread accepts connections and hands each to one of a fixed number *)
(* of worker threads, which serve it under deadlines; a console event      *)
(* starts the shutdown.  What is inside a frame is ProtocolSession.        *)
(*                                                                         *)
(* A worker has a mutex that guards pending, busy and exiting, and a       *)
(* condition variable.  A critical section is one step.  Time advances by  *)
(* the 250 ms after which ready() comes back from WSAPoll, and only when   *)
(* every thread is blocked: threads need no time to run.                   *)
(***************************************************************************)
EXTENDS Integers, FiniteSets

CONSTANTS
    WorkerCount,      \* 8 in the code
    Connection,       \* clients that try to connect, each once
    NoSocket,         \* INVALID_SOCKET
    \* in units of 250 ms: 1 s, 30 s, 2 s and 2 s in the code
    InitialDeadline, IdleDeadline, FrameDeadline, SendDeadline,
    Pieces            \* what takes several reads or writes takes at most so many

ASSUME NoSocketIsNoConnection == NoSocket \notin Connection
ASSUME ServerBounds ==
    /\ {WorkerCount, InitialDeadline, IdleDeadline,
        FrameDeadline, SendDeadline, Pieces} \subseteq Nat \ {0}

Worker == 1..WorkerCount

VARIABLES
    conn,        \* connection -> "new", "open" or "closed"
    stopping,
    main,        \* main thread: pc, the worker it is at, the socket it accepted
    shared,      \* worker -> pending, busy, exiting
    thread,      \* worker -> pc and locals of run() and serve()
    drained      \* quanta since the shutdown began (history)

vars == <<conn, stopping, main, shared, thread, drained>>

\* Quanta a client can take up: a wait that succeeds does so before its last quantum
\* is over, only the last wait can use up all of them.
LongestPrefix == IF InitialDeadline > IdleDeadline THEN InitialDeadline ELSE IdleDeadline
LongestExchange == (LongestPrefix - 1) + (FrameDeadline - 1) + SendDeadline

Socket == Connection \cup {NoSocket}

TypeOK ==
    /\ conn \in [Connection -> {"new", "open", "closed"}]
    /\ stopping \in BOOLEAN
    /\ main.pc \in {"construct", "loop", "poll", "assign", "destroy", "notify", "join", "end"}
    /\ main.at \in 0..(WorkerCount + 1)
    /\ main.connected \in Socket
    /\ shared \in [Worker -> [pending : Socket, busy : BOOLEAN, exiting : BOOLEAN]]
    /\ \A w \in Worker :
          /\ thread[w].pc \in {"unborn", "wait", "asleep", "start", "loop", "check", "poll",
                               "close", "free", "gone"}
          /\ thread[w].connected \in Socket
          /\ thread[w].phase \in {"prefix", "rest", "send"}
          /\ thread[w].left \in 0..LongestPrefix \cup 0..FrameDeadline \cup 0..SendDeadline
          /\ thread[w].pieces \in 1..Pieces
          /\ thread[w].first \in BOOLEAN /\ thread[w].closed \in BOOLEAN
          /\ thread[w].held \in Nat
    /\ drained \in 0..2

Unborn == [pc |-> "unborn", connected |-> NoSocket, phase |-> "prefix", left |-> 0,
           pieces |-> 1, first |-> TRUE, closed |-> FALSE, held |-> 0]

Init ==
    /\ conn = [c \in Connection |-> "new"]
    /\ stopping = FALSE
    /\ main = [pc |-> "construct", at |-> 1, connected |-> NoSocket]
    /\ shared = [w \in Worker |-> [pending |-> NoSocket, busy |-> FALSE, exiting |-> FALSE]]
    /\ thread = [w \in Worker |-> Unborn]
    /\ drained = 0

\* The main thread at the head of its loop.
Accepting == [pc |-> "loop", at |-> 1, connected |-> NoSocket]

\* closesocket, by the destructor of Socket.
CloseSocket(c) == conn' = [conn EXCEPT ![c] = "closed"]

\* notify_one: a thread that sleeps will look at its condition again.
Woken(w) == IF thread[w].pc = "asleep" THEN [thread EXCEPT ![w].pc = "wait"] ELSE thread

-----------------------------------------------------------------------------
(* Worker::run.                                                            *)

\* The predicate holds with a socket: take it, leave the mutex, serve.
TakePending(w) ==
    /\ thread[w].pc = "wait"
    /\ shared[w].pending # NoSocket
    /\ shared' = [shared EXCEPT ![w].pending = NoSocket]
    /\ thread' = [thread EXCEPT ![w] =
                    [Unborn EXCEPT !.pc = "start", !.connected = shared[w].pending]]
    /\ UNCHANGED <<conn, stopping, main, drained>>

\* A faulty variant, for the check that the properties notice it: a worker that
\* is to exit does so at once.
ReturnAtOnce(w) ==
    /\ thread[w].pc = "wait"
    /\ shared[w].exiting
    /\ thread' = [thread EXCEPT ![w].pc = "gone"]
    /\ UNCHANGED <<conn, stopping, main, shared, drained>>

\* The predicate holds without a socket.
Return(w) ==
    /\ thread[w].pc = "wait"
    /\ shared[w].pending = NoSocket
    /\ shared[w].exiting
    /\ thread' = [thread EXCEPT ![w].pc = "gone"]
    /\ UNCHANGED <<conn, stopping, main, shared, drained>>

Sleep(w) ==
    /\ thread[w].pc = "wait"
    /\ shared[w].pending = NoSocket
    /\ ~shared[w].exiting
    /\ thread' = [thread EXCEPT ![w].pc = "asleep"]
    /\ UNCHANGED <<conn, stopping, main, shared, drained>>

\* changed_.wait may return without a notification.
WakeSpuriously(w) ==
    /\ thread[w].pc = "asleep"
    /\ thread' = [thread EXCEPT ![w].pc = "wait"]
    /\ UNCHANGED <<conn, stopping, main, shared, drained>>

\* The destructor of serve's Socket ...
Close(w) ==
    /\ thread[w].pc = "close"
    /\ CloseSocket(thread[w].connected)
    /\ thread' = [thread EXCEPT ![w] = [Unborn EXCEPT !.pc = "free"]]
    /\ UNCHANGED <<stopping, main, shared, drained>>

\* ... and only then is the worker free for another connection.
Free(w) ==
    /\ thread[w].pc = "free"
    /\ shared' = [shared EXCEPT ![w].busy = FALSE]
    /\ thread' = [thread EXCEPT ![w].pc = "wait"]
    /\ UNCHANGED <<conn, stopping, main, drained>>

-----------------------------------------------------------------------------
(* serve, receive, send_frame and ready.                                   *)

\* The locals of a thread that starts to wait for some pieces.
Await(t, phase, deadline, pieces) ==
    [t EXCEPT !.pc = "check", !.phase = phase, !.left = deadline, !.pieces = pieces]

\* The locals of a thread that is back in the loop of serve, or leaves it.
Returned(t) == [Unborn EXCEPT !.pc = "loop", !.connected = t.connected,
                              !.first = t.first, !.closed = t.closed]
Finished(t) == [Unborn EXCEPT !.pc = "close", !.connected = t.connected]

\* The socket is made non-blocking and the session gets its identity; both may fail.
Begin(w) ==
    /\ thread[w].pc = "start"
    /\ \E t \in {Returned(thread[w]), Finished(thread[w])} : thread' = [thread EXCEPT ![w] = t]
    /\ UNCHANGED <<conn, stopping, main, shared, drained>>

\* while (!stopping && !session.closed), then the first bytes of a connection or
\* the one byte that ends the idleness of a session.
Loop(w) ==
    /\ thread[w].pc = "loop"
    /\ thread' = [thread EXCEPT ![w] =
                    IF stopping \/ @.closed
                    THEN Finished(@)
                    ELSE IF @.first
                    THEN Await(@, "prefix", InitialDeadline, Pieces)
                    ELSE Await(@, "prefix", IdleDeadline, 1)]
    /\ UNCHANGED <<conn, stopping, main, shared, drained>>

\* A faulty variant, for the check that the properties notice it: the deadline
\* is not looked at.
CheckStopping(w) ==
    /\ thread[w].pc = "check"
    /\ thread' = [thread EXCEPT ![w] =
                    IF stopping THEN Finished(@) ELSE [@ EXCEPT !.pc = "poll"]]
    /\ UNCHANGED <<conn, stopping, main, shared, drained>>

\* ready(), up to WSAPoll.
Check(w) ==
    /\ thread[w].pc = "check"
    /\ thread' = [thread EXCEPT ![w] =
                    IF stopping \/ @.left = 0 THEN Finished(@) ELSE [@ EXCEPT !.pc = "poll"]]
    /\ UNCHANGED <<conn, stopping, main, shared, drained>>

\* A faulty variant, for the check that the properties notice it: every piece
\* gets the whole deadline.
PieceRestartsDeadline(w) ==
    /\ thread[w].pc = "poll"
    /\ thread[w].pieces > 1
    /\ thread' = [thread EXCEPT ![w].pc = "check", ![w].pieces = @ - 1,
                                ![w].left = IF thread[w].phase = "rest" THEN FrameDeadline
                                            ELSE @]
    /\ UNCHANGED <<conn, stopping, main, shared, drained>>

\* The socket is ready and some, not all, of the bytes cross.
Piece(w) ==
    /\ thread[w].pc = "poll"
    /\ thread[w].pieces > 1
    /\ thread' = [thread EXCEPT ![w].pc = "check", ![w].pieces = @ - 1]
    /\ UNCHANGED <<conn, stopping, main, shared, drained>>

\* The last byte of the prefix: the rest has a deadline of its own.
PrefixComes(w) ==
    /\ thread[w].pc = "poll"
    /\ thread[w].phase = "prefix"
    /\ \E magic \in {TRUE} \cup {~thread[w].first} :
          thread' = [thread EXCEPT ![w] =
                       IF magic
                       THEN [Await(@, "rest", FrameDeadline, Pieces) EXCEPT !.first = FALSE]
                       ELSE Finished(@)]
    /\ UNCHANGED <<conn, stopping, main, shared, drained>>

\* The last byte of the frame: it is decoded and processed, or is malformed.
FrameComes(w) ==
    /\ thread[w].pc = "poll"
    /\ thread[w].phase = "rest"
    /\ \/ \E closed \in BOOLEAN :
             thread' = [thread EXCEPT ![w] =
                          [Await(@, "send", SendDeadline, Pieces) EXCEPT !.closed = closed]]
       \/ thread' = [thread EXCEPT ![w] = Finished(@)]
    /\ UNCHANGED <<conn, stopping, main, shared, drained>>

AnswerSent(w) ==
    /\ thread[w].pc = "poll"
    /\ thread[w].phase = "send"
    /\ thread' = [thread EXCEPT ![w] = Returned(@)]
    /\ UNCHANGED <<conn, stopping, main, shared, drained>>

\* The client hung up, or the socket has failed.
Lost(w) ==
    /\ thread[w].pc = "poll"
    /\ thread' = [thread EXCEPT ![w] = Finished(@)]
    /\ UNCHANGED <<conn, stopping, main, shared, drained>>

-----------------------------------------------------------------------------
(* main, and the constructor and destructor of Worker.                     *)

Construct ==
    /\ main.pc = "construct"
    /\ IF main.at \in Worker
       THEN /\ thread' = [thread EXCEPT ![main.at].pc = "wait"]
            /\ main' = [main EXCEPT !.at = @ + 1]
       ELSE /\ main' = Accepting
            /\ UNCHANGED thread
    /\ UNCHANGED <<conn, stopping, shared, drained>>

\* std::thread cannot be created: the workers there are get destroyed.
ConstructFails ==
    /\ main.pc = "construct"
    /\ main.at \in Worker
    /\ main' = [main EXCEPT !.pc = "destroy", !.at = @ - 1]
    /\ UNCHANGED <<conn, stopping, shared, thread, drained>>

\* while (!stopping), and the same test at the head of ready().
MainLoop ==
    /\ main.pc = "loop"
    /\ main' = IF stopping
               THEN [main EXCEPT !.pc = "destroy", !.at = WorkerCount]
               ELSE [main EXCEPT !.pc = "poll"]
    /\ UNCHANGED <<conn, stopping, shared, thread, drained>>

\* A connection may be accepted although the shutdown began during WSAPoll.
Accept(c) ==
    /\ main.pc = "poll"
    /\ conn[c] = "new"
    /\ conn' = [conn EXCEPT ![c] = "open"]
    /\ main' = [main EXCEPT !.pc = "assign", !.at = 1, !.connected = c]
    /\ UNCHANGED <<stopping, shared, thread, drained>>

\* The client withdrew before accept.
AcceptFails(c) ==
    /\ main.pc = "poll"
    /\ conn[c] = "new"
    /\ CloseSocket(c)
    /\ main' = [main EXCEPT !.pc = "loop"]
    /\ UNCHANGED <<stopping, shared, thread, drained>>

\* assign refuses, and main tries the next worker.
AssignRefused ==
    /\ main.pc = "assign"
    /\ main.at \in Worker
    /\ shared[main.at].busy \/ shared[main.at].exiting
    /\ main' = [main EXCEPT !.at = @ + 1]
    /\ UNCHANGED <<conn, stopping, shared, thread, drained>>

\* A faulty variant, for the check that the properties notice it: the worker is
\* not notified.
AssignSilently ==
    /\ main.pc = "assign"
    /\ main.at \in Worker
    /\ ~shared[main.at].busy /\ ~shared[main.at].exiting
    /\ shared' = [shared EXCEPT ![main.at].busy = TRUE, ![main.at].pending = main.connected]
    /\ main' = Accepting
    /\ UNCHANGED <<conn, stopping, thread, drained>>

Assign ==
    /\ main.pc = "assign"
    /\ main.at \in Worker
    /\ ~shared[main.at].busy /\ ~shared[main.at].exiting
    /\ shared' = [shared EXCEPT ![main.at].busy = TRUE, ![main.at].pending = main.connected]
    /\ thread' = Woken(main.at)
    /\ main' = Accepting
    /\ UNCHANGED <<conn, stopping, drained>>

\* Every worker is busy: connected is closed as it leaves its scope.
Excess ==
    /\ main.pc = "assign"
    /\ main.at \notin Worker
    /\ CloseSocket(main.connected)
    /\ main' = Accepting
    /\ UNCHANGED <<stopping, shared, thread, drained>>

\* ~Worker, for one worker after the other from the last: tell it to exit ...
Destroy ==
    /\ main.pc = "destroy"
    /\ IF main.at \in Worker
       THEN /\ stopping' = TRUE
            /\ shared' = [shared EXCEPT ![main.at].exiting = TRUE]
            /\ main' = [main EXCEPT !.pc = "notify"]
       ELSE /\ main' = [main EXCEPT !.pc = "end"]
            /\ UNCHANGED <<stopping, shared>>
    /\ UNCHANGED <<conn, thread, drained>>

\* A faulty variant, for the check that the properties notice it: notify_one is
\* left out.
NotifyNobody ==
    /\ main.pc = "notify"
    /\ main' = [main EXCEPT !.pc = "join"]
    /\ UNCHANGED <<conn, stopping, shared, thread, drained>>

\* ... notify it, no longer under the mutex ...
Notify ==
    /\ main.pc = "notify"
    /\ thread' = Woken(main.at)
    /\ main' = [main EXCEPT !.pc = "join"]
    /\ UNCHANGED <<conn, stopping, shared, drained>>

\* ... and wait for its end.
Join ==
    /\ main.pc = "join"
    /\ thread[main.at].pc = "gone"
    /\ main' = [main EXCEPT !.pc = "destroy", !.at = @ - 1]
    /\ UNCHANGED <<conn, stopping, shared, thread, drained>>

-----------------------------------------------------------------------------
(* The environment.                                                        *)

\* stop_handler, on a thread of the system.
Stop ==
    /\ main.pc # "end"
    /\ ~stopping
    /\ stopping' = TRUE
    /\ UNCHANGED <<conn, main, shared, thread, drained>>

\* A worker that wakes up to find nothing to do.
Drowsy(w) ==
    thread[w].pc = "wait" /\ shared[w].pending = NoSocket /\ ~shared[w].exiting

\* Nobody has anything to do until time passes or a client moves.
Quiescent ==
    /\ \A w \in Worker :
          thread[w].pc \in {"unborn", "asleep", "poll", "gone"} \/ Drowsy(w)
    /\ main.pc = "poll" \/ (main.pc = "join" /\ thread[main.at].pc # "gone")

Drain == IF stopping /\ drained < 2 THEN drained + 1 ELSE drained

Waited(t, pc) == [t EXCEPT !.pc = pc, !.left = @ - 1, !.held = @ + 1]

\* A faulty variant, for the check that the properties notice it: WSAPoll is
\* given all the time that is left.
TickWithoutSlices ==
    /\ Quiescent
    /\ thread' = [w \in Worker |->
                    IF thread[w].pc = "poll"
                    THEN Waited(thread[w], IF thread[w].left = 1 THEN "check" ELSE "poll")
                    ELSE thread[w]]
    /\ main' = IF main.pc = "poll" THEN [main EXCEPT !.pc = "loop"] ELSE main
    /\ drained' = Drain
    /\ UNCHANGED <<conn, stopping, shared>>

\* 250 ms: every WSAPoll comes back empty and ready() looks at the flag and the
\* clock again.
Tick ==
    /\ Quiescent
    /\ thread' = [w \in Worker |->
                    IF thread[w].pc = "poll" THEN Waited(thread[w], "check") ELSE thread[w]]
    /\ main' = IF main.pc = "poll" THEN [main EXCEPT !.pc = "loop"] ELSE main
    /\ drained' = Drain
    /\ UNCHANGED <<conn, stopping, shared>>

-----------------------------------------------------------------------------

MainStep ==
    \/ Construct \/ MainLoop
    \/ AssignRefused \/ Assign \/ Excess
    \/ Destroy \/ Notify \/ Join

WorkerStep(w) ==
    \/ TakePending(w) \/ Return(w) \/ Sleep(w) \/ Close(w) \/ Free(w)
    \/ Begin(w) \/ Loop(w) \/ Check(w)

ClientStep(w) ==
    Piece(w) \/ PrefixComes(w) \/ FrameComes(w) \/ AnswerSent(w) \/ Lost(w)

Next ==
    \/ MainStep
    \/ ConstructFails
    \/ \E c \in Connection : Accept(c) \/ AcceptFails(c)
    \/ \E w \in Worker : WorkerStep(w) \/ ClientStep(w) \/ WakeSpuriously(w)
    \/ Stop
    \/ Tick

\* The system runs every thread that is not blocked, and time passes; nothing
\* makes a client act, a wait return by itself or an operator stop the server.
Fairness ==
    /\ WF_vars(MainStep)
    /\ \A w \in Worker : WF_vars(WorkerStep(w))
    /\ WF_vars(Tick)

Spec == Init /\ [][Next]_vars /\ Fairness

-----------------------------------------------------------------------------
(* Properties.                                                             *)

\* Who will close a socket: main, a worker that has yet to take it, or one that
\* serves it.
Owners(c) ==
    {o \in {<<"main", 0>>} : main.connected = c}
    \cup {o \in {"pending"} \X Worker : shared[o[2]].pending = c /\ thread[o[2]].pc # "gone"}
    \cup {o \in {"serving"} \X Worker : thread[o[2]].connected = c}

\* Every open connection has exactly one owner, and a closed one has none: no
\* socket is served twice, closed twice, or left behind by a worker that exits
\* while the main thread hands it one (Worker::assign, run and ~Worker).
SocketsHaveOneOwner ==
    \A c \in Connection : Cardinality(Owners(c)) = IF conn[c] = "open" THEN 1 ELSE 0

\* However a client spreads its bytes or delays reading, it cannot hold a worker
\* longer than one prefix, one frame and one answer may take without an exchange
\* coming to its end (the deadlines of serve and send_frame).
StalledClientsAreDropped == \A w \in Worker : thread[w].held <= LongestExchange

\* The shutdown never waits for a client: within one slice of WSAPoll every worker
\* has come to its end and main returns (ready).
ShutdownIsPrompt == main.pc # "end" => drained <= 1

\* A shutdown comes to its end: no notification is lost between the workers'
\* waits and the destructors that join them.
ShutdownCompletes == stopping ~> main.pc = "end"

\* A connection that was accepted is served or closed, whatever the other clients
\* do and also when the server is told to stop in between.
AcceptedIsAttended ==
    \A c \in Connection :
        main.connected = c ~> (conn[c] = "closed" \/ \E w \in Worker : thread[w].connected = c)
=============================================================================
