------------------------- MODULE EventServerProofs -------------------------
(***************************************************************************)
(* Proofs about EventServer, for any number of connections, any number of  *)
(* slots and any deadlines: stalled clients are dropped, slots add up, and *)
(* nothing is left when the server has closed.                             *)
(***************************************************************************)
EXTENDS EventServer, FiniteSetTheorems, TLAPS

\* The threads of handlers that are well typed.
Pcs == {"off", "read", "next", "process", "give", "write", "finish", "final", "final_give", "gone"}

Threads ==
    [pc : Pcs, wire : {"none", "v1", "v2", "jsonl"}, stage : {"prefix", "frame", "idle"},
     left : Nat, slice : {0, 1}, held : Nat, buffered : Nat, closed : BOOLEAN]

StageDeadline(stage) ==
    CASE stage = "prefix" -> InitialDeadline
      [] stage = "frame" -> FrameDeadline
      [] stage = "idle" -> IdleTimeout

\* The time held and the time left never exceed the deadline of what is waited for,
\* and a receive is only entered while there is time left.
Timely(h) ==
    /\ h.pc = "read" => h.held + h.left <= StageDeadline(h.stage) /\ (h.slice > 0 => h.left > 0)
    /\ h.pc = "write" => h.held + h.left <= FrameDeadline

Clocks == handler \in [Connection -> {h \in Threads : Timely(h)}]

\* The bounds, one by one.
LEMMA Constants ==
    /\ MaxActive \in Nat /\ MaxActive > 0
    /\ InitialDeadline \in Nat /\ InitialDeadline > 0
    /\ FrameDeadline \in Nat /\ FrameDeadline > 0
    /\ IdleTimeout \in Nat /\ IdleTimeout > 0
    /\ MaxBuffered \in Nat
BY EventServerBounds

\* No thread waits at the start.
LEMMA ClocksInit == Init => Clocks
BY DEF Init, Clocks, NoThread, Threads, Pcs, Timely

\* A thread that is started waits for the prefix.
LEMMA StartedIsTimely == Started \in Threads /\ Timely(Started)
<1>1. NoThread \in Threads /\ NoThread.stage = "prefix" /\ NoThread.held = 0
    BY DEF NoThread, Threads, Pcs
<1>2. Started = [NoThread EXCEPT !.pc = "read", !.left = InitialDeadline, !.slice = 1]
    BY DEF Started
<1> DEFINE h == NoThread
<1>3. h \in Threads /\ h.stage = "prefix" /\ h.held = 0
    BY <1>1
<1>4. Started = [h EXCEPT !.pc = "read", !.left = InitialDeadline, !.slice = 1]
    BY <1>2
<1> HIDE DEF h
<1>5. /\ Started \in Threads /\ Started.pc = "read" /\ Started.left = InitialDeadline
      /\ Started.held = 0 /\ Started.stage = "prefix"
    BY <1>3, <1>4, Constants DEF Threads, Pcs
<1> QED BY <1>5, Constants DEF Timely, StageDeadline

\* A handler action changes its own thread; this is what the new thread must be.
LEMMA OneThread ==
    ASSUME Clocks, NEW c \in Connection, NEW h \in Threads, Timely(h),
           handler' = [handler EXCEPT ![c] = h]
    PROVE  Clocks'
BY DEF Clocks

\* A thread that goes on to where it waits for nobody.
LEMMA Moves ==
    ASSUME Clocks, NEW c \in Connection, NEW r \in Threads, r.pc \notin {"read", "write"},
           handler' = [handler EXCEPT ![c] = r]
    PROVE  Clocks'
<1>1. Timely(r)
    BY DEF Timely
<1> QED BY <1>1, OneThread

\* A thread that begins to write has the whole deadline.
LEMMA Writes ==
    ASSUME Clocks, NEW c \in Connection, NEW closed \in BOOLEAN,
           handler' = [handler EXCEPT ![c] =
              [handler[c] EXCEPT !.pc = "write", !.left = FrameDeadline, !.held = 0, !.closed = closed]]
    PROVE  Clocks'
<1> DEFINE r == [handler[c] EXCEPT !.pc = "write", !.left = FrameDeadline, !.held = 0, !.closed = closed]
<1>1. handler[c] \in Threads
    BY DEF Clocks
<1>2. r \in Threads /\ r.pc = "write" /\ r.left = FrameDeadline /\ r.held = 0
    BY <1>1, Constants DEF Threads, Pcs
<1>3. Timely(r)
    BY <1>2, Constants DEF Timely
<1>4. handler' = [handler EXCEPT ![c] = r]
    OBVIOUS
<1> HIDE DEF r
<1> QED BY <1>2, <1>3, <1>4, OneThread

\* So has one that begins to read something else.
LEMMA Reads ==
    ASSUME Clocks, NEW c \in Connection, NEW r \in Threads, r.pc = "read", r.held = 0,
           r.left = StageDeadline(r.stage), handler' = [handler EXCEPT ![c] = r]
    PROVE  Clocks'
<1>1. r.left \in Nat /\ r.left > 0
    BY Constants DEF StageDeadline, Threads
<1>2. Timely(r)
    BY <1>1 DEF Timely
<1> QED BY <1>2, OneThread

\* A handler that reads, answers or ends keeps the deadlines.
LEMMA ClocksHandler ==
    ASSUME Clocks, NEW c \in Connection, HandlerStep(c)
    PROVE  Clocks'
<1> DEFINE h == handler[c]
<1>0. /\ h \in Threads /\ Timely(h)
      /\ handler \in [Connection -> Threads]
    BY DEF Clocks
<1>a. ASSUME NEW pc \in Pcs, pc # "read", pc # "write", handler' = [handler EXCEPT ![c].pc = pc]
      PROVE  Clocks'
    <2> DEFINE r == [h EXCEPT !.pc = pc]
    <2>1. r \in Threads /\ r.pc = pc
        BY <1>0 DEF Threads
    <2>2. handler' = [handler EXCEPT ![c] = r]
        BY <1>a
    <2> HIDE DEF r
    <2> QED BY <1>a, <2>1, <2>2, Moves
<1>b. ASSUME StartWrite(c)
      PROVE  Clocks'
    <2>1. [h EXCEPT !.pc = "write", !.left = FrameDeadline, !.held = 0]
          = [h EXCEPT !.pc = "write", !.left = FrameDeadline, !.held = 0, !.closed = h.closed]
        BY <1>0 DEF Threads
    <2>2. h.closed \in BOOLEAN
        BY <1>0 DEF Threads
    <2>3. handler' = [handler EXCEPT ![c] =
             [h EXCEPT !.pc = "write", !.left = FrameDeadline, !.held = 0, !.closed = h.closed]]
        BY <1>b, <2>1 DEF StartWrite
    <2> QED BY <2>2, <2>3, Writes
<1>1. CASE Look(c)
    <2>1. CASE handler' = [handler EXCEPT ![c].pc = "finish"]
        BY <1>a, <2>1 DEF Pcs
    <2>2. CASE handler' = [handler EXCEPT ![c].slice = 1] /\ h.pc = "read" /\ h.left # 0
        <3> DEFINE r == [h EXCEPT !.slice = 1]
        <3>1. /\ r \in Threads /\ r.pc = "read" /\ r.left = h.left /\ r.held = h.held
              /\ r.stage = h.stage /\ r.left \in Nat
            BY <1>0, <2>2 DEF Threads
        <3>2. handler' = [handler EXCEPT ![c] = r]
            BY <2>2
        <3>3. Timely(r)
            BY <1>0, <2>2, <3>1 DEF Timely
        <3> HIDE DEF r
        <3> QED BY <3>1, <3>2, <3>3, OneThread
    <2> QED BY <1>1, <2>1, <2>2 DEF Look, Goto, At
<1>2. CASE Piece(c)
    <2>1. CASE UNCHANGED handler
        BY <2>1 DEF Clocks
    <2>2. CASE /\ h.pc = "read" /\ h.slice > 0
               /\ handler' = [handler EXCEPT ![c] =
                     [h EXCEPT !.stage = "frame", !.left = FrameDeadline, !.held = 0]]
        <3> DEFINE r == [h EXCEPT !.stage = "frame", !.left = FrameDeadline, !.held = 0]
        <3>1. /\ r \in Threads /\ r.pc = "read" /\ r.stage = "frame"
              /\ r.left = FrameDeadline /\ r.held = 0
            BY <1>0, <2>2, Constants DEF Threads
        <3>2. handler' = [handler EXCEPT ![c] = r]
            BY <2>2
        <3>3. FrameDeadline = StageDeadline("frame")
            BY DEF StageDeadline
        <3> HIDE DEF r
        <3> QED BY <3>1, <3>2, <3>3, Reads
    <2> QED BY <1>2, <2>1, <2>2 DEF Piece, Reading, At
<1>3. CASE Lost(c)
    BY <1>3, <1>a DEF Lost, Goto, Pcs
<1>4. CASE LastLine(c)
    <2>1. handler' = [handler EXCEPT ![c] = [h EXCEPT !.pc = "process", !.wire = "jsonl"]]
        BY <1>4 DEF LastLine
    <2> DEFINE r == [h EXCEPT !.pc = "process", !.wire = "jsonl"]
    <2>2. r \in Threads /\ r.pc = "process"
        BY <1>0 DEF Threads, Pcs
    <2>3. handler' = [handler EXCEPT ![c] = r]
        BY <2>1
    <2> HIDE DEF r
    <2> QED BY <2>2, <2>3, Moves
<1>5. ASSUME NEW wire \in {"v1", "v2", "jsonl"}, Prefix(c, wire) PROVE Clocks'
    <2> DEFINE r == [h EXCEPT !.wire = wire, !.stage = "frame", !.left = FrameDeadline, !.held = 0]
    <2>1. h.pc = "read" /\ handler' = [handler EXCEPT ![c] = r]
        BY <1>5 DEF Prefix, Reading, At
    <2>2. /\ r \in Threads /\ r.pc = "read" /\ r.stage = "frame"
          /\ r.left = FrameDeadline /\ r.held = 0
        BY <1>0, <2>1, Constants DEF Threads
    <2>3. FrameDeadline = StageDeadline("frame")
        BY DEF StageDeadline
    <2> HIDE DEF r
    <2> QED BY <2>1, <2>2, <2>3, Reads
<1>6. ASSUME NEW n \in Nat,
             handler' = [handler EXCEPT ![c] = [h EXCEPT !.pc = "process", !.buffered = n]]
      PROVE  Clocks'
    <2> DEFINE r == [h EXCEPT !.pc = "process", !.buffered = n]
    <2>1. r \in Threads /\ r.pc = "process"
        BY <1>0 DEF Threads, Pcs
    <2>2. handler' = [handler EXCEPT ![c] = r]
        BY <1>6
    <2> HIDE DEF r
    <2> QED BY <2>1, <2>2, Moves
<1>7. ASSUME NEW lines \in 0..MaxBuffered, Request(c, lines) PROVE Clocks'
    <2>1. lines \in Nat
        BY Constants
    <2>2. handler' = [handler EXCEPT ![c] = [h EXCEPT !.pc = "process", !.buffered = lines]]
        BY <1>7 DEF Request
    <2> QED BY <1>6, <2>1, <2>2
<1>8. CASE BufferedRequest(c)
    <2>1. h.buffered \in Nat /\ h.buffered > 0
        BY <1>0, <1>8 DEF BufferedRequest, Threads
    <2>2. handler' = [handler EXCEPT ![c] = [h EXCEPT !.pc = "process", !.buffered = h.buffered - 1]]
        BY <1>8 DEF BufferedRequest
    <2>3. h.buffered - 1 \in Nat
        BY <2>1
    <2> QED BY <1>6, <2>2, <2>3
<1>9. CASE Process(c)
    BY <1>9, <1>b DEF Process
<1>10. CASE Comment(c)
    BY <1>10, <1>a DEF Comment, Goto, Pcs
<1>11. CASE BadLine(c)
    BY <1>11, Writes DEF BadLine
<1>12. CASE ProcessLast(c)
    <2>1. CASE handler' = [handler EXCEPT ![c] = [h EXCEPT !.pc = "give", !.closed = TRUE]]
        <3> DEFINE r == [h EXCEPT !.pc = "give", !.closed = TRUE]
        <3>1. r \in Threads /\ r.pc = "give"
            BY <1>0 DEF Threads, Pcs
        <3>2. handler' = [handler EXCEPT ![c] = r]
            BY <2>1
        <3> HIDE DEF r
        <3> QED BY <3>1, <3>2, Moves
    <2>2. CASE handler' = [handler EXCEPT ![c] = [h EXCEPT !.pc = "write", !.left = FrameDeadline,
                                                           !.held = 0, !.closed = TRUE]]
        BY <2>2, Writes
    <2> QED BY <1>12, <2>1, <2>2 DEF ProcessLast, ForgetRequest
<1>13. CASE GiveSlot(c)
    BY <1>13, <1>b DEF GiveSlot
<1>14. CASE Written(c)
    <2>1. PICK pc \in {"finish", "next"} : handler' = [handler EXCEPT ![c].pc = pc]
        BY <1>14 DEF Written, Goto
    <2> QED BY <1>a, <2>1 DEF Pcs
<1>15. CASE WriteFails(c)
    BY <1>15, <1>a DEF WriteFails, Goto, Pcs
<1>16. ASSUME NEW begun \in BOOLEAN, AwaitRequest(c, begun) PROVE Clocks'
    <2> DEFINE slice == IF shutdown THEN 0 ELSE 1
               stage == IF begun THEN "frame" ELSE "idle"
    <2>1. /\ slice \in {0, 1} /\ stage \in {"frame", "idle"}
          /\ StageDeadline(stage) = IF begun THEN FrameDeadline ELSE IdleTimeout
        BY DEF StageDeadline
    <2> DEFINE r == [h EXCEPT !.pc = "read", !.slice = slice, !.held = 0, !.stage = stage,
                              !.left = StageDeadline(stage)]
    <2>2. handler' = [handler EXCEPT ![c] = r]
        BY <1>16, <2>1 DEF AwaitRequest
    <2>3. StageDeadline(stage) \in Nat
        BY <2>1, Constants
    <2> HIDE DEF slice, stage
    <2>4. /\ r \in Threads /\ r.pc = "read" /\ r.stage = stage
          /\ r.left = StageDeadline(stage) /\ r.held = 0
        BY <1>0, <2>1, <2>3 DEF Threads, Pcs
    <2> HIDE DEF r
    <2> QED BY <2>2, <2>4, Reads
<1>17. CASE Finish(c)
    BY <1>17, <1>a DEF Finish, Goto, Pcs
<1>18. CASE ReleaseLast(c)
    BY <1>18, <1>a DEF ReleaseLast, ForgetRequest, Goto, Pcs
<1>19. CASE GiveLast(c)
    BY <1>19, <1>a DEF GiveLast, Goto, Pcs
<1> QED
    BY <1>1, <1>2, <1>3, <1>4, <1>5, <1>7, <1>8, <1>9, <1>10, <1>11, <1>12, <1>13, <1>14, <1>15,
       <1>16, <1>17, <1>18, <1>19 DEF HandlerStep

\* The main thread starts threads and leaves them alone otherwise.
LEMMA MainHandler ==
    ASSUME MainStep \/ Interrupt \/ (\E c \in Connection : Accept(c))
    PROVE  \/ UNCHANGED handler
           \/ main.pc = "start" /\ handler' = [handler EXCEPT ![main.hand] = Started]
BY DEF MainStep, Interrupt, Accept, Acquire, Refuse, AddActiveRequest, Start, ServedOnce, StartFails,
       Undo, GiveBack, Drop, SetShutdown, CopyActive, ShutRequest, Join

\* Time only passes while there is some left of every deadline that runs: what is held
\* grows by what is left less.
LEMMA ClocksTick ==
    ASSUME Clocks, Tick
    PROVE  Clocks'
<1> SUFFICES ASSUME NEW c \in Connection
             PROVE  Waited(handler[c]) \in Threads /\ Timely(Waited(handler[c]))
    BY DEF Clocks, Tick
<1> DEFINE h == handler[c]
<1>1. h \in Threads /\ Timely(h) /\ Blocked(c)
    BY DEF Clocks, Tick
<1>2. CASE h.pc \notin {"read", "write"}
    BY <1>1, <1>2 DEF Waited
<1>3. CASE h.pc \in {"read", "write"}
    <2>1. h.left \in Nat /\ h.left > 0
        BY <1>1, <1>3 DEF Blocked, Reading, At, Threads, Timely
    <2> DEFINE n == h.left - 1
               m == h.held + 1
    <2>2. /\ Waited(h) = [h EXCEPT !.left = n, !.slice = 0, !.held = m]
          /\ h.held \in Nat /\ h.stage \in {"prefix", "frame", "idle"}
        BY <1>1, <1>3 DEF Waited, Threads
    <2>n. n \in Nat /\ n = h.left - 1 /\ m \in Nat /\ m = h.held + 1
        BY <2>1, <2>2
    <2> HIDE DEF n, m
    <2> DEFINE r == [h EXCEPT !.left = n, !.slice = 0, !.held = m]
    <2>3. /\ r \in Threads /\ r.pc = h.pc /\ r.stage = h.stage /\ r.slice = 0
          /\ r.left = n /\ r.held = m
        BY <1>1, <2>n DEF Threads
    <2> DEFINE d == StageDeadline(h.stage)
    <2>4. d \in Nat /\ StageDeadline(r.stage) = d
        BY <2>2, <2>3, Constants DEF StageDeadline
    <2>5. /\ h.pc = "read" => h.held + h.left <= d
          /\ h.pc = "write" => h.held + h.left <= FrameDeadline
        BY <1>1 DEF Timely
    <2> HIDE DEF r, d
    <2>6. Timely(r)
        BY <2>1, <2>2, <2>n, <2>3, <2>4, <2>5, Constants DEF Timely
    <2> QED BY <2>2, <2>3, <2>6 DEF r
<1> QED BY <1>2, <1>3

\* The deadlines are kept by every step.
LEMMA ClocksNext == Clocks /\ [Next]_vars => Clocks'
<1> SUFFICES ASSUME Clocks, [Next]_vars PROVE Clocks'
    OBVIOUS
<1>1. ASSUME NEW c \in Connection, HandlerStep(c) PROVE Clocks'
    BY <1>1, ClocksHandler
<1>2. CASE MainStep \/ Interrupt \/ (\E c \in Connection : Accept(c))
    <2>1. CASE UNCHANGED handler
        BY <2>1 DEF Clocks
    <2>2. CASE handler' = [handler EXCEPT ![main.hand] = Started]
        BY <2>2, StartedIsTimely DEF Clocks
    <2> QED BY <1>2, <2>1, <2>2, MainHandler
<1>3. CASE Tick
    BY <1>3, ClocksTick
<1>4. CASE UNCHANGED vars
    BY <1>4 DEF Clocks, vars
<1> QED BY <1>1, <1>2, <1>3, <1>4 DEF Next

\* Whatever the deadlines are and whatever its client does, no thread reads or writes
\* beyond the deadline of what it is at (server.py _DeadlineSocketReader).
THEOREM StalledClientsDropped == Spec => []StalledClientsAreDropped
<1>1. Clocks => StalledClientsAreDropped
    <2> SUFFICES ASSUME Clocks, NEW c \in Connection
                 PROVE  /\ At(c, "read") => handler[c].held <= StageDeadline(handler[c].stage)
                        /\ At(c, "write") => handler[c].held <= FrameDeadline
        BY DEF StalledClientsAreDropped, StageDeadline
    <2> DEFINE h == handler[c]
    <2>1. h \in Threads /\ Timely(h)
        BY DEF Clocks
    <2>2. h.held \in Nat /\ h.left \in Nat /\ h.stage \in {"prefix", "frame", "idle"}
        BY <2>1 DEF Threads
    <2>3. StageDeadline(h.stage) \in Nat
        BY <2>2, Constants DEF StageDeadline
    <2> QED BY <2>1, <2>2, <2>3, Constants DEF Timely, At
<1> QED BY <1>1, ClocksInit, ClocksNext, PTL DEF Spec

-----------------------------------------------------------------------------
(* Slots.                                                                  *)

Owing == {"give", "final_give"}
Giving == {c \in Connection : handler[c].pc \in Owing}

\* A thread that has closed its socket.
Ended == {"final", "final_give", "gone"}

\* What a step of a handler does to its own program counter and to the slots: nothing,
\* take the connection from the active ones, or give the slot back.  It closes its
\* socket before it ends, and takes the connection from the active ones by then.
HandlerEffect(c) ==
    /\ UNCHANGED <<main, leaked>>
    /\ UNCHANGED sock \/ CloseSocket(c)
    /\ handler[c].pc \notin {"off", "gone"} /\ handler'[c].pc # "off"
    /\ \/ handler'[c].pc \notin Ended
       \/ handler[c].pc \in Ended /\ UNCHANGED sock
       \/ CloseSocket(c)
    /\ handler'[c].pc = "gone" => c \notin active' \/ handler[c].pc = "final_give"
    /\ \A d \in Connection \ {c} : handler'[d] = handler[d]
    /\ \/ /\ handler[c].pc \notin Owing /\ handler'[c].pc \notin Owing
          /\ UNCHANGED <<slots, active, count>>
       \/ /\ handler[c].pc \notin Owing /\ handler'[c].pc \in Owing
          /\ c \in active /\ active' = active \ {c} /\ count' = count - 1
          /\ UNCHANGED slots
       \/ /\ handler[c].pc \in Owing /\ handler'[c].pc \notin Owing
          /\ slots' = slots + 1
          /\ UNCHANGED <<active, count>>

\* Every step of a handler has such an effect.
LEMMA HandlerStepEffect ==
    ASSUME Clocks, NEW c \in Connection, HandlerStep(c)
    PROVE  HandlerEffect(c)
<1> DEFINE h == handler[c]
<1>0. h \in Threads /\ handler \in [Connection -> Threads]
    BY DEF Clocks
<1>a. ASSUME NEW r, handler' = [handler EXCEPT ![c] = r]
      PROVE  handler'[c] = r /\ \A d \in Connection \ {c} : handler'[d] = handler[d]
    BY <1>0, <1>a
<1>b. ASSUME NEW pc, handler' = [handler EXCEPT ![c].pc = pc]
      PROVE  handler'[c].pc = pc /\ \A d \in Connection \ {c} : handler'[d] = handler[d]
    BY <1>0, <1>b DEF Threads
<1>1. CASE Look(c)
    <2>1. h.pc = "read"
        BY <1>1 DEF Look, At
    <2>2. CASE handler' = [handler EXCEPT ![c].pc = "finish"]
        BY <1>1, <1>b, <2>1, <2>2 DEF Look, HandlerEffect, Owing, Ended
    <2>3. CASE handler' = [handler EXCEPT ![c].slice = 1]
        <3>1. [h EXCEPT !.slice = 1].pc = "read"
            BY <1>0, <2>1 DEF Threads
        <3>2. handler' = [handler EXCEPT ![c] = [h EXCEPT !.slice = 1]]
            BY <2>3
        <3> QED BY <1>1, <1>a, <2>1, <3>1, <3>2 DEF Look, HandlerEffect, Owing, Ended
    <2> QED BY <1>1, <2>2, <2>3 DEF Look, Goto
<1>2. CASE Piece(c)
    <2>1. h.pc = "read"
        BY <1>2 DEF Piece, Reading, At
    <2>2. CASE UNCHANGED handler
        BY <1>2, <2>1, <2>2 DEF Piece, HandlerEffect, Owing, Ended
    <2>3. CASE handler' = [handler EXCEPT ![c] =
                 [h EXCEPT !.stage = "frame", !.left = FrameDeadline, !.held = 0]]
        <3>1. [h EXCEPT !.stage = "frame", !.left = FrameDeadline, !.held = 0].pc = "read"
            BY <1>0, <2>1 DEF Threads
        <3> QED BY <1>2, <1>a, <2>1, <2>3, <3>1 DEF Piece, HandlerEffect, Owing, Ended
    <2> QED BY <1>2, <2>2, <2>3 DEF Piece
<1>3. CASE Lost(c)
    BY <1>3, <1>b DEF Lost, Goto, Reading, At, HandlerEffect, Owing, Ended
<1>4. CASE LastLine(c)
    <2>1. [h EXCEPT !.pc = "process", !.wire = "jsonl"].pc = "process"
        BY <1>0 DEF Threads
    <2> QED BY <1>4, <1>a, <2>1 DEF LastLine, Reading, At, HandlerEffect, Owing, Ended
<1>5. ASSUME NEW wire \in {"v1", "v2", "jsonl"}, Prefix(c, wire) PROVE HandlerEffect(c)
    <2>1. h.pc = "read"
        BY <1>5 DEF Prefix, Reading, At
    <2>2. [h EXCEPT !.wire = wire, !.stage = "frame", !.left = FrameDeadline, !.held = 0].pc = "read"
        BY <1>0, <2>1 DEF Threads
    <2> QED BY <1>5, <1>a, <2>1, <2>2 DEF Prefix, HandlerEffect, Owing, Ended
<1>6. ASSUME NEW lines \in 0..MaxBuffered, Request(c, lines) PROVE HandlerEffect(c)
    <2>1. [h EXCEPT !.pc = "process", !.buffered = lines].pc = "process"
        BY <1>0 DEF Threads
    <2> QED BY <1>6, <1>a, <2>1 DEF Request, Reading, At, HandlerEffect, Owing, Ended
<1>7. CASE BufferedRequest(c)
    <2>1. [h EXCEPT !.pc = "process", !.buffered = h.buffered - 1].pc = "process"
        BY <1>0 DEF Threads
    <2> QED BY <1>7, <1>a, <2>1 DEF BufferedRequest, At, HandlerEffect, Owing, Ended
<1>w. [h EXCEPT !.pc = "write", !.left = FrameDeadline, !.held = 0].pc = "write"
    BY <1>0 DEF Threads
<1>v. [h EXCEPT !.pc = "write", !.left = FrameDeadline, !.held = 0, !.closed = TRUE].pc = "write"
    BY <1>0 DEF Threads
<1>8. CASE Process(c)
    BY <1>8, <1>a, <1>w DEF Process, StartWrite, At, HandlerEffect, Owing, Ended
<1>9. CASE Comment(c)
    BY <1>9, <1>b DEF Comment, Goto, At, HandlerEffect, Owing, Ended
<1>10. CASE BadLine(c)
    BY <1>10, <1>a, <1>v DEF BadLine, At, HandlerEffect, Owing, Ended
<1>11. CASE ProcessLast(c)
    <2>1. [h EXCEPT !.pc = "give", !.closed = TRUE].pc = "give"
        BY <1>0 DEF Threads
    <2>2. CASE c \in active
        BY <1>11, <1>a, <2>1, <2>2 DEF ProcessLast, ForgetRequest, At, HandlerEffect, Owing, Ended
    <2>3. CASE c \notin active
        BY <1>11, <1>a, <1>v, <2>3 DEF ProcessLast, ForgetRequest, At, HandlerEffect, Owing, Ended
    <2> QED BY <2>2, <2>3
<1>12. CASE GiveSlot(c)
    BY <1>12, <1>a, <1>w DEF GiveSlot, StartWrite, At, HandlerEffect, Owing, Ended
<1>13. CASE Written(c)
    <2>1. PICK pc \in {"finish", "next"} : handler' = [handler EXCEPT ![c].pc = pc]
        BY <1>13 DEF Written, Goto
    <2> QED BY <1>13, <1>b, <2>1 DEF Written, At, HandlerEffect, Owing, Ended
<1>14. CASE WriteFails(c)
    BY <1>14, <1>b DEF WriteFails, Goto, At, HandlerEffect, Owing, Ended
<1>15. ASSUME NEW begun \in BOOLEAN, AwaitRequest(c, begun) PROVE HandlerEffect(c)
    <2> DEFINE r == [h EXCEPT !.pc = "read", !.slice = IF shutdown THEN 0 ELSE 1, !.held = 0,
                              !.stage = IF begun THEN "frame" ELSE "idle",
                              !.left = IF begun THEN FrameDeadline ELSE IdleTimeout]
    <2>1. r.pc = "read"
        BY <1>0 DEF Threads
    <2>2. handler' = [handler EXCEPT ![c] = r]
        BY <1>15 DEF AwaitRequest
    <2> HIDE DEF r
    <2> QED BY <1>15, <1>a, <2>1, <2>2 DEF AwaitRequest, At, HandlerEffect, Owing, Ended
<1>16. CASE Finish(c)
    BY <1>16, <1>b DEF Finish, Goto, At, HandlerEffect, Owing, Ended
<1>17. CASE ReleaseLast(c)
    <2>1. CASE c \in active
        BY <1>17, <1>b, <2>1 DEF ReleaseLast, ForgetRequest, Goto, At, HandlerEffect, Owing, Ended
    <2>2. CASE c \notin active
        BY <1>17, <1>b, <2>2 DEF ReleaseLast, ForgetRequest, Goto, At, HandlerEffect, Owing, Ended
    <2> QED BY <2>1, <2>2
<1>18. CASE GiveLast(c)
    <2>1. handler'[c].pc = "gone" /\ \A d \in Connection \ {c} : handler'[d] = handler[d]
        BY <1>18, <1>b DEF GiveLast, Goto
    <2> QED BY <1>18, <2>1 DEF GiveLast, At, HandlerEffect, Owing, Ended
<1> QED
    BY <1>1, <1>2, <1>3, <1>4, <1>5, <1>6, <1>7, <1>8, <1>9, <1>10, <1>11, <1>12, <1>13, <1>14,
       <1>15, <1>16, <1>17, <1>18 DEF HandlerStep

MainPcs == {"select", "acquire", "add", "start", "serve", "undo", "undo_stop", "give", "give_stop",
            "drop", "drop_stop", "close", "copy", "shut", "done"}

MainThread ==
    main \in [pc : MainPcs, once : BOOLEAN, hand : Connection \cup {NoConnection},
              todo : SUBSET Connection]

\* A connection that was not accepted yet has neither a thread nor a slot, and the one
\* the main thread has in hand has no thread before that is started and is not among
\* the active ones before it is added.
Hand ==
    /\ sock \in [Connection -> {"new", "open", "shut", "closed"}]
    /\ \A c \in Connection : sock[c] = "new" => c \notin active /\ handler[c].pc = "off"
    /\ main.pc \in {"acquire", "add", "start"} =>
          /\ main.hand \in Connection
          /\ sock[main.hand] # "new" /\ handler[main.hand].pc = "off"
    /\ main.pc \in {"acquire", "add"} => main.hand \notin active

\* Where a slot can be: free, with an active connection, in the hand of a thread or of
\* the main thread, or lost to an interrupt.
InMainHand == IF main.pc \in {"add", "give", "give_stop"} THEN 1 ELSE 0

Slots ==
    /\ active \subseteq Connection /\ IsFiniteSet(active) /\ IsFiniteSet(Giving)
    /\ slots \in Nat /\ leaked \in Nat
    /\ count = Cardinality(active)
    /\ slots + count + Cardinality(Giving) + InMainHand + leaked = MaxActive

SlotInv == Clocks /\ MainThread /\ Hand /\ Slots

\* At the start all slots are free.
LEMMA SlotInit == Init => SlotInv
<1> SUFFICES ASSUME Init PROVE MainThread /\ Hand /\ Slots
    BY ClocksInit DEF SlotInv
<1>1. main.pc = "select" /\ MainThread
    BY DEF Init, MainThread, MainPcs
<1>2. \A c \in Connection : handler[c].pc = "off"
    BY DEF Init, NoThread
<1>3. Giving = {}
    BY <1>2 DEF Giving, Owing
<1>4. Hand
    BY <1>1, <1>2 DEF Init, Hand
<1>5. IsFiniteSet({}) /\ Cardinality({}) = 0
    BY FS_EmptySet
<1>6. InMainHand = 0
    BY <1>1 DEF InMainHand
<1>7. Slots
    BY <1>3, <1>5, <1>6, Constants DEF Init, Slots
<1> QED BY <1>1, <1>4, <1>7

\* A handler gives its slot back once, early or at its end.
LEMMA SlotHandler ==
    ASSUME SlotInv, NEW c \in Connection, HandlerStep(c)
    PROVE  SlotInv'
<1>1. HandlerEffect(c) /\ Clocks'
    BY HandlerStepEffect, ClocksHandler DEF SlotInv
<1>2. MainThread'
    BY <1>1 DEF SlotInv, MainThread, HandlerEffect
<1>3. Hand'
    <2>1. active' \subseteq active
        BY <1>1 DEF HandlerEffect
    <2>2. sock[c] # "new"
        BY <1>1 DEF SlotInv, Hand, HandlerEffect
    <2>3. /\ sock' \in [Connection -> {"new", "open", "shut", "closed"}]
          /\ \A d \in Connection : sock'[d] = "new" <=> sock[d] = "new"
        BY <1>1, <2>2 DEF SlotInv, Hand, HandlerEffect, CloseSocket
    <2>4. \A d \in Connection : handler[d].pc = "off" => handler'[d] = handler[d]
        BY <1>1 DEF HandlerEffect
    <2>5. main' = main
        BY <1>1 DEF HandlerEffect
    <2> QED BY <2>1, <2>3, <2>4, <2>5 DEF SlotInv, Hand
<1>4. Slots'
    <2>0. /\ active \subseteq Connection /\ IsFiniteSet(active) /\ IsFiniteSet(Giving)
          /\ slots \in Nat /\ leaked \in Nat /\ count = Cardinality(active)
          /\ slots + count + Cardinality(Giving) + InMainHand + leaked = MaxActive
          /\ InMainHand \in Nat /\ InMainHand' = InMainHand /\ leaked' = leaked
          /\ \A d \in Connection \ {c} : handler'[d] = handler[d]
        BY <1>1 DEF SlotInv, Slots, InMainHand, HandlerEffect
    <2>c. Cardinality(active) \in Nat /\ Cardinality(Giving) \in Nat
        BY <2>0, FS_CardinalityType
    <2>1. CASE /\ handler[c].pc \notin Owing /\ handler'[c].pc \notin Owing
               /\ UNCHANGED <<slots, active, count>>
        <3>1. Giving' = Giving
            BY <2>0, <2>1 DEF Giving
        <3> QED BY <2>0, <2>1, <3>1 DEF Slots
    <2>2. CASE /\ handler[c].pc \notin Owing /\ handler'[c].pc \in Owing
               /\ c \in active /\ active' = active \ {c} /\ count' = count - 1
               /\ UNCHANGED slots
        <3>1. Giving' = Giving \cup {c} /\ c \notin Giving
            BY <2>0, <2>2 DEF Giving
        <3>2. IsFiniteSet(Giving') /\ Cardinality(Giving') = Cardinality(Giving) + 1
            BY <2>0, <3>1, FS_AddElement
        <3>3. IsFiniteSet(active') /\ Cardinality(active') = Cardinality(active) - 1
            BY <2>0, <2>2, FS_RemoveElement
        <3>4. slots' + count' + Cardinality(Giving') + InMainHand' + leaked' = MaxActive
            BY <2>0, <2>c, <2>2, <3>2
        <3> QED BY <2>0, <2>2, <3>2, <3>3, <3>4 DEF Slots
    <2>3. CASE /\ handler[c].pc \in Owing /\ handler'[c].pc \notin Owing
               /\ slots' = slots + 1
               /\ UNCHANGED <<active, count>>
        <3>1. Giving' = Giving \ {c} /\ c \in Giving
            BY <2>0, <2>3 DEF Giving
        <3>2. IsFiniteSet(Giving') /\ Cardinality(Giving') = Cardinality(Giving) - 1
            BY <2>0, <3>1, FS_RemoveElement
        <3>3. slots' + count' + Cardinality(Giving') + InMainHand' + leaked' = MaxActive
            BY <2>0, <2>c, <2>3, <3>2
        <3> QED BY <2>0, <2>3, <3>2, <3>3 DEF Slots
    <2> QED BY <1>1, <2>1, <2>2, <2>3 DEF HandlerEffect
<1> QED BY <1>1, <1>2, <1>3, <1>4 DEF SlotInv

\* What a step of the main thread has to do for the slots to go on adding up.
LEMMA MainKeeps ==
    ASSUME SlotInv, MainStep \/ Interrupt \/ (\E c \in Connection : Accept(c)),
           MainThread', Hand',
           active' \subseteq Connection, IsFiniteSet(active'), slots' \in Nat, leaked' \in Nat,
           count' = Cardinality(active'),
           slots' + count' + InMainHand' + leaked' = slots + count + InMainHand + leaked
    PROVE  SlotInv'
<1>1. Clocks'
    BY ClocksNext DEF SlotInv, Next
<1>2. Giving' = Giving
    <2>1. CASE UNCHANGED handler
        BY <2>1 DEF Giving
    <2>2. CASE main.pc = "start" /\ handler' = [handler EXCEPT ![main.hand] = Started]
        <3>1. main.hand \in Connection /\ handler[main.hand].pc = "off"
            BY <2>2 DEF SlotInv, Hand
        <3>2. Started.pc = "read"
            BY DEF Started, NoThread
        <3>3. \A d \in Connection : handler'[d].pc \in Owing <=> handler[d].pc \in Owing
            BY <2>2, <3>1, <3>2 DEF SlotInv, Clocks, Owing
        <3> QED BY <3>3 DEF Giving
    <2> QED BY <2>1, <2>2, MainHandler
<1>3. /\ IsFiniteSet(active) /\ IsFiniteSet(Giving) /\ slots \in Nat /\ leaked \in Nat
      /\ count = Cardinality(active) /\ InMainHand \in Nat /\ InMainHand' \in Nat
      /\ slots + count + Cardinality(Giving) + InMainHand + leaked = MaxActive
    BY DEF SlotInv, Slots, InMainHand
<1>4. Cardinality(active) \in Nat /\ Cardinality(active') \in Nat /\ Cardinality(Giving) \in Nat
    BY <1>3, FS_CardinalityType
<1>5. slots' + count' + Cardinality(Giving) + InMainHand' + leaked' = MaxActive
    BY <1>3, <1>4, Constants
<1> QED BY <1>1, <1>2, <1>3, <1>5 DEF SlotInv, Slots

\* The main thread takes a slot, hands it to a thread, or gives it back.
LEMMA SlotMain ==
    ASSUME SlotInv, MainStep \/ Interrupt \/ (\E c \in Connection : Accept(c))
    PROVE  SlotInv'
<1>0. /\ MainThread /\ Hand /\ Slots
      /\ active \subseteq Connection /\ IsFiniteSet(active) /\ slots \in Nat /\ leaked \in Nat
      /\ count = Cardinality(active) /\ Cardinality(active) \in Nat
    BY FS_CardinalityType DEF SlotInv, Slots
\* Steps that leave the slots alone.
<1>a. ASSUME UNCHANGED <<slots, active, count, leaked>>, MainThread', Hand',
             main.pc \in {"add", "give", "give_stop"} <=> main'.pc \in {"add", "give", "give_stop"}
      PROVE  SlotInv'
    <2>1. InMainHand' = InMainHand
        BY <1>a DEF InMainHand
    <2> QED BY <1>0, <1>a, <2>1, MainKeeps
\* Steps that leave threads and connections alone.
<1>b. ASSUME UNCHANGED handler, active' \subseteq active,
             main'.pc \notin {"acquire", "add", "start"},
             UNCHANGED sock \/ \E c \in Connection \cup {NoConnection}, state \in {"shut", "closed"} :
                                  sock' = [sock EXCEPT ![c] = IF state = "closed" THEN state
                                                              ELSE IF @ = "open" THEN state ELSE @]
      PROVE  Hand'
    <2>1. /\ sock' \in [Connection -> {"new", "open", "shut", "closed"}]
          /\ \A c \in Connection : sock'[c] = "new" => sock[c] = "new"
        BY <1>0, <1>b DEF Hand
    <2> QED BY <1>0, <1>b, <2>1 DEF Hand
<1>1. ASSUME NEW c \in Connection, Accept(c) PROVE SlotInv'
    <2>1. MainThread' /\ main'.pc = "acquire" /\ main'.hand = c /\ main.pc = "select"
        BY <1>0, <1>1 DEF Accept, MainThread, MainPcs
    <2>2. Hand'
        BY <1>0, <1>1, <2>1 DEF Accept, Hand
    <2> QED BY <1>1, <1>a, <2>1, <2>2 DEF Accept
<1>2. CASE Acquire
    <2>1. MainThread' /\ main'.pc = "add" /\ main'.hand = main.hand /\ main.pc = "acquire"
        BY <1>0, <1>2 DEF Acquire, MainThread, MainPcs
    <2>2. Hand'
        BY <1>0, <1>2, <2>1 DEF Acquire, Hand
    <2>3. InMainHand = 0 /\ InMainHand' = 1
        BY <2>1 DEF InMainHand
    <2> QED BY <1>0, <1>2, <2>1, <2>2, <2>3, MainKeeps DEF Acquire
<1>3. CASE Refuse
    <2>1. MainThread' /\ main'.pc = "select" /\ main.pc = "acquire" /\ main.hand \in Connection
        BY <1>0, <1>3 DEF Refuse, MainThread, MainPcs, Hand
    <2>2. Hand'
        BY <1>3, <1>b, <2>1 DEF Refuse, CloseSocket
    <2> QED BY <1>3, <1>a, <2>1, <2>2 DEF Refuse
<1>4. CASE AddActiveRequest
    <2>1. /\ MainThread' /\ main'.pc = "start" /\ main'.hand = main.hand /\ main.pc = "add"
          /\ main.hand \in Connection /\ main.hand \notin active
        BY <1>0, <1>4 DEF AddActiveRequest, MainThread, MainPcs, Hand
    <2>2. Hand'
        BY <1>0, <1>4, <2>1 DEF AddActiveRequest, Hand
    <2>3. InMainHand = 1 /\ InMainHand' = 0
        BY <2>1 DEF InMainHand
    <2>4. IsFiniteSet(active') /\ Cardinality(active') = Cardinality(active) + 1
        BY <1>0, <1>4, <2>1, FS_AddElement DEF AddActiveRequest
    <2> QED BY <1>0, <1>4, <2>1, <2>2, <2>3, <2>4, MainKeeps DEF AddActiveRequest
<1>5. ASSUME main.pc = "start", UNCHANGED <<sock, active>>, main'.pc \notin {"acquire", "add", "start"},
             handler' = [handler EXCEPT ![main.hand] = Started]
      PROVE  Hand'
    <2>1. sock[main.hand] # "new"
        BY <1>0, <1>5 DEF Hand
    <2>2. \A c \in Connection : sock'[c] = "new" => handler'[c] = handler[c]
        BY <1>5, <2>1 DEF SlotInv, Clocks
    <2> QED BY <1>0, <1>5, <2>2 DEF Hand
<1>6. CASE Start
    <2>1. MainThread' /\ main'.pc \in {"serve", "select"} /\ main.pc = "start"
        BY <1>0, <1>6 DEF Start, MainThread, MainPcs
    <2>2. Hand'
        BY <1>5, <1>6, <2>1 DEF Start
    <2> QED BY <1>6, <1>a, <2>1, <2>2 DEF Start
<1>7. CASE ServedOnce
    <2>1. MainThread' /\ main'.pc = "close" /\ main.pc = "serve"
        BY <1>0, <1>7 DEF ServedOnce, MainThread, MainPcs
    <2>2. Hand'
        BY <1>7, <1>b, <2>1 DEF ServedOnce
    <2> QED BY <1>7, <1>a, <2>1, <2>2 DEF ServedOnce
<1>8. CASE StartFails
    <2>1. MainThread' /\ main'.pc = "undo" /\ main.pc = "start"
        BY <1>0, <1>8 DEF StartFails, MainThread, MainPcs
    <2>2. Hand'
        BY <1>8, <1>b, <2>1 DEF StartFails
    <2> QED BY <1>8, <1>a, <2>1, <2>2 DEF StartFails
<1>9. CASE Undo
    <2>1. main.pc \in {"undo", "undo_stop"} /\ UNCHANGED <<slots, sock, handler, leaked>>
        BY <1>9 DEF Undo
    <2>2. CASE main.hand \in active
        <3>1. /\ active' = active \ {main.hand} /\ count' = count - 1
              /\ main' = [main EXCEPT !.pc = IF main.pc = "undo" THEN "give" ELSE "give_stop"]
            BY <1>9, <2>2 DEF Undo, ForgetRequest
        <3>2. MainThread' /\ main'.pc \in {"give", "give_stop"}
            BY <1>0, <3>1 DEF MainThread, MainPcs
        <3>3. Hand'
            BY <1>b, <2>1, <3>1, <3>2
        <3>4. InMainHand = 0 /\ InMainHand' = 1
            BY <2>1, <3>2 DEF InMainHand
        <3>5. IsFiniteSet(active') /\ Cardinality(active') = Cardinality(active) - 1
            BY <1>0, <2>2, <3>1, FS_RemoveElement
        <3> QED BY <1>0, <2>1, <3>1, <3>2, <3>3, <3>4, <3>5, MainKeeps
    <2>3. CASE main.hand \notin active
        <3>1. /\ UNCHANGED <<active, count>>
              /\ main' = [main EXCEPT !.pc = IF main.pc = "undo" THEN "drop" ELSE "drop_stop"]
            BY <1>9, <2>3 DEF Undo, ForgetRequest
        <3>2. MainThread' /\ main'.pc \in {"drop", "drop_stop"}
            BY <1>0, <3>1 DEF MainThread, MainPcs
        <3>3. Hand'
            BY <1>b, <2>1, <3>1, <3>2
        <3> QED BY <1>a, <2>1, <3>1, <3>2, <3>3
    <2> QED BY <2>2, <2>3
<1>10. CASE GiveBack
    <2>1. /\ MainThread' /\ main'.pc \in {"drop", "drop_stop"} /\ main.pc \in {"give", "give_stop"}
        BY <1>0, <1>10 DEF GiveBack, MainThread, MainPcs
    <2>2. Hand'
        BY <1>10, <1>b, <2>1 DEF GiveBack
    <2>3. InMainHand = 1 /\ InMainHand' = 0
        BY <2>1 DEF InMainHand
    <2> QED BY <1>0, <1>10, <2>1, <2>2, <2>3, MainKeeps DEF GiveBack
<1>11. CASE Drop
    <2>1. /\ MainThread' /\ main'.pc \in {"select", "close"} /\ main.pc \in {"drop", "drop_stop"}
          /\ main.hand \in Connection \cup {NoConnection}
        BY <1>0, <1>11 DEF Drop, MainThread, MainPcs
    <2>2. Hand'
        BY <1>11, <1>b, <2>1 DEF Drop, CloseSocket
    <2> QED BY <1>11, <1>a, <2>1, <2>2 DEF Drop
<1>12. CASE Interrupt
    <2>1. /\ MainThread' /\ main'.pc \in {"close", "drop_stop", "undo_stop"}
          /\ main.pc \in {"select", "acquire", "add", "start"}
          /\ UNCHANGED <<slots, active, count, sock>>
        BY <1>0, <1>12 DEF Interrupt, MainThread, MainPcs
    <2>2. Hand'
        <3>1. CASE UNCHANGED handler
            BY <1>b, <2>1, <3>1
        <3>2. CASE main.pc = "start" /\ handler' = [handler EXCEPT ![main.hand] = Started]
            BY <1>5, <2>1, <3>2
        <3> QED BY <1>12, <3>1, <3>2 DEF Interrupt
    <2>3. CASE main.pc = "add"
        <3>1. leaked' = leaked + 1 /\ InMainHand = 1 /\ InMainHand' = 0
            BY <1>12, <2>1, <2>3 DEF Interrupt, InMainHand
        <3> QED BY <1>0, <2>1, <2>2, <3>1, MainKeeps
    <2>4. CASE main.pc # "add"
        BY <1>12, <1>a, <2>1, <2>2, <2>4 DEF Interrupt
    <2> QED BY <2>3, <2>4
<1>13. CASE SetShutdown
    <2>1. MainThread' /\ main'.pc = "copy" /\ main.pc = "close"
        BY <1>0, <1>13 DEF SetShutdown, MainThread, MainPcs
    <2>2. Hand'
        BY <1>13, <1>b, <2>1 DEF SetShutdown
    <2> QED BY <1>13, <1>a, <2>1, <2>2 DEF SetShutdown
<1>14. CASE CopyActive
    <2>1. MainThread' /\ main'.pc = "shut" /\ main.pc = "copy"
        BY <1>0, <1>14 DEF CopyActive, MainThread, MainPcs
    <2>2. Hand'
        BY <1>14, <1>b, <2>1 DEF CopyActive
    <2> QED BY <1>14, <1>a, <2>1, <2>2 DEF CopyActive
<1>15. ASSUME NEW c \in Connection, ShutRequest(c) PROVE SlotInv'
    <2>1. MainThread' /\ main'.pc = "shut" /\ main.pc = "shut"
        BY <1>0, <1>15 DEF ShutRequest, MainThread, MainPcs
    <2>2. Hand'
        BY <1>15, <1>b, <2>1 DEF ShutRequest
    <2> QED BY <1>15, <1>a, <2>1, <2>2 DEF ShutRequest
<1>16. CASE Join
    <2>1. MainThread' /\ main'.pc = "done" /\ main.pc = "shut"
        BY <1>0, <1>16 DEF Join, MainThread, MainPcs
    <2>2. Hand'
        BY <1>16, <1>b, <2>1 DEF Join
    <2> QED BY <1>16, <1>a, <2>1, <2>2 DEF Join
<1> QED
    BY <1>1, <1>2, <1>3, <1>4, <1>6, <1>7, <1>8, <1>9, <1>10, <1>11, <1>12, <1>13, <1>14, <1>15,
       <1>16 DEF MainStep

\* Time and stuttering leave every thread where it is.
LEMMA SlotStill ==
    ASSUME SlotInv, Tick \/ UNCHANGED vars
    PROVE  SlotInv'
<1>1. Clocks'
    BY ClocksNext DEF SlotInv, Next
<1>2. \A c \in Connection : handler'[c].pc = handler[c].pc
    <2>1. CASE Tick
        <3> SUFFICES ASSUME NEW c \in Connection PROVE Waited(handler[c]).pc = handler[c].pc
            BY <2>1 DEF Tick
        <3>1. handler[c] \in Threads
            BY DEF SlotInv, Clocks
        <3> QED BY <3>1 DEF Waited, Threads
    <2> QED BY <2>1 DEF vars
<1>3. Giving' = Giving
    BY <1>2 DEF Giving
<1>4. UNCHANGED <<slots, active, count, main, sock, leaked>>
    BY DEF Tick, vars
<1>5. MainThread' /\ Hand'
    BY <1>2, <1>4 DEF SlotInv, MainThread, Hand
<1>6. Slots'
    BY <1>3, <1>4 DEF SlotInv, Slots, InMainHand
<1> QED BY <1>1, <1>5, <1>6 DEF SlotInv

\* However many connections and slots there are, whenever threads start, fail to start,
\* say goodbye and end, and whenever the main thread is interrupted, every slot is
\* free, with one active connection, in one hand or lost to an interrupt
\* (server.py _release_connection_slot, process_request).
THEOREM SlotsAlwaysAddUp == Spec => []SlotsAddUp
<1>1. SlotInv /\ [Next]_vars => SlotInv'
    BY SlotHandler, SlotMain, SlotStill DEF Next
<1>2. SlotInv => SlotsAddUp
    <2> SUFFICES ASSUME SlotInv PROVE SlotsAddUp
        OBVIOUS
    <2>1. /\ IsFiniteSet(Giving) /\ IsFiniteSet(active) /\ slots \in Nat /\ leaked \in Nat
          /\ count = Cardinality(active)
          /\ slots + count + Cardinality(Giving) + InMainHand + leaked = MaxActive
        BY DEF SlotInv, Slots
    <2>2. Cardinality(Giving) \in Nat /\ Cardinality(active) \in Nat
        BY <2>1, FS_CardinalityType
    <2>3. Returning = Cardinality(Giving) + IF main.pc \in {"give", "give_stop"} THEN 1 ELSE 0
        BY DEF Returning, Giving, Owing
    <2>4. InMainHand = (IF main.pc \in {"give", "give_stop"} THEN 1 ELSE 0)
                       + (IF main.pc = "add" THEN 1 ELSE 0)
        BY DEF InMainHand
    <2> QED BY <2>1, <2>2, <2>3, <2>4, Constants DEF SlotsAddUp
<1> QED BY <1>1, <1>2, SlotInit, PTL DEF Spec

-----------------------------------------------------------------------------
(* What is left when server_close returns.                                 *)

InHand(c, pcs) == main.hand = c /\ main.pc \in pcs

\* Who sees to a connection: the main thread from accepting it until it has started the
\* thread or dropped it, then the thread.  Active connections have somebody who will
\* give the slot back, and open sockets somebody who will close them.
Ends(c) ==
    /\ handler[c].pc \in {"final_give", "gone"} => c \notin active
    /\ c \in active /\ handler[c].pc = "off" => InHand(c, {"start", "undo", "undo_stop"})
    /\ \/ sock[c] \in {"new", "closed"}
       \/ handler[c].pc \notin Ended \cup {"off"}
       \/ InHand(c, {"acquire", "add", "start", "undo", "undo_stop", "give", "give_stop",
                     "drop", "drop_stop"})
    /\ main.pc = "done" => handler[c].pc \in {"off", "gone"}

QuietInv == SlotInv /\ \A c \in Connection : Ends(c)

\* A thread sees its connection to the end.
LEMMA EndsHandler ==
    ASSUME QuietInv, NEW c \in Connection, HandlerStep(c), NEW d \in Connection
    PROVE  Ends(d)'
<1>1. HandlerEffect(c)
    BY HandlerStepEffect DEF QuietInv, SlotInv
<1>2. Ends(c) /\ Ends(d) /\ sock \in [Connection -> {"new", "open", "shut", "closed"}]
    BY DEF QuietInv, SlotInv, Hand
<1>3. CASE d # c
    <2>1. /\ handler'[d] = handler[d] /\ main' = main
          /\ d \in active' <=> d \in active
        BY <1>1, <1>3 DEF HandlerEffect
    <2>2. sock'[d] = sock[d]
        BY <1>1, <1>2, <1>3 DEF HandlerEffect, CloseSocket
    <2> QED BY <1>2, <2>1, <2>2 DEF Ends, InHand
<1>4. CASE d = c
    <2>1. handler[c].pc \notin {"off", "gone"} /\ handler'[c].pc # "off" /\ main' = main
        BY <1>1 DEF HandlerEffect
    <2>2. main.pc # "done"
        BY <1>2, <2>1 DEF Ends
    <2>3. handler'[c].pc \in {"final_give", "gone"} => c \notin active'
        BY <1>1, <1>2 DEF HandlerEffect, Owing, Ends
    <2>4. \/ sock'[c] \in {"new", "closed"}
          \/ handler'[c].pc \notin Ended \cup {"off"}
          \/ InHand(c, {"acquire", "add", "start", "undo", "undo_stop", "give", "give_stop",
                        "drop", "drop_stop"})'
        <3>1. CASE handler'[c].pc \notin Ended
            BY <2>1, <3>1
        <3>2. CASE handler[c].pc \in Ended /\ UNCHANGED sock
            BY <1>2, <2>1, <3>2 DEF Ends, InHand
        <3>3. CASE CloseSocket(c)
            BY <1>2, <3>3 DEF CloseSocket
        <3> QED BY <1>1, <3>1, <3>2, <3>3 DEF HandlerEffect
    <2> QED BY <1>4, <2>1, <2>2, <2>3, <2>4 DEF Ends
<1> QED BY <1>3, <1>4

\* The main thread leaves a connection to the thread it starts or drops it, and is done
\* only when every thread is.
LEMMA EndsMain ==
    ASSUME QuietInv, MainStep \/ Interrupt \/ (\E c \in Connection : Accept(c)), NEW d \in Connection
    PROVE  Ends(d)'
<1>1. /\ Ends(d) /\ MainThread /\ Hand
      /\ handler \in [Connection -> Threads]
    BY DEF QuietInv, SlotInv, Clocks
<1>s. Started.pc = "read"
    BY DEF Started, NoThread
<1>3. ASSUME NEW c \in Connection, Accept(c) PROVE Ends(d)'
    <2>1. main'.pc = "acquire" /\ main'.hand = c /\ main.pc = "select"
        BY <1>1, <1>3 DEF Accept, MainThread
    <2> QED BY <1>1, <1>3, <2>1 DEF Accept, Ends, InHand, Hand
<1>4. CASE Acquire
    <2>1. main'.pc = "add" /\ main'.hand = main.hand /\ main.pc = "acquire"
        BY <1>1, <1>4 DEF Acquire, MainThread
    <2> QED BY <1>1, <1>4, <2>1 DEF Acquire, Ends, InHand
<1>c. ASSUME CloseSocket(main.hand), UNCHANGED <<active, handler>>, main'.pc # "done",
             main.pc \notin {"start", "undo", "undo_stop"}
      PROVE  Ends(d)'
    <2>1. sock'[d] = IF d = main.hand THEN "closed" ELSE sock[d]
        BY <1>1, <1>c DEF CloseSocket, Hand
    <2> QED BY <1>1, <1>c, <2>1 DEF Ends, InHand
<1>5. CASE Refuse
    <2>1. main'.pc = "select" /\ main.pc = "acquire"
        BY <1>1, <1>5 DEF Refuse, MainThread
    <2> QED BY <1>5, <1>c, <2>1 DEF Refuse
<1>6. CASE AddActiveRequest
    <2>1. main'.pc = "start" /\ main'.hand = main.hand /\ main.pc = "add"
          /\ handler[main.hand].pc = "off"
        BY <1>1, <1>6 DEF AddActiveRequest, MainThread, Hand
    <2> QED BY <1>1, <1>6, <2>1 DEF AddActiveRequest, Ends, InHand
<1>h. ASSUME main.pc = "start", handler' = [handler EXCEPT ![main.hand] = Started],
             UNCHANGED <<active, sock>>, main'.pc # "done",
             main'.pc \in {"start", "undo", "undo_stop"} => main'.hand = main.hand
      PROVE  Ends(d)'
    <2>1. handler'[d] = IF d = main.hand THEN Started ELSE handler[d]
        BY <1>1, <1>h
    <2> QED BY <1>1, <1>s, <1>h, <2>1 DEF Ends, InHand, Ended
<1>7. CASE Start
    <2>1. main'.pc \in {"serve", "select"} /\ main.pc = "start"
        BY <1>1, <1>7 DEF Start, MainThread
    <2> QED BY <1>7, <1>h, <2>1 DEF Start
<1>8. CASE ServedOnce
    <2>1. main'.pc = "close" /\ main.pc = "serve"
        BY <1>1, <1>8 DEF ServedOnce, MainThread
    <2> QED BY <1>1, <1>8, <2>1 DEF ServedOnce, Ends, InHand
<1>9. CASE StartFails
    <2>1. main'.pc = "undo" /\ main'.hand = main.hand /\ main.pc = "start"
        BY <1>1, <1>9 DEF StartFails, MainThread
    <2> QED BY <1>1, <1>9, <2>1 DEF StartFails, Ends, InHand
<1>10. CASE Undo
    <2>1. main.pc \in {"undo", "undo_stop"} /\ UNCHANGED <<sock, handler>>
        BY <1>10 DEF Undo
    <2>2. CASE main.hand \in active
        <3>1. main'.pc \in {"give", "give_stop"} /\ main'.hand = main.hand /\ active' = active \ {main.hand}
            BY <1>1, <1>10, <2>1, <2>2 DEF Undo, ForgetRequest, MainThread
        <3> QED BY <1>1, <2>1, <3>1 DEF Ends, InHand
    <2>3. CASE main.hand \notin active
        <3>1. main'.pc \in {"drop", "drop_stop"} /\ main'.hand = main.hand /\ active' = active
            BY <1>1, <1>10, <2>1, <2>3 DEF Undo, ForgetRequest, MainThread
        <3> QED BY <1>1, <2>1, <2>3, <3>1 DEF Ends, InHand
    <2> QED BY <2>2, <2>3
<1>11. CASE GiveBack
    <2>1. /\ main'.pc \in {"drop", "drop_stop"} /\ main'.hand = main.hand
          /\ main.pc \in {"give", "give_stop"}
        BY <1>1, <1>11 DEF GiveBack, MainThread
    <2> QED BY <1>1, <1>11, <2>1 DEF GiveBack, Ends, InHand
<1>12. CASE Drop
    <2>1. main'.pc \in {"select", "close"} /\ main.pc \in {"drop", "drop_stop"}
        BY <1>1, <1>12 DEF Drop, MainThread
    <2> QED BY <1>12, <1>c, <2>1 DEF Drop
<1>13. CASE Interrupt
    <2>1. /\ main'.hand = main.hand /\ UNCHANGED <<active, sock>>
          /\ \/ main.pc = "select" /\ main'.pc = "close"
             \/ main.pc \in {"acquire", "add"} /\ main'.pc = "drop_stop"
             \/ main.pc = "start" /\ main'.pc = "undo_stop"
        BY <1>1, <1>13 DEF Interrupt, MainThread
    <2>2. CASE UNCHANGED handler
        BY <1>1, <2>1, <2>2 DEF Ends, InHand, Hand
    <2>3. CASE main.pc = "start" /\ handler' = [handler EXCEPT ![main.hand] = Started]
        BY <1>h, <2>1, <2>3
    <2> QED BY <1>13, <2>2, <2>3 DEF Interrupt
<1>14. CASE SetShutdown
    <2>1. main'.pc = "copy" /\ main.pc = "close"
        BY <1>1, <1>14 DEF SetShutdown, MainThread
    <2> QED BY <1>1, <1>14, <2>1 DEF SetShutdown, Ends, InHand
<1>15. CASE CopyActive
    <2>1. main'.pc = "shut" /\ main.pc = "copy"
        BY <1>1, <1>15 DEF CopyActive, MainThread
    <2> QED BY <1>1, <1>15, <2>1 DEF CopyActive, Ends, InHand
<1>16. ASSUME NEW c \in Connection, ShutRequest(c) PROVE Ends(d)'
    <2>1. main'.pc = "shut" /\ main.pc = "shut"
        BY <1>1, <1>16 DEF ShutRequest, MainThread
    <2>2. sock'[d] \in {"new", "closed"} <=> sock[d] \in {"new", "closed"}
        BY <1>1, <1>16 DEF ShutRequest, Hand
    <2> QED BY <1>1, <1>16, <2>1, <2>2 DEF ShutRequest, Ends, InHand
<1>17. CASE Join
    <2>1. main'.pc = "done" /\ main.pc = "shut"
        BY <1>1, <1>17 DEF Join, MainThread
    <2> QED BY <1>1, <1>17, <2>1 DEF Join, At, Ends, InHand
<1> QED
    BY <1>3, <1>4, <1>5, <1>6, <1>7, <1>8, <1>9, <1>10, <1>11, <1>12, <1>13, <1>14, <1>15, <1>16,
       <1>17 DEF MainStep

\* When server_close has returned, in whatever order connections came, ended, were
\* interrupted or were shut, no thread serves, every accepted socket is closed and
\* every slot is back but those an interrupt took away (server.py server_close).
THEOREM DoneIsAlwaysQuiet == Spec => []DoneIsQuiet
<1>1. Init => QuietInv
    <2> SUFFICES ASSUME Init, NEW c \in Connection PROVE Ends(c)
        BY SlotInit DEF QuietInv
    <2>1. handler[c].pc = "off" /\ sock[c] = "new" /\ active = {} /\ main.pc = "select"
        BY DEF Init, NoThread
    <2> QED BY <2>1 DEF Ends, InHand
<1>2. QuietInv /\ [Next]_vars => QuietInv'
    <2> SUFFICES ASSUME QuietInv, [Next]_vars PROVE SlotInv' /\ \A c \in Connection : Ends(c)'
        BY DEF QuietInv
    <2>1. SlotInv'
        BY SlotHandler, SlotMain, SlotStill DEF Next, QuietInv
    <2>2. ASSUME NEW c \in Connection PROVE Ends(c)'
        <3>1. CASE Tick \/ UNCHANGED vars
            <4>1. handler'[c].pc = handler[c].pc
                <5>1. handler[c] \in Threads
                    BY DEF QuietInv, SlotInv, Clocks
                <5>2. Waited(handler[c]).pc = handler[c].pc
                    BY <5>1 DEF Waited, Threads
                <5> QED BY <3>1, <5>2 DEF Tick, vars
            <4>2. UNCHANGED <<main, active, sock>>
                BY <3>1 DEF Tick, vars
            <4> QED BY <4>1, <4>2 DEF QuietInv, Ends, InHand
        <3> QED BY <2>2, <3>1, EndsHandler, EndsMain DEF Next
    <2> QED BY <2>1, <2>2
<1>3. QuietInv => DoneIsQuiet
    <2> SUFFICES ASSUME QuietInv, main.pc = "done" PROVE DoneIsQuiet
        BY DEF DoneIsQuiet
    <2>1. \A c \in Connection : Ends(c) /\ handler[c].pc \in {"off", "gone"}
        BY DEF QuietInv, Ends
    <2>2. active = {}
        BY <2>1 DEF QuietInv, SlotInv, Slots, Ends, InHand
    <2>3. Giving = {}
        BY <2>1 DEF Giving, Owing
    <2>4. slots = MaxActive - leaked
        BY <2>2, <2>3, FS_EmptySet, Constants DEF QuietInv, SlotInv, Slots, InMainHand
    <2>5. \A c \in Connection : sock[c] \in {"new", "closed"}
        BY <2>1 DEF Ends, InHand, Ended
    <2> QED BY <2>1, <2>2, <2>4, <2>5 DEF DoneIsQuiet
<1> QED BY <1>1, <1>2, <1>3, PTL DEF Spec
=============================================================================
