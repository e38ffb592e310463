------------------------- MODULE NativeServerProofs -------------------------
(***************************************************************************)
(* Proofs about NativeServer, for any number of workers and connections    *)
(* and any deadlines: stalled clients are dropped, sockets have one owner, *)
(* and the shutdown waits for no client.                                   *)
(***************************************************************************)
EXTENDS NativeServer, FiniteSetTheorems, TLAPS

Pcs == {"unborn", "wait", "asleep", "start", "loop", "check", "poll", "close", "free", "gone"}

\* A thread that has no connection in hand.
Resting == {"unborn", "wait", "asleep", "gone"}

Threads ==
    [pc : Pcs, connected : Socket, phase : {"prefix", "rest", "send"}, left : Nat,
     pieces : 1..Pieces, first : BOOLEAN, closed : BOOLEAN, held : Nat]

\* What a thread may have waited for since its exchange began, and may wait for still.
PhaseDeadline(phase) ==
    CASE phase = "prefix" -> LongestPrefix
      [] phase = "rest" -> FrameDeadline
      [] phase = "send" -> SendDeadline

PhaseEnd(phase) ==
    CASE phase = "prefix" -> LongestPrefix
      [] phase = "rest" -> (LongestPrefix - 1) + FrameDeadline
      [] phase = "send" -> LongestExchange

\* The time left keeps to the deadline of the phase, what is held with it to the end of
\* the phase; a poll is only entered while there is time left, and an exchange begins
\* with nothing held.
Timely(t) ==
    /\ t.left <= PhaseDeadline(t.phase)
    /\ t.held + t.left <= PhaseEnd(t.phase)
    /\ t.pc = "poll" => t.left > 0
    /\ t.pc = "loop" => t.held = 0
    /\ t.pc \in Resting \cup {"free"} => t.connected = NoSocket

Good == {t \in Threads : Timely(t)}

\* The bounds, one by one.
LEMMA Bounds ==
    /\ WorkerCount \in Nat /\ WorkerCount > 0
    /\ InitialDeadline \in Nat /\ InitialDeadline > 0
    /\ IdleDeadline \in Nat /\ IdleDeadline > 0
    /\ FrameDeadline \in Nat /\ FrameDeadline > 0
    /\ SendDeadline \in Nat /\ SendDeadline > 0
    /\ Pieces \in Nat /\ Pieces > 0
BY ServerBounds

\* The ends of the phases, in order.
LEMMA Deadlines ==
    /\ LongestPrefix \in Nat /\ InitialDeadline <= LongestPrefix /\ IdleDeadline <= LongestPrefix
    /\ LongestPrefix > 0
    /\ PhaseDeadline("prefix") = LongestPrefix /\ PhaseDeadline("rest") = FrameDeadline
    /\ PhaseDeadline("send") = SendDeadline
    /\ PhaseEnd("prefix") = LongestPrefix
    /\ PhaseEnd("rest") = (LongestPrefix - 1) + FrameDeadline
    /\ PhaseEnd("send") = (LongestPrefix - 1) + (FrameDeadline - 1) + SendDeadline
    /\ PhaseEnd("send") = LongestExchange
    /\ \A phase \in {"prefix", "rest", "send"} :
          PhaseEnd(phase) \in Nat /\ PhaseEnd(phase) <= LongestExchange /\ PhaseDeadline(phase) \in Nat
<1>1. /\ LongestPrefix \in Nat /\ InitialDeadline <= LongestPrefix /\ IdleDeadline <= LongestPrefix
      /\ LongestPrefix > 0
    BY Bounds DEF LongestPrefix
<1> HIDE DEF LongestPrefix
<1>2. LongestExchange = (LongestPrefix - 1) + (FrameDeadline - 1) + SendDeadline
    BY DEF LongestExchange
<1>3. /\ PhaseDeadline("prefix") = LongestPrefix /\ PhaseDeadline("rest") = FrameDeadline
      /\ PhaseDeadline("send") = SendDeadline
    BY DEF PhaseDeadline
<1>4. /\ PhaseEnd("prefix") = LongestPrefix
      /\ PhaseEnd("rest") = (LongestPrefix - 1) + FrameDeadline
      /\ PhaseEnd("send") = LongestExchange
    BY DEF PhaseEnd
<1>5. /\ PhaseEnd("prefix") \in Nat /\ PhaseEnd("rest") \in Nat /\ PhaseEnd("send") \in Nat
      /\ PhaseEnd("prefix") <= LongestExchange /\ PhaseEnd("rest") <= LongestExchange
      /\ PhaseEnd("send") <= LongestExchange
    BY <1>1, <1>2, <1>4, Bounds
<1> QED BY <1>1, <1>2, <1>3, <1>4, <1>5, Bounds

\* A thread that has not begun.
LEMMA UnbornIsGood ==
    /\ Unborn \in Good /\ Unborn.pc = "unborn" /\ Unborn.connected = NoSocket
    /\ Unborn.phase = "prefix" /\ Unborn.left = 0 /\ Unborn.held = 0
<1>1. Unborn \in Threads /\ Unborn.phase = "prefix" /\ Unborn.left = 0 /\ Unborn.held = 0
      /\ Unborn.pc = "unborn" /\ Unborn.connected = NoSocket
    BY Bounds DEF Unborn, Threads, Pcs, Socket
<1>2. Timely(Unborn)
    BY <1>1, Deadlines DEF Timely
<1> QED BY <1>1, <1>2 DEF Good

\* A thread that starts again for a connection, or without one.
Fresh(pc, s) == [Unborn EXCEPT !.pc = pc, !.connected = s]

\* ... is good if only a thread with something to do has a connection.
LEMMA FreshIsGood ==
    ASSUME NEW pc \in Pcs, pc # "poll", NEW s \in Socket, pc \in Resting \cup {"free"} => s = NoSocket
    PROVE  Fresh(pc, s) \in Good /\ Fresh(pc, s).pc = pc /\ Fresh(pc, s).connected = s
<1> DEFINE u == Unborn
           t == [u EXCEPT !.pc = pc, !.connected = s]
<1>1. u \in Threads /\ u.phase = "prefix" /\ u.left = 0 /\ u.held = 0
    BY UnbornIsGood DEF Good
<1> HIDE DEF u
<1>2. /\ t \in Threads /\ t.phase = "prefix" /\ t.left = 0 /\ t.held = 0 /\ t.pc = pc
      /\ t.connected = s
    BY <1>1 DEF Threads
<1> HIDE DEF t
<1>3. Timely(t)
    BY <1>2, Deadlines DEF Timely
<1> QED BY <1>2, <1>3 DEF Good, t, u, Fresh

\* A thread that goes back to the loop of serve.
LEMMA ReturnedIsGood ==
    ASSUME NEW t \in Good
    PROVE  Returned(t) \in Good /\ Returned(t).pc = "loop" /\ Returned(t).connected = t.connected
<1>1. t.connected \in Socket /\ t.first \in BOOLEAN /\ t.closed \in BOOLEAN
    BY DEF Good, Threads
<1>2. "loop" \in Pcs /\ "loop" # "poll" /\ "loop" \notin Resting \cup {"free"}
    BY DEF Pcs, Resting
<1> DEFINE u == Unborn
           r == [u EXCEPT !.pc = "loop", !.connected = t.connected,
                          !.first = t.first, !.closed = t.closed]
<1>3. u \in Threads /\ u.phase = "prefix" /\ u.left = 0 /\ u.held = 0
    BY UnbornIsGood DEF Good
<1>4. Returned(t) = r
    BY DEF Returned
<1> HIDE DEF u
<1>5. /\ r \in Threads /\ r.phase = "prefix" /\ r.left = 0 /\ r.held = 0 /\ r.pc = "loop"
      /\ r.connected = t.connected
    BY <1>1, <1>2, <1>3 DEF Threads
<1> HIDE DEF r
<1>6. Timely(r)
    BY <1>2, <1>5, Deadlines DEF Timely
<1> QED BY <1>4, <1>5, <1>6 DEF Good

\* A thread that leaves it.
LEMMA FinishedIsGood ==
    ASSUME NEW t \in Good
    PROVE  Finished(t) \in Good /\ Finished(t).pc = "close" /\ Finished(t).connected = t.connected
<1>1. t.connected \in Socket
    BY DEF Good, Threads
<1>2. "close" \in Pcs /\ "close" # "poll" /\ "close" \notin Resting \cup {"free"}
    BY DEF Pcs, Resting
<1>3. /\ Fresh("close", t.connected) \in Good /\ Fresh("close", t.connected).pc = "close"
      /\ Fresh("close", t.connected).connected = t.connected
    BY <1>1, <1>2, FreshIsGood
<1>4. Finished(t) = Fresh("close", t.connected)
    BY DEF Finished, Fresh
<1> QED BY <1>3, <1>4

\* A thread that begins to wait for a phase, with what it has held so far.
LEMMA AwaitIsGood ==
    ASSUME NEW t \in Threads, NEW phase \in {"prefix", "rest", "send"}, NEW d \in Nat,
           NEW n \in 1..Pieces, d <= PhaseDeadline(phase), t.held + d <= PhaseEnd(phase)
    PROVE  /\ Await(t, phase, d, n) \in Good /\ Await(t, phase, d, n).pc = "check"
           /\ Await(t, phase, d, n).connected = t.connected
<1> DEFINE a == [t EXCEPT !.pc = "check", !.phase = phase, !.left = d, !.pieces = n]
<1>1. /\ a \in Threads /\ a.pc = "check" /\ a.phase = phase /\ a.left = d /\ a.held = t.held
      /\ a.connected = t.connected
    BY DEF Threads, Pcs
<1>2. "check" \notin Resting \cup {"free"}
    BY DEF Resting
<1> HIDE DEF a
<1>3. Timely(a)
    BY <1>1, <1>2 DEF Timely
<1> QED BY <1>1, <1>3 DEF Good, Await, a

\* A thread that only goes on to another place.
LEMMA MovedIsGood ==
    ASSUME NEW t \in Good, NEW pc \in Pcs, pc # "loop", pc = "poll" => t.left > 0,
           pc \in Resting \cup {"free"} => t.connected = NoSocket
    PROVE  \E m \in Good : /\ m = [t EXCEPT !.pc = pc]
                           /\ m.pc = pc /\ m.connected = t.connected
<1> DEFINE m == [t EXCEPT !.pc = pc]
<1>0. t \in Threads /\ Timely(t)
    BY DEF Good
<1>1. /\ m \in Threads /\ m.pc = pc /\ m.phase = t.phase /\ m.left = t.left /\ m.held = t.held
      /\ m.connected = t.connected
    BY <1>0 DEF Threads
<1> HIDE DEF m
<1>2. Timely(m)
    BY <1>0, <1>1 DEF Timely
<1> QED BY <1>1, <1>2 DEF Good, m

-----------------------------------------------------------------------------
(* Steps of a worker.                                                      *)

MainPcs == {"construct", "loop", "poll", "assign", "destroy", "notify", "join", "end"}

Typed ==
    /\ conn \in [Connection -> {"new", "open", "closed"}]
    /\ stopping \in BOOLEAN
    /\ main \in [pc : MainPcs, at : 0..(WorkerCount + 1), connected : Socket]
    /\ shared \in [Worker -> [pending : Socket, busy : BOOLEAN, exiting : BOOLEAN]]
    /\ thread \in [Worker -> Good]
    /\ drained \in 0..1

\* What a step of worker w does for the rest of the server, t being its thread then: it
\* takes the socket it was handed, closes the one it serves, declares itself free, or
\* keeps the one it has.
Takes(w, t) ==
    /\ thread[w].pc = "wait" /\ t.pc = "start" /\ shared[w].pending # NoSocket
    /\ t.connected = shared[w].pending
    /\ shared' = [shared EXCEPT ![w].pending = NoSocket]
    /\ UNCHANGED conn

Closes(w, t) ==
    /\ thread[w].pc = "close" /\ t.pc = "free" /\ t.connected = NoSocket
    /\ CloseSocket(thread[w].connected)
    /\ UNCHANGED shared

Frees(w, t) ==
    /\ thread[w].pc = "free" /\ t.pc = "wait" /\ t.connected = NoSocket
    /\ shared' = [shared EXCEPT ![w].busy = FALSE]
    /\ UNCHANGED conn

Keeps(w, t) ==
    /\ t.connected = thread[w].connected
    /\ t.pc \notin Resting => thread[w].pc \notin Resting
    /\ t.pc = "gone" => shared[w].exiting /\ shared[w].pending = NoSocket
    /\ UNCHANGED <<conn, shared>>

Runs(w, t) ==
    /\ thread' = [thread EXCEPT ![w] = t]
    /\ thread[w].pc \notin {"unborn", "gone"} /\ t.pc # "unborn"
    /\ t.pc = "poll" => ~stopping
    /\ t.pc = "asleep" => ~shared[w].exiting
    /\ Takes(w, t) \/ Closes(w, t) \/ Frees(w, t) \/ Keeps(w, t)
    /\ UNCHANGED <<stopping, main, drained>>

\* A worker that takes, returns, sleeps, wakes, closes or frees.
LEMMA RunRuns ==
    ASSUME Typed, NEW w \in Worker,
           \/ TakePending(w) \/ Return(w) \/ Sleep(w) \/ WakeSpuriously(w) \/ Close(w) \/ Free(w)
    PROVE  \E t \in Good : Runs(w, t)
<1> DEFINE h == thread[w]
<1>0. h \in Good /\ shared[w].pending \in Socket /\ thread \in [Worker -> Good]
    BY DEF Typed
<1>p. /\ {"wait", "gone", "asleep", "free", "start"} \subseteq Pcs \ {"poll", "loop"}
      /\ {"wait", "gone", "asleep"} \subseteq Resting /\ "start" \notin Resting \cup {"free"}
    BY DEF Pcs, Resting
<1>c. h.pc \in Resting \cup {"free"} => h.connected = NoSocket
    BY <1>0 DEF Good, Timely
<1>1. CASE TakePending(w)
    <2> DEFINE s == shared[w].pending
           t == Fresh("start", s)
    <2>1. t \in Good /\ t.pc = "start" /\ t.connected = s
        BY <1>0, <1>p, FreshIsGood
    <2>2. thread' = [thread EXCEPT ![w] = t]
        BY <1>1 DEF TakePending, Fresh
    <2> HIDE DEF t
    <2>3. Takes(w, t)
        BY <1>1, <2>1 DEF TakePending, Takes
    <2>4. Runs(w, t)
        BY <1>1, <2>1, <2>2, <2>3 DEF TakePending, Runs
    <2> QED BY <2>1, <2>4
<1>2. ASSUME NEW pc \in {"wait", "gone", "asleep"},
             h.pc \in Resting \cup {"free"}
      PROVE  \E t \in Good : t = [h EXCEPT !.pc = pc] /\ t.pc = pc /\ t.connected = NoSocket
    <2>1. h.connected = NoSocket
        BY <1>2, <1>c
    <2>2. pc \in Pcs /\ pc # "loop" /\ pc # "poll"
        BY <1>2, <1>p
    <2>3. \E t \in Good : t = [h EXCEPT !.pc = pc] /\ t.pc = pc /\ t.connected = h.connected
        BY <1>0, <2>1, <2>2, MovedIsGood
    <2> QED BY <2>1, <2>3
<1>3. CASE Return(w)
    <2>1. h.pc = "wait" /\ h.connected = NoSocket
        BY <1>3, <1>c, <1>p DEF Return
    <2>2. PICK t \in Good : t = [h EXCEPT !.pc = "gone"] /\ t.pc = "gone" /\ t.connected = NoSocket
        BY <1>2, <1>p, <2>1
    <2>3. Keeps(w, t)
        BY <1>3, <1>p, <2>1, <2>2 DEF Return, Keeps
    <2>4. Runs(w, t)
        BY <1>3, <2>1, <2>2, <2>3 DEF Return, Runs
    <2> QED BY <2>4
<1>4. CASE Sleep(w)
    <2>1. h.pc = "wait" /\ h.connected = NoSocket
        BY <1>4, <1>c, <1>p DEF Sleep
    <2>2. PICK t \in Good : t = [h EXCEPT !.pc = "asleep"] /\ t.pc = "asleep" /\ t.connected = NoSocket
        BY <1>2, <1>p, <2>1
    <2>3. Keeps(w, t)
        BY <1>4, <1>p, <2>1, <2>2 DEF Sleep, Keeps
    <2>4. Runs(w, t)
        BY <1>4, <2>1, <2>2, <2>3 DEF Sleep, Runs
    <2> QED BY <2>4
<1>5. CASE WakeSpuriously(w)
    <2>1. h.pc = "asleep" /\ h.connected = NoSocket
        BY <1>5, <1>c, <1>p DEF WakeSpuriously
    <2>2. PICK t \in Good : t = [h EXCEPT !.pc = "wait"] /\ t.pc = "wait" /\ t.connected = NoSocket
        BY <1>2, <1>p, <2>1
    <2>3. Keeps(w, t)
        BY <1>5, <1>p, <2>1, <2>2 DEF WakeSpuriously, Keeps
    <2>4. Runs(w, t)
        BY <1>5, <2>1, <2>2, <2>3 DEF WakeSpuriously, Runs
    <2> QED BY <2>4
<1>6. CASE Close(w)
    <2> DEFINE u == Unborn
    <2>1. u \in Good /\ u.connected = NoSocket
        BY UnbornIsGood
    <2>2. thread' = [thread EXCEPT ![w] = [u EXCEPT !.pc = "free"]]
        BY <1>6 DEF Close
    <2> HIDE DEF u
    <2>3. PICK t \in Good : t = [u EXCEPT !.pc = "free"] /\ t.pc = "free" /\ t.connected = NoSocket
        BY <1>p, <2>1, MovedIsGood
    <2>4. Closes(w, t)
        BY <1>6, <2>3 DEF Close, Closes
    <2>5. Runs(w, t)
        BY <1>6, <2>2, <2>3, <2>4 DEF Close, Runs
    <2> QED BY <2>5
<1>7. CASE Free(w)
    <2>1. h.pc = "free"
        BY <1>7 DEF Free
    <2>2. PICK t \in Good : t = [h EXCEPT !.pc = "wait"] /\ t.pc = "wait" /\ t.connected = NoSocket
        BY <1>2, <1>p, <2>1
    <2>3. Frees(w, t)
        BY <1>7, <2>2 DEF Free, Frees
    <2>4. Runs(w, t)
        BY <1>7, <2>1, <2>2, <2>3 DEF Free, Runs
    <2> QED BY <2>4
<1> QED BY <1>1, <1>3, <1>4, <1>5, <1>6, <1>7

\* A worker that serves.
LEMMA ServeRuns ==
    ASSUME Typed, NEW w \in Worker, Begin(w) \/ Loop(w) \/ Check(w) \/ ClientStep(w)
    PROVE  \E t \in Good : Runs(w, t)
<1> DEFINE h == thread[w]
<1>0. h \in Good /\ h \in Threads /\ Timely(h) /\ thread \in [Worker -> Good]
    BY DEF Typed, Good
<1>a. ASSUME NEW t \in Good, thread' = [thread EXCEPT ![w] = t],
             UNCHANGED <<conn, stopping, main, shared, drained>>,
             h.pc \in {"start", "loop", "check", "poll"}, t.connected = h.connected,
             t.pc \in {"loop", "check", "close"} \/ (t.pc = "poll" /\ ~stopping)
      PROVE  \E r \in Good : Runs(w, r)
    <2>1. Keeps(w, t)
        BY <1>a DEF Keeps, Resting
    <2>2. Runs(w, t)
        BY <1>a, <2>1 DEF Runs
    <2> QED BY <2>2
<1>f. Finished(h) \in Good /\ Finished(h).pc = "close" /\ Finished(h).connected = h.connected
    BY <1>0, FinishedIsGood
<1>r. Returned(h) \in Good /\ Returned(h).pc = "loop" /\ Returned(h).connected = h.connected
    BY <1>0, ReturnedIsGood
<1>n. /\ h.left \in Nat /\ h.held \in Nat /\ h.phase \in {"prefix", "rest", "send"}
      /\ h.pieces \in 1..Pieces /\ Pieces \in 1..Pieces /\ 1 \in 1..Pieces
    BY <1>0, Bounds DEF Threads
\* Once a phase is over in time, the next one may take all of its deadline.
<1>h. /\ h.phase = "prefix" /\ h.pc = "poll" => h.held + FrameDeadline <= PhaseEnd("rest")
      /\ h.phase = "rest" /\ h.pc = "poll" => h.held + SendDeadline <= PhaseEnd("send")
    BY <1>0, <1>n, Deadlines, Bounds DEF Timely
<1>1. CASE Begin(w)
    <2>1. h.pc = "start"
        BY <1>1 DEF Begin
    <2>2. PICK t \in {Returned(h), Finished(h)} : thread' = [thread EXCEPT ![w] = t]
        BY <1>1 DEF Begin
    <2> QED BY <1>1, <1>a, <1>f, <1>r, <2>1, <2>2 DEF Begin
<1>2. CASE Loop(w)
    <2>0. h.pc = "loop" /\ UNCHANGED <<conn, stopping, main, shared, drained>>
        BY <1>2 DEF Loop
    <2>1. CASE thread' = [thread EXCEPT ![w] = Finished(h)]
        BY <1>a, <1>f, <2>0, <2>1
    <2>2. ASSUME NEW d \in {InitialDeadline, IdleDeadline}, NEW n \in {1, Pieces},
                 thread' = [thread EXCEPT ![w] = Await(h, "prefix", d, n)]
          PROVE  \E t \in Good : Runs(w, t)
        <3>1. d \in Nat /\ d <= PhaseDeadline("prefix") /\ h.held + d <= PhaseEnd("prefix")
            BY <1>0, <2>0, Deadlines, Bounds DEF Timely
        <3>2. PICK t \in Good : t = Await(h, "prefix", d, n) /\ t.pc = "check" /\ t.connected = h.connected
            BY <1>0, <1>n, <3>1, AwaitIsGood
        <3> QED BY <1>a, <2>0, <2>2, <3>2
    <2> QED BY <1>2, <1>n, <2>1, <2>2 DEF Loop
<1>3. CASE Check(w)
    <2>0. h.pc = "check" /\ UNCHANGED <<conn, stopping, main, shared, drained>>
        BY <1>3 DEF Check
    <2>1. CASE thread' = [thread EXCEPT ![w] = Finished(h)]
        BY <1>a, <1>f, <2>0, <2>1
    <2>2. CASE ~stopping /\ h.left # 0 /\ thread' = [thread EXCEPT ![w] = [h EXCEPT !.pc = "poll"]]
        <3>1. "poll" \in Pcs /\ "poll" \notin Resting \cup {"free"} /\ h.left > 0
            BY <1>n, <2>2 DEF Pcs, Resting
        <3>2. PICK t \in Good : t = [h EXCEPT !.pc = "poll"] /\ t.pc = "poll" /\ t.connected = h.connected
            BY <1>0, <3>1, MovedIsGood
        <3> QED BY <1>a, <2>0, <2>2, <3>2
    <2> QED BY <1>3, <2>1, <2>2 DEF Check
<1>4. CASE ClientStep(w)
    <2>0. h.pc = "poll" /\ UNCHANGED <<conn, stopping, main, shared, drained>>
        BY <1>4 DEF ClientStep, Piece, PrefixComes, FrameComes, AnswerSent, Lost
    <2>1. CASE thread' = [thread EXCEPT ![w] = Finished(h)]
        BY <1>a, <1>f, <2>0, <2>1
    <2>2. CASE Piece(w)
        <3> DEFINE n == h.pieces - 1
                   t == [h EXCEPT !.pc = "check", !.pieces = n]
        <3>0. n \in 1..Pieces /\ h.pieces > 1
            BY <1>n, <2>2, Bounds DEF Piece
        <3>1. n \in 1..Pieces /\ thread' = [thread EXCEPT ![w] = t]
            BY <1>0, <2>2, <3>0 DEF Piece
        <3> HIDE DEF n
        <3>2. /\ t \in Threads /\ t.pc = "check" /\ t.phase = h.phase /\ t.left = h.left
              /\ t.held = h.held /\ t.connected = h.connected
            BY <1>0, <3>1 DEF Threads, Pcs
        <3> HIDE DEF t
        <3>3. Timely(t)
            BY <1>0, <3>2 DEF Timely, Resting
        <3>4. t \in Good
            BY <3>2, <3>3 DEF Good
        <3> QED BY <1>a, <2>0, <3>1, <3>2, <3>4
    <2>3. CASE PrefixComes(w)
        <3>1. CASE thread' = [thread EXCEPT ![w] =
                     [Await(h, "rest", FrameDeadline, Pieces) EXCEPT !.first = FALSE]] /\ h.phase = "prefix"
            <4>1. PICK t \in Good : t = Await(h, "rest", FrameDeadline, Pieces) /\ t.pc = "check"
                                    /\ t.connected = h.connected
                BY <1>0, <1>n, <1>h, <2>0, <3>1, AwaitIsGood, Deadlines, Bounds
            <4> DEFINE r == [t EXCEPT !.first = FALSE]
            <4>2. thread' = [thread EXCEPT ![w] = r]
                BY <3>1, <4>1
            <4>3. /\ r \in Threads /\ r.pc = "check" /\ r.phase = t.phase /\ r.left = t.left
                  /\ r.held = t.held /\ r.connected = h.connected
                BY <4>1 DEF Good, Threads
            <4> HIDE DEF r
            <4>4. r \in Good
                BY <4>1, <4>3 DEF Good, Timely, Resting
            <4> QED BY <1>a, <2>0, <4>2, <4>3, <4>4
        <3> QED BY <2>1, <2>3, <3>1 DEF PrefixComes
    <2>4. CASE FrameComes(w)
        <3>1. ASSUME NEW closed \in BOOLEAN, h.phase = "rest",
                     thread' = [thread EXCEPT ![w] =
                        [Await(h, "send", SendDeadline, Pieces) EXCEPT !.closed = closed]]
              PROVE  \E t \in Good : Runs(w, t)
            <4>1. PICK t \in Good : t = Await(h, "send", SendDeadline, Pieces) /\ t.pc = "check"
                                    /\ t.connected = h.connected
                BY <1>0, <1>n, <1>h, <2>0, <3>1, AwaitIsGood, Deadlines, Bounds
            <4> DEFINE r == [t EXCEPT !.closed = closed]
            <4>2. thread' = [thread EXCEPT ![w] = r]
                BY <3>1, <4>1
            <4>3. /\ r \in Threads /\ r.pc = "check" /\ r.phase = t.phase /\ r.left = t.left
                  /\ r.held = t.held /\ r.connected = h.connected
                BY <4>1 DEF Good, Threads
            <4> HIDE DEF r
            <4>4. r \in Good
                BY <4>1, <4>3 DEF Good, Timely, Resting
            <4> QED BY <1>a, <2>0, <4>2, <4>3, <4>4
        <3> QED BY <2>1, <2>4, <3>1 DEF FrameComes
    <2>5. CASE AnswerSent(w)
        BY <1>a, <1>r, <2>0, <2>5 DEF AnswerSent
    <2>6. CASE Lost(w)
        BY <2>1, <2>6 DEF Lost
    <2> QED BY <1>4, <2>2, <2>3, <2>4, <2>5, <2>6 DEF ClientStep
<1> QED BY <1>1, <1>2, <1>3, <1>4

\* Every step of a worker is one of those.
LEMMA WorkerRuns ==
    ASSUME Typed, NEW w \in Worker, WorkerStep(w) \/ ClientStep(w) \/ WakeSpuriously(w)
    PROVE  \E t \in Good : Runs(w, t)
BY RunRuns, ServeRuns DEF WorkerStep

-----------------------------------------------------------------------------
(* Types, of every step.                                                   *)

\* A notification wakes the worker if it sleeps, and does nothing else.
LEMMA WokenIsTyped ==
    ASSUME Typed, NEW w \in Worker
    PROVE  /\ Woken(w) \in [Worker -> Good]
           /\ \A v \in Worker : /\ Woken(w)[v].connected = thread[v].connected
                                /\ \/ Woken(w)[v].pc = thread[v].pc /\ (v = w => thread[v].pc # "asleep")
                                   \/ v = w /\ thread[v].pc = "asleep" /\ Woken(w)[v].pc = "wait"
<1>0. thread \in [Worker -> Good]
    BY DEF Typed
<1>1. CASE thread[w].pc # "asleep"
    BY <1>0, <1>1 DEF Woken
<1>2. CASE thread[w].pc = "asleep"
    <2>1. thread[w].connected = NoSocket /\ "wait" \in Pcs /\ "wait" \notin {"poll", "loop"}
        BY <1>0, <1>2 DEF Good, Timely, Resting, Pcs
    <2>2. PICK t \in Good : t = [thread[w] EXCEPT !.pc = "wait"] /\ t.pc = "wait"
                            /\ t.connected = thread[w].connected
        BY <1>0, <2>1, MovedIsGood
    <2>3. Woken(w) = [thread EXCEPT ![w] = t]
        BY <1>2, <2>2 DEF Woken
    <2> QED BY <1>0, <1>2, <2>2, <2>3
<1> QED BY <1>1, <1>2

\* The construction of a worker starts its thread.
LEMMA ConstructIsTyped ==
    ASSUME Typed, NEW w \in Worker, thread[w].pc = "unborn"
    PROVE  LET started == [thread EXCEPT ![w].pc = "wait"]
           IN  /\ started \in [Worker -> Good] /\ started[w].pc = "wait"
               /\ started[w].connected = thread[w].connected
               /\ \A v \in Worker \ {w} : started[v] = thread[v]
<1>0. thread \in [Worker -> Good]
    BY DEF Typed
<1>1. thread[w].connected = NoSocket /\ "wait" \in Pcs /\ "wait" \notin {"poll", "loop"}
    BY <1>0 DEF Good, Timely, Resting, Pcs
<1>2. PICK t \in Good : t = [thread[w] EXCEPT !.pc = "wait"] /\ t.pc = "wait"
                        /\ t.connected = thread[w].connected
    BY <1>0, <1>1, MovedIsGood
<1>3. [thread EXCEPT ![w].pc = "wait"] = [thread EXCEPT ![w] = t]
    BY <1>2
<1> QED BY <1>0, <1>2, <1>3

\* What a worker shares, after it has taken its socket or become free.
LEMMA TakenIsTyped ==
    ASSUME NEW w \in Worker,
           shared \in [Worker -> [pending : Socket, busy : BOOLEAN, exiting : BOOLEAN]],
           \/ shared' = [shared EXCEPT ![w].pending = NoSocket]
           \/ shared' = [shared EXCEPT ![w].busy = FALSE]
    PROVE  shared' \in [Worker -> [pending : Socket, busy : BOOLEAN, exiting : BOOLEAN]]
<1> DEFINE s == shared[w]
           p == [s EXCEPT !.pending = NoSocket]
           b == [s EXCEPT !.busy = FALSE]
<1>1. s \in [pending : Socket, busy : BOOLEAN, exiting : BOOLEAN]
    OBVIOUS
<1>2. shared' = [shared EXCEPT ![w] = p] \/ shared' = [shared EXCEPT ![w] = b]
    OBVIOUS
<1> HIDE DEF s
<1>3. p \in [pending : Socket, busy : BOOLEAN, exiting : BOOLEAN]
    BY <1>1 DEF Socket
<1>4. b \in [pending : Socket, busy : BOOLEAN, exiting : BOOLEAN]
    BY <1>1
<1> HIDE DEF p, b
<1> QED BY <1>2, <1>3, <1>4

\* What a worker shares, once it has been told to exit.
LEMMA ExitingIsTyped ==
    ASSUME NEW s \in [pending : Socket, busy : BOOLEAN, exiting : BOOLEAN]
    PROVE  [s EXCEPT !.exiting = TRUE] \in [pending : Socket, busy : BOOLEAN, exiting : BOOLEAN]
OBVIOUS

\* The main thread, and what the system does.
LEMMA MainIsTyped ==
    ASSUME Typed, main.pc \in {"notify", "join"} => main.at \in Worker,
           \/ Construct /\ (main.at \in Worker => thread[main.at].pc = "unborn")
           \/ MainStep /\ ~Construct
           \/ ConstructFails
           \/ \E c \in Connection : Accept(c) \/ AcceptFails(c)
           \/ Stop
    PROVE  Typed'
<1>0. /\ main \in [pc : MainPcs, at : 0..(WorkerCount + 1), connected : Socket]
      /\ main.pc \in MainPcs /\ main.at \in 0..(WorkerCount + 1) /\ main.connected \in Socket
      /\ shared \in [Worker -> [pending : Socket, busy : BOOLEAN, exiting : BOOLEAN]]
      /\ conn \in [Connection -> {"new", "open", "closed"}]
    BY DEF Typed
<1>a. /\ {0, 1, WorkerCount} \subseteq 0..(WorkerCount + 1)
      /\ \A n \in Worker : {n, n + 1, n - 1} \subseteq 0..(WorkerCount + 1)
    BY Bounds DEF Worker
<1>1. Accepting \in [pc : MainPcs, at : 0..(WorkerCount + 1), connected : Socket]
    BY Bounds DEF Accepting, MainPcs, Socket
<1>2. \A w \in Worker : Woken(w) \in [Worker -> Good]
    BY WokenIsTyped
<1>3. CASE Construct /\ (main.at \in Worker => thread[main.at].pc = "unborn")
    <2>1. CASE main.at \in Worker
        <3>1. main' = [main EXCEPT !.at = @ + 1]
              /\ thread' = [thread EXCEPT ![main.at].pc = "wait"]
            BY <1>3, <2>1 DEF Construct
        <3>2. thread' \in [Worker -> Good]
            BY <1>3, <2>1, <3>1, ConstructIsTyped
        <3>3. main' \in [pc : MainPcs, at : 0..(WorkerCount + 1), connected : Socket]
            BY <1>0, <1>a, <2>1, <3>1
        <3> QED BY <1>3, <3>2, <3>3 DEF Construct, Typed
    <2>2. CASE main.at \notin Worker
        BY <1>1, <1>3, <2>2 DEF Construct, Typed
    <2> QED BY <2>1, <2>2
<1>4. CASE ConstructFails
    <2>1. main' \in [pc : MainPcs, at : 0..(WorkerCount + 1), connected : Socket]
        BY <1>0, <1>a, <1>4 DEF ConstructFails, MainPcs
    <2> QED BY <1>4, <2>1 DEF ConstructFails, Typed
<1>5. CASE MainLoop
    <2>1. main' \in [pc : MainPcs, at : 0..(WorkerCount + 1), connected : Socket]
        BY <1>0, <1>a, <1>5 DEF MainLoop, MainPcs
    <2> QED BY <1>5, <2>1 DEF MainLoop, Typed
<1>6. CASE AssignRefused
    <2>1. main' \in [pc : MainPcs, at : 0..(WorkerCount + 1), connected : Socket]
        <3>1. main.at \in Worker /\ main' = [main EXCEPT !.at = main.at + 1]
            BY <1>6 DEF AssignRefused
        <3>2. main.at + 1 \in 0..(WorkerCount + 1)
            BY <1>a, <3>1
        <3> QED BY <1>0, <3>1, <3>2
    <2> QED BY <1>6, <2>1 DEF AssignRefused, Typed
<1>7. CASE Assign
    <2>1. shared' \in [Worker -> [pending : Socket, busy : BOOLEAN, exiting : BOOLEAN]]
        BY <1>0, <1>7 DEF Assign
    <2>2. thread' \in [Worker -> Good]
        BY <1>2, <1>7 DEF Assign
    <2> QED BY <1>1, <1>7, <2>1, <2>2 DEF Assign, Typed
<1>8. CASE Excess
    BY <1>0, <1>1, <1>8 DEF Excess, Typed, CloseSocket
<1>9. CASE Destroy
    <2>1. main' \in [pc : MainPcs, at : 0..(WorkerCount + 1), connected : Socket]
        BY <1>0, <1>9 DEF Destroy, MainPcs
    <2>2. shared' \in [Worker -> [pending : Socket, busy : BOOLEAN, exiting : BOOLEAN]]
        <3>1. ASSUME NEW w \in Worker
              PROVE  [shared EXCEPT ![w].exiting = TRUE]
                        \in [Worker -> [pending : Socket, busy : BOOLEAN, exiting : BOOLEAN]]
            <4> DEFINE r == [shared[w] EXCEPT !.exiting = TRUE]
            <4>1. r \in [pending : Socket, busy : BOOLEAN, exiting : BOOLEAN]
                BY <1>0, ExitingIsTyped
            <4> HIDE DEF r
            <4>2. [shared EXCEPT ![w] = r]
                     \in [Worker -> [pending : Socket, busy : BOOLEAN, exiting : BOOLEAN]]
                BY <1>0, <4>1
            <4> QED BY <4>2 DEF r
        <3> QED BY <1>0, <1>9, <3>1 DEF Destroy
    <2> QED BY <1>9, <2>1, <2>2 DEF Destroy, Typed
<1>10. CASE Notify
    <2>1. main' \in [pc : MainPcs, at : 0..(WorkerCount + 1), connected : Socket]
        BY <1>0, <1>10 DEF Notify, MainPcs
    <2>2. thread' \in [Worker -> Good]
        <3>1. CASE main.at \in Worker
            BY <1>2, <1>10, <3>1 DEF Notify
        <3>2. CASE main.at \notin Worker
            BY <1>10, <3>2 DEF Notify, Woken, Typed
        <3> QED BY <3>1, <3>2
    <2> QED BY <1>10, <2>1, <2>2 DEF Notify, Typed
<1>11. CASE Join
    <2>1. main.at \in Worker
        BY <1>11 DEF Join
    <2>2. main' \in [pc : MainPcs, at : 0..(WorkerCount + 1), connected : Socket]
        BY <1>0, <1>a, <1>11, <2>1 DEF Join, MainPcs
    <2> QED BY <1>11, <2>2 DEF Join, Typed
<1>12. ASSUME NEW c \in Connection, Accept(c)
       PROVE  Typed'
    <2>1. main' \in [pc : MainPcs, at : 0..(WorkerCount + 1), connected : Socket]
        BY <1>0, <1>a, <1>12 DEF Accept, MainPcs, Socket
    <2> QED BY <1>0, <1>12, <2>1 DEF Accept, Typed
<1>13. ASSUME NEW c \in Connection, AcceptFails(c)
       PROVE  Typed'
    <2>1. main' \in [pc : MainPcs, at : 0..(WorkerCount + 1), connected : Socket]
        BY <1>0, <1>13 DEF AcceptFails, MainPcs
    <2> QED BY <1>0, <1>13, <2>1 DEF AcceptFails, Typed, CloseSocket
<1>14. CASE Stop
    BY <1>14 DEF Stop, Typed
<1> QED BY <1>3, <1>4, <1>5, <1>6, <1>7, <1>8, <1>9, <1>10, <1>11, <1>12, <1>13, <1>14 DEF MainStep

\* A quantum that passes.
LEMMA TickIsTyped ==
    ASSUME Typed, Tick, drained = 1 => ~stopping
    PROVE  Typed'
<1>0. /\ main \in [pc : MainPcs, at : 0..(WorkerCount + 1), connected : Socket]
      /\ thread \in [Worker -> Good] /\ drained \in 0..1
    BY DEF Typed
<1>1. main' \in [pc : MainPcs, at : 0..(WorkerCount + 1), connected : Socket]
    BY <1>0 DEF Tick, MainPcs
<1>2. ASSUME NEW w \in Worker, thread[w].pc = "poll"
      PROVE  Waited(thread[w], "check") \in Good
    <2> DEFINE h == thread[w]
               l == h.left - 1
               n == h.held + 1
               t == [h EXCEPT !.pc = "check", !.left = l, !.held = n]
    <2>1. /\ h \in Threads /\ Timely(h) /\ h.left \in Nat /\ h.held \in Nat /\ h.left > 0
          /\ h.phase \in {"prefix", "rest", "send"}
        BY <1>0, <1>2 DEF Good, Threads, Timely
    <2>2. l \in Nat /\ n \in Nat /\ l < h.left /\ n + l = h.held + h.left
        BY <2>1
    <2> HIDE DEF l, n
    <2>3. /\ t \in Threads /\ t.pc = "check" /\ t.phase = h.phase /\ t.left = l /\ t.held = n
          /\ t.connected = h.connected
        BY <2>1, <2>2 DEF Threads, Pcs
    <2> HIDE DEF t
    <2>4. t.left <= PhaseDeadline(t.phase) /\ t.held + t.left <= PhaseEnd(t.phase)
        BY <2>1, <2>2, <2>3, Deadlines DEF Timely
    <2>5. t \in Good
        BY <2>3, <2>4 DEF Good, Timely, Resting
    <2> QED BY <2>5 DEF t, l, n, Waited
<1>3. thread' \in [Worker -> Good]
    BY <1>0, <1>2 DEF Tick
<1>4. drained' \in 0..1
    BY <1>0 DEF Tick, Drain
<1> QED BY <1>1, <1>3, <1>4 DEF Tick, Typed

-----------------------------------------------------------------------------
(* Shutting down.                                                          *)

\* Where the main thread is tells which workers have begun, and which one has been told
\* to exit without being notified yet; and after the first quantum of a shutdown nobody
\* waits for a client any more.
MainInv ==
    /\ main.pc = "construct" =>
          main.at > 0 /\ \A w \in Worker : w >= main.at => thread[w].pc = "unborn"
    /\ main.pc \in {"notify", "join"} => main.at \in Worker /\ shared[main.at].exiting
    /\ \A w \in Worker :
          thread[w].pc = "unborn" =>
             \/ main.pc = "construct" /\ w >= main.at
             \/ main.pc \in {"destroy", "notify", "join", "end"} /\ w > main.at

AsleepInv ==
    \A w \in Worker :
       thread[w].pc = "asleep" /\ shared[w].exiting => main.pc = "notify" /\ main.at = w

DrainInv ==
    drained = 1 =>
       /\ stopping
       /\ main.pc # "poll"
       /\ \A w \in Worker : thread[w].pc # "poll"

ShutdownInv == MainInv /\ AsleepInv /\ DrainInv

\* Once nobody waits for a client there is no quiet moment before the end: the main
\* thread does not wait, or it joins a worker that has something to do.
LEMMA NoQuietShutdown ==
    ASSUME Typed, ShutdownInv, Quiescent
    PROVE  drained = 0
<1> SUFFICES ASSUME drained = 1
             PROVE  FALSE
    BY DEF Typed
<1>1. main.pc = "join" /\ thread[main.at].pc # "gone"
    BY DEF Quiescent, ShutdownInv, DrainInv
<1>2. main.at \in Worker /\ shared[main.at].exiting
    BY <1>1 DEF ShutdownInv, MainInv
<1>3. thread[main.at].pc # "unborn"
    BY <1>1, <1>2 DEF ShutdownInv, MainInv, Typed, Worker
<1>4. thread[main.at].pc # "asleep"
    BY <1>1, <1>2 DEF ShutdownInv, AsleepInv
<1>5. thread[main.at].pc # "poll"
    BY <1>2 DEF ShutdownInv, DrainInv
<1> QED BY <1>1, <1>2, <1>3, <1>4, <1>5 DEF Quiescent, Drowsy

\* A step of a worker.
LEMMA RunKeepsShutdown ==
    ASSUME Typed, ShutdownInv, NEW w \in Worker, NEW t \in Good, Runs(w, t)
    PROVE  ShutdownInv'
<1>0. /\ thread' = [thread EXCEPT ![w] = t] /\ thread \in [Worker -> Good]
      /\ shared \in [Worker -> [pending : Socket, busy : BOOLEAN, exiting : BOOLEAN]]
      /\ main' = main /\ stopping' = stopping /\ drained' = drained
      /\ thread[w].pc # "unborn" /\ t.pc # "unborn" /\ (t.pc = "poll" => ~stopping) /\ (t.pc = "asleep" => ~shared[w].exiting)
    BY DEF Typed, Runs
<1>1. \A v \in Worker : shared'[v].exiting = shared[v].exiting
    <2>1. CASE Takes(w, t)
        BY <1>0, <2>1 DEF Takes
    <2>2. CASE Frees(w, t)
        BY <1>0, <2>2 DEF Frees
    <2>3. CASE Closes(w, t) \/ Keeps(w, t)
        BY <2>3 DEF Closes, Keeps
    <2> QED BY <2>1, <2>2, <2>3 DEF Runs
<1>2. \A v \in Worker : thread'[v] = IF v = w THEN t ELSE thread[v]
    BY <1>0
<1>3. MainInv'
    BY <1>0, <1>1, <1>2 DEF ShutdownInv, MainInv
<1>4. AsleepInv'
    BY <1>0, <1>1, <1>2 DEF ShutdownInv, AsleepInv
<1>5. DrainInv'
    BY <1>0, <1>2 DEF ShutdownInv, DrainInv
<1> QED BY <1>3, <1>4, <1>5 DEF ShutdownInv

\* A step of the main thread or of the system, that leaves the threads alone, or all but
\* one of them.
LEMMA MainKeepsShutdown ==
    ASSUME Typed, ShutdownInv,
           \/ MainStep \/ ConstructFails \/ Stop
           \/ \E c \in Connection : Accept(c) \/ AcceptFails(c)
    PROVE  ShutdownInv'
<1>0. /\ thread \in [Worker -> Good]
      /\ shared \in [Worker -> [pending : Socket, busy : BOOLEAN, exiting : BOOLEAN]]
      /\ main \in [pc : MainPcs, at : 0..(WorkerCount + 1), connected : Socket]
      /\ main.pc \in MainPcs /\ main.at \in 0..(WorkerCount + 1)
      /\ stopping \in BOOLEAN
    BY DEF Typed
<1>a. Accepting.pc = "loop" /\ Accepting.at = 1
    BY DEF Accepting
<1>b. \A w \in Worker : w \in Int /\ w >= 1 /\ w <= WorkerCount
    BY Bounds DEF Worker
<1>w. ASSUME NEW w \in Worker, thread' = Woken(w)
      PROVE  \A v \in Worker : /\ thread'[v].pc = "unborn" => thread[v].pc = "unborn"
                               /\ thread'[v].pc = "poll" => thread[v].pc = "poll"
                               /\ thread'[v].pc = "asleep" => thread[v].pc = "asleep" /\ v # w
    BY <1>w, WokenIsTyped
<1>1. CASE Construct
    <2>1. CASE main.at \in Worker
        <3>1. /\ thread' = [thread EXCEPT ![main.at].pc = "wait"] /\ main' = [main EXCEPT !.at = @ + 1]
              /\ UNCHANGED <<conn, stopping, shared, drained>>
            BY <1>1, <2>1 DEF Construct
        <3>2. /\ \A v \in Worker \ {main.at} : thread'[v] = thread[v]
              /\ thread'[main.at].pc = "wait" /\ main'.pc = main.pc /\ main'.at = main.at + 1
            BY <1>0, <2>1, <3>1 DEF Good, Threads
        <3>3. MainInv'
            <4>1. /\ main.pc = "construct" /\ main.at > 0 /\ main.at \in Int
                  /\ \A v \in Worker : thread[v].pc = "unborn" <=> v >= main.at
                BY <1>0, <1>1 DEF ShutdownInv, MainInv, Construct
            <4>2. main'.at > 0 /\ \A v \in Worker : thread'[v].pc = "unborn" <=> v >= main'.at
                BY <1>b, <2>1, <3>2, <4>1
            <4> QED BY <3>2, <4>1, <4>2 DEF MainInv
        <3>4. AsleepInv'
            BY <1>1, <2>1, <3>1, <3>2 DEF ShutdownInv, AsleepInv, Construct
        <3>5. DrainInv'
            BY <2>1, <3>1, <3>2 DEF ShutdownInv, DrainInv
        <3> QED BY <3>3, <3>4, <3>5 DEF ShutdownInv
    <2>2. CASE main.at \notin Worker
        <3>1. main' = Accepting /\ UNCHANGED <<conn, stopping, shared, drained, thread>>
            BY <1>1, <2>2 DEF Construct
        <3>2. \A v \in Worker : thread[v].pc # "unborn"
            BY <1>0, <1>1, <1>b, <2>2, Bounds DEF ShutdownInv, MainInv, Construct, Worker
        <3> QED BY <1>1, <1>a, <3>1, <3>2 DEF ShutdownInv, MainInv, AsleepInv, DrainInv, Construct
    <2> QED BY <2>1, <2>2
<1>2. CASE ConstructFails
    <2>1. /\ main'.pc = "destroy" /\ main'.at = main.at - 1 /\ main.pc = "construct"
          /\ UNCHANGED <<conn, stopping, shared, thread, drained>>
        BY <1>0, <1>2 DEF ConstructFails
    <2> QED BY <1>0, <1>b, <2>1 DEF ShutdownInv, MainInv, AsleepInv, DrainInv
<1>3. CASE MainLoop
    <2>1. /\ main.pc = "loop" /\ UNCHANGED <<conn, stopping, shared, thread, drained>>
          /\ \/ stopping /\ main'.pc = "destroy" /\ main'.at = WorkerCount
             \/ ~stopping /\ main'.pc = "poll" /\ main'.at = main.at
        BY <1>0, <1>3 DEF MainLoop
    <2> QED BY <1>0, <1>b, <2>1 DEF ShutdownInv, MainInv, AsleepInv, DrainInv
<1>4. CASE AssignRefused \/ Excess \/ \E c \in Connection : Accept(c) \/ AcceptFails(c)
    <2>1. /\ main.pc \in {"assign", "poll"} /\ main'.pc \in {"assign", "loop"}
          /\ UNCHANGED <<stopping, shared, thread, drained>>
        BY <1>0, <1>4, <1>a DEF AssignRefused, Excess, Accept, AcceptFails
    <2> QED BY <2>1 DEF ShutdownInv, MainInv, AsleepInv, DrainInv
<1>5. CASE Assign
    <2>0. thread' = Woken(main.at) /\ main.at \in Worker
        BY <1>5 DEF Assign
    <2>1. main.pc = "assign" /\ main'.pc = "loop" /\ UNCHANGED <<stopping, drained>>
        BY <1>5, <1>a DEF Assign
    <2>2. \A v \in Worker : shared'[v].exiting = shared[v].exiting
        BY <1>0, <1>5 DEF Assign
    <2>3. \A v \in Worker : /\ thread'[v].pc = "unborn" => thread[v].pc = "unborn"
                            /\ thread'[v].pc = "poll" => thread[v].pc = "poll"
                            /\ thread'[v].pc = "asleep" => thread[v].pc = "asleep" /\ v # main.at
        BY <1>w, <2>0
    <2> QED BY <2>1, <2>2, <2>3 DEF ShutdownInv, MainInv, AsleepInv, DrainInv
<1>6. CASE Destroy
    <2>1. CASE main.at \in Worker
        <3>1. /\ main.pc = "destroy" /\ main'.pc = "notify" /\ main'.at = main.at /\ stopping' = TRUE
              /\ shared' = [shared EXCEPT ![main.at].exiting = TRUE]
              /\ UNCHANGED <<thread, drained>>
            BY <1>0, <1>6, <2>1 DEF Destroy
        <3>2. \A v \in Worker : shared'[v].exiting = IF v = main.at THEN TRUE ELSE shared[v].exiting
            BY <1>0, <2>1, <3>1
        <3> QED BY <2>1, <3>1, <3>2 DEF ShutdownInv, MainInv, AsleepInv, DrainInv
    <2>2. CASE main.at \notin Worker
        <3>1. /\ main.pc = "destroy" /\ main'.pc = "end" /\ main'.at = main.at
              /\ UNCHANGED <<stopping, shared, thread, drained>>
            BY <1>0, <1>6, <2>2 DEF Destroy
        <3> QED BY <3>1 DEF ShutdownInv, MainInv, AsleepInv, DrainInv
    <2> QED BY <2>1, <2>2
<1>7. CASE Notify
    <2>0. thread' = Woken(main.at) /\ main.at \in Worker
        BY <1>7 DEF Notify, ShutdownInv, MainInv
    <2>1. /\ main.pc = "notify" /\ main'.pc = "join" /\ main'.at = main.at /\ main.at \in Worker
          /\ UNCHANGED <<stopping, shared, drained>>
        BY <1>0, <1>7, <2>0 DEF Notify
    <2>2. \A v \in Worker : /\ thread'[v].pc = "unborn" => thread[v].pc = "unborn"
                            /\ thread'[v].pc = "poll" => thread[v].pc = "poll"
                            /\ thread'[v].pc = "asleep" => thread[v].pc = "asleep" /\ v # main.at
        BY <1>w, <2>0
    <2>3. MainInv'
        BY <2>1, <2>2 DEF ShutdownInv, MainInv
    <2>4. AsleepInv'
        BY <2>1, <2>2 DEF ShutdownInv, AsleepInv
    <2>5. DrainInv'
        BY <2>1, <2>2 DEF ShutdownInv, DrainInv
    <2> QED BY <2>3, <2>4, <2>5 DEF ShutdownInv
<1>8. CASE Join
    <2>1. /\ main.pc = "join" /\ main'.pc = "destroy" /\ main'.at = main.at - 1 /\ main.at \in Worker
          /\ UNCHANGED <<stopping, shared, thread, drained>>
        BY <1>0, <1>8 DEF Join, ShutdownInv, MainInv
    <2> QED BY <1>0, <1>b, <2>1 DEF ShutdownInv, MainInv, AsleepInv, DrainInv
<1>9. CASE Stop
    BY <1>9 DEF Stop, ShutdownInv, MainInv, AsleepInv, DrainInv
<1> QED BY <1>1, <1>2, <1>3, <1>4, <1>5, <1>6, <1>7, <1>8, <1>9 DEF MainStep

\* A quantum, which is the first of a shutdown or comes before it.
LEMMA TickKeepsShutdown ==
    ASSUME Typed, ShutdownInv, Tick
    PROVE  ShutdownInv'
<1>0. /\ thread \in [Worker -> Good] /\ drained = 0 /\ UNCHANGED <<stopping, shared>>
      /\ main \in [pc : MainPcs, at : 0..(WorkerCount + 1), connected : Socket]
    BY NoQuietShutdown DEF Typed, Tick
<1>1. /\ main'.at = main.at /\ main'.pc # "poll"
      /\ main.pc = main'.pc \/ (main.pc = "poll" /\ main'.pc = "loop")
    BY <1>0 DEF Tick
<1>2. \A v \in Worker : \/ thread[v].pc # "poll" /\ thread'[v] = thread[v]
                        \/ thread[v].pc = "poll" /\ thread'[v].pc = "check"
    BY <1>0 DEF Tick, Waited, Good, Threads
<1>3. drained' = 1 => stopping
    BY <1>0 DEF Tick, Drain
<1> QED BY <1>0, <1>1, <1>2, <1>3 DEF ShutdownInv, MainInv, AsleepInv, DrainInv

-----------------------------------------------------------------------------

\* Every step keeps the types and the order of the shutdown.
LEMMA StepKeepsShutdown ==
    ASSUME Typed, ShutdownInv, [Next]_vars
    PROVE  Typed' /\ ShutdownInv'
<1>1. ASSUME NEW w \in Worker, WorkerStep(w) \/ ClientStep(w) \/ WakeSpuriously(w)
      PROVE  Typed' /\ ShutdownInv'
    <2>1. PICK t \in Good : Runs(w, t)
        BY <1>1, WorkerRuns
    <2>2. Typed'
        <3>0. /\ conn \in [Connection -> {"new", "open", "closed"}]
              /\ shared \in [Worker -> [pending : Socket, busy : BOOLEAN, exiting : BOOLEAN]]
            BY DEF Typed
        <3>1. CASE Takes(w, t)
            BY <2>1, <3>0, <3>1, TakenIsTyped DEF Typed, Runs, Takes
        <3>2. CASE Closes(w, t)
            BY <2>1, <3>0, <3>2 DEF Typed, Runs, Closes, CloseSocket
        <3>3. CASE Frees(w, t)
            BY <2>1, <3>0, <3>3, TakenIsTyped DEF Typed, Runs, Frees
        <3>4. CASE Keeps(w, t)
            BY <2>1, <3>0, <3>4 DEF Typed, Runs, Keeps
        <3> QED BY <2>1, <3>1, <3>2, <3>3, <3>4 DEF Runs
    <2> QED BY <2>1, <2>2, RunKeepsShutdown
<1>2. CASE \/ MainStep \/ ConstructFails \/ Stop
           \/ \E c \in Connection : Accept(c) \/ AcceptFails(c)
    <2>1. main.pc \in {"notify", "join"} => main.at \in Worker
        BY DEF ShutdownInv, MainInv
    <2>2. Construct /\ main.at \in Worker => thread[main.at].pc = "unborn"
        BY DEF Construct, ShutdownInv, MainInv, Typed, Worker
    <2> QED BY <1>2, <2>1, <2>2, MainIsTyped, MainKeepsShutdown
<1>3. CASE Tick
    <2>1. drained = 0
        BY <1>3, NoQuietShutdown DEF Tick
    <2> QED BY <1>3, <2>1, TickIsTyped, TickKeepsShutdown
<1>4. CASE UNCHANGED vars
    BY <1>4 DEF vars, Typed, ShutdownInv, MainInv, AsleepInv, DrainInv
<1> QED BY <1>1, <1>2, <1>3, <1>4 DEF Next

-----------------------------------------------------------------------------
(* Who has a socket.                                                       *)

\* What a worker shares with the main thread agrees with where its thread is: it is busy
\* from the assignment until it has closed the socket, takes the socket once, and is gone
\* only when there is none and never will be.  The main thread has a socket only while it
\* looks for a worker.
WorkerInv ==
    /\ \A w \in Worker :
          /\ thread[w].pc \notin Resting => shared[w].busy /\ shared[w].pending = NoSocket
          /\ shared[w].pending # NoSocket => shared[w].busy
          /\ thread[w].pc = "gone" => shared[w].exiting /\ shared[w].pending = NoSocket
    /\ main.connected # NoSocket => main.pc = "assign"

\* The variables that can hold a socket.
Hands == {<<"main", 0>>} \cup ({"pending"} \X Worker) \cup ({"serving"} \X Worker)

Holds(o) ==
    IF o[1] = "main" THEN main.connected
    ELSE IF o[1] = "pending" THEN shared[o[2]].pending
    ELSE thread[o[2]].connected

\* What they hold are the open connections, each of them once.
HandInv ==
    /\ \A o \in Hands : Holds(o) # NoSocket => conn[Holds(o)] = "open"
    /\ \A o, p \in Hands : Holds(o) = Holds(p) /\ Holds(o) # NoSocket => o = p
    /\ \A c \in Connection : conn[c] = "open" => \E o \in Hands : Holds(o) = c

\* What a step can do to them: nothing, pass a socket on, close it, or accept one; or a
\* connection ends that nobody has accepted.
Same == (\A o \in Hands : Holds(o)' = Holds(o)) /\ conn' = conn

Passes(o, p) ==
    /\ o # p /\ Holds(p) = NoSocket /\ Holds(p)' = Holds(o) /\ Holds(o)' = NoSocket
    /\ \A q \in Hands \ {o, p} : Holds(q)' = Holds(q)
    /\ conn' = conn

Drops(o) ==
    /\ Holds(o)' = NoSocket
    /\ \A q \in Hands \ {o} : Holds(q)' = Holds(q)
    /\ CloseSocket(Holds(o))

Gets(o, c) ==
    /\ Holds(o) = NoSocket /\ Holds(o)' = c
    /\ \A q \in Hands \ {o} : Holds(q)' = Holds(q)
    /\ conn[c] = "new" /\ conn' = [conn EXCEPT ![c] = "open"]

Ends(c) ==
    /\ \A o \in Hands : Holds(o)' = Holds(o)
    /\ conn[c] = "new" /\ conn' = [conn EXCEPT ![c] = "closed"]

Handling ==
    \/ Same
    \/ \E o, p \in Hands : Passes(o, p)
    \/ \E o \in Hands : Drops(o)
    \/ \E o \in Hands, c \in Connection : Gets(o, c)
    \/ \E c \in Connection : Ends(c)

\* What the hands are.
LEMMA HandsAre ==
    /\ <<"main", 0>> \in Hands /\ Holds(<<"main", 0>>) = main.connected
    /\ \A w \in Worker : /\ <<"pending", w>> \in Hands /\ Holds(<<"pending", w>>) = shared[w].pending
                         /\ <<"serving", w>> \in Hands /\ Holds(<<"serving", w>>) = thread[w].connected
    /\ \A o \in Hands : \/ o = <<"main", 0>>
                        \/ \E w \in Worker : o = <<"pending", w>> \/ o = <<"serving", w>>
BY DEF Hands, Holds

\* The same after the step.
LEMMA HandsWillBe ==
    /\ Holds(<<"main", 0>>)' = main'.connected
    /\ \A w \in Worker : /\ Holds(<<"pending", w>>)' = shared'[w].pending
                         /\ Holds(<<"serving", w>>)' = thread'[w].connected
BY DEF Holds

\* Hands hold sockets.
LEMMA HandsHoldSockets ==
    ASSUME Typed, NEW o \in Hands
    PROVE  Holds(o) \in Socket
<1>1. main.connected \in Socket
    BY DEF Typed
<1>2. ASSUME NEW w \in Worker
      PROVE  shared[w].pending \in Socket /\ thread[w].connected \in Socket
    <2>1. shared[w] \in [pending : Socket, busy : BOOLEAN, exiting : BOOLEAN] /\ thread[w] \in Threads
        BY DEF Typed, Good
    <2> QED BY <2>1 DEF Threads
<1> QED BY <1>1, <1>2, HandsAre

\* None of these moves loses a socket or gives it to two.
LEMMA HandlingKeepsHands ==
    ASSUME Typed, HandInv, Handling
    PROVE  HandInv'
<1>0. /\ conn \in [Connection -> {"new", "open", "closed"}]
      /\ NoSocket \notin Connection
      /\ \A o \in Hands : Holds(o) \in Connection \cup {NoSocket}
    BY NoSocketIsNoConnection, HandsHoldSockets DEF Typed, Socket
<1>1. CASE Same
    BY <1>1 DEF Same, HandInv
<1>2. ASSUME NEW o \in Hands, NEW p \in Hands, Passes(o, p)
      PROVE  HandInv'
    BY <1>0, <1>2 DEF Passes, HandInv
<1>3. ASSUME NEW o \in Hands, Drops(o)
      PROVE  HandInv'
    <2>1. CASE Holds(o) = NoSocket
        <3>1. conn' = conn
            BY <1>0, <1>3, <2>1 DEF Drops, CloseSocket
        <3> QED BY <1>3, <2>1, <3>1 DEF Drops, HandInv
    <2>2. CASE Holds(o) # NoSocket
        <3>1. \A c \in Connection : conn'[c] = IF c = Holds(o) THEN "closed" ELSE conn[c]
            BY <1>0, <1>3 DEF Drops, CloseSocket
        <3> QED BY <1>0, <1>3, <2>2, <3>1 DEF Drops, HandInv
    <2> QED BY <2>1, <2>2
<1>4. ASSUME NEW o \in Hands, NEW c \in Connection, Gets(o, c)
      PROVE  HandInv'
    <2>1. \A d \in Connection : conn'[d] = IF d = c THEN "open" ELSE conn[d]
        BY <1>0, <1>4 DEF Gets
    <2> QED BY <1>0, <1>4, <2>1 DEF Gets, HandInv
<1>5. ASSUME NEW c \in Connection, Ends(c)
      PROVE  HandInv'
    <2>1. \A d \in Connection : conn'[d] = IF d = c THEN "closed" ELSE conn[d]
        BY <1>0, <1>5 DEF Ends
    <2> QED BY <1>0, <1>5, <2>1 DEF Ends, HandInv
<1> QED BY <1>1, <1>2, <1>3, <1>4, <1>5 DEF Handling

\* A step of a worker passes on what it was handed, closes what it serves, or changes
\* nothing; and says so.
LEMMA RunHandles ==
    ASSUME Typed, WorkerInv, HandInv, NEW w \in Worker, NEW t \in Good, Runs(w, t)
    PROVE  Handling /\ WorkerInv'
<1>0. /\ thread' = [thread EXCEPT ![w] = t] /\ thread \in [Worker -> Good]
      /\ shared \in [Worker -> [pending : Socket, busy : BOOLEAN, exiting : BOOLEAN]]
      /\ main' = main
    BY DEF Typed, Runs
<1>1. \A v \in Worker : thread'[v] = IF v = w THEN t ELSE thread[v]
    BY <1>0
<1>r. \A pc \in {"wait", "gone"} : pc \in Resting
    BY DEF Resting
<1>s. \A pc \in {"start", "close", "free"} : pc \notin Resting /\ pc # "gone"
    BY DEF Resting
<1> DEFINE s == <<"serving", w>>
           p == <<"pending", w>>
<1>h. s \in Hands /\ p \in Hands /\ s # p /\ Holds(s) = thread[w].connected
      /\ Holds(p) = shared[w].pending /\ Holds(s)' = thread'[w].connected
      /\ Holds(p)' = shared'[w].pending
    BY HandsAre, HandsWillBe
<1>o. ASSUME NEW q \in Hands, \A v \in Worker \ {w} : shared'[v] = shared[v],
             q = s => Holds(s)' = Holds(s), q = p => Holds(p)' = Holds(p)
      PROVE  Holds(q)' = Holds(q)
    <2>1. CASE q = <<"main", 0>>
        BY <1>0, <2>1 DEF Holds
    <2>2. ASSUME NEW v \in Worker, q = <<"pending", v>>
          PROVE  Holds(q)' = Holds(q)
        BY <1>o, <2>2 DEF Holds
    <2>3. ASSUME NEW v \in Worker, q = <<"serving", v>>
          PROVE  Holds(q)' = Holds(q)
        BY <1>1, <1>o, <2>3 DEF Holds
    <2> QED BY <2>1, <2>2, <2>3, HandsAre
<1>2. CASE Takes(w, t)
    <2>1. /\ shared'[w].pending = NoSocket /\ shared'[w].busy = shared[w].busy
          /\ shared'[w].exiting = shared[w].exiting /\ \A v \in Worker \ {w} : shared'[v] = shared[v]
        BY <1>0, <1>2 DEF Takes
    <2>2. thread[w].connected = NoSocket
        BY <1>0, <1>2, <1>r DEF Takes, Good, Timely
    <2>3. Passes(p, s)
        BY <1>1, <1>2, <1>h, <1>o, <2>1, <2>2 DEF Takes, Passes
    <2>4. WorkerInv'
        BY <1>0, <1>1, <1>2, <1>s, <2>1 DEF Takes, WorkerInv
    <2> QED BY <1>h, <2>3, <2>4 DEF Handling
<1>3. CASE Closes(w, t)
    <2>1. Drops(s)
        BY <1>1, <1>3, <1>h, <1>o DEF Closes, Drops
    <2>2. WorkerInv'
        BY <1>0, <1>1, <1>3, <1>s DEF Closes, WorkerInv
    <2> QED BY <1>h, <2>1, <2>2 DEF Handling
<1>4. CASE Frees(w, t)
    <2>1. /\ shared'[w].pending = shared[w].pending /\ shared'[w].exiting = shared[w].exiting
          /\ \A v \in Worker \ {w} : shared'[v] = shared[v]
        BY <1>0, <1>4 DEF Frees
    <2>2. thread[w].connected = NoSocket /\ shared[w].pending = NoSocket
        BY <1>0, <1>4, <1>s DEF Frees, Good, Timely, WorkerInv
    <2>3. Same
        BY <1>1, <1>4, <1>h, <1>o, <2>1, <2>2 DEF Frees, Same
    <2>4. WorkerInv'
        BY <1>0, <1>1, <1>4, <1>r, <2>1, <2>2 DEF Frees, WorkerInv
    <2> QED BY <2>3, <2>4 DEF Handling
<1>5. CASE Keeps(w, t)
    <2>1. Same
        BY <1>1, <1>5, <1>h, <1>o DEF Keeps, Same
    <2>2. WorkerInv'
        BY <1>0, <1>1, <1>5 DEF Keeps, WorkerInv
    <2> QED BY <2>1, <2>2 DEF Handling
<1> QED BY <1>2, <1>3, <1>4, <1>5 DEF Runs

\* A step of the main thread, or of the system.
LEMMA MainHandles ==
    ASSUME Typed, WorkerInv, HandInv, ShutdownInv,
           \/ MainStep \/ ConstructFails \/ Stop \/ Tick
           \/ \E c \in Connection : Accept(c) \/ AcceptFails(c)
    PROVE  Handling /\ WorkerInv'
<1>0. /\ thread \in [Worker -> Good]
      /\ shared \in [Worker -> [pending : Socket, busy : BOOLEAN, exiting : BOOLEAN]]
      /\ main \in [pc : MainPcs, at : 0..(WorkerCount + 1), connected : Socket]
    BY DEF Typed
<1>a. Accepting.connected = NoSocket
    BY DEF Accepting
<1> DEFINE m == <<"main", 0>>
<1>m. m \in Hands /\ Holds(m) = main.connected /\ Holds(m)' = main'.connected
    BY HandsAre, HandsWillBe
\* The threads keep what they have, and are at rest or not as they were.
<1>t. ASSUME \A v \in Worker : /\ thread'[v].connected = thread[v].connected
                               /\ thread'[v].pc \notin Resting <=> thread[v].pc \notin Resting
                               /\ thread'[v].pc = "gone" <=> thread[v].pc = "gone",
             \A v \in Worker : /\ shared'[v].pending = shared[v].pending
                               /\ shared'[v].busy = shared[v].busy
                               /\ shared[v].exiting => shared'[v].exiting
      PROVE  /\ \A q \in Hands \ {m} : Holds(q)' = Holds(q)
             /\ (main'.connected # NoSocket => main'.pc = "assign") => WorkerInv'
    <2>1. ASSUME NEW q \in Hands \ {m}
          PROVE  Holds(q)' = Holds(q)
        <3>1. ASSUME NEW v \in Worker, q = <<"pending", v>>
              PROVE  Holds(q)' = Holds(q)
            BY <1>t, <3>1 DEF Holds
        <3>2. ASSUME NEW v \in Worker, q = <<"serving", v>>
              PROVE  Holds(q)' = Holds(q)
            BY <1>t, <3>2 DEF Holds
        <3> QED BY <3>1, <3>2, HandsAre
    <2>2. (main'.connected # NoSocket => main'.pc = "assign") => WorkerInv'
        BY <1>t DEF WorkerInv
    <2> QED BY <2>1, <2>2
<1>1. CASE ConstructFails \/ MainLoop \/ AssignRefused \/ Join \/ Stop \/ Destroy
    <2>1. /\ main'.connected = main.connected /\ (main.pc = "assign" => main'.pc = "assign")
          /\ UNCHANGED <<thread, conn>>
        BY <1>0, <1>1 DEF ConstructFails, MainLoop, AssignRefused, Join, Stop, Destroy
    <2>2. \A v \in Worker : /\ shared'[v].pending = shared[v].pending
                            /\ shared'[v].busy = shared[v].busy
                            /\ shared[v].exiting => shared'[v].exiting
        BY <1>0, <1>1 DEF ConstructFails, MainLoop, AssignRefused, Join, Stop, Destroy
    <2>3. Same /\ WorkerInv'
        BY <1>m, <1>t, <2>1, <2>2 DEF Same, WorkerInv
    <2> QED BY <2>3 DEF Handling
<1>2. CASE Construct
    <2>1. CASE main.at \in Worker
        <3>1. thread[main.at].pc = "unborn"
            BY <1>2, <2>1, <1>0 DEF Construct, ShutdownInv, MainInv, Worker
        <3>2. /\ main'.connected = main.connected /\ main'.pc = main.pc /\ UNCHANGED <<conn, shared>>
              /\ thread' = [thread EXCEPT ![main.at].pc = "wait"]
            BY <1>0, <1>2, <2>1 DEF Construct
        <3>3. \A v \in Worker : /\ thread'[v].connected = thread[v].connected
                                /\ \/ thread'[v].pc = thread[v].pc
                                   \/ thread[v].pc = "unborn" /\ thread'[v].pc = "wait"
            BY <2>1, <3>1, <3>2, ConstructIsTyped
        <3>4. Same /\ WorkerInv'
            BY <1>m, <1>t, <3>2, <3>3 DEF Same, WorkerInv, Resting
        <3> QED BY <3>4 DEF Handling
    <2>2. CASE main.at \notin Worker
        <3>1. /\ main' = Accepting /\ UNCHANGED <<thread, shared, conn>> /\ main.connected = NoSocket
            BY <1>2, <2>2 DEF Construct, WorkerInv
        <3>2. Same /\ WorkerInv'
            BY <1>a, <1>m, <1>t, <3>1 DEF Same
        <3> QED BY <3>2 DEF Handling
    <2> QED BY <2>1, <2>2
<1>3. CASE Notify
    <2>1. /\ main'.connected = main.connected /\ main.pc # "assign" /\ UNCHANGED <<conn, shared>>
          /\ main.at \in Worker /\ thread' = Woken(main.at)
        BY <1>0, <1>3 DEF Notify, ShutdownInv, MainInv
    <2>2. \A v \in Worker : /\ thread'[v].connected = thread[v].connected
                            /\ \/ thread'[v].pc = thread[v].pc
                               \/ thread[v].pc = "asleep" /\ thread'[v].pc = "wait"
        BY <2>1, WokenIsTyped
    <2>3. Same /\ WorkerInv'
        BY <1>m, <1>t, <2>1, <2>2 DEF Same, WorkerInv, Resting
    <2> QED BY <2>3 DEF Handling
<1>4. CASE Tick
    <2>1. /\ main'.connected = main.connected /\ (main.pc = "assign" => main'.pc = "assign")
          /\ UNCHANGED <<conn, shared>>
        BY <1>0, <1>4 DEF Tick
    <2>2. \A v \in Worker : /\ thread'[v].connected = thread[v].connected
                            /\ \/ thread'[v].pc = thread[v].pc
                               \/ thread[v].pc = "poll" /\ thread'[v].pc = "check"
        <3>1. \A t \in Threads : /\ Waited(t, "check").connected = t.connected
                                 /\ Waited(t, "check").pc = "check"
            BY DEF Waited, Threads
        <3>2. \A v \in Worker : thread'[v] = IF thread[v].pc = "poll"
                                             THEN Waited(thread[v], "check") ELSE thread[v]
            BY <1>4 DEF Tick
        <3>3. \A v \in Worker : thread[v] \in Threads
            BY <1>0 DEF Good
        <3> QED BY <3>1, <3>2, <3>3
    <2>3. Same /\ WorkerInv'
        BY <1>m, <1>t, <2>1, <2>2 DEF Same, WorkerInv, Resting
    <2> QED BY <2>3 DEF Handling
<1>5. CASE Excess
    <2>1. main' = Accepting /\ UNCHANGED <<thread, shared>> /\ CloseSocket(main.connected)
        BY <1>5 DEF Excess
    <2>2. Drops(m) /\ WorkerInv'
        BY <1>a, <1>m, <1>t, <2>1 DEF Drops
    <2> QED BY <1>m, <2>2 DEF Handling
<1>6. ASSUME NEW c \in Connection, Accept(c)
      PROVE  Handling /\ WorkerInv'
    <2>1. /\ main.connected = NoSocket /\ main'.connected = c /\ main'.pc = "assign"
          /\ UNCHANGED <<thread, shared>> /\ conn[c] = "new" /\ conn' = [conn EXCEPT ![c] = "open"]
        BY <1>0, <1>6 DEF Accept, WorkerInv
    <2>2. Gets(m, c) /\ WorkerInv'
        BY <1>m, <1>t, <2>1 DEF Gets
    <2> QED BY <1>m, <2>2 DEF Handling
<1>7. ASSUME NEW c \in Connection, AcceptFails(c)
      PROVE  Handling /\ WorkerInv'
    <2>1. /\ main'.connected = main.connected /\ main.connected = NoSocket
          /\ UNCHANGED <<thread, shared>> /\ conn[c] = "new" /\ conn' = [conn EXCEPT ![c] = "closed"]
        BY <1>0, <1>7 DEF AcceptFails, WorkerInv, CloseSocket
    <2>2. Ends(c) /\ WorkerInv'
        BY <1>m, <1>t, <2>1 DEF Ends
    <2> QED BY <2>2 DEF Handling
<1>8. CASE Assign
    <2>0. PICK w \in Worker : w = main.at
        BY <1>8 DEF Assign
    <2> DEFINE p == <<"pending", w>>
    <2>1. /\ w \in Worker /\ ~shared[w].busy /\ ~shared[w].exiting /\ conn' = conn
          /\ shared' = [shared EXCEPT ![w].busy = TRUE, ![w].pending = main.connected]
          /\ main' = Accepting /\ thread' = Woken(w)
        BY <1>8, <2>0 DEF Assign
    <2>2. /\ shared'[w].busy = TRUE /\ shared'[w].pending = main.connected
          /\ shared'[w].exiting = shared[w].exiting /\ \A v \in Worker \ {w} : shared'[v] = shared[v]
        BY <1>0, <2>1
    <2>3. shared[w].pending = NoSocket /\ thread[w].pc \in Resting /\ thread[w].pc # "gone"
        BY <2>1 DEF WorkerInv
    <2>4. \A v \in Worker : /\ thread'[v].connected = thread[v].connected
                            /\ \/ thread'[v].pc = thread[v].pc
                               \/ thread[v].pc = "asleep" /\ thread'[v].pc = "wait"
        BY <2>1, WokenIsTyped
    <2>5. /\ p \in Hands /\ p # m /\ Holds(p) = shared[w].pending /\ Holds(p)' = shared'[w].pending
        BY <2>1, HandsAre, HandsWillBe
    <2>6. \A q \in Hands \ {m, p} : Holds(q)' = Holds(q)
        <3>1. ASSUME NEW q \in Hands \ {m, p}, NEW v \in Worker, q = <<"pending", v>>
              PROVE  Holds(q)' = Holds(q)
            BY <2>2, <3>1 DEF Holds
        <3>2. ASSUME NEW q \in Hands \ {m, p}, NEW v \in Worker, q = <<"serving", v>>
              PROVE  Holds(q)' = Holds(q)
            BY <2>4, <3>2 DEF Holds
        <3> QED BY <3>1, <3>2, HandsAre
    <2>7. Passes(m, p)
        BY <1>a, <1>m, <2>1, <2>2, <2>3, <2>5, <2>6 DEF Passes
    <2>8. WorkerInv'
        <3>1. ASSUME NEW v \in Worker
              PROVE  /\ thread'[v].pc \notin Resting => shared'[v].busy /\ shared'[v].pending = NoSocket
                     /\ shared'[v].pending # NoSocket => shared'[v].busy
                     /\ thread'[v].pc = "gone" => shared'[v].exiting /\ shared'[v].pending = NoSocket
            <4>1. thread'[v].pc \in Resting <=> thread[v].pc \in Resting
                BY <2>4 DEF Resting
            <4>2. thread'[v].pc = "gone" <=> thread[v].pc = "gone"
                BY <2>4
            <4>3. CASE v = w
                BY <2>2, <2>3, <4>1, <4>2, <4>3
            <4>4. CASE v # w
                BY <2>2, <4>1, <4>2, <4>4 DEF WorkerInv
            <4> QED BY <4>3, <4>4
        <3>2. main'.connected = NoSocket
            BY <1>a, <2>1
        <3> QED BY <3>1, <3>2 DEF WorkerInv
    <2> QED BY <1>m, <2>5, <2>7, <2>8 DEF Handling
<1> QED BY <1>1, <1>2, <1>3, <1>4, <1>5, <1>6, <1>7, <1>8 DEF MainStep

-----------------------------------------------------------------------------
(* The theorems.                                                           *)

\* The inductive invariant: the types, where the shutdown stands, what the workers share,
\* and who has a socket.
IInv == Typed /\ ShutdownInv /\ WorkerInv /\ HandInv

\* It holds before the first worker is constructed.
LEMMA InitIInv == Init => IInv
<1> SUFFICES ASSUME Init
             PROVE  IInv
    OBVIOUS
<1>0. /\ \A w \in Worker : thread[w] = Unborn
      /\ main.pc = "construct" /\ main.at = 1 /\ main.connected = NoSocket /\ drained = 0
      /\ \A w \in Worker : /\ shared[w].pending = NoSocket /\ shared[w].busy = FALSE
                           /\ shared[w].exiting = FALSE
    BY DEF Init
<1>1. Typed
    <2>1. main \in [pc : MainPcs, at : 0..(WorkerCount + 1), connected : Socket]
        BY Bounds DEF Init, MainPcs, Socket
    <2>2. shared \in [Worker -> [pending : Socket, busy : BOOLEAN, exiting : BOOLEAN]]
        <3> DEFINE s == [pending |-> NoSocket, busy |-> FALSE, exiting |-> FALSE]
        <3>1. s \in [pending : Socket, busy : BOOLEAN, exiting : BOOLEAN]
            BY DEF Socket
        <3>2. shared = [w \in Worker |-> s]
            BY DEF Init
        <3> HIDE DEF s
        <3> QED BY <3>1, <3>2
    <2>3. thread \in [Worker -> Good]
        BY UnbornIsGood DEF Init
    <2>4. conn \in [Connection -> {"new", "open", "closed"}] /\ stopping \in BOOLEAN
        BY DEF Init
    <2> QED BY <1>0, <2>1, <2>2, <2>3, <2>4 DEF Typed
<1>2. \A w \in Worker : thread[w].pc = "unborn" /\ thread[w].connected = NoSocket
    BY <1>0, UnbornIsGood
<1>3. ShutdownInv
    BY <1>0, <1>2, Bounds DEF ShutdownInv, MainInv, AsleepInv, DrainInv, Worker
<1>4. WorkerInv
    BY <1>0, <1>2 DEF WorkerInv, Resting
<1>5. HandInv
    <2>1. \A o \in Hands : Holds(o) = NoSocket
        BY <1>0, <1>2, HandsAre
    <2> QED BY <2>1 DEF HandInv, Init
<1> QED BY <1>1, <1>3, <1>4, <1>5 DEF IInv

\* Every step keeps it.
LEMMA NextIInv == IInv /\ [Next]_vars => IInv'
<1> SUFFICES ASSUME IInv, [Next]_vars
             PROVE  IInv'
    OBVIOUS
<1>0. Typed /\ ShutdownInv /\ WorkerInv /\ HandInv
    BY DEF IInv
<1>1. Typed' /\ ShutdownInv'
    BY <1>0, StepKeepsShutdown
<1>2. Handling /\ WorkerInv'
    <2>1. ASSUME NEW w \in Worker, WorkerStep(w) \/ ClientStep(w) \/ WakeSpuriously(w)
          PROVE  Handling /\ WorkerInv'
        <3>1. PICK t \in Good : Runs(w, t)
            BY <1>0, <2>1, WorkerRuns
        <3> QED BY <1>0, <3>1, RunHandles
    <2>2. CASE \/ MainStep \/ ConstructFails \/ Stop \/ Tick
               \/ \E c \in Connection : Accept(c) \/ AcceptFails(c)
        BY <1>0, <2>2, MainHandles
    <2>3. CASE UNCHANGED vars
        BY <1>0, <2>3 DEF vars, Handling, Same, Holds, WorkerInv
    <2> QED BY <2>1, <2>2, <2>3 DEF Next
<1> QED BY <1>0, <1>1, <1>2, HandlingKeepsHands DEF IInv

\* So it holds throughout.
LEMMA Invariance == Spec => []IInv
BY InitIInv, NextIInv, PTL DEF Spec

\* The types of the module.
THEOREM TypeCorrect == Spec => []TypeOK
<1>1. IInv => TypeOK
    <2> SUFFICES ASSUME IInv
                 PROVE  TypeOK
        OBVIOUS
    <2>0. Typed
        BY DEF IInv
    <2>1. ASSUME NEW w \in Worker
          PROVE  /\ thread[w] \in Threads
                 /\ thread[w].left \in 0..LongestPrefix \cup 0..FrameDeadline \cup 0..SendDeadline
        <3>1. thread[w] \in Threads /\ Timely(thread[w])
            BY <2>0 DEF Typed, Good
        <3>2. thread[w].left \in Nat /\ thread[w].phase \in {"prefix", "rest", "send"}
            BY <3>1 DEF Threads
        <3> QED BY <3>1, <3>2, Deadlines, Bounds DEF Timely
    <2>2. main.pc \in MainPcs /\ main.at \in 0..(WorkerCount + 1) /\ main.connected \in Socket
        BY <2>0 DEF Typed
    <2>3. drained \in 0..2
        BY <2>0 DEF Typed
    <2> QED BY <2>0, <2>1, <2>2, <2>3 DEF Typed, TypeOK, Threads, Pcs, MainPcs
<1> QED BY <1>1, Invariance, PTL

\* However a client spreads its bytes or delays reading, no worker is held longer than
\* one prefix, one frame and one answer may take (the deadlines of serve and send_frame).
THEOREM StalledClientsAreAlwaysDropped == Spec => []StalledClientsAreDropped
<1>1. IInv => StalledClientsAreDropped
    <2> SUFFICES ASSUME IInv, NEW w \in Worker
                 PROVE  thread[w].held <= LongestExchange
        BY DEF StalledClientsAreDropped
    <2>1. thread[w] \in Threads /\ Timely(thread[w])
        BY DEF IInv, Typed, Good
    <2>2. /\ thread[w].left \in Nat /\ thread[w].held \in Nat
          /\ thread[w].phase \in {"prefix", "rest", "send"}
        BY <2>1 DEF Threads
    <2>3. thread[w].held <= PhaseEnd(thread[w].phase)
        BY <2>1, <2>2, Deadlines DEF Timely
    <2> QED BY <2>2, <2>3, Deadlines DEF LongestExchange, LongestPrefix
<1> QED BY <1>1, Invariance, PTL

\* The shutdown never waits for a client (ready): the second quantum never begins.
THEOREM ShutdownIsAlwaysPrompt == Spec => []ShutdownIsPrompt
<1>1. IInv => ShutdownIsPrompt
    BY DEF IInv, Typed, ShutdownIsPrompt
<1> QED BY <1>1, Invariance, PTL

\* Every open connection has one owner and a closed one has none, whatever the main
\* thread hands out and whichever worker exits (Worker::assign, run and ~Worker).
THEOREM SocketsAlwaysHaveOneOwner == Spec => []SocketsHaveOneOwner
<1>1. IInv => SocketsHaveOneOwner
    <2> SUFFICES ASSUME IInv, NEW c \in Connection
                 PROVE  Cardinality(Owners(c)) = IF conn[c] = "open" THEN 1 ELSE 0
        BY DEF SocketsHaveOneOwner
    <2>0. WorkerInv /\ HandInv /\ c # NoSocket
        BY NoSocketIsNoConnection DEF IInv
    <2>1. Owners(c) = {o \in Hands : Holds(o) = c}
        <3>1. ASSUME NEW o \in Owners(c)
              PROVE  o \in Hands /\ Holds(o) = c
            BY DEF Owners, Hands, Holds
        <3>2. ASSUME NEW o \in Hands, Holds(o) = c
              PROVE  o \in Owners(c)
            <4>1. CASE o = <<"main", 0>>
                BY <3>2, <4>1 DEF Owners, Holds
            <4>2. ASSUME NEW w \in Worker, o = <<"pending", w>>
                  PROVE  o \in Owners(c)
                <5>1. shared[w].pending = c
                    BY <3>2, <4>2 DEF Holds
                <5>2. thread[w].pc # "gone"
                    BY <2>0, <5>1 DEF WorkerInv
                <5> QED BY <4>2, <5>1, <5>2 DEF Owners
            <4>3. ASSUME NEW w \in Worker, o = <<"serving", w>>
                  PROVE  o \in Owners(c)
                <5>1. thread[w].connected = c
                    BY <3>2, <4>3 DEF Holds
                <5> QED BY <4>3, <5>1 DEF Owners
            <4> QED BY <4>1, <4>2, <4>3, HandsAre
        <3> QED BY <3>1, <3>2
    <2>2. CASE conn[c] = "open"
        <3>1. PICK o \in Hands : Holds(o) = c
            BY <2>0, <2>2 DEF HandInv
        <3>2. Owners(c) = {o}
            BY <2>0, <2>1, <3>1 DEF HandInv
        <3> QED BY <2>2, <3>2, FS_Singleton
    <2>3. CASE conn[c] # "open"
        <3>1. Owners(c) = {}
            BY <2>0, <2>1, <2>3 DEF HandInv
        <3> QED BY <2>3, <3>1, FS_EmptySet
    <2> QED BY <2>2, <2>3
<1> QED BY <1>1, Invariance, PTL
=============================================================================
