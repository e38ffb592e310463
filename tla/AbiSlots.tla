------------------------------ MODULE AbiSlots ------------------------------
(***************************************************************************)
(* The session slots of the in-process interface (native/src/abi.cpp),     *)
(* called by several threads at once.  A slot has an atomic reservation    *)
(* flag, a mutex, and under the mutex a generation, a handle and a session.*)
(* A call runs one step at a time: between its atomic operations and       *)
(* whenever it takes or leaves a mutex other threads may run.              *)
(***************************************************************************)
EXTENDS Naturals, FiniteSets

CONSTANTS
    Thread,
    NoThread,        \* nobody holds the mutex
    SlotCount,       \* FGN_MAX_SESSIONS, 8 in the code
    MaxGeneration,   \* UINT64_MAX >> 8 in the code
    MaxCalls         \* calls each thread makes: a bound of the model

ASSUME NoThreadIsNoThread == NoThread \notin Thread
ASSUME BoundsArePositive ==
    /\ SlotCount \in Nat \ {0}
    /\ MaxGeneration \in Nat \ {0}
    /\ MaxCalls \in Nat \ {0}

Slot == 1..SlotCount

\* (generation << 8) | index.  NoHandle is the 0 of a free slot.
Handle == [slot : Slot, generation : 1..MaxGeneration]
NoHandle == [slot |-> 0, generation |-> 0]

\* Sessions are told apart by the order of their creation.
NoSession == [birth |-> 0, closed |-> TRUE]
Session == [birth : Nat \ {0}, closed : BOOLEAN]

VARIABLES
    reserved, mutex, generation, handle, session,   \* per slot
    pc, arg, at, reply, calls,                      \* per thread
    issued                                          \* handle -> birth of its session

slots == <<reserved, mutex, generation, handle, session>>
threads == <<pc, arg, at, reply, calls>>
vars == <<slots, threads, issued>>

Location ==
    {"idle",
     "scan", "createLock", "createHeld", "createUndo",
     "exchange", "exchangeHeld", "exchangeUse",
     "metrics", "metricsHeld", "metricsUse",
     "destroyLock", "destroyHeld", "destroyDone"}

Creating == {"createLock", "createHeld", "createUndo"}
Holding == {"createHeld", "exchangeHeld", "exchangeUse", "metricsHeld", "metricsUse",
            "destroyHeld", "destroyDone"}
Using == {"exchangeUse", "metricsUse"}

Reply == {"none", "ok", "limit", "error", "busy", "invalid_handle", "closed", "invalid_frame"}

TypeOK ==
    /\ reserved \in [Slot -> BOOLEAN]
    /\ mutex \in [Slot -> Thread \cup {NoThread}]
    /\ generation \in [Slot -> 0..MaxGeneration]
    /\ handle \in [Slot -> Handle \cup {NoHandle}]
    /\ session \in [Slot -> Session \cup {NoSession}]
    /\ pc \in [Thread -> Location]
    /\ arg \in [Thread -> Handle \cup {NoHandle}]
    /\ at \in [Thread -> 1..(SlotCount + 1)]
    /\ reply \in [Thread -> Reply]
    /\ calls \in [Thread -> 0..MaxCalls]
    /\ DOMAIN issued \subseteq Handle
    /\ issued \in [DOMAIN issued -> Nat \ {0}]

Init ==
    /\ reserved = [s \in Slot |-> FALSE]
    /\ mutex = [s \in Slot |-> NoThread]
    /\ generation = [s \in Slot |-> 0]
    /\ handle = [s \in Slot |-> NoHandle]
    /\ session = [s \in Slot |-> NoSession]
    /\ pc = [t \in Thread |-> "idle"]
    /\ arg = [t \in Thread |-> NoHandle]
    /\ at = [t \in Thread |-> 1]
    /\ reply = [t \in Thread |-> "none"]
    /\ calls = [t \in Thread |-> 0]
    /\ issued = [h \in {} |-> 0]

-----------------------------------------------------------------------------
(* Steps of a thread.                                                      *)

Goto(t, from, to) == pc[t] = from /\ pc' = [pc EXCEPT ![t] = to]

Return(t, from, status) == /\ Goto(t, from, "idle")
                           /\ reply' = [reply EXCEPT ![t] = status]

Lock(t, s) == mutex[s] = NoThread /\ mutex' = [mutex EXCEPT ![s] = t]
Unlock(s) == mutex' = [mutex EXCEPT ![s] = NoThread]

\* A call starts: with a handle some create returned, or as a create.
Call(t, to, h) ==
    /\ calls[t] < MaxCalls
    /\ Goto(t, "idle", to)
    /\ calls' = [calls EXCEPT ![t] = @ + 1]
    /\ arg' = [arg EXCEPT ![t] = h]
    /\ at' = [at EXCEPT ![t] = IF h = NoHandle THEN 1 ELSE h.slot]
    /\ reply' = [reply EXCEPT ![t] = "none"]
    /\ UNCHANGED <<slots, issued>>

CallCreate(t) == Call(t, "scan", NoHandle)
CallExchange(t) == \E h \in DOMAIN issued : Call(t, "exchange", h)
CallMetrics(t) == \E h \in DOMAIN issued : Call(t, "metrics", h)
CallDestroy(t) == \E h \in DOMAIN issued : Call(t, "destroyLock", h)

-----------------------------------------------------------------------------
(* fgn_session_create.                                                     *)

\* A faulty variant, for the check that the properties notice it: whether the slot is
\* reserved is not checked.
ReserveAny(t) ==
    /\ at[t] \in Slot
    /\ Goto(t, "scan", "createLock")
    /\ reserved' = [reserved EXCEPT ![at[t]] = TRUE]
    /\ UNCHANGED <<mutex, generation, handle, session, arg, at, reply, calls, issued>>

\* compare_exchange_strong(false, true) on the next slot's reservation.
Reserve(t) ==
    /\ at[t] \in Slot
    /\ ~reserved[at[t]]
    /\ Goto(t, "scan", "createLock")
    /\ reserved' = [reserved EXCEPT ![at[t]] = TRUE]
    /\ UNCHANGED <<mutex, generation, handle, session, arg, at, reply, calls, issued>>

Skip(t) ==
    /\ at[t] \in Slot
    /\ reserved[at[t]]
    /\ pc[t] = "scan"
    /\ at' = [at EXCEPT ![t] = @ + 1]
    /\ UNCHANGED <<slots, pc, arg, reply, calls, issued>>

LimitReached(t) ==
    /\ at[t] \notin Slot
    /\ Return(t, "scan", "limit")
    /\ UNCHANGED <<slots, arg, at, calls, issued>>

CreateLock(t) ==
    /\ Goto(t, "createLock", "createHeld")
    /\ Lock(t, at[t])
    /\ UNCHANGED <<reserved, generation, handle, session, arg, at, reply, calls, issued>>

\* The slot's handles are used up: it stays reserved for good.
Exhausted(t) ==
    /\ Goto(t, "createHeld", "scan")
    /\ generation[at[t]] = MaxGeneration
    /\ Unlock(at[t])
    /\ at' = [at EXCEPT ![t] = @ + 1]
    /\ UNCHANGED <<reserved, generation, handle, session, arg, reply, calls, issued>>

\* A faulty variant, for the check that the properties notice it: generations run on.
CreateUnbounded(t) ==
    LET s == at[t]
        next == generation[s] + 1
        new == [slot |-> s, generation |-> next]
        birth == Cardinality(DOMAIN issued) + 1
    IN  /\ Return(t, "createHeld", "ok")
        /\ generation' = [generation EXCEPT ![s] = next]
        /\ handle' = [handle EXCEPT ![s] = new]
        /\ session' = [session EXCEPT ![s] = [birth |-> birth, closed |-> FALSE]]
        /\ issued' = [h \in DOMAIN issued \cup {new} |-> IF h = new THEN birth ELSE issued[h]]
        /\ Unlock(s)
        /\ UNCHANGED <<reserved, arg, at, calls>>

\* A faulty variant, for the check that the properties notice it: a handle is issued
\* a second time.
CreateSameHandle(t) ==
    LET s == at[t]
        next == generation[s] + 1
        new == [slot |-> s, generation |-> IF next = 2 THEN 1 ELSE next]
        birth == Cardinality(DOMAIN issued) + 1
    IN  /\ Return(t, "createHeld", "ok")
        /\ generation[s] # MaxGeneration
        /\ generation' = [generation EXCEPT ![s] = next]
        /\ handle' = [handle EXCEPT ![s] = new]
        /\ session' = [session EXCEPT ![s] = [birth |-> birth, closed |-> FALSE]]
        /\ issued' = [h \in DOMAIN issued \cup {new} |-> IF h = new THEN birth ELSE issued[h]]
        /\ Unlock(s)
        /\ UNCHANGED <<reserved, arg, at, calls>>

Create(t) ==
    LET s == at[t]
        next == generation[s] + 1
        new == [slot |-> s, generation |-> next]
        birth == Cardinality(DOMAIN issued) + 1
    IN  /\ Return(t, "createHeld", "ok")
        /\ generation[s] # MaxGeneration
        /\ generation' = [generation EXCEPT ![s] = next]
        /\ handle' = [handle EXCEPT ![s] = new]
        /\ session' = [session EXCEPT ![s] = [birth |-> birth, closed |-> FALSE]]
        /\ issued' = [h \in DOMAIN issued \cup {new} |-> IF h = new THEN birth ELSE issued[h]]
        /\ Unlock(s)
        /\ UNCHANGED <<reserved, arg, at, calls>>

\* No random identity, or no memory for the session: leave the mutex, then
\* give the reservation back.
CreateFails(t) ==
    /\ Goto(t, "createHeld", "createUndo")
    /\ generation[at[t]] # MaxGeneration
    /\ Unlock(at[t])
    /\ UNCHANGED <<reserved, generation, handle, session, arg, at, reply, calls, issued>>

\* A faulty variant, for the check that the properties notice it: the reservation is
\* not given back.
CreateLeaks(t) == Return(t, "createUndo", "error") /\ UNCHANGED <<slots, arg, at, calls, issued>>

CreateUndo(t) ==
    /\ Return(t, "createUndo", "error")
    /\ reserved' = [reserved EXCEPT ![at[t]] = FALSE]
    /\ UNCHANGED <<mutex, generation, handle, session, arg, at, calls, issued>>

-----------------------------------------------------------------------------
(* fgn_session_exchange and fgn_session_get_metrics.                       *)

TryLock(t, from, held) ==
    \/ /\ Goto(t, from, held)
       /\ Lock(t, at[t])
       /\ UNCHANGED <<reserved, generation, handle, session, arg, at, reply, calls, issued>>
    \/ /\ Return(t, from, "busy")
       /\ mutex[at[t]] # NoThread
       /\ UNCHANGED <<slots, arg, at, calls, issued>>

\* A faulty variant, for the check that the properties notice it: any session will do.
OwnsAny(t) == session[at[t]] # NoSession

Owns(t) == handle[at[t]] = arg[t] /\ session[at[t]] # NoSession

CheckHandle(t, held, use) ==
    \/ /\ Goto(t, held, use)
       /\ Owns(t)
       /\ UNCHANGED <<slots, arg, at, reply, calls, issued>>
    \/ /\ Return(t, held, "invalid_handle")
       /\ ~Owns(t)
       /\ Unlock(at[t])
       /\ UNCHANGED <<reserved, generation, handle, session, arg, at, calls, issued>>

\* The frame is processed: answered, answered and closing (a goodbye or a fatal
\* error), or undecodable, which closes as well.
Exchange(t) ==
    LET s == at[t]
    IN  /\ pc[t] = "exchangeUse"
        /\ \/ /\ session[s].closed
              /\ Return(t, "exchangeUse", "closed")
              /\ UNCHANGED session
           \/ /\ ~session[s].closed
              /\ \/ Return(t, "exchangeUse", "ok") /\ UNCHANGED session
                 \/ /\ \E status \in {"ok", "invalid_frame", "error"} :
                          Return(t, "exchangeUse", status)
                    /\ session' = [session EXCEPT ![s].closed = TRUE]
        /\ Unlock(s)
        /\ UNCHANGED <<reserved, generation, handle, arg, at, calls, issued>>

Metrics(t) ==
    /\ Return(t, "metricsUse", "ok")
    /\ Unlock(at[t])
    /\ UNCHANGED <<reserved, generation, handle, session, arg, at, calls, issued>>

-----------------------------------------------------------------------------
(* fgn_session_destroy.                                                    *)

DestroyLock(t) ==
    /\ Goto(t, "destroyLock", "destroyHeld")
    /\ Lock(t, at[t])
    /\ UNCHANGED <<reserved, generation, handle, session, arg, at, reply, calls, issued>>

\* A faulty variant, for the check that the properties notice it: the mutex stays
\* locked on the early return.
DestroyInvalidLocked(t) ==
    /\ Return(t, "destroyHeld", "invalid_handle")
    /\ ~Owns(t)
    /\ UNCHANGED <<slots, arg, at, calls, issued>>

DestroyInvalid(t) ==
    /\ Return(t, "destroyHeld", "invalid_handle")
    /\ ~Owns(t)
    /\ Unlock(at[t])
    /\ UNCHANGED <<reserved, generation, handle, session, arg, at, calls, issued>>

\* A faulty variant, for the check that the properties notice it: a stale handle ends
\* whatever session the slot has.
DestroyUnchecked(t) ==
    /\ Goto(t, "destroyHeld", "destroyDone")
    /\ session' = [session EXCEPT ![at[t]] = NoSession]
    /\ handle' = [handle EXCEPT ![at[t]] = NoHandle]
    /\ reserved' = [reserved EXCEPT ![at[t]] = FALSE]
    /\ UNCHANGED <<mutex, generation, arg, at, reply, calls, issued>>

\* The slot can be reserved again before the mutex is left.
Destroy(t) ==
    /\ Goto(t, "destroyHeld", "destroyDone")
    /\ Owns(t)
    /\ session' = [session EXCEPT ![at[t]] = NoSession]
    /\ handle' = [handle EXCEPT ![at[t]] = NoHandle]
    /\ reserved' = [reserved EXCEPT ![at[t]] = FALSE]
    /\ UNCHANGED <<mutex, generation, arg, at, reply, calls, issued>>

DestroyDone(t) ==
    /\ Return(t, "destroyDone", "ok")
    /\ Unlock(at[t])
    /\ UNCHANGED <<reserved, generation, handle, session, arg, at, calls, issued>>

-----------------------------------------------------------------------------

CreateStep(t) ==
    \/ Reserve(t) \/ Skip(t) \/ LimitReached(t) \/ CreateLock(t)
    \/ Exhausted(t) \/ Create(t) \/ CreateFails(t) \/ CreateUndo(t)

UseStep(t) ==
    \/ TryLock(t, "exchange", "exchangeHeld")
    \/ CheckHandle(t, "exchangeHeld", "exchangeUse")
    \/ Exchange(t)
    \/ TryLock(t, "metrics", "metricsHeld")
    \/ CheckHandle(t, "metricsHeld", "metricsUse")
    \/ Metrics(t)

DestroyStep(t) == DestroyLock(t) \/ DestroyInvalid(t) \/ Destroy(t) \/ DestroyDone(t)

CallStep(t) == CallCreate(t) \/ CallExchange(t) \/ CallMetrics(t) \/ CallDestroy(t)

Step(t) == CreateStep(t) \/ UseStep(t) \/ DestroyStep(t)

Next == \E t \in Thread : CallStep(t) \/ Step(t)

\* A thread inside a call keeps running.  Nothing is assumed of which waiter a
\* mutex admits: with finitely many calls every waiter is admitted in the end.
Fairness == \A t \in Thread : WF_vars(Step(t))

Spec == Init /\ [][Next]_vars /\ Fairness

-----------------------------------------------------------------------------
(* Properties.                                                             *)

Retired(s) == session[s] = NoSession /\ generation[s] = MaxGeneration

\* A slot is reserved exactly while it has a session, a create is at work on it,
\* or it has run out of handles: no interleaving of creates, failures and
\* destroys leaks a slot or lends one twice.
ReservationIsExact ==
    \A s \in Slot :
        LET creators == {t \in Thread : pc[t] \in Creating /\ at[t] = s}
        IN  /\ session[s] # NoSession \/ creators # {} => reserved[s]
            /\ reserved[s] => session[s] # NoSession \/ creators # {} \/ Retired(s)
            /\ Cardinality(creators) <= 1
            /\ session[s] # NoSession => creators = {}

\* A create never waits for, or holds, the mutex of a slot with a session, so it
\* cannot make an exchange of that session BUSY.
CreateAvoidsActive ==
    \A t \in Thread : pc[t] \in {"createLock", "createHeld"} => session[at[t]] = NoSession

\* The session a call works on is the one its handle was issued for, it exists,
\* and no other call is working on it: a stale handle never reaches a successor.
CallsReachTheirSession ==
    \A t \in Thread :
        pc[t] \in Using =>
            /\ session[at[t]].birth = issued[arg[t]]
            /\ mutex[at[t]] = t
            /\ \A u \in Thread \ {t} : pc[u] \in Holding => at[u] # at[t]

\* A session only ends by the destroy of its own handle, carried out while that
\* destroy has the slot: never by a late destroy of an earlier session's handle.
SessionsEndByTheirHandle ==
    [][\A s \in Slot :
          session[s] # NoSession /\ session'[s].birth # session[s].birth
              => \E t \in Thread :
                    /\ pc[t] = "destroyHeld" /\ mutex[s] = t
                    /\ arg[t] \in DOMAIN issued /\ issued[arg[t]] = session[s].birth]_vars

\* The slots implement the handle table the header promises.
liveHandles == {handle[s] : s \in {q \in Slot : session[q] # NoSession}}

Promised == INSTANCE HandleTable WITH
    Capacity <- SlotCount,
    live <- [h \in liveHandles |-> IF session[h.slot].closed THEN "closed" ELSE "open"],
    used <- DOMAIN issued

ImplementsHandleTable == Promised!Spec

\* Every call returns: no create, exchange or destroy is left waiting for a mutex
\* for ever, whatever the order in which it is handed over.
CallsReturn == \A t \in Thread : pc[t] # "idle" ~> pc[t] = "idle"

\* A call on a live session is only told BUSY when another call on the same
\* session is under way.
BusyMeansSameSession ==
    [][\A t \in Thread :
          /\ pc[t] \in {"exchange", "metrics"}
          /\ reply'[t] = "busy" /\ reply[t] # "busy"
          /\ handle[at[t]] = arg[t]
          => arg[mutex[at[t]]] = arg[t]]_vars
=============================================================================
