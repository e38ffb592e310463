--------------------------- MODULE AbiSlotsProofs ---------------------------
(***************************************************************************)
(* Proofs about AbiSlots, for any number of threads, slots, generations    *)
(* and calls: reservations are exact, calls reach the session their handle *)
(* was issued for, and the slots implement HandleTable.                    *)
(***************************************************************************)
EXTENDS AbiSlots, FiniteSetTheorems, TLAPS

\* Where a thread is with a handle some create returned.
HandleLocation ==
    {"exchange", "exchangeHeld", "exchangeUse", "metrics", "metricsHeld", "metricsUse",
     "destroyLock", "destroyHeld", "destroyDone"}

\* A thread past its scan is at a slot; one that holds the mutex holds that slot's; one
\* that uses a session came with its handle; one that creates has reserved a slot with
\* no session.
ThreadInv(t) ==
    /\ pc[t] \notin {"idle", "scan"} => at[t] \in Slot
    /\ pc[t] \in Holding => mutex[at[t]] = t
    /\ pc[t] \in HandleLocation => arg[t] \in DOMAIN issued /\ arg[t].slot = at[t]
    /\ pc[t] \in Using => Owns(t)
    /\ pc[t] \in Creating => reserved[at[t]] /\ session[at[t]] = NoSession

Creates(t, s) == pc[t] \in Creating /\ at[t] = s

SlotInv(s) ==
    /\ session[s] # NoSession =>
          /\ reserved[s]
          /\ handle[s] \in DOMAIN issued /\ handle[s].slot = s
          /\ issued[handle[s]] = session[s].birth
    /\ reserved[s] => session[s] # NoSession \/ Retired(s) \/ \E t \in Thread : Creates(t, s)

CreatorsApart == \A s \in Slot, t, u \in Thread : Creates(t, s) /\ Creates(u, s) => t = u

\* A slot's handles are issued in the order of their generations.
Issued ==
    /\ IsFiniteSet(DOMAIN issued)
    /\ \A h \in DOMAIN issued : h.generation <= generation[h.slot]

Inv ==
    /\ TypeOK
    /\ \A t \in Thread : ThreadInv(t)
    /\ \A s \in Slot : SlotInv(s)
    /\ CreatorsApart
    /\ Issued

\* The bounds, one by one.
LEMMA Bounds ==
    /\ SlotCount \in Nat /\ SlotCount > 0
    /\ MaxGeneration \in Nat /\ MaxGeneration > 0
    /\ MaxCalls \in Nat
    /\ NoThread \notin Thread
BY BoundsArePositive, NoThreadIsNoThread

\* A session is no NoSession.
LEMMA SessionsExist == \A x \in Session : x # NoSession /\ x.birth # NoSession.birth
BY DEF Session, NoSession

\* At the start every slot is free and every thread idle.
LEMMA InvInit == Init => Inv
<1> SUFFICES ASSUME Init PROVE Inv
    OBVIOUS
<1>1. TypeOK
    BY Bounds DEF Init, TypeOK, Slot, Location, Reply
<1>2. \A t \in Thread : ThreadInv(t)
    BY DEF Init, ThreadInv, Holding, HandleLocation, Using, Creating
<1>3. \A s \in Slot : SlotInv(s)
    BY DEF Init, SlotInv
<1>4. CreatorsApart
    BY DEF Init, CreatorsApart, Creates, Creating
<1>5. Issued
    BY FS_EmptySet DEF Init, Issued
<1> QED BY <1>1, <1>2, <1>3, <1>4, <1>5 DEF Inv

-----------------------------------------------------------------------------
(* Types.                                                                  *)

\* A thread that begins a call.
LEMMA TypeCall ==
    ASSUME TypeOK, NEW t \in Thread, CallStep(t)
    PROVE  TypeOK'
<1>1. ASSUME NEW to \in Location, NEW h \in DOMAIN issued \cup {NoHandle}, Call(t, to, h)
      PROVE  TypeOK'
    <2>1. h \in Handle \cup {NoHandle}
        BY DEF TypeOK
    <2>2. (IF h = NoHandle THEN 1 ELSE h.slot) \in 1..(SlotCount + 1)
        BY <2>1, Bounds DEF Handle, Slot
    <2>3. calls[t] + 1 \in 0..MaxCalls
        BY <1>1, Bounds DEF Call, TypeOK
    <2>4. /\ pc' \in [Thread -> Location] /\ arg' \in [Thread -> Handle \cup {NoHandle}]
          /\ at' \in [Thread -> 1..(SlotCount + 1)] /\ reply' \in [Thread -> Reply]
        BY <1>1, <2>1, <2>2 DEF Call, Goto, TypeOK, Reply
    <2>5. calls' \in [Thread -> 0..MaxCalls]
        BY <1>1, <2>3 DEF Call, TypeOK
    <2>6. UNCHANGED <<slots, issued>>
        BY <1>1 DEF Call
    <2> QED BY <2>4, <2>5, <2>6 DEF TypeOK, slots
<1> QED BY <1>1 DEF CallStep, CallCreate, CallExchange, CallMetrics, CallDestroy, Location

\* What most steps do: thread t goes on, taking or leaving a mutex, and nothing else.
Moves(t) ==
    /\ \E to \in Location : pc' = [pc EXCEPT ![t] = to]
    /\ UNCHANGED reply \/ \E status \in Reply : reply' = [reply EXCEPT ![t] = status]
    /\ UNCHANGED at \/ (at[t] \in Slot /\ at' = [at EXCEPT ![t] = at[t] + 1])
    /\ UNCHANGED mutex \/ \E s, u : u \in {t, NoThread} /\ mutex' = [mutex EXCEPT ![s] = u]
    /\ UNCHANGED <<arg, calls>>

\* Such steps keep the types of what they change.
LEMMA TypeMoves ==
    ASSUME TypeOK, NEW t \in Thread, Moves(t)
    PROVE  /\ pc' \in [Thread -> Location] /\ reply' \in [Thread -> Reply]
           /\ at' \in [Thread -> 1..(SlotCount + 1)]
           /\ mutex' \in [Slot -> Thread \cup {NoThread}]
           /\ arg' \in [Thread -> Handle \cup {NoHandle}] /\ calls' \in [Thread -> 0..MaxCalls]
<1>1. at' \in [Thread -> 1..(SlotCount + 1)]
    <2>1. at[t] \in Slot => at[t] + 1 \in 1..(SlotCount + 1)
        BY Bounds DEF Slot
    <2> QED BY <2>1 DEF Moves, TypeOK
<1>2. /\ pc' \in [Thread -> Location] /\ reply' \in [Thread -> Reply]
    BY DEF Moves, TypeOK
<1>3. mutex' \in [Slot -> Thread \cup {NoThread}]
    BY DEF Moves, TypeOK
<1> QED BY <1>1, <1>2, <1>3 DEF Moves, TypeOK

\* Every step of a call keeps the types.
LEMMA TypeStep ==
    ASSUME Inv, NEW t \in Thread, Step(t)
    PROVE  TypeOK'
<1>0. TypeOK /\ ThreadInv(t)
    BY DEF Inv
<1>l. {"none", "ok", "limit", "error", "busy", "invalid_handle", "closed", "invalid_frame"} = Reply
    BY DEF Reply
\* Steps that leave the slots and what was issued alone, but for a mutex.
<1>a. ASSUME Moves(t), UNCHANGED <<reserved, generation, handle, session, issued>>
      PROVE  TypeOK'
    BY <1>0, <1>a, TypeMoves DEF TypeOK
<1>1. CASE Reserve(t)
    <2>1. Moves(t)
        BY <1>1 DEF Reserve, Goto, Moves, Location
    <2> QED BY <1>0, <1>1, <2>1, TypeMoves DEF Reserve, TypeOK
<1>2. CASE Skip(t)
    <2>1. pc' = [pc EXCEPT ![t] = "scan"]
        BY <1>0, <1>2 DEF Skip, TypeOK
    <2>2. Moves(t)
        BY <1>2, <2>1 DEF Skip, slots, Moves, Location
    <2> QED BY <1>2, <1>a, <2>2 DEF Skip, slots
<1>3. CASE LimitReached(t)
    BY <1>3, <1>a DEF LimitReached, Return, Goto, slots, Moves, Location, Reply
<1>4. CASE CreateLock(t)
    BY <1>4, <1>a DEF CreateLock, Goto, Lock, Moves, Location
<1>5. CASE Exhausted(t)
    <2>1. at[t] \in Slot
        BY <1>0, <1>5 DEF Exhausted, Goto, ThreadInv
    <2> QED BY <1>5, <1>a, <2>1 DEF Exhausted, Goto, Unlock, Moves, Location
<1>6. CASE Create(t)
    <2> DEFINE s == at[t]
               next == generation[s] + 1
               new == [slot |-> s, generation |-> next]
               birth == Cardinality(DOMAIN issued) + 1
    <2>1. Moves(t)
        BY <1>6 DEF Create, Return, Goto, Unlock, Moves, Location, Reply
    <2>2. s \in Slot
        BY <1>0, <1>6 DEF Create, Return, Goto, ThreadInv
    <2>3. next \in 1..MaxGeneration
        <3>1. generation[s] # MaxGeneration
            BY <1>6 DEF Create
        <3>2. generation[s] \in 0..MaxGeneration
            BY <1>0, <2>2 DEF TypeOK
        <3> QED BY <3>1, <3>2, Bounds
    <2>4. new \in Handle
        BY <2>2, <2>3 DEF Handle
    <2>5. birth \in Nat \ {0}
        BY FS_CardinalityType DEF Inv, Issued
    <2>6. /\ generation' = [generation EXCEPT ![s] = next]
          /\ handle' = [handle EXCEPT ![s] = new]
          /\ session' = [session EXCEPT ![s] = [birth |-> birth, closed |-> FALSE]]
          /\ issued' = [h \in DOMAIN issued \cup {new} |-> IF h = new THEN birth ELSE issued[h]]
          /\ UNCHANGED reserved
        BY <1>6 DEF Create
    <2> HIDE DEF birth, new, next
    <2>7. /\ DOMAIN issued' \subseteq Handle /\ issued' \in [DOMAIN issued' -> Nat \ {0}]
        BY <1>0, <2>4, <2>5, <2>6 DEF TypeOK
    <2>8. session' \in [Slot -> Session \cup {NoSession}]
        BY <1>0, <2>5, <2>6 DEF TypeOK, Session
    <2>9. /\ generation' \in [Slot -> 0..MaxGeneration]
          /\ handle' \in [Slot -> Handle \cup {NoHandle}]
        <3>1. next \in 0..MaxGeneration
            BY <2>3, Bounds
        <3>2. generation' \in [Slot -> 0..MaxGeneration]
            BY <1>0, <2>6, <3>1 DEF TypeOK
        <3>3. handle' \in [Slot -> Handle \cup {NoHandle}]
            BY <1>0, <2>4, <2>6 DEF TypeOK
        <3> QED BY <3>2, <3>3
    <2> QED BY <1>0, <2>1, <2>6, <2>7, <2>8, <2>9, TypeMoves DEF TypeOK
<1>7. CASE CreateFails(t)
    BY <1>7, <1>a DEF CreateFails, Goto, Unlock, Moves, Location
<1>8. CASE CreateUndo(t)
    <2>1. Moves(t)
        BY <1>8 DEF CreateUndo, Return, Goto, Moves, Location, Reply
    <2> QED BY <1>0, <1>8, <2>1, TypeMoves DEF CreateUndo, TypeOK
<1>9. ASSUME NEW from, NEW held \in Location, TryLock(t, from, held) PROVE TypeOK'
    BY <1>9, <1>a DEF TryLock, Return, Goto, Lock, slots, Moves, Location, Reply
<1>10. ASSUME NEW held, NEW use \in Location, CheckHandle(t, held, use) PROVE TypeOK'
    BY <1>10, <1>a DEF CheckHandle, Return, Goto, Unlock, slots, Moves, Location, Reply
<1>11. CASE Exchange(t)
    <2>1. PICK status \in Reply : Return(t, "exchangeUse", status)
        BY <1>11 DEF Exchange, Reply
    <2>2. Moves(t)
        BY <1>11, <2>1 DEF Exchange, Return, Goto, Unlock, Moves, Location
    <2>3. session' \in [Slot -> Session \cup {NoSession}]
        <3>1. CASE UNCHANGED session
            BY <1>0, <3>1 DEF TypeOK
        <3>2. CASE session' = [session EXCEPT ![at[t]].closed = TRUE] /\ ~session[at[t]].closed
            <4>1. session' = [session EXCEPT ![at[t]] = [session[at[t]] EXCEPT !.closed = TRUE]]
                BY <3>2
            <4>2. at[t] \in Slot
                BY <1>0, <1>11 DEF Exchange, ThreadInv
            <4>3. session[at[t]] \in Session
                BY <1>0, <3>2, <4>2 DEF TypeOK, NoSession
            <4>4. [session[at[t]] EXCEPT !.closed = TRUE] \in Session
                BY <4>3 DEF Session
            <4> QED BY <1>0, <4>1, <4>4 DEF TypeOK
        <3> QED BY <1>11, <3>1, <3>2 DEF Exchange
    <2> QED BY <1>0, <1>11, <2>2, <2>3, TypeMoves DEF Exchange, TypeOK
<1>12. CASE Metrics(t)
    BY <1>12, <1>a DEF Metrics, Return, Goto, Unlock, Moves, Location, Reply
<1>13. CASE DestroyLock(t)
    BY <1>13, <1>a DEF DestroyLock, Goto, Lock, Moves, Location
<1>14. CASE DestroyInvalid(t)
    BY <1>14, <1>a DEF DestroyInvalid, Return, Goto, Unlock, Moves, Location, Reply
<1>15. CASE Destroy(t)
    <2>1. Moves(t)
        BY <1>15 DEF Destroy, Goto, Moves, Location
    <2> QED BY <1>0, <1>15, <2>1, TypeMoves DEF Destroy, TypeOK
<1>16. CASE DestroyDone(t)
    BY <1>16, <1>a DEF DestroyDone, Return, Goto, Unlock, Moves, Location, Reply
<1> QED
    BY <1>1, <1>2, <1>3, <1>4, <1>5, <1>6, <1>7, <1>8, <1>9, <1>10, <1>11, <1>12, <1>13, <1>14,
       <1>15, <1>16 DEF Step, CreateStep, UseStep, DestroyStep, Location

-----------------------------------------------------------------------------
(* The invariant.                                                          *)

\* The other threads stay where they are, and thread t leaves their mutexes alone.
OthersStay(t) ==
    /\ \A u \in Thread \ {t} : pc'[u] = pc[u] /\ at'[u] = at[u] /\ arg'[u] = arg[u]
    /\ \/ UNCHANGED mutex
       \/ mutex[at[t]] = NoThread /\ mutex' = [mutex EXCEPT ![at[t]] = t]
       \/ pc[t] \in Holding /\ mutex' = [mutex EXCEPT ![at[t]] = NoThread]

\* A thread that works on its own slot disturbs another thread only if that one works
\* on the same slot: then the mutex or the reservation must be asked.
LEMMA OtherThread ==
    ASSUME Inv, NEW t \in Thread, NEW u \in Thread \ {t}, OthersStay(t),
           DOMAIN issued \subseteq DOMAIN issued',
           \A s \in Slot \ {at[t]} : reserved'[s] = reserved[s] /\ handle'[s] = handle[s]
                                     /\ session'[s] = session[s],
           pc[t] \in Holding \/ UNCHANGED <<handle, session>>,
           Creates(u, at[t]) => reserved'[at[t]] /\ session'[at[t]] = NoSession
    PROVE  ThreadInv(u)'
<1>1. ThreadInv(t) /\ ThreadInv(u) /\ pc'[u] = pc[u] /\ at'[u] = at[u] /\ arg'[u] = arg[u]
    BY DEF Inv, OthersStay
<1>2. pc[u] \in Holding => at[u] \in Slot /\ mutex'[at[u]] = u
    <2> SUFFICES ASSUME pc[u] \in Holding PROVE at[u] \in Slot /\ mutex'[at[u]] = u
        OBVIOUS
    <2>1. at[u] \in Slot /\ mutex[at[u]] = u
        BY <1>1 DEF ThreadInv, Holding
    <2>2. \/ UNCHANGED mutex
          \/ mutex[at[t]] = NoThread /\ mutex' = [mutex EXCEPT ![at[t]] = t]
          \/ mutex[at[t]] = t /\ mutex' = [mutex EXCEPT ![at[t]] = NoThread]
        BY <1>1 DEF OthersStay, ThreadInv
    <2>3. u # t /\ u # NoThread
        BY NoThreadIsNoThread
    <2>4. mutex \in [Slot -> Thread \cup {NoThread}]
        BY DEF Inv, TypeOK
    <2> QED BY <2>1, <2>2, <2>3, <2>4
<1>3. pc[u] \in Using => Owns(u)'
    <2> SUFFICES ASSUME pc[u] \in Using PROVE Owns(u)'
        OBVIOUS
    <2>1. at[u] \in Slot /\ mutex[at[u]] = u /\ Owns(u)
        BY <1>1 DEF ThreadInv, Holding, Using
    <2>2. CASE at[u] = at[t]
        <3>1. pc[t] \notin Holding
            BY <1>1, <2>1, <2>2 DEF ThreadInv
        <3> QED BY <1>1, <2>1, <3>1 DEF Owns
    <2>3. CASE at[u] # at[t]
        BY <1>1, <2>1, <2>3 DEF Owns
    <2> QED BY <2>2, <2>3
<1>4. pc[u] \in Creating => reserved'[at[u]] /\ session'[at[u]] = NoSession
    <2> SUFFICES ASSUME pc[u] \in Creating PROVE reserved'[at[u]] /\ session'[at[u]] = NoSession
        OBVIOUS
    <2>1. at[u] \in Slot /\ reserved[at[u]] /\ session[at[u]] = NoSession
        BY <1>1 DEF ThreadInv, Creating
    <2>2. CASE at[u] = at[t]
        BY <2>2 DEF Creates
    <2>3. CASE at[u] # at[t]
        BY <2>1, <2>3
    <2> QED BY <2>2, <2>3
<1> QED BY <1>1, <1>2, <1>3, <1>4 DEF ThreadInv

\* A step that changes no slot's data keeps the invariant if the thread's own part is
\* kept, and if it creates on no new slot and gives none up but a retired one.
LEMMA InvQuiet ==
    ASSUME Inv, TypeOK', NEW t \in Thread, OthersStay(t), ThreadInv(t)',
           UNCHANGED <<reserved, generation, handle, session, issued>>,
           \A s \in Slot : Creates(t, s)' => Creates(t, s),
           \A s \in Slot : Creates(t, s) => Creates(t, s)' \/ Retired(s)
    PROVE  Inv'
<1>1. \A u \in Thread : ThreadInv(u)'
    <2> SUFFICES ASSUME NEW u \in Thread \ {t} PROVE ThreadInv(u)'
        OBVIOUS
    <2>1. ThreadInv(u)
        BY DEF Inv
    <2>2. Creates(u, at[t]) => reserved'[at[t]] /\ session'[at[t]] = NoSession
        BY <2>1 DEF ThreadInv, Creates
    <2> QED BY <2>2, OtherThread
<1>2. \A u \in Thread \ {t}, s \in Slot : Creates(u, s)' <=> Creates(u, s)
    BY DEF OthersStay, Creates
<1>3. \A s \in Slot : SlotInv(s)'
    <2> SUFFICES ASSUME NEW s \in Slot PROVE SlotInv(s)'
        OBVIOUS
    <2>1. SlotInv(s) /\ (Retired(s)' <=> Retired(s))
        BY DEF Inv, Retired
    <2>2. ASSUME NEW u \in Thread, Creates(u, s) PROVE Retired(s) \/ \E v \in Thread : Creates(v, s)'
        BY <1>2, <2>2
    <2> QED BY <2>1, <2>2 DEF SlotInv
<1>4. CreatorsApart'
    BY <1>2 DEF Inv, CreatorsApart
<1>5. Issued'
    BY DEF Inv, Issued
<1> QED BY <1>1, <1>3, <1>4, <1>5 DEF Inv

\* Beginning a call keeps the invariant.
LEMMA InvCall ==
    ASSUME Inv, NEW t \in Thread, CallStep(t)
    PROVE  Inv'
<1>1. PICK to \in {"scan", "exchange", "metrics", "destroyLock"}, h \in DOMAIN issued \cup {NoHandle} :
          Call(t, to, h) /\ (to # "scan" => h \in DOMAIN issued)
    BY DEF CallStep, CallCreate, CallExchange, CallMetrics, CallDestroy
<1>2. TypeOK /\ TypeOK'
    BY TypeCall DEF Inv
<1>3. /\ pc[t] = "idle" /\ pc'[t] = to /\ arg'[t] = h
      /\ at'[t] = IF h = NoHandle THEN 1 ELSE h.slot
      /\ UNCHANGED <<slots, issued>>
    BY <1>1, <1>2 DEF Call, Goto, TypeOK
<1>4. OthersStay(t)
    BY <1>1, <1>2 DEF Call, Goto, TypeOK, OthersStay, slots
<1>5. to # "scan" => h \in DOMAIN issued /\ at'[t] = h.slot /\ h.slot \in Slot
    <2>1. DOMAIN issued \subseteq Handle
        BY <1>2 DEF TypeOK
    <2>2. NoHandle \notin Handle
        BY Bounds DEF Handle, NoHandle, Slot
    <2>3. \A g \in Handle : g.slot \in Slot
        BY DEF Handle
    <2> QED BY <1>1, <1>3, <2>1, <2>2, <2>3
<1>6. ThreadInv(t)'
    BY <1>3, <1>5 DEF ThreadInv, Holding, HandleLocation, Using, Creating
<1>7. \A s \in Slot : ~Creates(t, s) /\ ~Creates(t, s)'
    BY <1>3 DEF Creates, Creating
<1> QED BY <1>2, <1>3, <1>4, <1>6, <1>7, InvQuiet DEF slots

\* Steps of a call with a handle that change no slot keep the invariant.
LEMMA InvLocal ==
    ASSUME Inv, TypeOK', NEW t \in Thread, OthersStay(t),
           UNCHANGED <<reserved, generation, handle, session, issued, arg, at>>,
           pc[t] \in HandleLocation, pc'[t] \in HandleLocation \cup {"idle"},
           pc'[t] \in Holding => mutex'[at[t]] = t,
           pc'[t] \in Using => Owns(t)
    PROVE  Inv'
<1>1. ThreadInv(t)
    BY DEF Inv
<1>2. /\ pc[t] \notin {"idle", "scan"} \cup Creating
      /\ pc'[t] \notin Creating \cup {"scan"}
    BY DEF HandleLocation, Creating
<1>3. ThreadInv(t)'
    BY <1>1, <1>2 DEF ThreadInv, Owns, Holding, HandleLocation, Using
<1>4. \A s \in Slot : ~Creates(t, s) /\ ~Creates(t, s)'
    BY <1>2 DEF Creates
<1> QED BY <1>3, <1>4, InvQuiet

\* Scanning and taking, leaving or failing on a slot's mutex keep the invariant.
LEMMA InvSearch ==
    ASSUME Inv, NEW t \in Thread,
           Skip(t) \/ LimitReached(t) \/ CreateLock(t) \/ Exhausted(t) \/ CreateFails(t)
    PROVE  Inv'
<1>0. TypeOK /\ TypeOK' /\ ThreadInv(t)
    BY TypeStep DEF Inv, Step, CreateStep
<1>n. t # NoThread
    BY NoThreadIsNoThread
<1>1. CASE Skip(t) \/ LimitReached(t)
    <2>1. /\ pc[t] = "scan" /\ pc'[t] \in {"scan", "idle"} /\ UNCHANGED <<slots, issued, arg>>
          /\ \A u \in Thread \ {t} : pc'[u] = pc[u] /\ at'[u] = at[u]
        BY <1>0, <1>1 DEF Skip, LimitReached, Return, Goto, TypeOK
    <2>2. OthersStay(t) /\ ThreadInv(t)'
        BY <2>1 DEF OthersStay, ThreadInv, slots, Holding, HandleLocation, Using, Creating
    <2>3. \A s \in Slot : ~Creates(t, s) /\ ~Creates(t, s)'
        BY <2>1 DEF Creates, Creating
    <2> QED BY <1>0, <2>1, <2>2, <2>3, InvQuiet DEF slots
<1>2. CASE CreateLock(t)
    <2>1. /\ pc[t] = "createLock" /\ pc'[t] = "createHeld"
          /\ UNCHANGED <<reserved, generation, handle, session, issued, arg, at>>
          /\ \A u \in Thread \ {t} : pc'[u] = pc[u]
          /\ mutex[at[t]] = NoThread /\ mutex' = [mutex EXCEPT ![at[t]] = t]
        BY <1>0, <1>2 DEF CreateLock, Goto, Lock, TypeOK
    <2>2. mutex'[at[t]] = t
        BY <1>0, <2>1 DEF TypeOK, ThreadInv
    <2>3. OthersStay(t) /\ ThreadInv(t)'
        BY <1>0, <2>1, <2>2 DEF OthersStay, ThreadInv, Holding, HandleLocation, Using, Creating
    <2>4. \A s \in Slot : Creates(t, s)' <=> Creates(t, s)
        BY <2>1 DEF Creates, Creating
    <2> QED BY <1>0, <2>1, <2>3, <2>4, InvQuiet
<1>3. CASE CreateFails(t)
    <2>1. /\ pc[t] = "createHeld" /\ pc'[t] = "createUndo"
          /\ UNCHANGED <<reserved, generation, handle, session, issued, arg, at>>
          /\ \A u \in Thread \ {t} : pc'[u] = pc[u]
          /\ mutex' = [mutex EXCEPT ![at[t]] = NoThread]
        BY <1>0, <1>3 DEF CreateFails, Goto, Unlock, TypeOK
    <2>2. OthersStay(t) /\ ThreadInv(t)'
        BY <1>0, <2>1 DEF OthersStay, ThreadInv, Holding, HandleLocation, Using, Creating
    <2>3. \A s \in Slot : Creates(t, s)' <=> Creates(t, s)
        BY <2>1 DEF Creates, Creating
    <2> QED BY <1>0, <2>1, <2>2, <2>3, InvQuiet
<1>4. CASE Exhausted(t)
    <2>1. /\ pc[t] = "createHeld" /\ pc'[t] = "scan"
          /\ UNCHANGED <<reserved, generation, handle, session, issued, arg>>
          /\ \A u \in Thread \ {t} : pc'[u] = pc[u] /\ at'[u] = at[u]
          /\ mutex' = [mutex EXCEPT ![at[t]] = NoThread]
          /\ generation[at[t]] = MaxGeneration
        BY <1>0, <1>4 DEF Exhausted, Goto, Unlock, TypeOK
    <2>2. OthersStay(t) /\ ThreadInv(t)'
        BY <2>1 DEF OthersStay, ThreadInv, Holding, HandleLocation, Using, Creating
    <2>3. \A s \in Slot : ~Creates(t, s)' /\ (Creates(t, s) => Retired(s))
        BY <1>0, <2>1 DEF ThreadInv, Creates, Creating, Retired
    <2> QED BY <1>0, <2>1, <2>2, <2>3, InvQuiet
<1> QED BY <1>1, <1>2, <1>3, <1>4

\* Taking the mutex, comparing the handle and leaving keep the invariant.
LEMMA InvHandle ==
    ASSUME Inv, NEW t \in Thread,
           \/ TryLock(t, "exchange", "exchangeHeld") \/ TryLock(t, "metrics", "metricsHeld")
           \/ CheckHandle(t, "exchangeHeld", "exchangeUse") \/ CheckHandle(t, "metricsHeld", "metricsUse")
           \/ Metrics(t) \/ DestroyLock(t) \/ DestroyInvalid(t) \/ DestroyDone(t)
    PROVE  Inv'
<1>0. TypeOK /\ TypeOK' /\ ThreadInv(t)
    BY TypeStep DEF Inv, Step, UseStep, DestroyStep
<1>l. ASSUME NEW from \in HandleLocation, NEW to \in HandleLocation \ Using, Goto(t, from, to), Lock(t, at[t]),
             UNCHANGED <<reserved, generation, handle, session, issued, arg, at>>
      PROVE  Inv'
    <2>1. /\ pc[t] = from /\ pc'[t] = to /\ \A u \in Thread \ {t} : pc'[u] = pc[u]
          /\ mutex[at[t]] = NoThread /\ mutex' = [mutex EXCEPT ![at[t]] = t]
        BY <1>0, <1>l DEF Goto, Lock, TypeOK
    <2>2. from \notin {"idle", "scan"}
        BY <1>l DEF HandleLocation
    <2>3. mutex'[at[t]] = t
        BY <1>0, <2>1, <2>2 DEF TypeOK, ThreadInv
    <2>4. OthersStay(t)
        BY <1>l, <2>1 DEF OthersStay
    <2> QED BY <1>0, <1>l, <2>1, <2>3, <2>4, InvLocal
<1>u. ASSUME NEW from \in HandleLocation \cap Holding, NEW status, Return(t, from, status), Unlock(at[t]),
             UNCHANGED <<reserved, generation, handle, session, issued, arg, at>>
      PROVE  Inv'
    <2>1. /\ pc[t] = from /\ pc'[t] = "idle" /\ \A u \in Thread \ {t} : pc'[u] = pc[u]
          /\ mutex' = [mutex EXCEPT ![at[t]] = NoThread]
        BY <1>0, <1>u DEF Return, Goto, Unlock, TypeOK
    <2>2. OthersStay(t)
        BY <1>u, <2>1 DEF OthersStay
    <2>3. "idle" \notin Holding /\ "idle" \notin Using
        BY DEF Holding, Using
    <2> QED BY <1>0, <1>u, <2>1, <2>2, <2>3, InvLocal
<1>1. ASSUME NEW from \in HandleLocation, NEW held \in HandleLocation \ Using, TryLock(t, from, held)
      PROVE  Inv'
    <2>1. CASE Goto(t, from, held) /\ Lock(t, at[t])
        BY <1>1, <1>l, <2>1 DEF TryLock, Return, Goto, slots
    <2>2. CASE Return(t, from, "busy") /\ UNCHANGED <<slots, arg, at, calls, issued>>
        <3>1. pc[t] = from /\ pc'[t] = "idle" /\ \A u \in Thread \ {t} : pc'[u] = pc[u]
            BY <1>0, <2>2 DEF Return, Goto, TypeOK
        <3>2. OthersStay(t)
            BY <2>2, <3>1 DEF OthersStay, slots
        <3>3. "idle" \notin Holding /\ "idle" \notin Using
            BY DEF Holding, Using
        <3> QED BY <1>0, <1>1, <2>2, <3>1, <3>2, <3>3, InvLocal DEF slots
    <2> QED BY <1>1, <2>1, <2>2 DEF TryLock
<1>2. ASSUME NEW held \in HandleLocation \cap Holding, NEW use \in HandleLocation \cap Using,
             CheckHandle(t, held, use)
      PROVE  Inv'
    <2>1. CASE Goto(t, held, use) /\ Owns(t) /\ UNCHANGED <<slots, arg, at, reply, calls, issued>>
        <3>1. pc[t] = held /\ pc'[t] = use /\ \A u \in Thread \ {t} : pc'[u] = pc[u]
            BY <1>0, <2>1 DEF Goto, TypeOK
        <3>2. mutex[at[t]] = t
            BY <1>0, <1>2, <3>1 DEF ThreadInv
        <3>3. OthersStay(t) /\ mutex' = mutex
            BY <2>1, <3>1 DEF OthersStay, slots
        <3> QED BY <1>0, <1>2, <2>1, <3>1, <3>2, <3>3, InvLocal DEF slots
    <2>2. CASE Return(t, held, "invalid_handle") /\ Unlock(at[t])
        BY <1>2, <1>u, <2>1, <2>2 DEF CheckHandle
    <2> QED BY <1>2, <2>1, <2>2 DEF CheckHandle
<1>3. /\ {"exchange", "metrics", "destroyLock"} \subseteq HandleLocation
      /\ {"exchangeHeld", "metricsHeld", "destroyHeld"} \subseteq HandleLocation \ Using
      /\ {"exchangeHeld", "metricsHeld", "destroyHeld", "destroyDone", "metricsUse"} \subseteq HandleLocation \cap Holding
      /\ {"exchangeUse", "metricsUse"} \subseteq HandleLocation \cap Using
    BY DEF HandleLocation, Holding, Using
<1>4. CASE TryLock(t, "exchange", "exchangeHeld") \/ TryLock(t, "metrics", "metricsHeld")
    BY <1>1, <1>3, <1>4
<1>5. CASE CheckHandle(t, "exchangeHeld", "exchangeUse") \/ CheckHandle(t, "metricsHeld", "metricsUse")
    BY <1>2, <1>3, <1>5
<1>6. CASE Metrics(t)
    BY <1>3, <1>6, <1>u DEF Metrics
<1>7. CASE DestroyLock(t)
    BY <1>3, <1>7, <1>l DEF DestroyLock
<1>8. CASE DestroyInvalid(t)
    BY <1>3, <1>8, <1>u DEF DestroyInvalid
<1>9. CASE DestroyDone(t)
    BY <1>3, <1>9, <1>u DEF DestroyDone
<1> QED BY <1>4, <1>5, <1>6, <1>7, <1>8, <1>9

\* A slot that a step of another slot leaves alone, creators included.
LEMMA OtherSlot ==
    ASSUME Inv, NEW t \in Thread, NEW s \in Slot, SlotInv(s), s # at[t],
           DOMAIN issued \subseteq DOMAIN issued', \A h \in DOMAIN issued : issued'[h] = issued[h],
           reserved'[s] = reserved[s], handle'[s] = handle[s], session'[s] = session[s],
           generation'[s] = generation[s],
           \A u \in Thread \ {t} : pc'[u] = pc[u] /\ at'[u] = at[u]
    PROVE  SlotInv(s)'
<1>1. \A u \in Thread : Creates(u, s) => Creates(u, s)'
    BY DEF Creates
<1>2. Retired(s) => Retired(s)'
    BY DEF Retired
<1> QED BY <1>1, <1>2 DEF SlotInv

\* Reserving a slot that nobody has.
LEMMA InvReserve ==
    ASSUME Inv, NEW t \in Thread, Reserve(t)
    PROVE  Inv'
<1>0. TypeOK /\ TypeOK' /\ ThreadInv(t) /\ CreatorsApart /\ Issued
    BY TypeStep DEF Inv, Step, CreateStep
<1>1. /\ at[t] \in Slot /\ ~reserved[at[t]] /\ pc[t] = "scan" /\ pc'[t] = "createLock"
      /\ \A u \in Thread \ {t} : pc'[u] = pc[u]
      /\ reserved' = [reserved EXCEPT ![at[t]] = TRUE]
      /\ reserved'[at[t]] /\ \A s \in Slot \ {at[t]} : reserved'[s] = reserved[s]
      /\ UNCHANGED <<mutex, generation, handle, session, arg, at, issued>>
    BY <1>0 DEF Reserve, Goto, TypeOK
<1>2. session[at[t]] = NoSession /\ SlotInv(at[t])
    BY <1>1 DEF Inv, SlotInv
<1>3. \A u \in Thread : ~Creates(u, at[t])
    BY <1>1 DEF Inv, ThreadInv, Creates
<1>4. OthersStay(t)
    BY <1>1 DEF OthersStay
<1>5. \A u \in Thread : ThreadInv(u)'
    <2>1. ThreadInv(t)'
        BY <1>1, <1>2 DEF ThreadInv, Holding, HandleLocation, Using
    <2>2. ASSUME NEW u \in Thread \ {t} PROVE ThreadInv(u)'
        BY <1>1, <1>3, <1>4, <2>2, OtherThread
    <2> QED BY <2>1, <2>2
<1>6. \A s \in Slot : SlotInv(s)'
    <2>1. Creates(t, at[t])'
        BY <1>1 DEF Creates, Creating
    <2>2. ASSUME NEW s \in Slot, s = at[t] PROVE SlotInv(s)'
        BY <1>1, <1>2, <2>1, <2>2 DEF SlotInv
    <2>3. ASSUME NEW s \in Slot, s # at[t] PROVE SlotInv(s)'
        BY <1>1, <2>3, OtherSlot DEF Inv
    <2> QED BY <2>2, <2>3
<1>7. CreatorsApart'
    <2>1. \A s \in Slot : Creates(t, s)' => s = at[t]
        BY <1>1 DEF Creates
    <2>2. \A u \in Thread \ {t}, s \in Slot : Creates(u, s)' => Creates(u, s)
        BY <1>1 DEF Creates
    <2> QED BY <1>0, <1>3, <2>1, <2>2 DEF CreatorsApart
<1>8. Issued'
    BY <1>0, <1>1 DEF Issued
<1> QED BY <1>0, <1>5, <1>6, <1>7, <1>8 DEF Inv

\* Giving back the reservation of a create that failed.
LEMMA InvUndo ==
    ASSUME Inv, NEW t \in Thread, CreateUndo(t)
    PROVE  Inv'
<1>0. TypeOK /\ TypeOK' /\ ThreadInv(t) /\ CreatorsApart /\ Issued
    BY TypeStep DEF Inv, Step, CreateStep
<1>1. /\ pc[t] = "createUndo" /\ pc'[t] = "idle"
      /\ \A u \in Thread \ {t} : pc'[u] = pc[u]
      /\ reserved' = [reserved EXCEPT ![at[t]] = FALSE]
      /\ UNCHANGED <<mutex, generation, handle, session, arg, at, issued>>
    BY <1>0 DEF CreateUndo, Return, Goto, TypeOK
<1>2. at[t] \in Slot /\ session[at[t]] = NoSession /\ Creates(t, at[t])
    BY <1>0, <1>1 DEF ThreadInv, Creates, Creating
<1>3. ~reserved'[at[t]] /\ \A s \in Slot \ {at[t]} : reserved'[s] = reserved[s]
    BY <1>0, <1>1, <1>2 DEF TypeOK
<1>4. \A u \in Thread \ {t} : ~Creates(u, at[t])
    BY <1>0, <1>2 DEF CreatorsApart
<1>5. OthersStay(t)
    BY <1>1 DEF OthersStay
<1>6. \A u \in Thread : ThreadInv(u)'
    <2>1. ThreadInv(t)'
        BY <1>1 DEF ThreadInv, Holding, HandleLocation, Using, Creating
    <2>2. ASSUME NEW u \in Thread \ {t} PROVE ThreadInv(u)'
        BY <1>1, <1>3, <1>4, <1>5, <2>2, OtherThread
    <2> QED BY <2>1, <2>2
<1>7. \A s \in Slot : SlotInv(s)'
    <2>1. ASSUME NEW s \in Slot, s = at[t] PROVE SlotInv(s)'
        BY <1>1, <1>2, <1>3, <2>1 DEF SlotInv
    <2>2. ASSUME NEW s \in Slot, s # at[t] PROVE SlotInv(s)'
        BY <1>1, <1>3, <2>2, OtherSlot DEF Inv
    <2> QED BY <2>1, <2>2
<1>8. CreatorsApart'
    <2>1. \A u \in Thread, s \in Slot : Creates(u, s)' => Creates(u, s)
        BY <1>1 DEF Creates, Creating
    <2> QED BY <1>0, <2>1 DEF CreatorsApart
<1>9. Issued'
    BY <1>0, <1>1 DEF Issued
<1> QED BY <1>0, <1>6, <1>7, <1>8, <1>9 DEF Inv

\* A create that succeeds issues a handle that was never issued.
LEMMA NewHandle ==
    ASSUME Inv, NEW t \in Thread, Create(t)
    PROVE  LET s == at[t]
               new == [slot |-> s, generation |-> generation[s] + 1]
               birth == Cardinality(DOMAIN issued) + 1
           IN  /\ s \in Slot /\ session[s] = NoSession /\ Creates(t, s) /\ mutex[s] = t
               /\ new \notin DOMAIN issued /\ birth \in Nat \ {0}
               /\ DOMAIN issued' = DOMAIN issued \cup {new} /\ issued'[new] = birth
               /\ \A h \in DOMAIN issued : issued'[h] = issued[h]
               /\ handle' = [handle EXCEPT ![s] = new]
               /\ generation' = [generation EXCEPT ![s] = generation[s] + 1]
               /\ session' = [session EXCEPT ![s] = [birth |-> birth, closed |-> FALSE]]
               /\ handle'[s] = new /\ generation'[s] = generation[s] + 1
               /\ session'[s] = [birth |-> birth, closed |-> FALSE]
               /\ \A q \in Slot \ {s} : handle'[q] = handle[q] /\ generation'[q] = generation[q]
                                        /\ session'[q] = session[q]
               /\ UNCHANGED <<reserved, arg, at>>
<1> DEFINE s == at[t]
           next == generation[s] + 1
           new == [slot |-> s, generation |-> next]
           birth == Cardinality(DOMAIN issued) + 1
<1>0. TypeOK /\ ThreadInv(t) /\ Issued /\ pc[t] = "createHeld"
    BY DEF Inv, Create, Return, Goto
<1>1. s \in Slot /\ session[s] = NoSession /\ Creates(t, s) /\ mutex[s] = t
    BY <1>0 DEF ThreadInv, Creates, Creating, Holding
<1>2. new \notin DOMAIN issued
    <2>1. generation[s] \in Nat
        BY <1>0, <1>1, Bounds DEF TypeOK
    <2>2. new.slot = s /\ new.generation = generation[s] + 1
        OBVIOUS
    <2>3. new \in DOMAIN issued => new.generation <= generation[new.slot]
        BY <1>0 DEF Issued
    <2> HIDE DEF new
    <2> QED BY <2>1, <2>2, <2>3
<1>3. birth \in Nat \ {0}
    BY <1>0, FS_CardinalityType DEF Issued
<1>4. /\ generation' = [generation EXCEPT ![s] = next]
      /\ handle' = [handle EXCEPT ![s] = new]
      /\ session' = [session EXCEPT ![s] = [birth |-> birth, closed |-> FALSE]]
      /\ issued' = [h \in DOMAIN issued \cup {new} |-> IF h = new THEN birth ELSE issued[h]]
      /\ UNCHANGED <<reserved, arg, at>>
    BY DEF Create
<1> HIDE DEF new, birth, next
<1>5. /\ DOMAIN issued' = DOMAIN issued \cup {new} /\ issued'[new] = birth
      /\ \A h \in DOMAIN issued : issued'[h] = issued[h]
    BY <1>2, <1>4
<1>6. /\ handle'[s] = new /\ generation'[s] = next
      /\ session'[s] = [birth |-> birth, closed |-> FALSE]
      /\ \A q \in Slot \ {s} : handle'[q] = handle[q] /\ generation'[q] = generation[q]
                               /\ session'[q] = session[q]
    BY <1>0, <1>1, <1>4 DEF TypeOK
<1> QED BY <1>1, <1>2, <1>3, <1>4, <1>5, <1>6 DEF new, birth, next

\* Creating a session on the slot that was reserved for it.
LEMMA InvCreate ==
    ASSUME Inv, NEW t \in Thread, Create(t)
    PROVE  Inv'
<1> DEFINE s == at[t]
           next == generation[s] + 1
           new == [slot |-> s, generation |-> next]
           birth == Cardinality(DOMAIN issued) + 1
<1>0. TypeOK /\ TypeOK' /\ ThreadInv(t) /\ CreatorsApart /\ Issued
    BY TypeStep DEF Inv, Step, CreateStep
<1>1. /\ pc[t] = "createHeld" /\ pc'[t] = "idle"
      /\ \A u \in Thread \ {t} : pc'[u] = pc[u]
      /\ mutex' = [mutex EXCEPT ![s] = NoThread]
    BY <1>0 DEF Create, Return, Goto, Unlock, TypeOK
<1>2. /\ s \in Slot /\ session[s] = NoSession /\ Creates(t, s)
      /\ new \notin DOMAIN issued /\ birth \in Nat \ {0}
      /\ DOMAIN issued' = DOMAIN issued \cup {new} /\ issued'[new] = birth
      /\ \A h \in DOMAIN issued : issued'[h] = issued[h]
      /\ handle'[s] = new /\ generation'[s] = next
      /\ session'[s] = [birth |-> birth, closed |-> FALSE]
      /\ \A q \in Slot \ {s} : handle'[q] = handle[q] /\ generation'[q] = generation[q]
                               /\ session'[q] = session[q]
      /\ UNCHANGED <<reserved, arg, at>>
    BY NewHandle
<1>3. new.slot = s /\ new.generation = next /\ session'[s].birth = birth
    BY <1>2
<1>4. reserved[s] /\ generation[s] \in Nat
    BY <1>0, <1>1, <1>2, Bounds DEF ThreadInv, Creating, TypeOK
<1> HIDE DEF new, birth
<1>5. \A u \in Thread \ {t} : ~Creates(u, s)
    BY <1>0, <1>2 DEF CreatorsApart
<1>6. OthersStay(t) /\ pc[t] \in Holding
    BY <1>1, <1>2 DEF OthersStay, Holding
<1>7. \A u \in Thread : ThreadInv(u)'
    <2>1. ThreadInv(t)'
        BY <1>1 DEF ThreadInv, Holding, HandleLocation, Using, Creating
    <2>2. ASSUME NEW u \in Thread \ {t} PROVE ThreadInv(u)'
        BY <1>2, <1>5, <1>6, <2>2, OtherThread
    <2> QED BY <2>1, <2>2
<1>8. \A q \in Slot : SlotInv(q)'
    <2>1. ASSUME NEW q \in Slot, q = s PROVE SlotInv(q)'
        <3>1. session'[s] # NoSession
            BY <1>2, <1>3 DEF NoSession
        <3> QED BY <1>2, <1>3, <1>4, <2>1, <3>1 DEF SlotInv
    <2>2. ASSUME NEW q \in Slot, q # s PROVE SlotInv(q)'
        BY <1>1, <1>2, <2>2, OtherSlot DEF Inv
    <2> QED BY <2>1, <2>2
<1>9. CreatorsApart'
    <2>1. \A u \in Thread, q \in Slot : Creates(u, q)' => Creates(u, q)
        BY <1>1, <1>2 DEF Creates, Creating
    <2> QED BY <1>0, <2>1 DEF CreatorsApart
<1>10. Issued'
    <2>1. IsFiniteSet(DOMAIN issued')
        BY <1>0, <1>2, FS_AddElement DEF Issued
    <2>2. ASSUME NEW h \in DOMAIN issued' PROVE h.generation <= generation'[h.slot]
        <3>1. CASE h = new
            BY <1>2, <1>3, <1>4, <3>1
        <3>2. CASE h \in DOMAIN issued
            <4>1. h \in Handle /\ h.slot \in Slot /\ h.generation \in Nat
                BY <1>0, <3>2, Bounds DEF TypeOK, Handle
            <4>2. h.generation <= generation[h.slot]
                BY <1>0, <3>2 DEF Issued
            <4>3. CASE h.slot = s
                BY <1>2, <1>4, <4>1, <4>2, <4>3
            <4>4. CASE h.slot # s
                BY <1>2, <4>1, <4>2, <4>4
            <4> QED BY <4>3, <4>4
        <3> QED BY <1>2, <3>1, <3>2
    <2> QED BY <2>1, <2>2 DEF Issued
<1> QED BY <1>0, <1>7, <1>8, <1>9, <1>10 DEF Inv

\* A frame may close the session the thread uses, and nobody else's.
LEMMA InvExchange ==
    ASSUME Inv, NEW t \in Thread, Exchange(t)
    PROVE  Inv'
<1> DEFINE s == at[t]
<1>0. TypeOK /\ TypeOK' /\ ThreadInv(t) /\ CreatorsApart /\ Issued
    BY TypeStep DEF Inv, Step, UseStep
<1>1. /\ pc[t] = "exchangeUse" /\ pc'[t] = "idle"
      /\ \A u \in Thread \ {t} : pc'[u] = pc[u]
      /\ mutex' = [mutex EXCEPT ![s] = NoThread]
      /\ UNCHANGED <<reserved, generation, handle, arg, at, issued>>
    BY <1>0 DEF Exchange, Return, Goto, Unlock, TypeOK
<1>2. s \in Slot /\ session[s] # NoSession /\ session[s] \in Session
    BY <1>0, <1>1 DEF ThreadInv, Using, Owns, TypeOK
<1>3. /\ \A q \in Slot \ {s} : session'[q] = session[q]
      /\ session'[s].birth = session[s].birth /\ session'[s] # NoSession
    <2>1. CASE UNCHANGED session
        BY <1>2, <2>1
    <2>2. CASE session' = [session EXCEPT ![s].closed = TRUE]
        <3> DEFINE r == [session[s] EXCEPT !.closed = TRUE]
        <3>1. r.birth = session[s].birth /\ r.birth # NoSession.birth
            BY <1>2 DEF Session, NoSession
        <3>2. session'[s] = r /\ \A q \in Slot \ {s} : session'[q] = session[q]
            BY <1>0, <1>2, <2>2 DEF TypeOK
        <3> HIDE DEF r
        <3> QED BY <3>1, <3>2
    <2> QED BY <2>1, <2>2 DEF Exchange
<1>4. SlotInv(s) /\ \A u \in Thread : ~Creates(u, s)
    BY <1>2 DEF Inv, ThreadInv, Creates
<1>5. OthersStay(t) /\ pc[t] \in Holding
    BY <1>1 DEF OthersStay, Holding
<1>6. \A u \in Thread : ThreadInv(u)'
    <2>1. ThreadInv(t)'
        BY <1>1 DEF ThreadInv, Holding, HandleLocation, Using, Creating
    <2>2. ASSUME NEW u \in Thread \ {t} PROVE ThreadInv(u)'
        BY <1>1, <1>3, <1>4, <1>5, <2>2, OtherThread
    <2> QED BY <2>1, <2>2
<1>7. \A q \in Slot : SlotInv(q)'
    <2>1. ASSUME NEW q \in Slot, q = s PROVE SlotInv(q)'
        BY <1>1, <1>2, <1>3, <1>4, <2>1 DEF SlotInv
    <2>2. ASSUME NEW q \in Slot, q # s PROVE SlotInv(q)'
        BY <1>1, <1>3, <2>2, OtherSlot DEF Inv
    <2> QED BY <2>1, <2>2
<1>8. CreatorsApart'
    <2>1. \A u \in Thread, q \in Slot : Creates(u, q)' => Creates(u, q)
        BY <1>1 DEF Creates, Creating
    <2> QED BY <1>0, <2>1 DEF CreatorsApart
<1>9. Issued'
    BY <1>0, <1>1 DEF Issued
<1> QED BY <1>0, <1>6, <1>7, <1>8, <1>9 DEF Inv

\* A destroy ends the session of its handle and frees the slot.
LEMMA InvDestroy ==
    ASSUME Inv, NEW t \in Thread, Destroy(t)
    PROVE  Inv'
<1> DEFINE s == at[t]
<1>0. TypeOK /\ TypeOK' /\ ThreadInv(t) /\ CreatorsApart /\ Issued
    BY TypeStep DEF Inv, Step, DestroyStep
<1>1. /\ pc[t] = "destroyHeld" /\ pc'[t] = "destroyDone" /\ Owns(t)
      /\ \A u \in Thread \ {t} : pc'[u] = pc[u]
      /\ UNCHANGED <<mutex, generation, arg, at, issued>>
    BY <1>0 DEF Destroy, Goto, TypeOK
<1>2. s \in Slot /\ session[s] # NoSession
    BY <1>0, <1>1 DEF ThreadInv, Owns
<1>3. /\ session'[s] = NoSession /\ handle'[s] = NoHandle /\ ~reserved'[s]
      /\ \A q \in Slot \ {s} : session'[q] = session[q] /\ handle'[q] = handle[q]
                               /\ reserved'[q] = reserved[q]
    BY <1>0, <1>2 DEF Destroy, TypeOK
<1>4. \A u \in Thread : ~Creates(u, s)
    BY <1>2 DEF Inv, ThreadInv, Creates
<1>5. OthersStay(t) /\ pc[t] \in Holding
    BY <1>1 DEF OthersStay, Holding
<1>6. \A u \in Thread : ThreadInv(u)'
    <2>1. ThreadInv(t)'
        BY <1>0, <1>1 DEF ThreadInv, Holding, HandleLocation, Using, Creating
    <2>2. ASSUME NEW u \in Thread \ {t} PROVE ThreadInv(u)'
        BY <1>1, <1>3, <1>4, <1>5, <2>2, OtherThread
    <2> QED BY <2>1, <2>2
<1>7. \A q \in Slot : SlotInv(q)'
    <2>1. ASSUME NEW q \in Slot, q = s PROVE SlotInv(q)'
        BY <1>3, <2>1 DEF SlotInv
    <2>2. ASSUME NEW q \in Slot, q # s PROVE SlotInv(q)'
        BY <1>1, <1>3, <2>2, OtherSlot DEF Inv
    <2> QED BY <2>1, <2>2
<1>8. CreatorsApart'
    <2>1. \A u \in Thread, q \in Slot : Creates(u, q)' => Creates(u, q)
        BY <1>1 DEF Creates, Creating
    <2> QED BY <1>0, <2>1 DEF CreatorsApart
<1>9. Issued'
    BY <1>0, <1>1 DEF Issued
<1> QED BY <1>0, <1>6, <1>7, <1>8, <1>9 DEF Inv

\* Every step keeps the invariant.
LEMMA InvNext == Inv /\ [Next]_vars => Inv'
<1> SUFFICES ASSUME Inv, [Next]_vars PROVE Inv'
    OBVIOUS
<1>1. ASSUME NEW t \in Thread, CallStep(t) \/ Step(t) PROVE Inv'
    BY <1>1, InvCall, InvSearch, InvReserve, InvCreate, InvUndo, InvHandle, InvExchange, InvDestroy
       DEF Step, CreateStep, UseStep, DestroyStep
<1>2. CASE UNCHANGED vars
    <2>1. TypeOK'
        BY <1>2 DEF Inv, TypeOK, vars, slots, threads
    <2>2. \A t \in Thread : ThreadInv(t)'
        BY <1>2 DEF Inv, ThreadInv, Owns, vars, slots, threads
    <2>3. \A s \in Slot : SlotInv(s)'
        BY <1>2 DEF Inv, SlotInv, Retired, Creates, vars, slots, threads
    <2>4. CreatorsApart' /\ Issued'
        BY <1>2 DEF Inv, CreatorsApart, Creates, Issued, vars, slots, threads
    <2> QED BY <2>1, <2>2, <2>3, <2>4 DEF Inv
<1> QED BY <1>1, <1>2 DEF Next

-----------------------------------------------------------------------------
(* What follows.                                                           *)

\* Whatever the interleaving, the slots stay well typed: no generation exceeds its
\* bound and every handle names a slot (abi.cpp fgn_session_create).
THEOREM TypeCorrect == Spec => []TypeOK
<1>1. Inv => TypeOK
    BY DEF Inv
<1> QED BY <1>1, InvInit, InvNext, PTL DEF Spec

\* However many threads create, fail, run out of handles and destroy at once, a slot is
\* reserved exactly while somebody needs it, and lent to one create at a time (abi.cpp
\* fgn_session_create, fgn_session_destroy).
THEOREM ReservationsAreExact == Spec => []ReservationIsExact
<1>1. Inv => ReservationIsExact
    <2> SUFFICES ASSUME Inv, NEW s \in Slot
                 PROVE  LET creators == {t \in Thread : pc[t] \in Creating /\ at[t] = s}
                        IN  /\ session[s] # NoSession \/ creators # {} => reserved[s]
                            /\ reserved[s] => session[s] # NoSession \/ creators # {} \/ Retired(s)
                            /\ Cardinality(creators) <= 1
                            /\ session[s] # NoSession => creators = {}
        BY DEF ReservationIsExact
    <2> DEFINE creators == {t \in Thread : pc[t] \in Creating /\ at[t] = s}
    <2>1. /\ SlotInv(s)
          /\ \A t \in creators : Creates(t, s) /\ reserved[s] /\ session[s] = NoSession
          /\ \A t, u \in creators : t = u
        BY DEF Inv, ThreadInv, CreatorsApart, Creates
    <2>2. \A t \in Thread : Creates(t, s) => t \in creators
        BY DEF Creates
    <2>3. Cardinality(creators) <= 1
        <3>1. CASE creators = {}
            BY <3>1, FS_EmptySet
        <3>2. CASE creators # {}
            <4>1. PICK t : t \in creators
                BY <3>2
            <4>2. creators = {t}
                BY <2>1, <4>1
            <4>3. Cardinality({t}) = 1
                BY FS_Singleton
            <4> HIDE DEF creators
            <4> QED BY <4>2, <4>3
        <3> QED BY <3>1, <3>2
    <2> HIDE DEF creators
    <2>4. /\ session[s] # NoSession \/ creators # {} => reserved[s]
          /\ reserved[s] => session[s] # NoSession \/ creators # {} \/ Retired(s)
          /\ session[s] # NoSession => creators = {}
        BY <2>1, <2>2 DEF SlotInv
    <2> QED BY <2>3, <2>4 DEF creators
<1> QED BY <1>1, InvInit, InvNext, PTL DEF Spec

\* A create never meets a session, so it never makes a call on one BUSY (abi.cpp
\* fgn_session_create).
THEOREM CreatesAvoidSessions == Spec => []CreateAvoidsActive
<1>1. Inv => CreateAvoidsActive
    BY DEF Inv, ThreadInv, Creating, CreateAvoidsActive
<1> QED BY <1>1, InvInit, InvNext, PTL DEF Spec

\* A stale handle never reaches the session that succeeded its own, and no two calls
\* work on one session (abi.cpp fgn_session_exchange, fgn_session_get_metrics).
THEOREM CallsReachTheirs == Spec => []CallsReachTheirSession
<1>1. Inv => CallsReachTheirSession
    <2> SUFFICES ASSUME Inv, NEW t \in Thread, pc[t] \in Using
                 PROVE  /\ session[at[t]].birth = issued[arg[t]]
                        /\ mutex[at[t]] = t
                        /\ \A u \in Thread \ {t} : pc[u] \in Holding => at[u] # at[t]
        BY DEF CallsReachTheirSession
    <2>1. at[t] \in Slot /\ mutex[at[t]] = t /\ Owns(t)
        BY DEF Inv, ThreadInv, Using, Holding
    <2>2. session[at[t]].birth = issued[arg[t]]
        BY <2>1 DEF Inv, SlotInv, Owns
    <2>3. \A u \in Thread \ {t} : pc[u] \in Holding => at[u] # at[t]
        BY <2>1 DEF Inv, ThreadInv
    <2> QED BY <2>1, <2>2, <2>3
<1> QED BY <1>1, InvInit, InvNext, PTL DEF Spec

\* Only three steps touch sessions, handles or what was issued.
LEMMA SessionSteps ==
    ASSUME [Next]_vars
    PROVE  \/ UNCHANGED <<session, handle, issued>>
           \/ \E t \in Thread : Create(t) \/ Exchange(t) \/ Destroy(t)
<1>1. ASSUME NEW t \in Thread, CallStep(t) PROVE UNCHANGED <<session, handle, issued>>
    BY <1>1 DEF CallStep, CallCreate, CallExchange, CallMetrics, CallDestroy, Call, slots
<1>2. ASSUME NEW t \in Thread, CreateStep(t), ~Create(t) PROVE UNCHANGED <<session, handle, issued>>
    BY <1>2 DEF CreateStep, Reserve, Skip, LimitReached, CreateLock, Exhausted, CreateFails, CreateUndo,
       slots
<1>3. ASSUME NEW t \in Thread, UseStep(t), ~Exchange(t) PROVE UNCHANGED <<session, handle, issued>>
    BY <1>3 DEF UseStep, TryLock, CheckHandle, Metrics, slots
<1>4. ASSUME NEW t \in Thread, DestroyStep(t), ~Destroy(t) PROVE UNCHANGED <<session, handle, issued>>
    BY <1>4 DEF DestroyStep, DestroyLock, DestroyInvalid, DestroyDone, slots
<1> QED BY <1>1, <1>2, <1>3, <1>4 DEF Next, Step, vars, slots

\* What a destroy finds: the session its handle was issued for.
LEMMA DestroyFinds ==
    ASSUME Inv, NEW t \in Thread, Destroy(t)
    PROVE  /\ at[t] \in Slot /\ pc[t] = "destroyHeld" /\ mutex[at[t]] = t
           /\ arg[t] \in DOMAIN issued /\ handle[at[t]] = arg[t] /\ session[at[t]] # NoSession
           /\ issued[arg[t]] = session[at[t]].birth
           /\ session' = [session EXCEPT ![at[t]] = NoSession]
           /\ handle' = [handle EXCEPT ![at[t]] = NoHandle]
           /\ UNCHANGED issued
<1>1. pc[t] = "destroyHeld" /\ Owns(t)
    BY DEF Destroy, Goto
<1>2. at[t] \in Slot /\ mutex[at[t]] = t /\ arg[t] \in DOMAIN issued
    BY <1>1 DEF Inv, ThreadInv, Holding, HandleLocation
<1> QED BY <1>1, <1>2 DEF Inv, SlotInv, Owns, Destroy

\* What an exchange does to the session it uses: nothing, or it closes an open one.
LEMMA ExchangeDoes ==
    ASSUME Inv, NEW t \in Thread, Exchange(t)
    PROVE  /\ at[t] \in Slot /\ session[at[t]] \in Session
           /\ UNCHANGED <<handle, issued>>
           /\ \/ UNCHANGED session
              \/ /\ ~session[at[t]].closed
                 /\ session' = [session EXCEPT ![at[t]] = [session[at[t]] EXCEPT !.closed = TRUE]]
<1>1. ThreadInv(t) /\ pc[t] = "exchangeUse"
    BY DEF Inv, Exchange
<1>2. at[t] \in Slot /\ session[at[t]] # NoSession
    BY <1>1 DEF ThreadInv, Using, Owns
<1>3. session[at[t]] \in Session
    BY <1>2 DEF Inv, TypeOK
<1>4. /\ UNCHANGED <<handle, issued>>
      /\ \/ UNCHANGED session
         \/ ~session[at[t]].closed /\ session' = [session EXCEPT ![at[t]].closed = TRUE]
    BY DEF Exchange
<1> QED BY <1>2, <1>3, <1>4

\* No late destroy of an earlier handle, and nothing else, ends a session (abi.cpp
\* fgn_session_destroy).
THEOREM SessionsEndByTheirs == Spec => SessionsEndByTheirHandle
<1> DEFINE Ended ==
        \A s \in Slot :
            session[s] # NoSession /\ session'[s].birth # session[s].birth
                => \E t \in Thread :
                      /\ pc[t] = "destroyHeld" /\ mutex[s] = t
                      /\ arg[t] \in DOMAIN issued /\ issued[arg[t]] = session[s].birth
<1>1. Inv /\ [Next]_vars => Ended
    <2> SUFFICES ASSUME Inv, [Next]_vars, NEW s \in Slot,
                        session[s] # NoSession, session'[s].birth # session[s].birth
                 PROVE  \E t \in Thread :
                            /\ pc[t] = "destroyHeld" /\ mutex[s] = t
                            /\ arg[t] \in DOMAIN issued /\ issued[arg[t]] = session[s].birth
        OBVIOUS
    <2>0. session \in [Slot -> Session \cup {NoSession}]
        BY DEF Inv, TypeOK
    <2>1. ASSUME NEW t \in Thread, Create(t) PROVE FALSE
        BY <2>1, NewHandle
    <2>2. ASSUME NEW t \in Thread, Exchange(t) PROVE FALSE
        <3> DEFINE r == [session[at[t]] EXCEPT !.closed = TRUE]
        <3>1. r.birth = session[at[t]].birth
            BY <2>2, ExchangeDoes DEF Session
        <3>2. UNCHANGED session \/ session' = [session EXCEPT ![at[t]] = r]
            BY <2>2, ExchangeDoes
        <3> HIDE DEF r
        <3> QED BY <2>0, <3>1, <3>2
    <2>3. ASSUME NEW t \in Thread, Destroy(t)
          PROVE  /\ pc[t] = "destroyHeld" /\ mutex[s] = t
                 /\ arg[t] \in DOMAIN issued /\ issued[arg[t]] = session[s].birth
        <3>1. s = at[t]
            BY <2>0, <2>3, DestroyFinds
        <3> QED BY <2>3, <3>1, DestroyFinds
    <2> QED BY <2>1, <2>2, <2>3, SessionSteps
<1>2. Spec => [][Ended]_vars
    BY <1>1, InvInit, InvNext, PTL DEF Spec
<1> QED BY <1>2 DEF SessionsEndByTheirHandle

-----------------------------------------------------------------------------
(* The refinement.                                                         *)

\* The sessions the header speaks of.
liveBar == [h \in liveHandles |-> IF session[h.slot].closed THEN "closed" ELSE "open"]

\* A handle is live exactly while the slot it names has it.
LEMMA LiveHandles ==
    ASSUME Inv
    PROVE  /\ \A h : h \in liveHandles <=> \E s \in Slot : /\ session[s] # NoSession
                                                           /\ handle[s] = h /\ h.slot = s
           /\ liveHandles \subseteq DOMAIN issued /\ liveHandles \subseteq Handle
<1>1. \A s \in Slot : session[s] # NoSession => handle[s] \in DOMAIN issued /\ handle[s].slot = s
    BY DEF Inv, SlotInv
<1>2. DOMAIN issued \subseteq Handle
    BY DEF Inv, TypeOK
<1> QED BY <1>1, <1>2 DEF liveHandles

\* While a slot is without a session there is room for another.
LEMMA RoomForOne ==
    ASSUME Inv, NEW s \in Slot, session[s] = NoSession
    PROVE  Cardinality(liveHandles) < SlotCount
<1> DEFINE f == [h \in liveHandles |-> h.slot]
<1>1. f \in Injection(liveHandles, Slot \ {s})
    <2>1. f \in [liveHandles -> Slot \ {s}]
        BY LiveHandles
    <2>2. \A g, h \in liveHandles : g.slot = h.slot => g = h
        BY LiveHandles
    <2> QED BY <2>1, <2>2 DEF Injection, IsInjective
<1>2. IsFiniteSet(Slot) /\ Cardinality(Slot) = SlotCount
    BY Bounds, FS_Interval DEF Slot
<1>3. IsFiniteSet(Slot \ {s}) /\ Cardinality(Slot \ {s}) = SlotCount - 1
    BY <1>2, FS_RemoveElement
<1>4. IsFiniteSet(liveHandles) /\ Cardinality(liveHandles) <= SlotCount - 1
    BY <1>1, <1>3, FS_Injection
<1> QED BY <1>4, FS_CardinalityType, Bounds

\* A create opens a handle that was never used, while fewer than the promised sessions
\* are open.
LEMMA CreateOpens ==
    ASSUME Inv, Inv', NEW t \in Thread, Create(t)
    PROVE  \E h \in Handle : Promised!Open(h)
<1> DEFINE s == at[t]
           new == [slot |-> s, generation |-> generation[s] + 1]
           birth == Cardinality(DOMAIN issued) + 1
<1>1. /\ s \in Slot /\ session[s] = NoSession
      /\ new \notin DOMAIN issued /\ birth \in Nat \ {0}
      /\ DOMAIN issued' = DOMAIN issued \cup {new}
      /\ handle'[s] = new /\ session'[s] = [birth |-> birth, closed |-> FALSE]
      /\ \A q \in Slot \ {s} : handle'[q] = handle[q] /\ session'[q] = session[q]
    BY NewHandle
<1>2. new.slot = s
    OBVIOUS
<1>3. session'[s] # NoSession /\ ~session'[s].closed
    BY <1>1 DEF NoSession
<1> HIDE DEF new, birth
<1>4. liveHandles' = liveHandles \cup {new}
    <2>1. ASSUME NEW h, h \in liveHandles' PROVE h \in liveHandles \cup {new}
        <3>1. PICK q \in Slot : session'[q] # NoSession /\ handle'[q] = h
            BY <2>1 DEF liveHandles
        <3> QED BY <1>1, <3>1 DEF liveHandles
    <2>2. ASSUME NEW h, h \in liveHandles PROVE h \in liveHandles'
        <3>1. PICK q \in Slot : session[q] # NoSession /\ handle[q] = h
            BY <2>2 DEF liveHandles
        <3> QED BY <1>1, <3>1 DEF liveHandles
    <2>3. new \in liveHandles'
        BY <1>1, <1>3 DEF liveHandles
    <2> QED BY <2>1, <2>2, <2>3
<1>5. new \in Handle
    BY <1>1 DEF Inv, TypeOK
<1>6. liveBar' = [g \in liveHandles \cup {new} |-> IF g = new THEN "open" ELSE liveBar[g]]
    <2>1. new \notin liveHandles
        BY <1>1, LiveHandles
    <2>2. \A g \in liveHandles : g.slot \in Slot \ {s}
        BY <1>1, LiveHandles
    <2>3. \A g \in liveHandles \cup {new} :
              (IF session'[g.slot].closed THEN "closed" ELSE "open")
              = IF g = new THEN "open" ELSE liveBar[g]
        BY <1>1, <1>2, <1>3, <2>1, <2>2 DEF liveBar
    <2>4. liveBar' = [g \in liveHandles \cup {new} |-> IF session'[g.slot].closed THEN "closed" ELSE "open"]
        BY <1>4 DEF liveBar
    <2> QED BY <2>3, <2>4
<1>7. Cardinality(liveHandles) < SlotCount
    BY <1>1, RoomForOne
<1>8. DOMAIN liveBar = liveHandles
    BY DEF liveBar
<1>9. PICK h \in Handle : h = new
    BY <1>5
<1>10. Promised!Cardinality(liveHandles) = Cardinality(liveHandles)
    BY DEF Promised!Cardinality, Cardinality
<1>11. Promised!Open(h)
    <2>1. h \notin DOMAIN issued /\ DOMAIN issued' = DOMAIN issued \cup {h}
        BY <1>1, <1>9
    <2>2. Promised!Cardinality(DOMAIN liveBar) < SlotCount
        BY <1>7, <1>8, <1>10
    <2>3. liveBar' = [g \in DOMAIN liveBar \cup {h} |-> IF g = h THEN "open" ELSE liveBar[g]]
        BY <1>6, <1>8, <1>9
    <2> QED BY <2>1, <2>2, <2>3 DEF Promised!Open, liveBar
<1> QED BY <1>11

\* An exchange retires an open session, or nothing is seen of it.
LEMMA ExchangeRetires ==
    ASSUME Inv, NEW t \in Thread, Exchange(t)
    PROVE  (\E h \in Handle : Promised!Retire(h)) \/ UNCHANGED <<liveBar, DOMAIN issued>>
<1> DEFINE s == at[t]
           r == [session[s] EXCEPT !.closed = TRUE]
           h == handle[s]
<1>1. s \in Slot /\ session[s] \in Session /\ UNCHANGED <<handle, issued>>
    BY ExchangeDoes
<1>2. CASE UNCHANGED session
    BY <1>1, <1>2 DEF liveBar, liveHandles
<1>3. CASE ~session[s].closed /\ session' = [session EXCEPT ![s] = r]
    <2>1. session[s] # NoSession /\ r # NoSession /\ r.closed
        <3>1. r.birth # NoSession.birth /\ r.closed
            BY <1>1 DEF Session, NoSession
        <3> QED BY <1>1, <3>1, SessionsExist
    <2>2. session'[s] = r /\ \A q \in Slot \ {s} : session'[q] = session[q]
        BY <1>1, <1>3 DEF Inv, TypeOK
    <2> HIDE DEF r
    <2>3. liveHandles' = liveHandles
        BY <1>1, <2>1, <2>2 DEF liveHandles
    <2>4. h \in liveHandles /\ h.slot = s /\ h \in Handle
        BY <1>1, <2>1, LiveHandles DEF Inv, SlotInv, liveHandles
    <2>5. \A g \in liveHandles \ {h} : g.slot \in Slot \ {s}
        BY <2>4, LiveHandles
    <2>6. liveBar[h] = "open" /\ DOMAIN liveBar = liveHandles
        BY <1>3, <2>4 DEF liveBar
    <2>7. liveBar' = [liveBar EXCEPT ![h] = "closed"]
        <3>1. \A g \in liveHandles :
                  (IF session'[g.slot].closed THEN "closed" ELSE "open")
                  = IF g = h THEN "closed" ELSE liveBar[g]
            BY <2>1, <2>2, <2>4, <2>5 DEF liveBar
        <3>2. liveBar' = [g \in liveHandles |-> IF session'[g.slot].closed THEN "closed" ELSE "open"]
            BY <2>3 DEF liveBar
        <3>3. [liveBar EXCEPT ![h] = "closed"] = [g \in liveHandles |-> IF g = h THEN "closed" ELSE liveBar[g]]
            BY <2>6
        <3> QED BY <3>1, <3>2, <3>3
    <2>8. PICK k \in Handle : k = h
        BY <2>4
    <2>9. Promised!Retire(k)
        BY <1>1, <2>4, <2>6, <2>7, <2>8 DEF Promised!Retire, liveBar
    <2> QED BY <2>9
<1> QED BY <1>2, <1>3, ExchangeDoes

\* A destroy ends the session of its handle.
LEMMA DestroyEnds ==
    ASSUME Inv, NEW t \in Thread, Destroy(t)
    PROVE  \E h \in Handle : Promised!Destroy(h)
<1> DEFINE s == at[t]
           h == handle[s]
<1>1. /\ s \in Slot /\ session[s] # NoSession /\ UNCHANGED issued
      /\ session' = [session EXCEPT ![s] = NoSession]
      /\ handle' = [handle EXCEPT ![s] = NoHandle]
    BY DestroyFinds
<1>2. /\ session'[s] = NoSession
      /\ \A q \in Slot \ {s} : session'[q] = session[q] /\ handle'[q] = handle[q]
    BY <1>1 DEF Inv, TypeOK
<1>3. h \in liveHandles /\ h.slot = s /\ h \in Handle
    BY <1>1, LiveHandles DEF Inv, SlotInv, liveHandles
<1>4. \A g \in liveHandles \ {h} : g.slot \in Slot \ {s}
    BY <1>3, LiveHandles
<1>5. liveHandles' = liveHandles \ {h}
    <2>1. ASSUME NEW g, g \in liveHandles' PROVE g \in liveHandles \ {h}
        <3>1. PICK q \in Slot : session'[q] # NoSession /\ handle'[q] = g
            BY <2>1 DEF liveHandles
        <3>2. q # s /\ session[q] # NoSession /\ handle[q] = g
            BY <1>2, <3>1
        <3>3. g.slot = q
            BY <3>2 DEF Inv, SlotInv
        <3> QED BY <1>3, <3>2, <3>3 DEF liveHandles
    <2>2. ASSUME NEW g \in liveHandles \ {h} PROVE g \in liveHandles'
        <3>1. g.slot \in Slot \ {s} /\ session[g.slot] # NoSession /\ handle[g.slot] = g
            BY <1>4, <2>2, LiveHandles
        <3> QED BY <1>2, <3>1 DEF liveHandles
    <2> QED BY <2>1, <2>2
<1>6. liveBar' = [g \in liveHandles \ {h} |-> liveBar[g]]
    <2>1. \A g \in liveHandles \ {h} :
              (IF session'[g.slot].closed THEN "closed" ELSE "open") = liveBar[g]
        BY <1>2, <1>4 DEF liveBar
    <2>2. liveBar' = [g \in liveHandles \ {h} |-> IF session'[g.slot].closed THEN "closed" ELSE "open"]
        BY <1>5 DEF liveBar
    <2> QED BY <2>1, <2>2
<1>7. DOMAIN liveBar = liveHandles
    BY DEF liveBar
<1>8. PICK k \in Handle : k = h
    BY <1>3
<1>9. Promised!Destroy(k)
    BY <1>1, <1>3, <1>6, <1>7, <1>8 DEF Promised!Destroy, liveBar
<1> QED BY <1>9

\* Whatever threads do at once, what callers see is the handle table the header
\* promises: fresh handles, at most SlotCount sessions, and each ended by its own handle
\* (abi.cpp; fluidgateway_native.h).
THEOREM SlotsImplementHandleTable == Spec => ImplementsHandleTable
<1>1. Init => Promised!Init
    <2> SUFFICES ASSUME Init PROVE Promised!Init
        OBVIOUS
    <2>1. liveHandles = {} /\ DOMAIN issued = {}
        BY DEF Init, liveHandles
    <2> QED BY <2>1 DEF Promised!Init
<1>2. Inv /\ Inv' /\ [Next]_vars => [Promised!Next]_(Promised!vars)
    <2> SUFFICES ASSUME Inv, Inv', [Next]_vars
                 PROVE  Promised!Next \/ UNCHANGED <<liveBar, DOMAIN issued>>
        BY DEF Promised!vars, liveBar
    <2>1. CASE UNCHANGED <<session, handle, issued>>
        BY <2>1 DEF liveBar, liveHandles
    <2>2. ASSUME NEW t \in Thread, Create(t) \/ Exchange(t) \/ Destroy(t)
          PROVE  Promised!Next \/ UNCHANGED <<liveBar, DOMAIN issued>>
        BY <2>2, CreateOpens, ExchangeRetires, DestroyEnds DEF Promised!Next
    <2> QED BY <2>1, <2>2, SessionSteps
<1> QED BY <1>1, <1>2, InvInit, InvNext, PTL DEF Spec, ImplementsHandleTable, Promised!Spec
=============================================================================
