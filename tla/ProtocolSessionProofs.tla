----------------------- MODULE ProtocolSessionProofs -----------------------
(***************************************************************************)
(* Theorems about ProtocolSession: what the core holds is what the client  *)
(* was told, within the limits, for batches of any length, and a session   *)
(* is negotiated once and ends once. And about TwinSessions: that the      *)
(* Python sessions agree with the native one on every frame.               *)
(***************************************************************************)
EXTENDS TwinSessions, TwinOpsProofs, FiniteSetTheorems, WellFoundedInduction

-----------------------------------------------------------------------------
(* Induction.                                                              *)

\* A set that holds zero and the successor of every number in it holds every number: the
\* least number outside it would have a predecessor inside.
LEMMA InductiveSet ==
    ASSUME NEW S, 0 \in S, \A n \in Nat \cap S : n + 1 \in S
    PROVE  Nat \subseteq S
<1> DEFINE Less == OpToRel(<, Nat)
<1>1. IsWellFoundedOn(Less, Nat)
  BY NatLessThanWellFounded
<1>2. Less = {p \in Nat \X Nat : p[1] < p[2]}
  BY DEF OpToRel
<1> HIDE DEF Less
<1> SUFFICES ASSUME Nat \ S # {} PROVE FALSE
  OBVIOUS
<1>3. PICK least \in Nat \ S : \A n \in Nat \ S : <<n, least>> \notin Less
  BY <1>1, WFMin
<1>4. least - 1 \in Nat /\ (least - 1) + 1 = least
  BY <1>3
<1>5. <<least - 1, least>> \in Less
  BY <1>2, <1>3, <1>4
<1>6. least - 1 \in S
  BY <1>3, <1>4, <1>5
<1> QED BY <1>3, <1>4, <1>6

-----------------------------------------------------------------------------
(* What requests do to the core.                                           *)

\* The tables of a core are within their limits.
Within(c) ==
    /\ IsFiniteSet(Registered(c)) /\ Cardinality(Registered(c)) <= ResourceLimit
    /\ IsFiniteSet(Processed(c)) /\ Cardinality(Processed(c)) <= OperationLimit

\* Nothing that was processed by c is lost or changed in d.
Keeps(c, d) == \A o \in Processed(c) : o \in Processed(d) /\ d.operations[o] = c.operations[o]

\* A table that is not full has room for one more.
LEMMA RoomForOne ==
    ASSUME NEW S, IsFiniteSet(S), NEW limit \in Nat, Cardinality(S) <= limit,
           Cardinality(S) # limit, NEW x
    PROVE  IsFiniteSet(S \cup {x}) /\ Cardinality(S \cup {x}) <= limit
<1>1. Cardinality(S) \in Nat
  BY FS_CardinalityType
<1>2. /\ IsFiniteSet(S \cup {x})
      /\ Cardinality(S \cup {x}) = IF x \in S THEN Cardinality(S) ELSE Cardinality(S) + 1
  BY FS_AddElement
<1> QED BY <1>1, <1>2

\* One operation: it is answered and stored, refused with the core as it was, or
\* the session ends with at most its record stored.
LEMMA OperationOutcome ==
    ASSUME NEW c, IsCore(c), Within(c), NEW id \in OperationId, NEW op \in Request,
           NEW o \in OperationOutcomes(c, id, op)
    PROVE  /\ IsCore(o.core) /\ Within(o.core)
           /\ Keeps(c, o.core)
           /\ o.fatal \in BOOLEAN
           /\ \/ o.answered = {id} /\ Processed(o.core) = Processed(c) \cup {id}
              \/ o.answered = {} /\ (o.fatal \/ o.core = c)
<1>1. CASE ~CanProcess(c, id)
  <2>1. o = Outcome(c, FALSE, {})
    BY <1>1 DEF OperationOutcomes
  <2> QED BY <2>1 DEF Outcome, Keeps
<1>2. CASE CanProcess(c, id) /\ OperationTableFull(c)
  <2>1. o = Ended(c)
    BY <1>2 DEF OperationOutcomes
  <2> QED BY <2>1 DEF Ended, Outcome, Keeps
<1>3. CASE CanProcess(c, id) /\ ~OperationTableFull(c)
  <2>1. IsFiniteSet(Processed(c) \cup {id}) /\ Cardinality(Processed(c) \cup {id}) <= OperationLimit
    BY <1>3, RoomForOne, LimitsArePositive DEF OperationTableFull, Within
  <2>2. CASE o = Outcome(Process(c, id, op), FALSE, {id})
    <3>1. /\ IsCore(Process(c, id, op))
          /\ Registered(Process(c, id, op)) = Registered(c)
          /\ Processed(Process(c, id, op)) = Processed(c) \cup {id}
          /\ Keeps(c, Process(c, id, op))
      BY <1>3, ProcessType DEF Keeps, CanProcess
    <3>2. o.core = Process(c, id, op) /\ o.fatal = FALSE /\ o.answered = {id}
      BY <2>2 DEF Outcome
    <3> QED BY <2>1, <3>1, <3>2 DEF Within
  <2>3. CASE \E d \in ProcessCutShort(c, id, op) : o = Ended(d)
    <3>1. PICK d \in ProcessCutShort(c, id, op) : o = Ended(d)
      BY <2>3
    <3>2. /\ IsCore(d)
          /\ Registered(d) = Registered(c)
          /\ d = c \/ Processed(d) = Processed(c) \cup {id}
          /\ Keeps(c, d)
      BY <1>3, CutShortType DEF Registered, Keeps, CanProcess
    <3>3. o.core = d /\ o.fatal = TRUE /\ o.answered = {}
      BY <3>1 DEF Ended, Outcome
    <3> QED BY <2>1, <3>2, <3>3 DEF Within
  <2> QED BY <1>3, <2>2, <2>3 DEF OperationOutcomes
<1> QED BY <1>1, <1>2, <1>3

-----------------------------------------------------------------------------
(* Batches.                                                                *)

\* The recursive definition of BatchCores has a solution, so BatchCores is one.
LEMMA BatchCoresDefined ==
    ASSUME NEW b, b.count \in Nat
    PROVE  BatchCores(b) =
             [i \in 0..b.count |->
                IF i = 0 THEN {core}
                ELSE {o.core : o \in {p \in BatchStep(b, BatchCores(b)[i - 1], i) :
                                        p.answered # {}}}]
<1> DEFINE Answered(cores, i) == {o.core : o \in {p \in BatchStep(b, cores, i) : p.answered # {}}}
           IsRun(run, n) == run = [i \in 0..n |-> IF i = 0 THEN {core} ELSE Answered(run[i - 1], i)]
           Solved == {n \in Nat : \E run : IsRun(run, n)}
<1>1. BatchCores(b) = CHOOSE run : IsRun(run, b.count)
  BY DEF BatchCores
<1> HIDE DEF Answered
<1>2. 0 \in Solved
  <2>1. IsRun([i \in 0..0 |-> {core}], 0)
    OBVIOUS
  <2> QED BY <2>1
<1>3. ASSUME NEW n \in Nat \cap Solved PROVE n + 1 \in Solved
  <2>1. PICK run : IsRun(run, n)
    BY <1>3
  <2> DEFINE longer == [i \in 0..(n + 1) |-> IF i = n + 1 THEN Answered(run[n], n + 1) ELSE run[i]]
  <2>2. \A i \in 0..n : longer[i] = run[i]
    OBVIOUS
  <2>3. IsRun(longer, n + 1)
    <3>1. ASSUME NEW i \in 0..(n + 1)
          PROVE  longer[i] = IF i = 0 THEN {core} ELSE Answered(longer[i - 1], i)
      <4>1. CASE i = n + 1
        <5>1. longer[i - 1] = run[n] /\ i # 0
          BY <2>2, <4>1
        <5> QED BY <4>1, <5>1
      <4>2. CASE i # n + 1
        <5>1. i \in 0..n /\ longer[i] = run[i] /\ (i # 0 => longer[i - 1] = run[i - 1])
          BY <2>2, <4>2
        <5> QED BY <2>1, <5>1
      <4> QED BY <4>1, <4>2
    <3> QED BY <3>1
  <2> HIDE DEF IsRun, longer
  <2> QED BY <2>3
<1>4. \E run : IsRun(run, b.count)
  <2> HIDE DEF IsRun
  <2>1. Nat \subseteq Solved
    <3> HIDE DEF Solved
    <3> QED BY <1>2, <1>3, InductiveSet
  <2> QED BY <2>1
<1>5. IsRun(BatchCores(b), b.count)
  <2> HIDE DEF IsRun
  <2> QED BY <1>1, <1>4
<1> QED BY <1>5 DEF Answered

\* After i operations a batch has stored, and will answer, exactly its first i.
LEMMA BatchProgress ==
    ASSUME IsCore(core), Within(core), NEW b, b.count \in Nat, b.op \in Request,
           \A k \in 0..(b.count - 1) : <<b.batch, k>> \in OperationId
    PROVE  \A i \in 0..b.count : \A c \in BatchCores(b)[i] :
               /\ IsCore(c) /\ Within(c) /\ Keeps(core, c)
               /\ Processed(c) = Processed(core) \cup {<<b.batch, k>> : k \in 0..(i - 1)}
<1> DEFINE Reached(i, c) ==
             /\ IsCore(c) /\ Within(c) /\ Keeps(core, c)
             /\ Processed(c) = Processed(core) \cup {<<b.batch, k>> : k \in 0..(i - 1)}
           Good == {i \in Nat : i <= b.count => \A c \in BatchCores(b)[i] : Reached(i, c)}
<1>1. 0 \in Good
  <2>1. BatchCores(b)[0] = {core}
    BY BatchCoresDefined
  <2>2. {<<b.batch, k>> : k \in 0..(0 - 1)} = {}
    OBVIOUS
  <2> QED BY <2>1, <2>2 DEF Keeps
<1>2. ASSUME NEW i \in Nat \cap Good PROVE i + 1 \in Good
  <2> SUFFICES ASSUME i + 1 <= b.count, NEW c \in BatchCores(b)[i + 1]
               PROVE  Reached(i + 1, c)
    OBVIOUS
  <2>1. BatchCores(b)[i + 1] =
          {o.core : o \in {p \in BatchStep(b, BatchCores(b)[i], i + 1) : p.answered # {}}}
    BY BatchCoresDefined
  <2>2. PICK o \in BatchStep(b, BatchCores(b)[i], i + 1) : o.answered # {} /\ c = o.core
    BY <2>1
  <2>3. PICK d \in BatchCores(b)[i] : o \in OperationOutcomes(d, <<b.batch, i>>, b.op)
    BY <2>2 DEF BatchStep
  <2>4. Reached(i, d)
    BY <1>2, <2>3
  <2>5. <<b.batch, i>> \in OperationId
    OBVIOUS
  <2>6. /\ IsCore(c) /\ Within(c) /\ Keeps(d, c)
        /\ Processed(c) = Processed(d) \cup {<<b.batch, i>>}
    BY <2>2, <2>3, <2>4, <2>5, OperationOutcome
  <2>7. {<<b.batch, k>> : k \in 0..((i + 1) - 1)} =
          {<<b.batch, k>> : k \in 0..(i - 1)} \cup {<<b.batch, i>>}
    OBVIOUS
  <2>8. Keeps(core, c)
    BY <2>4, <2>6 DEF Keeps
  <2> QED BY <2>4, <2>6, <2>7, <2>8
<1>3. Nat \subseteq Good
  <2> HIDE DEF Good
  <2> QED BY <1>1, <1>2, InductiveSet
<1> QED BY <1>3

\* What an event may do: the core stays a core within its limits, loses nothing, and
\* unless the session ends holds just what the answer tells.
Accounted(o) ==
    /\ IsCore(o.core) /\ Within(o.core)
    /\ o.fatal \in BOOLEAN
    /\ Keeps(core, o.core)
    /\ o.answered \subseteq Processed(o.core)
    /\ ~o.fatal => Processed(o.core) = Processed(core) \cup o.answered

\* A batch is answered as a whole or ends the session.
LEMMA BatchOutcome ==
    ASSUME IsCore(core), Within(core), NEW b, b.count \in Nat, b.op \in Request,
           \A k \in 0..(b.count - 1) : <<b.batch, k>> \in OperationId,
           NEW o \in BatchOutcomes(b)
    PROVE  Accounted(o)
<1>1. CASE \E c \in BatchCores(b)[b.count] : o = Outcome(c, FALSE, BatchIds(b))
  <2>1. PICK c \in BatchCores(b)[b.count] : o = Outcome(c, FALSE, BatchIds(b))
    BY <1>1
  <2>2. /\ IsCore(c) /\ Within(c) /\ Keeps(core, c)
        /\ Processed(c) = Processed(core) \cup BatchIds(b)
    BY BatchProgress DEF BatchIds
  <2>3. o.core = c /\ o.fatal = FALSE /\ o.answered = BatchIds(b)
    BY <2>1 DEF Outcome
  <2> QED BY <2>2, <2>3 DEF Accounted
<1>2. CASE \E i \in 1..b.count : \E c \in BatchStops(b, i) : o = Ended(c)
  <2>0. PICK i \in 1..b.count : \E c \in BatchStops(b, i) : o = Ended(c)
    BY <1>2
  <2>1. PICK c \in BatchStops(b, i) : o = Ended(c)
    BY <2>0
  <2>2. PICK p \in BatchStep(b, BatchCores(b)[i - 1], i) : p.answered = {} /\ c = p.core
    BY <2>1 DEF BatchStops
  <2>3. PICK d \in BatchCores(b)[i - 1] : p \in OperationOutcomes(d, <<b.batch, i - 1>>, b.op)
    BY <2>2 DEF BatchStep
  <2>4. i - 1 \in 0..b.count /\ i - 1 \in 0..(b.count - 1)
    OBVIOUS
  <2>5. IsCore(d) /\ Within(d) /\ Keeps(core, d)
    BY <2>3, <2>4, BatchProgress
  <2>6. IsCore(c) /\ Within(c) /\ Keeps(d, c)
    BY <2>2, <2>3, <2>4, <2>5, OperationOutcome
  <2>7. o.core = c /\ o.fatal = TRUE /\ o.answered = {}
    BY <2>1 DEF Ended, Outcome
  <2> QED BY <2>5, <2>6, <2>7 DEF Accounted, Keeps
<1> QED BY <1>1, <1>2 DEF BatchOutcomes

\* Whatever a well formed event asks, what becomes of it is accounted for.
LEMMA EventOutcome ==
    ASSUME IsCore(core), Within(core), NEW b, b.wellFormed => EventBody(b),
           NEW o \in EventOutcomes(b)
    PROVE  Accounted(o)
<1>1. CASE o = Unchanged
  BY <1>1 DEF Unchanged, Outcome, Accounted, Keeps
<1>2. CASE b.wellFormed /\ b.subject = "frame" /\ o # Unchanged
  <2>1. o \in FrameOutcomes(b) /\ b.frame \in FrameId
    BY <1>2 DEF EventOutcomes, EventBody
  <2>2. PICK c \in {BeginFrame(core, b.frame), EndFrame(core)} : o = Done(c)
    BY <1>2, <2>1 DEF FrameOutcomes
  <2>3. /\ IsCore(c) /\ Registered(c) = Registered(core) /\ Processed(c) = Processed(core)
        /\ c.operations = core.operations
    BY <2>1 DEF BeginFrame, EndFrame, IsCore, Registered, Processed
  <2>4. o.core = c /\ o.fatal = FALSE /\ o.answered = {}
    BY <2>2 DEF Done, Outcome
  <2> QED BY <2>3, <2>4 DEF Accounted, Within, Keeps
<1>3. CASE b.wellFormed /\ b.subject = "resource" /\ o # Unchanged
  <2>1. o \in ResourceOutcomes(b)
    BY <1>3 DEF EventOutcomes
  <2>2. CASE b.action = "release"
    <3> DEFINE c == ReleaseResource(core, b.id)
    <3>1. o.core = c /\ o.fatal = FALSE /\ o.answered = {}
      BY <2>1, <2>2 DEF ResourceOutcomes, Done, Outcome
    <3>2. /\ IsCore(c) /\ Registered(c) \in SUBSET Registered(core)
          /\ Processed(c) = Processed(core) /\ c.operations = core.operations
      BY ReleaseType DEF Processed
    <3> HIDE DEF c
    <3>3. Within(c)
      <4>1. /\ IsFiniteSet(Registered(c))
            /\ Cardinality(Registered(c)) <= Cardinality(Registered(core))
        BY <3>2, FS_Subset DEF Within
      <4>2. Cardinality(Registered(c)) \in Nat /\ Cardinality(Registered(core)) \in Nat
        BY <4>1, FS_CardinalityType DEF Within
      <4> QED BY <3>2, <4>1, <4>2, LimitsArePositive DEF Within
    <3> QED BY <3>1, <3>2, <3>3 DEF Accounted, Keeps
  <2>3. CASE b.action = "register"
    <3>1. b.id \in ResourceId /\ b.view \in View
      BY <1>3, <2>3 DEF EventBody
    <3>0. \A id \in ResourceId, view \in View :
             /\ IsCore(RegisterResource(core, id, view))
             /\ Registered(RegisterResource(core, id, view)) = Registered(core) \cup {id}
             /\ RegisterResource(core, id, view).operations = core.operations
      BY RegisterType
    <3> DEFINE c == RegisterResource(core, b.id, b.view)
    <3>2. \/ o = Ended(core)
          \/ ~ResourceTableFull(core) /\ o = Done(c)
      BY <1>3, <2>1, <2>3 DEF ResourceOutcomes
    <3>3. /\ IsCore(c) /\ Registered(c) = Registered(core) \cup {b.id}
          /\ c.operations = core.operations
      BY <3>0, <3>1
    <3> HIDE DEF c
    <3>6. Processed(c) = Processed(core)
      BY <3>3 DEF Processed
    <3>4. CASE o = Ended(core)
      BY <3>4 DEF Ended, Outcome, Accounted, Keeps
    <3>5. CASE ~ResourceTableFull(core) /\ o = Done(c)
      <4>1. IsFiniteSet(Registered(core)) /\ Cardinality(Registered(core)) <= ResourceLimit
            /\ Cardinality(Registered(core)) # ResourceLimit
        BY <3>5 DEF ResourceTableFull, Within
      <4>2. IsFiniteSet(Registered(c)) /\ Cardinality(Registered(c)) <= ResourceLimit
        BY <3>3, <4>1, RoomForOne, LimitsArePositive
      <4>3. Within(c)
        BY <3>6, <4>2 DEF Within
      <4> QED BY <3>3, <3>5, <3>6, <4>3 DEF Done, Outcome, Accounted, Keeps
    <3> QED BY <3>2, <3>4, <3>5
  <2> QED BY <1>3, <2>2, <2>3 DEF EventBody
<1>4. CASE b.wellFormed /\ b.subject = "operation"
  <2>1. o \in OperationOutcomes(core, b.id, b.op) /\ b.id \in OperationId /\ b.op \in Request
    BY <1>4 DEF EventOutcomes, EventBody
  <2>2. /\ IsCore(o.core) /\ Within(o.core) /\ o.fatal \in BOOLEAN
        /\ Keeps(core, o.core)
        /\ \/ o.answered = {b.id} /\ Processed(o.core) = Processed(core) \cup {b.id}
           \/ o.answered = {} /\ (o.fatal \/ o.core = core)
    BY <2>1, OperationOutcome
  <2> QED BY <2>2 DEF Accounted, Keeps
<1>5. CASE b.wellFormed /\ b.subject = "batch" /\ o # Unchanged
  <2>1. o \in BatchOutcomes(b)
    BY <1>5 DEF EventOutcomes
  <2>2. /\ b.count \in Nat /\ b.op \in Request
        /\ \A k \in 0..(b.count - 1) : <<b.batch, k>> \in OperationId
    BY <1>5 DEF EventBody
  <2> QED BY <2>1, <2>2, BatchOutcome
<1>6. CASE ~b.wellFormed \/ b.subject \in {"session", "snapshot", "unknown"}
  BY <1>1, <1>6 DEF EventOutcomes
<1> QED BY <1>1, <1>2, <1>3, <1>4, <1>5, <1>6 DEF EventBody

-----------------------------------------------------------------------------
(* The session.                                                            *)

\* The inductive invariant.  Unless the session has ended what is processed is what was
\* answered; afterwards the answers are still among it.
SessionInv ==
    /\ TypeOK
    /\ Within(core)
    /\ CoreIsAnswered
    /\ GrantedBeforeUse

\* An event leaves what it found in order, and touches only a session that has been
\* granted the runtime.
LEMMA EventKeeps ==
    ASSUME SessionInv, NEW f \in Frames, NEW n \in 1..MaxSequence, Event(f, n)
    PROVE  SessionInv'
<1>1. PICK o \in IF f.plain /\ Runtime \subseteq capabilities
                 THEN EventOutcomes(f.body) ELSE {Unchanged} :
        /\ core' = o.core
        /\ \/ closed' = o.fatal /\ answered' = answered \cup o.answered
           \/ closed' = TRUE /\ UNCHANGED answered
  BY DEF Event
<1>2. /\ f.opcode = "event" /\ ~closed /\ negotiated
      /\ sequence' = sequence + 1 /\ sequence # MaxSequence
      /\ UNCHANGED <<negotiated, capabilities, batch>>
  BY DEF Event, Consume, Admissible
<1>3. IsCore(core) /\ Within(core) /\ answered = Processed(core)
  BY <1>2 DEF SessionInv, TypeOK, CoreIsAnswered
<1>4. Accounted(o)
  <2>1. CASE o = Unchanged
    BY <1>3, <2>1 DEF Unchanged, Outcome, Accounted, Keeps
  <2>2. CASE o \in EventOutcomes(f.body)
    <3>1. f.body.wellFormed => EventBody(f.body)
      BY <1>2, EventsAreEvents
    <3> QED BY <1>3, <2>2, <3>1, EventOutcome
  <2> QED BY <1>1, <2>1, <2>2
<1>5. core' # core => Runtime \subseteq capabilities
  BY <1>1 DEF Unchanged, Outcome
<1>6. TypeOK'
  <2>1. sequence' \in 1..MaxSequence
    BY <1>2, MaxSequenceIsPositive DEF SessionInv, TypeOK
  <2>2. IsCore(core') /\ closed' \in BOOLEAN
    BY <1>1, <1>4 DEF Accounted
  <2>3. answered' \subseteq Processed(core')
    BY <1>1, <1>3, <1>4 DEF Accounted, Keeps
  <2> QED BY <1>2, <2>1, <2>2, <2>3 DEF SessionInv, TypeOK
<1>7. Within(core)' /\ CoreIsAnswered'
  BY <1>1, <1>3, <1>4 DEF Accounted, CoreIsAnswered, Within
<1>8. GrantedBeforeUse'
  BY <1>2, <1>5 DEF SessionInv, GrantedBeforeUse
<1> QED BY <1>6, <1>7, <1>8 DEF SessionInv

\* A handshake grants batches with their contract, and only then.
LEMMA HelloKeeps ==
    ASSUME SessionInv, NEW f \in Frames, NEW n \in 1..MaxSequence, Hello(f, n)
    PROVE  SessionInv'
<1>1. /\ ~negotiated /\ sequence' = sequence + 1 /\ sequence # MaxSequence
      /\ batch' = (f.body.contract = "batch")
      /\ capabilities' = (f.body.requested \cup f.body.required) \cap Available(f)
      /\ negotiated' = TRUE /\ closed' \in BOOLEAN
      /\ UNCHANGED <<core, answered>>
      /\ ~closed /\ CanNegotiate(f)
  BY DEF Hello, Consume, Admissible
<1>2. core = EmptyCore
  BY <1>1 DEF SessionInv, GrantedBeforeUse
<1>3. Batch \in capabilities' <=> batch'
  BY <1>1 DEF CanNegotiate, Available, Offered, Batch
<1>4. TypeOK'
  BY <1>1, MaxSequenceIsPositive DEF SessionInv, TypeOK, Available
<1>5. CoreIsAnswered' /\ Within(core)'
  BY <1>1 DEF SessionInv, CoreIsAnswered, Within
<1>6. core' = EmptyCore
  BY <1>1, <1>2
<1>7. GrantedBeforeUse'
  BY <1>1, <1>3, <1>6 DEF GrantedBeforeUse, EmptyCore
<1> QED BY <1>4, <1>5, <1>7 DEF SessionInv

\* The inductive invariant holds of every session.
THEOREM SessionInvariant == Spec => []SessionInv
<1>1. Init => SessionInv
  <2> SUFFICES ASSUME Init PROVE SessionInv
    OBVIOUS
  <2>1. IsCore(core) /\ Registered(core) = {} /\ Processed(core) = {}
    BY DEF Init, EmptyCore, IsCore, Registered, Processed
  <2>2. Within(core)
    BY <2>1, FS_EmptySet, LimitsArePositive DEF Within
  <2>3. TypeOK
    <3>1. sequence \in 1..MaxSequence
      BY MaxSequenceIsPositive DEF Init
    <3> QED BY <2>1, <3>1 DEF Init, TypeOK
  <2>4. CoreIsAnswered /\ GrantedBeforeUse
    BY <2>1 DEF Init, CoreIsAnswered, GrantedBeforeUse
  <2> QED BY <2>2, <2>3, <2>4 DEF SessionInv
<1>2. SessionInv /\ [Next]_vars => SessionInv'
  <2> SUFFICES ASSUME SessionInv, [Next]_vars PROVE SessionInv'
    OBVIOUS
  <2>1. CASE /\ closed' \in {closed, TRUE} /\ sequence' \in 1..MaxSequence
             /\ UNCHANGED <<core, negotiated, capabilities, batch, answered>>
    <3>1. TypeOK'
      BY <2>1 DEF SessionInv, TypeOK
    <3>2. Within(core)' /\ GrantedBeforeUse'
      BY <2>1 DEF SessionInv, Within, GrantedBeforeUse
    <3>3. CoreIsAnswered'
      <4>1. closed \in BOOLEAN
        BY DEF SessionInv, TypeOK
      <4>2. ~closed' => ~closed
        BY <2>1, <4>1
      <4> QED BY <2>1, <4>2 DEF SessionInv, CoreIsAnswered
    <3> QED BY <3>1, <3>2, <3>3 DEF SessionInv
  <2>2. ASSUME NEW f \in Frames, NEW n \in 1..MaxSequence, Arrive(f, n) PROVE SessionInv'
    <3>1. sequence \in 1..MaxSequence /\ (sequence # MaxSequence => sequence + 1 \in 1..MaxSequence)
      BY MaxSequenceIsPositive DEF SessionInv, TypeOK
    <3>2. CASE Refuse(f, n) \/ SequenceExhausted(f, n)
      BY <2>1, <3>1, <3>2 DEF Refuse, SequenceExhausted, vars
    <3>3. CASE NoEffect(f, n) \/ Goodbye(f, n) \/ OutOfMemory(f, n)
      BY <2>1, <3>1, <3>3 DEF NoEffect, Goodbye, OutOfMemory, Consume
    <3>4. CASE HelloRefused(f, n)
      BY <3>1, <3>4 DEF HelloRefused, Consume, SessionInv, TypeOK, CoreIsAnswered, GrantedBeforeUse,
                        Within
    <3> QED BY <2>2, <3>2, <3>3, <3>4, HelloKeeps, EventKeeps DEF Arrive
  <2>3. CASE Undecodable \/ UNCHANGED vars
    BY <2>1, <2>3 DEF Undecodable, vars, SessionInv, TypeOK
  <2> QED BY <2>2, <2>3 DEF Next
<1> QED BY <1>1, <1>2, PTL DEF Spec

\* Every reachable state of a session is well typed, and what was answered was processed.
THEOREM TypeCorrect == Spec => []TypeOK
<1>1. SessionInv => TypeOK
  BY DEF SessionInv
<1> QED BY <1>1, SessionInvariant, PTL

\* Until the session ends the client has been told exactly what the core holds
\* (ProtocolSession::handle answers a batch as a whole or fails), for batches of any length.
THEOREM CoreIsAlwaysAnswered == Spec => []CoreIsAnswered
<1>1. SessionInv => CoreIsAnswered
  BY DEF SessionInv
<1> QED BY <1>1, SessionInvariant, PTL

\* Nothing reaches the core without the runtime capabilities, and batches are granted with
\* their contract.
THEOREM GrantedAlwaysBeforeUse == Spec => []GrantedBeforeUse
<1>1. SessionInv => GrantedBeforeUse
  BY DEF SessionInv
<1> QED BY <1>1, SessionInvariant, PTL

\* The tables of a session never outgrow their limits, wherever a batch stops.
THEOREM TablesStayWithinLimits == Spec => []WithinLimits
<1>1. SessionInv => WithinLimits
  BY DEF SessionInv, Within, WithinLimits
<1> QED BY <1>1, SessionInvariant, PTL

\* A request acts at most once, before the session ends: what acts uses up its sequence
\* number.
THEOREM ActsAtMostOnce == Spec => ActsOncePerSequence
<1> DEFINE Once == /\ sequence' \in {sequence, sequence + 1}
                   /\ <<core, answered, negotiated, batch>>' # <<core, answered, negotiated, batch>>
                          => ~closed /\ sequence' = sequence + 1
                   /\ closed => closed'
<1>1. TypeOK /\ [Next]_vars => [Once]_vars
  BY DEF TypeOK, Next, Undecodable, Arrive, Refuse, SequenceExhausted, Hello, HelloRefused, Event, NoEffect,
         Goodbye, OutOfMemory, Consume, Admissible, vars
<1>2. [][Once]_vars <=> ActsOncePerSequence
  BY DEF ActsOncePerSequence
<1> QED BY <1>1, <1>2, TypeCorrect, PTL DEF Spec

\* What was negotiated stays for the whole session.
THEOREM NegotiatedAtMostOnce == Spec => NegotiatedOnce
<1>1. [Next]_vars => [negotiated => UNCHANGED <<negotiated, capabilities, batch>>]_vars
  BY DEF Next, Undecodable, Arrive, Refuse, SequenceExhausted, Hello, HelloRefused, Event, NoEffect,
         Goodbye, OutOfMemory, vars
<1> QED BY <1>1, PTL DEF Spec, NegotiatedOnce

\* A session that has ended does nothing any more, whatever arrives.
THEOREM ClosedIsAlwaysFinal == Spec => ClosedIsFinal
<1>1. TypeOK /\ [Next]_vars => [closed => UNCHANGED vars]_vars
  BY DEF TypeOK, Next, Undecodable, Arrive, Refuse, SequenceExhausted, Hello, HelloRefused, Event,
         NoEffect, Goodbye, OutOfMemory, Consume, Admissible, vars
<1> QED BY <1>1, TypeCorrect, PTL DEF Spec, ClosedIsFinal

-----------------------------------------------------------------------------
(* The Python sessions: what each function makes of the session record.    *)

IsSession(p) ==
    /\ p = [expected |-> p.expected, negotiated |-> p.negotiated, accepted |-> p.accepted,
            batch |-> p.batch, closed |-> p.closed, state |-> p.state, frame |-> p.frame,
            answered |-> p.answered, json |-> p.json]
    /\ IsState(p.state)
    /\ p.closed \in BOOLEAN

\* Of what state s has taken in the decisions told are those of the operations told; the
\* others, which an answer of fixed width had no room for, were eliminated and are
\* relied on by nothing.
Honest(s, told, json) ==
    /\ told \subseteq s.ids
    /\ json => s.ids \subseteq told
    /\ s.ids \ told \subseteq DOMAIN s.replacements
    /\ Relied(s) \subseteq told

\* Unless the session has ended, what was taken in was told.
Sent(p) == IsSession(p) /\ (~p.closed => Honest(p.state, p.answered, p.json))

\* The same number is expected next, and the same was negotiated.
Continues(q, p) ==
    /\ q.expected = p.expected /\ q.negotiated = p.negotiated
    /\ q.accepted = p.accepted /\ q.batch = p.batch /\ q.json = p.json

\* The operations of core c whose saving an answer of v2 has no room for.
OversizedIn(c) == {o \in Processed(c) : ~FitsField(c.operations[o].bytes)}

\* Session p has told the decisions of ids, but for those it had no room for.
Tells(p, c, ids) ==
    /\ p.answered \subseteq ids
    /\ ids \ p.answered \subseteq IF p.json THEN {} ELSE OversizedIn(c)

\* Session p is open, its state tracks core c and the decisions of ids are told.
Matches(p, c, ids) ==
    /\ ~p.closed /\ Tracks(c, p.state) /\ p.frame = c.currentFrame
    /\ Tells(p, c, ids)

-----------------------------------------------------------------------------
(* What is told, and what is relied on.                                    *)

\* Operations processed are told as before, whatever else a core goes through.
LEMMA TellsOn ==
    ASSUME NEW p, NEW c, NEW ids, Tells(p, c, ids), NEW q, q.answered = p.answered,
           q.json = p.json, NEW d, d.operations = c.operations
    PROVE  Tells(q, d, ids)
BY DEF Tells, OversizedIn, Processed

\* A write makes nothing else relied on.
LEMMA InvalidateRelied ==
    ASSUME NEW s, IsState(s), NEW id, NEW t, t = InvalidateResource(s, id)
    PROVE  /\ IsState(t) /\ t.ids = s.ids /\ t.replacements = s.replacements
           /\ t.activeBuffers = s.activeBuffers
           /\ DOMAIN t.lastCopy \subseteq DOMAIN s.lastCopy
           /\ \A r \in DOMAIN t.lastCopy : t.lastCopy[r] = s.lastCopy[r]
<1>1. PICK S : t = [s EXCEPT !.lastCopy = Without(s.lastCopy, S)]
  BY DEF InvalidateResource
<1>2. /\ IsState(t) /\ t.ids = s.ids /\ t.replacements = s.replacements
      /\ t.activeBuffers = s.activeBuffers /\ t.lastCopy = Without(s.lastCopy, S)
  BY <1>1 DEF IsState
<1> QED BY <1>2 DEF Without

\* Nor does a resource that comes or goes.
LEMMA ResourceHonest ==
    ASSUME NEW s, IsState(s), NEW told, NEW json, Honest(s, told, json), NEW id, NEW view
    PROVE  /\ Honest(RegisterState(s, id, view), told, json)
           /\ Honest(ReleaseState(s, id), told, json)
<1>1. Honest(RegisterState(s, id, view), told, json)
  <2>1. PICK f : RegisterState(s, id, view) = [s EXCEPT !.resources = f]
    BY DEF RegisterState
  <2>2. PICK t : t = RegisterState(s, id, view)
    OBVIOUS
  <2>3. /\ t.ids = s.ids /\ t.replacements = s.replacements /\ t.lastCopy = s.lastCopy
        /\ t.activeBuffers = s.activeBuffers
    BY <2>1, <2>2 DEF IsState
  <2>4. Honest(t, told, json)
    BY <2>3 DEF Honest, Relied
  <2> QED BY <2>2, <2>4
<1>2. Honest(ReleaseState(s, id), told, json)
  <2>1. PICK w : w = InvalidateResource(s, id)
    OBVIOUS
  <2>2. /\ IsState(w) /\ w.ids = s.ids /\ w.replacements = s.replacements
        /\ w.activeBuffers = s.activeBuffers
        /\ DOMAIN w.lastCopy \subseteq DOMAIN s.lastCopy
        /\ \A r \in DOMAIN w.lastCopy : w.lastCopy[r] = s.lastCopy[r]
    BY <2>1, InvalidateRelied
  <2>3. PICK f, g : /\ ReleaseState(s, id) = [w EXCEPT !.activeBuffers = f, !.resources = g]
                    /\ f = Without(w.activeBuffers, BuffersOf(s, id))
    BY <2>1 DEF ReleaseState
  <2>4. PICK t : t = ReleaseState(s, id)
    OBVIOUS
  <2>5. /\ t.ids = s.ids /\ t.replacements = s.replacements /\ t.lastCopy = w.lastCopy
        /\ t.activeBuffers = f
    BY <2>2, <2>3, <2>4 DEF IsState
  <2>6. /\ DOMAIN f \subseteq DOMAIN s.activeBuffers
        /\ \A key \in DOMAIN f : f[key] = s.activeBuffers[key]
    BY <2>2, <2>3 DEF Without
  <2>7. Relied(t) \subseteq Relied(s)
    BY <2>2, <2>5, <2>6 DEF Relied
  <2>8. Honest(t, told, json)
    BY <2>5, <2>7 DEF Honest
  <2> QED BY <2>4, <2>8
<1> QED BY <1>1, <1>2

\* Of an operation that is processed, what is executed is relied on and what is eliminated
\* has its replacements.
LEMMA ProcessRelies ==
    ASSUME NEW s, IsState(s), NEW id, NEW op, NEW frame,
           NEW t, t = ProcessState(s, id, op, frame)
    PROVE  /\ DOMAIN s.replacements \subseteq DOMAIN t.replacements
           /\ DecideOperation(s, op, frame) = "none" => Relied(t) \subseteq Relied(s) \cup {id}
           /\ DecideOperation(s, op, frame) # "none" =>
                 Relied(t) = Relied(s) /\ id \in DOMAIN t.replacements
<1>1. PICK policy : policy = DecideOperation(s, op, frame)
  OBVIOUS
<1>2. CASE policy = "none"
  <2>1. PICK w : w = IF op.type \in Writers THEN InvalidateResource(s, op.target) ELSE s
    OBVIOUS
  <2>2. /\ IsState(w) /\ w.replacements = s.replacements
        /\ w.activeBuffers = s.activeBuffers
        /\ DOMAIN w.lastCopy \subseteq DOMAIN s.lastCopy
        /\ \A r \in DOMAIN w.lastCopy : w.lastCopy[r] = s.lastCopy[r]
    BY <2>1, InvalidateRelied
  <2>3. PICK now : now = Operation(id, op, frame)
    OBVIOUS
  <2>4. now.id = id
    BY <2>3 DEF Operation
  <2>5. PICK copies : copies = IF op.type \in Transfers /\ op.target \in Known(s)
                               THEN Bind(w.lastCopy, op.target, now) ELSE w.lastCopy
    OBVIOUS
  <2>6. PICK buffers : buffers =
               IF op.type = "allocate" /\ op.target \in Known(s)
               THEN Bind(Without(w.activeBuffers, BuffersOf(s, op.target)),
                         <<op.target, op.bytes>>, now)
               ELSE w.activeBuffers
    OBVIOUS
  <2>7. t = [w EXCEPT !.ids = w.ids \cup {id}, !.lastCopy = copies, !.activeBuffers = buffers]
    BY <1>1, <1>2, <2>1, <2>3, <2>5, <2>6 DEF ProcessState, ExecuteState
  <2>8. t.replacements = s.replacements /\ t.lastCopy = copies /\ t.activeBuffers = buffers
    BY <2>2, <2>7 DEF IsState
  <2>9. \A r \in DOMAIN copies : copies[r] = now \/ (r \in DOMAIN s.lastCopy /\ copies[r] = s.lastCopy[r])
    BY <2>2, <2>5 DEF Bind
  <2>10. \A key \in DOMAIN buffers :
            buffers[key] = now \/ (key \in DOMAIN s.activeBuffers /\ buffers[key] = s.activeBuffers[key])
    BY <2>2, <2>6 DEF Bind, Without
  <2>11. Relied(t) \subseteq Relied(s) \cup {id}
    BY <2>4, <2>8, <2>9, <2>10 DEF Relied
  <2> QED BY <1>1, <1>2, <2>8, <2>11
<1>3. CASE policy # "none"
  <2>1. PICK f, g, h : t = [s EXCEPT !.ids = f, !.replacements = Bind(s.replacements, id, g), !.removed = h]
    BY <1>1, <1>3 DEF ProcessState, EliminateState
  <2>2. /\ t.replacements = Bind(s.replacements, id, g) /\ t.lastCopy = s.lastCopy
        /\ t.activeBuffers = s.activeBuffers
    BY <2>1 DEF IsState
  <2> QED BY <1>1, <1>3, <2>2 DEF Relied, Bind
<1> QED BY <1>2, <1>3

-----------------------------------------------------------------------------
(* What each function makes of the session record.                         *)

\* The number is used up and the rest stays.
LEMMA CountedForm ==
    ASSUME NEW p, IsSession(p)
    PROVE  /\ IsSession(Counted(p))
           /\ Counted(p).expected = p.expected + 1
           /\ Counted(p).negotiated = p.negotiated /\ Counted(p).accepted = p.accepted
           /\ Counted(p).batch = p.batch /\ Counted(p).closed = p.closed
           /\ Counted(p).state = p.state /\ Counted(p).frame = p.frame
           /\ Counted(p).answered = p.answered /\ Counted(p).json = p.json
<1>1. PICK k : k = p.expected + 1
  OBVIOUS
<1>2. Counted(p) = [p EXCEPT !.expected = k]
  BY <1>1 DEF Counted
<1> QED BY <1>1, <1>2 DEF IsSession

\* A used up number tells nothing.
LEMMA CountedSent ==
    ASSUME NEW p, Sent(p)
    PROVE  Sent(Counted(p))
BY CountedForm DEF Sent

\* The handler's state changes alone.
LEMMA StateForm ==
    ASSUME NEW p, IsSession(p), NEW s, IsState(s), NEW q, q = [p EXCEPT !.state = s]
    PROVE  /\ IsSession(q) /\ Continues(q, p)
           /\ q.closed = p.closed /\ q.state = s /\ q.frame = p.frame /\ q.answered = p.answered
BY DEF IsSession, Continues

\* The open frame changes alone.
LEMMA FrameForm ==
    ASSUME NEW p, IsSession(p), NEW f, NEW q, q = [p EXCEPT !.frame = f]
    PROVE  /\ IsSession(q) /\ Continues(q, p)
           /\ q.closed = p.closed /\ q.state = p.state /\ q.frame = f /\ q.answered = p.answered
BY DEF IsSession, Continues

\* An operation is processed, and told if the answer has room for it.
LEMMA HandledForm ==
    ASSUME NEW p, IsSession(p), NEW id, NEW op, NEW r, r = Handled(p, id, op)
    PROVE  /\ IsSession(r) /\ Continues(r, p) /\ r.closed = p.closed /\ r.frame = p.frame
           /\ r.state = ProcessState(p.state, id, Decoded(op), TwinFrameOf(p, op))
           /\ r.state.ids = p.state.ids \cup {id}
           /\ Answerable(p, op) => r.answered = p.answered \cup {id}
           /\ ~Answerable(p, op) => r.answered = p.answered
<1>1. PICK s : s = ProcessState(p.state, id, Decoded(op), TwinFrameOf(p, op))
  OBVIOUS
<1>2. IsState(s) /\ s.ids = p.state.ids \cup {id}
  BY <1>1, ProcessedState DEF IsSession
<1>3. PICK ids : ids = IF Answerable(p, op) THEN p.answered \cup {id} ELSE p.answered
  OBVIOUS
<1>4. r = [p EXCEPT !.state = s, !.answered = ids]
  BY <1>1, <1>3 DEF Handled
<1>5. /\ IsSession(r) /\ Continues(r, p) /\ r.closed = p.closed /\ r.state = s
      /\ r.frame = p.frame /\ r.answered = ids
  BY <1>2, <1>4 DEF IsSession, Continues
<1> QED BY <1>1, <1>2, <1>3, <1>5

\* What is not told is an elimination that saves more than fits.
LEMMA Untold ==
    ASSUME NEW p, NEW op, ~Answerable(p, op)
    PROVE  /\ ~p.json /\ ~FitsField(op.bytes)
           /\ DecideOperation(p.state, Decoded(op), TwinFrameOf(p, op)) # "none"
BY DEF Answerable, PolicyFor

\* So a session that has told what it took in goes on to do so.
LEMMA HandledSent ==
    ASSUME NEW p, Sent(p), NEW id, NEW op, NEW r, r = Handled(p, id, op)
    PROVE  Sent(r) /\ Continues(r, p)
<1>1. /\ IsSession(r) /\ Continues(r, p) /\ r.closed = p.closed /\ r.json = p.json
      /\ r.state = ProcessState(p.state, id, Decoded(op), TwinFrameOf(p, op))
      /\ r.state.ids = p.state.ids \cup {id}
      /\ Answerable(p, op) => r.answered = p.answered \cup {id}
      /\ ~Answerable(p, op) => r.answered = p.answered
  BY HandledForm DEF Sent, Continues
<1>2. PICK policy : policy = DecideOperation(p.state, Decoded(op), TwinFrameOf(p, op))
  OBVIOUS
<1>3. /\ DOMAIN p.state.replacements \subseteq DOMAIN r.state.replacements
      /\ policy = "none" => Relied(r.state) \subseteq Relied(p.state) \cup {id}
      /\ policy # "none" =>
            Relied(r.state) = Relied(p.state) /\ id \in DOMAIN r.state.replacements
  BY <1>1, <1>2, ProcessRelies DEF Sent, IsSession
<1>4. SUFFICES ASSUME Honest(p.state, p.answered, p.json)
               PROVE  Honest(r.state, r.answered, r.json)
  BY <1>1 DEF Sent
<1>5. CASE Answerable(p, op)
  BY <1>1, <1>3, <1>4, <1>5 DEF Honest
<1>6. CASE ~Answerable(p, op)
  <2>1. ~p.json /\ policy # "none"
    BY <1>2, <1>6, Untold
  <2> QED BY <1>1, <1>3, <1>4, <1>6, <2>1 DEF Honest
<1> QED BY <1>5, <1>6

\* It is processed as the core processes it.
LEMMA HandledMatches ==
    ASSUME NEW p, IsSession(p), NEW c, IsCore(c), NEW ids, Matches(p, c, ids),
           NEW id \in OperationId, NEW op \in Request, CanProcess(c, id)
    PROVE  Matches(Handled(p, id, op), Process(c, id, op), ids \cup {id})
<1>1. TwinFrameOf(p, op) = FrameOf(c, op)
  BY DEF Matches, TwinFrameOf, FrameOf
<1>2. Tracks(Process(c, id, op), ProcessState(p.state, id, Decoded(op), FrameOf(c, op)))
  BY ProcessTracks DEF Matches
<1>3. PICK d : d = Process(c, id, op)
  OBVIOUS
<1>4. PICK r : r = Handled(p, id, op)
  OBVIOUS
<1>5. /\ r.closed = p.closed /\ r.frame = p.frame /\ r.json = p.json
      /\ r.state = ProcessState(p.state, id, Decoded(op), FrameOf(c, op))
      /\ Answerable(p, op) => r.answered = p.answered \cup {id}
      /\ ~Answerable(p, op) => r.answered = p.answered
  BY <1>1, <1>4, HandledForm DEF Continues
<1>6. /\ d.currentFrame = c.currentFrame /\ Processed(d) = Processed(c) \cup {id}
      /\ \A o \in Processed(c) : d.operations[o] = c.operations[o]
      /\ d.operations[id].bytes = op.bytes
  BY <1>3, ProcessType DEF CanProcess
<1>7. OversizedIn(c) \subseteq OversizedIn(d)
  BY <1>6 DEF OversizedIn
<1>8. ~Answerable(p, op) => ~p.json /\ id \in OversizedIn(d)
  BY <1>6, Untold DEF OversizedIn
<1>9. Tells(r, d, ids \cup {id})
  BY <1>5, <1>7, <1>8 DEF Matches, Tells
<1>10. Matches(r, d, ids \cup {id})
  BY <1>2, <1>3, <1>5, <1>6, <1>9 DEF Matches
<1> QED BY <1>3, <1>4, <1>10

\* A session that ends in the middle of a batch has told what it had told before.
LEMMA BrokenForm ==
    ASSUME NEW r, IsSession(r), NEW p, NEW q, q = Broken(r, p)
    PROVE  IsSession(q) /\ Continues(q, r) /\ q.closed = TRUE
<1>1. PICK ids : ids = p.answered
  OBVIOUS
<1>2. q = [r EXCEPT !.closed = TRUE, !.answered = ids]
  BY <1>1 DEF Broken
<1> QED BY <1>2 DEF IsSession, Continues

\* A session that ends otherwise.
LEMMA EndedForm ==
    ASSUME NEW p, IsSession(p), NEW q, q = [p EXCEPT !.closed = TRUE]
    PROVE  IsSession(q) /\ Continues(q, p) /\ q.closed = TRUE
BY DEF IsSession, Continues

-----------------------------------------------------------------------------
(* Events of the Python sessions.                                          *)

\* No event but a batch leaves the session with more taken in than told.
LEMMA RuntimeEventSent ==
    ASSUME NEW p, Sent(p), NEW b, b.wellFormed => EventBody(b) /\ b.subject # "batch",
           NEW q, q = RuntimeEvent(p, b)
    PROVE  Sent(q) /\ Continues(q, p)
<1>0. IsSession(p) /\ IsState(p.state)
  BY DEF Sent, IsSession
<1>1. CASE q = p
  BY <1>1 DEF Sent, Continues
<1>2. CASE b.wellFormed /\ b.subject = "frame" /\ q # p
  <2>1. PICK f : q = [p EXCEPT !.frame = f]
    BY <1>2 DEF RuntimeEvent, FrameEvent
  <2>2. /\ IsSession(q) /\ Continues(q, p) /\ q.closed = p.closed /\ q.state = p.state
        /\ q.answered = p.answered
    BY <1>0, <2>1, FrameForm
  <2> QED BY <2>2 DEF Sent, Continues
<1>3. CASE b.wellFormed /\ b.subject = "resource" /\ q # p
  <2>1. PICK s \in {ReleaseState(p.state, b.id), RegisterState(p.state, b.id, b.view)} :
          q = [p EXCEPT !.state = s]
    BY <1>3 DEF RuntimeEvent, ResourceEvent
  <2>2. IsState(s) /\ (~p.closed => Honest(s, p.answered, p.json))
    BY <1>0, <2>1, ResourceState, ResourceHonest DEF Sent
  <2>3. IsSession(q) /\ Continues(q, p) /\ q.closed = p.closed /\ q.state = s
        /\ q.answered = p.answered
    BY <1>0, <2>1, <2>2, StateForm
  <2> QED BY <2>2, <2>3 DEF Sent, Continues
<1>4. CASE b.wellFormed /\ b.subject = "operation" /\ q # p
  <2>1. q = Handled(p, b.id, b.op)
    BY <1>4 DEF RuntimeEvent, OperationEvent
  <2> QED BY <2>1, HandledSent
<1>5. CASE ~b.wellFormed \/ b.subject \in {"session", "snapshot", "unknown"}
  <2>1. q = p
    BY <1>5 DEF RuntimeEvent
  <2> QED BY <1>1, <2>1
<1> QED BY <1>1, <1>2, <1>3, <1>4, <1>5 DEF EventBody

\* Such an event leaves the session with the core that the native session goes on with.
LEMMA RuntimeEventMatches ==
    ASSUME IsCore(core), NEW p, IsSession(p), NEW ids, Matches(p, core, ids),
           NEW b, b.wellFormed => EventBody(b) /\ b.subject # "batch",
           NEW o \in EventOutcomes(b), ~o.fatal, NEW q, q = RuntimeEvent(p, b)
    PROVE  Matches(q, o.core, ids \cup o.answered)
<1>0. IsState(p.state) /\ Tracks(core, p.state) /\ Known(p.state) = Registered(core)
      /\ p.state.ids = Processed(core) /\ p.frame = core.currentFrame
  BY DEF Matches, Tracks, SameResources
<1>1. CASE o = Unchanged /\ q = p
  BY <1>1 DEF Unchanged, Outcome, Matches, Tells
<1>2. CASE b.wellFormed /\ b.subject = "frame"
  <2>1. o \in FrameOutcomes(b) /\ q = FrameEvent(p, b)
    BY <1>2 DEF EventOutcomes, RuntimeEvent
  <2>2. CASE b.action = "begin" /\ CanBeginFrame(core)
    <3>1. o = Done(BeginFrame(core, b.frame)) /\ q = [p EXCEPT !.frame = b.frame]
      BY <1>0, <2>1, <2>2 DEF FrameOutcomes, FrameEvent, CanBeginFrame
    <3>2. \A f : /\ BeginFrame(core, f).resources = core.resources
                 /\ BeginFrame(core, f).operations = core.operations
                 /\ BeginFrame(core, f).currentFrame = f
      BY DEF BeginFrame, IsCore
    <3>3. o.core = BeginFrame(core, b.frame) /\ o.answered = {}
      BY <3>1 DEF Done, Outcome
    <3>4. Tracks(o.core, p.state)
      BY <1>0, <3>2, <3>3, FrameTracks
    <3>5. /\ q.closed = p.closed /\ q.state = p.state /\ q.frame = b.frame
          /\ q.answered = p.answered /\ q.json = p.json
      BY <3>1, FrameForm DEF Continues
    <3>6. Tells(q, o.core, ids \cup o.answered)
      BY <3>2, <3>3, <3>5, TellsOn DEF Matches
    <3> QED BY <3>2, <3>3, <3>4, <3>5, <3>6 DEF Matches
  <2>3. CASE b.action = "end" /\ CanEndFrame(core, b.frame)
    <3>1. o = Done(EndFrame(core)) /\ q = [p EXCEPT !.frame = NoFrame]
      BY <1>0, <2>1, <2>3 DEF FrameOutcomes, FrameEvent, CanEndFrame
    <3>2. /\ EndFrame(core).resources = core.resources
          /\ EndFrame(core).operations = core.operations
          /\ EndFrame(core).currentFrame = NoFrame
      BY DEF EndFrame, IsCore
    <3>3. o.core = EndFrame(core) /\ o.answered = {}
      BY <3>1 DEF Done, Outcome
    <3>4. Tracks(o.core, p.state)
      BY <1>0, <3>2, <3>3, FrameTracks
    <3>5. /\ q.closed = p.closed /\ q.state = p.state /\ q.frame = NoFrame
          /\ q.answered = p.answered /\ q.json = p.json
      BY <3>1, FrameForm DEF Continues
    <3>6. Tells(q, o.core, ids \cup o.answered)
      BY <3>2, <3>3, <3>5, TellsOn DEF Matches
    <3> QED BY <3>2, <3>3, <3>4, <3>5, <3>6 DEF Matches
  <2>4. CASE /\ ~(b.action = "begin" /\ CanBeginFrame(core))
             /\ ~(b.action = "end" /\ CanEndFrame(core, b.frame))
    <3>1. o = Unchanged
      BY <2>1, <2>4 DEF FrameOutcomes
    <3>2. q = p
      BY <1>0, <2>1, <2>4 DEF FrameEvent, CanBeginFrame, CanEndFrame
    <3> QED BY <1>1, <3>1, <3>2
  <2> QED BY <2>2, <2>3, <2>4
<1>3. CASE b.wellFormed /\ b.subject = "resource"
  <2>1. o \in ResourceOutcomes(b) /\ q = ResourceEvent(p, b)
    BY <1>3 DEF EventOutcomes, RuntimeEvent
  <2>2. CASE b.action = "release"
    <3>1. \A id : /\ Tracks(ReleaseResource(core, id), ReleaseState(p.state, id))
                  /\ ReleaseResource(core, id).currentFrame = core.currentFrame
                  /\ ReleaseResource(core, id).operations = core.operations
                  /\ IsState(ReleaseState(p.state, id))
      BY <1>0, ReleaseTracks, ReleaseType, ResourceState
    <3>2. o.core = ReleaseResource(core, b.id) /\ o.answered = {}
      BY <2>1, <2>2 DEF ResourceOutcomes, Done, Outcome
    <3>3. q = [p EXCEPT !.state = ReleaseState(p.state, b.id)]
      BY <2>1, <2>2 DEF ResourceEvent
    <3>4. /\ q.closed = p.closed /\ q.state = ReleaseState(p.state, b.id) /\ q.frame = p.frame
          /\ q.answered = p.answered /\ q.json = p.json
      <4>1. PICK s : s = ReleaseState(p.state, b.id)
        OBVIOUS
      <4>2. IsState(s) /\ q = [p EXCEPT !.state = s]
        BY <3>1, <3>3, <4>1
      <4> QED BY <4>1, <4>2, StateForm DEF Continues
    <3>5. Tells(q, o.core, ids \cup o.answered)
      BY <3>1, <3>2, <3>4, TellsOn DEF Matches
    <3> QED BY <3>1, <3>2, <3>4, <3>5 DEF Matches
  <2>3. CASE b.action = "register" /\ ~CanRegister(core, b.id)
    <3>1. o = Unchanged /\ q = p
      BY <1>0, <2>1, <2>3 DEF ResourceOutcomes, ResourceEvent, CanRegister
    <3> QED BY <1>1, <3>1
  <2>4. CASE b.action = "register" /\ CanRegister(core, b.id)
    <3>1. b.id \in ResourceId /\ b.view \in View
      BY <1>3, <2>4 DEF EventBody
    <3>2. \A id \in ResourceId, view \in View :
             CanRegister(core, id) =>
                /\ Tracks(RegisterResource(core, id, view), RegisterState(p.state, id, view))
                /\ RegisterResource(core, id, view).currentFrame = core.currentFrame
                /\ RegisterResource(core, id, view).operations = core.operations
                /\ IsState(RegisterState(p.state, id, view))
      <4> TAKE id \in ResourceId, view \in View
      <4>1. /\ RegisterResource(core, id, view).currentFrame = core.currentFrame
            /\ RegisterResource(core, id, view).operations = core.operations
        BY DEF RegisterResource, IsCore
      <4> QED BY <1>0, <4>1, RegisterTracks, ResourceState
    <3>3. o = Done(RegisterResource(core, b.id, b.view))
      BY <2>1, <2>4 DEF ResourceOutcomes, Ended, Outcome
    <3>4. o.core = RegisterResource(core, b.id, b.view) /\ o.answered = {}
      BY <3>3 DEF Done, Outcome
    <3>5. q = [p EXCEPT !.state = RegisterState(p.state, b.id, b.view)]
      BY <1>0, <2>1, <2>4 DEF ResourceEvent, CanRegister
    <3>6. /\ q.closed = p.closed /\ q.state = RegisterState(p.state, b.id, b.view)
          /\ q.frame = p.frame /\ q.answered = p.answered /\ q.json = p.json
      <4>1. PICK s : s = RegisterState(p.state, b.id, b.view)
        OBVIOUS
      <4>2. IsState(s) /\ q = [p EXCEPT !.state = s]
        BY <2>4, <3>1, <3>2, <3>5, <4>1
      <4> QED BY <4>1, <4>2, StateForm DEF Continues
    <3>7. Tells(q, o.core, ids \cup o.answered)
      BY <2>4, <3>1, <3>2, <3>4, <3>6, TellsOn DEF Matches
    <3> QED BY <2>4, <3>1, <3>2, <3>4, <3>6, <3>7 DEF Matches
  <2> QED BY <1>3, <2>2, <2>3, <2>4 DEF EventBody
<1>4. CASE b.wellFormed /\ b.subject = "operation"
  <2>1. o \in OperationOutcomes(core, b.id, b.op) /\ b.id \in OperationId /\ b.op \in Request
        /\ q = OperationEvent(p, b)
    BY <1>4 DEF EventOutcomes, RuntimeEvent, EventBody
  <2>2. CASE ~CanProcess(core, b.id)
    <3>1. o = Unchanged
      BY <2>1, <2>2 DEF OperationOutcomes, Unchanged
    <3>2. q = p
      BY <1>0, <2>1, <2>2 DEF OperationEvent, CanProcess
    <3> QED BY <1>1, <3>1, <3>2
  <2>3. CASE CanProcess(core, b.id)
    <3>1. o = Outcome(Process(core, b.id, b.op), FALSE, {b.id})
      BY <2>1, <2>3 DEF OperationOutcomes, Ended, Outcome
    <3>2. o.core = Process(core, b.id, b.op) /\ o.answered = {b.id}
      BY <3>1 DEF Outcome
    <3>3. q = Handled(p, b.id, b.op)
      BY <1>0, <2>1, <2>3 DEF OperationEvent, CanProcess
    <3>4. \A id \in OperationId, op \in Request :
             CanProcess(core, id) => Matches(Handled(p, id, op), Process(core, id, op), ids \cup {id})
      BY HandledMatches
    <3>5. Matches(Handled(p, b.id, b.op), Process(core, b.id, b.op), ids \cup {b.id})
      BY <2>1, <2>3, <3>4
    <3> QED BY <3>2, <3>3, <3>5
  <2> QED BY <2>2, <2>3
<1>5. CASE ~b.wellFormed \/ b.subject \in {"session", "snapshot", "unknown"}
  <2>1. o = Unchanged /\ q = p
    BY <1>5 DEF EventOutcomes, RuntimeEvent
  <2> QED BY <1>1, <2>1
<1> QED BY <1>2, <1>3, <1>4, <1>5 DEF EventBody

-----------------------------------------------------------------------------
(* Batches of the Python sessions.                                         *)

\* Session r after one more operation of a batch that session p was sent.
AfterMember(p, r, id, op) ==
    IF r.closed THEN r
    ELSE IF id \in r.state.ids THEN Broken(r, p)
    ELSE Handled(r, id, op)

\* The recursive definition of BatchRun has a solution, so BatchRun is one.
LEMMA BatchRunDefined ==
    ASSUME NEW p, NEW b, b.count \in Nat
    PROVE  /\ BatchRun(p, b)[0] = p
           /\ \A i \in 0..(b.count - 1) :
                 BatchRun(p, b)[i + 1] = AfterMember(p, BatchRun(p, b)[i], <<b.batch, i>>, b.op)
<1> DEFINE After(r, i) == AfterMember(p, r, <<b.batch, i - 1>>, b.op)
           IsRun(run, n) == run = [i \in 0..n |-> IF i = 0 THEN p ELSE After(run[i - 1], i)]
           Solved == {n \in Nat : \E run : IsRun(run, n)}
<1>1. BatchRun(p, b) = CHOOSE run : IsRun(run, b.count)
  BY DEF BatchRun, AfterMember
<1> HIDE DEF After
<1>2. 0 \in Solved
  <2>1. IsRun([i \in 0..0 |-> p], 0)
    OBVIOUS
  <2> QED BY <2>1
<1>3. ASSUME NEW n \in Nat \cap Solved PROVE n + 1 \in Solved
  <2>1. PICK run : IsRun(run, n)
    BY <1>3
  <2> DEFINE longer == [i \in 0..(n + 1) |-> IF i = n + 1 THEN After(run[n], n + 1) ELSE run[i]]
  <2>2. \A i \in 0..n : longer[i] = run[i]
    OBVIOUS
  <2>3. IsRun(longer, n + 1)
    <3>1. ASSUME NEW i \in 0..(n + 1)
          PROVE  longer[i] = IF i = 0 THEN p ELSE After(longer[i - 1], i)
      <4>1. CASE i = n + 1
        <5>1. longer[i - 1] = run[n] /\ i # 0
          BY <2>2, <4>1
        <5> QED BY <4>1, <5>1
      <4>2. CASE i # n + 1
        <5>1. i \in 0..n /\ longer[i] = run[i] /\ (i # 0 => longer[i - 1] = run[i - 1])
          BY <2>2, <4>2
        <5> QED BY <2>1, <5>1
      <4> QED BY <4>1, <4>2
    <3> QED BY <3>1
  <2> HIDE DEF IsRun, longer
  <2> QED BY <2>3
<1>4. \E run : IsRun(run, b.count)
  <2> HIDE DEF IsRun
  <2>1. Nat \subseteq Solved
    <3> HIDE DEF Solved
    <3> QED BY <1>2, <1>3, InductiveSet
  <2> QED BY <2>1
<1>5. IsRun(BatchRun(p, b), b.count)
  <2> HIDE DEF IsRun
  <2> QED BY <1>1, <1>4
<1>6. BatchRun(p, b)[0] = p
  BY <1>5
<1>7. ASSUME NEW i \in 0..(b.count - 1)
      PROVE  BatchRun(p, b)[i + 1] = After(BatchRun(p, b)[i], i + 1)
  <2>1. i + 1 \in 0..b.count /\ i + 1 # 0 /\ (i + 1) - 1 = i
    OBVIOUS
  <2> QED BY <1>5, <2>1
<1>8. ASSUME NEW i \in 0..(b.count - 1), NEW r
      PROVE  After(r, i + 1) = AfterMember(p, r, <<b.batch, i>>, b.op)
  <2>1. (i + 1) - 1 = i
    OBVIOUS
  <2> QED BY <2>1 DEF After
<1> QED BY <1>6, <1>7, <1>8

\* However far a batch gets, the session has told what it took in or has ended.
LEMMA BatchSent ==
    ASSUME NEW p, Sent(p), ~p.closed, NEW b, b.count \in Nat
    PROVE  \A i \in 0..b.count : Sent(BatchRun(p, b)[i]) /\ Continues(BatchRun(p, b)[i], p)
<1> DEFINE Good == {i \in Nat : i <= b.count =>
                      Sent(BatchRun(p, b)[i]) /\ Continues(BatchRun(p, b)[i], p)}
<1>1. 0 \in Good
  <2>1. BatchRun(p, b)[0] = p
    BY BatchRunDefined
  <2> QED BY <2>1 DEF Continues
<1>2. ASSUME NEW i \in Nat \cap Good PROVE i + 1 \in Good
  <2> SUFFICES ASSUME i + 1 <= b.count
               PROVE  Sent(BatchRun(p, b)[i + 1]) /\ Continues(BatchRun(p, b)[i + 1], p)
    OBVIOUS
  <2>1. PICK r : r = BatchRun(p, b)[i]
    OBVIOUS
  <2>2. PICK s : s = BatchRun(p, b)[i + 1]
    OBVIOUS
  <2>3. Sent(r) /\ Continues(r, p)
    BY <1>2, <2>1
  <2>4. PICK id : id = <<b.batch, i>>
    OBVIOUS
  <2>9. i \in 0..(b.count - 1)
    OBVIOUS
  <2>5. s = AfterMember(p, r, id, b.op)
    BY <2>1, <2>2, <2>4, <2>9, BatchRunDefined
  <2>6. CASE s = r
    BY <2>2, <2>3, <2>6
  <2>7. CASE s = Broken(r, p)
    <3>1. IsSession(s) /\ Continues(s, r) /\ s.closed = TRUE
      BY <2>3, <2>7, BrokenForm DEF Sent
    <3> QED BY <2>2, <2>3, <3>1 DEF Sent, Continues
  <2>8. CASE s = Handled(r, id, b.op)
    <3>1. Sent(s) /\ Continues(s, r)
      BY <2>3, <2>8, HandledSent
    <3> QED BY <2>2, <2>3, <3>1 DEF Continues
  <2> QED BY <2>5, <2>6, <2>7, <2>8 DEF AfterMember
<1>3. Nat \subseteq Good
  <2> HIDE DEF Good
  <2> QED BY <1>1, <1>2, InductiveSet
<1> QED BY <1>3

\* The first i operations of a batch.
Prefix(b, i) == {<<b.batch, k>> : k \in 0..(i - 1)}

\* As long as the native session gets on with a batch, the Python session does, with the
\* same core.
LEMMA BatchMatches ==
    ASSUME IsCore(core), Within(core), NEW p, Sent(p), NEW ids, Matches(p, core, ids),
           NEW b, b.count \in Nat, b.op \in Request,
           \A k \in 0..(b.count - 1) : <<b.batch, k>> \in OperationId
    PROVE  \A i \in 0..b.count : \A c \in BatchCores(b)[i] :
              Matches(BatchRun(p, b)[i], c, ids \cup Prefix(b, i))
<1> DEFINE Told(i) == ids \cup Prefix(b, i)
           Good == {i \in Nat : i <= b.count =>
                      \A c \in BatchCores(b)[i] : Matches(BatchRun(p, b)[i], c, Told(i))}
<1> HIDE DEF Told
<1>1. 0 \in Good
  <2>1. BatchCores(b)[0] = {core}
    BY BatchCoresDefined
  <2>3. BatchRun(p, b)[0] = p
    BY BatchRunDefined
  <2>2. Told(0) = ids
    <3>1. Prefix(b, 0) = {}
      BY DEF Prefix
    <3> QED BY <3>1 DEF Told
  <2> QED BY <2>1, <2>2, <2>3
<1>2. ASSUME NEW i \in Nat \cap Good PROVE i + 1 \in Good
  <2> SUFFICES ASSUME i + 1 <= b.count, NEW c \in BatchCores(b)[i + 1]
               PROVE  Matches(BatchRun(p, b)[i + 1], c, Told(i + 1))
    OBVIOUS
  <2>1. BatchCores(b)[i + 1] =
          {o.core : o \in {x \in BatchStep(b, BatchCores(b)[i], i + 1) : x.answered # {}}}
    BY BatchCoresDefined
  <2>2. PICK o \in BatchStep(b, BatchCores(b)[i], i + 1) : o.answered # {} /\ c = o.core
    BY <2>1
  <2>3. PICK d \in BatchCores(b)[i] : o \in OperationOutcomes(d, <<b.batch, i>>, b.op)
    BY <2>2 DEF BatchStep
  <2>0. <<b.batch, i>> \in OperationId /\ i \in 0..(b.count - 1)
    OBVIOUS
  <2>4. PICK id \in OperationId : id = <<b.batch, i>>
    BY <2>0
  <2>5. IsCore(d)
    BY <2>3, BatchProgress
  <2>6. CanProcess(d, id) /\ c = Process(d, id, b.op)
    <3>1. \A x : Outcome(x, FALSE, {}).answered = {} /\ Ended(x).answered = {}
      BY DEF Ended, Outcome
    <3>2. o.answered # {} /\ o \in OperationOutcomes(d, id, b.op)
      BY <2>2, <2>3, <2>4
    <3>3. CanProcess(d, id) /\ ~OperationTableFull(d)
      BY <3>1, <3>2 DEF OperationOutcomes
    <3>4. o = Outcome(Process(d, id, b.op), FALSE, {id})
      BY <3>1, <3>2, <3>3 DEF OperationOutcomes
    <3> QED BY <2>2, <3>3, <3>4 DEF Outcome
  <2>7. PICK r : r = BatchRun(p, b)[i]
    OBVIOUS
  <2>8. Matches(r, d, Told(i)) /\ IsSession(r)
    <3>1. ~p.closed
      BY DEF Matches
    <3>2. Sent(r)
      BY <2>7, <3>1, BatchSent
    <3> QED BY <1>2, <2>7, <3>2 DEF Sent
  <2>13. PICK next : next = BatchRun(p, b)[i + 1]
    OBVIOUS
  <2>9. next = Handled(r, id, b.op)
    <3>1. ~r.closed /\ id \notin r.state.ids
      BY <2>6, <2>8 DEF Matches, Tracks, CanProcess
    <3>2. next = AfterMember(p, r, id, b.op)
      BY <2>0, <2>4, <2>7, <2>13, BatchRunDefined
    <3> QED BY <3>1, <3>2 DEF AfterMember
  <2>10. Told(i + 1) = Told(i) \cup {id}
    <3>1. Prefix(b, i + 1) = Prefix(b, i) \cup {<<b.batch, i>>}
      BY DEF Prefix
    <3> QED BY <2>4, <3>1 DEF Told
  <2>11. PICK op \in Request : op = b.op
    OBVIOUS
  <2>12. Matches(Handled(r, id, op), Process(d, id, op), Told(i) \cup {id})
    BY <2>5, <2>6, <2>8, HandledMatches
  <2> QED BY <2>6, <2>9, <2>10, <2>11, <2>12, <2>13
<1>3. Nat \subseteq Good
  <2> HIDE DEF Good
  <2> QED BY <1>1, <1>2, InductiveSet
<1> QED BY <1>3 DEF Told

-----------------------------------------------------------------------------
(* The three sessions side by side.                                        *)

\* Session p has got as far as a native session that expects number next, has met its
\* client or not, granted it those capabilities, holds core c and told the decisions ids.
Level(p, next, met, granted, c, ids) ==
    /\ p.expected = next /\ p.negotiated = met
    /\ met => p.accepted = granted
    /\ Matches(p, c, ids)

\* The inductive invariant.  As long as the native session is open, the Python sessions
\* are level with it, in every table whose sizes are told apart and not only as far as the
\* client sees; the v2 session may have ended before it, for a saving it has no room for.
TwinSessionInv ==
    /\ Sent(v2) /\ Sent(v1)
    /\ parted \in BOOLEAN
    /\ v2.closed => closed \/ OversizedIn(core) # {}
    /\ ~closed /\ ~v2.closed =>
          /\ Level(v2, sequence, negotiated, capabilities, core, answered)
          /\ negotiated => v2.batch = batch
    /\ ~closed /\ ~parted => Level(v1, sequence, negotiated, capabilities, core, answered)

\* A new session has told nothing and taken in nothing.
LEMMA NewSessionFresh ==
    ASSUME NEW json
    PROVE  /\ Sent(NewSession(json)) /\ Level(NewSession(json), 1, FALSE, {}, EmptyCore, {})
           /\ NewSession(json).closed = FALSE
<1> DEFINE p == NewSession(json)
<1>1. /\ p.expected = 1 /\ p.negotiated = FALSE /\ p.accepted = {} /\ p.batch = FALSE
      /\ p.closed = FALSE /\ p.state = EmptyState /\ p.frame = NoFrame /\ p.answered = {}
      /\ p = [expected |-> p.expected, negotiated |-> p.negotiated, accepted |-> p.accepted,
              batch |-> p.batch, closed |-> p.closed, state |-> p.state, frame |-> p.frame,
              answered |-> p.answered, json |-> p.json]
  BY DEF NewSession
<1>2. Tracks(EmptyCore, EmptyState) /\ IsState(EmptyState)
  BY EmptyTracks DEF Tracks
<1>3. /\ EmptyState.ids = {} /\ EmptyCore.currentFrame = NoFrame
      /\ Relied(EmptyState) = {}
  BY DEF EmptyState, EmptyCore, Relied
<1> HIDE DEF p
<1>4. Honest(p.state, p.answered, p.json)
  BY <1>1, <1>3 DEF Honest
<1>5. Sent(p) /\ Level(p, 1, FALSE, {}, EmptyCore, {})
  BY <1>1, <1>2, <1>3, <1>4 DEF Sent, IsSession, Level, Matches, Tells
<1> QED BY <1>1, <1>5 DEF p

\* A request is counted on both sides.
LEMMA CountedLevel ==
    ASSUME NEW p, IsSession(p), NEW next, NEW met, NEW granted, NEW c, NEW ids,
           Level(p, next, met, granted, c, ids)
    PROVE  Level(Counted(p), next + 1, met, granted, c, ids)
<1>1. PICK q : q = Counted(p)
  OBVIOUS
<1>2. /\ q.expected = p.expected + 1 /\ q.negotiated = p.negotiated /\ q.accepted = p.accepted
      /\ q.closed = p.closed /\ q.state = p.state /\ q.frame = p.frame /\ q.answered = p.answered
      /\ q.json = p.json
  BY <1>1, CountedForm
<1>3. Level(q, next + 1, met, granted, c, ids)
  BY <1>2 DEF Level, Matches, Tells
<1> QED BY <1>1, <1>3

\* What a hello that is accepted asks for, and gets.
AsksForBatches(f) == f.body.contract = "batch"
GrantedTo(f) == (f.body.requested \cup f.body.required) \cap Available(f)

\* Session q is session p but for what a hello negotiates.
Greeted(q, p) ==
    /\ q.expected = p.expected /\ q.closed = p.closed
    /\ q.state = p.state /\ q.frame = p.frame /\ q.answered = p.answered /\ q.json = p.json

\* Session q has negotiated what hello f asks for.
Granted(q, f) == q.negotiated = TRUE /\ q.accepted = GrantedTo(f)
Contracted(q, f) == q.batch = AsksForBatches(f)

\* What the handshake of v2 does to a session.
LEMMA V2HelloForm ==
    ASSUME NEW p, IsSession(p), NEW f, f.opcode = "hello"
    PROVE  /\ IsSession(V2Hello(p, f)) /\ Greeted(V2Hello(p, f), p)
           /\ CanNegotiate(f) => Granted(V2Hello(p, f), f) /\ Contracted(V2Hello(p, f), f)
           /\ ~CanNegotiate(f) => V2Hello(p, f) = p
<1>1. CASE CanNegotiate(f)
  <2>1. PICK granted : granted = GrantedTo(f)
    OBVIOUS
  <2>2. PICK isBatch : isBatch = AsksForBatches(f)
    OBVIOUS
  <2>3. PICK q : q = V2Hello(p, f)
    OBVIOUS
  <2>4. q = [p EXCEPT !.negotiated = TRUE, !.batch = isBatch, !.accepted = granted]
    BY <1>1, <2>1, <2>2, <2>3 DEF V2Hello, CanNegotiate, KnownContract, HelloParses, Available,
                                  AsksForBatches, GrantedTo
  <2>5. /\ IsSession(q) /\ q.expected = p.expected /\ q.closed = p.closed
        /\ q.state = p.state /\ q.frame = p.frame /\ q.answered = p.answered /\ q.json = p.json
        /\ q.negotiated = TRUE /\ q.batch = isBatch /\ q.accepted = granted
    BY <2>4 DEF IsSession
  <2>6. Greeted(q, p) /\ Granted(q, f) /\ Contracted(q, f)
    BY <2>1, <2>2, <2>5 DEF Greeted, Granted, Contracted
  <2> QED BY <1>1, <2>3, <2>5, <2>6
<1>2. CASE ~CanNegotiate(f)
  <2>1. V2Hello(p, f) = p
    BY <1>2 DEF V2Hello, CanNegotiate, KnownContract, HelloParses, Available
  <2>2. Greeted(p, p)
    BY DEF Greeted
  <2> QED BY <1>2, <2>1, <2>2
<1> QED BY <1>1, <1>2

\* What the handshake of v1 does, and that it is the same where the versions agree.
LEMMA V1HelloForm ==
    ASSUME NEW p, IsSession(p), NEW f, f.opcode = "hello"
    PROVE  /\ IsSession(V1Hello(p, f)) /\ Greeted(V1Hello(p, f), p)
           /\ ~ReadDifferently(f) /\ CanNegotiate(f) => Granted(V1Hello(p, f), f)
           /\ ~ReadDifferently(f) /\ ~CanNegotiate(f) => V1Hello(p, f) = p
<1>1. PICK granted : granted = (f.body.requested \cup f.body.required) \cap (Offered \ {Batch})
  OBVIOUS
<1>2. PICK q : q = [p EXCEPT !.negotiated = TRUE, !.accepted = granted]
  OBVIOUS
<1>3. /\ IsSession(q) /\ q.expected = p.expected /\ q.closed = p.closed
      /\ q.state = p.state /\ q.frame = p.frame /\ q.answered = p.answered /\ q.json = p.json
      /\ q.negotiated = TRUE /\ q.accepted = granted
  BY <1>2 DEF IsSession
<1>4. Greeted(q, p) /\ Greeted(p, p)
  BY <1>3 DEF Greeted
<1>5. V1Hello(p, f) \in {p, q}
  BY <1>1, <1>2 DEF V1Hello
<1>6. ASSUME ~ReadDifferently(f), CanNegotiate(f) PROVE V1Hello(p, f) = q /\ Granted(q, f)
  <2>1. V1Hello(p, f) = q
    BY <1>1, <1>2, <1>6 DEF V1Hello, ReadDifferently, CanNegotiate, KnownContract, HelloParses,
                            Available
  <2>2. Available(f) = Offered \ {Batch}
    BY <1>6 DEF ReadDifferently, Available
  <2>3. granted = GrantedTo(f)
    BY <1>1, <2>2 DEF GrantedTo
  <2> QED BY <1>3, <2>1, <2>3 DEF Granted
<1>7. ASSUME ~ReadDifferently(f), ~CanNegotiate(f) PROVE V1Hello(p, f) = p
  BY <1>7 DEF V1Hello, ReadDifferently, CanNegotiate, KnownContract, HelloParses, Available
<1> QED BY <1>3, <1>4, <1>5, <1>6, <1>7

\* What the two handlers keep in order, process keeps in order.
LEMMA ServeSent ==
    ASSUME NEW p, Sent(p), NEW f, NEW n, NEW greeted, f.opcode = "hello" => Sent(greeted),
           NEW served, ~p.closed => Sent(served)
    PROVE  Sent(Serve(p, f, n, greeted, served))
<1>1. Serve(p, f, n, greeted, served) \in {p, Counted(p), greeted, served}
      /\ (Serve(p, f, n, greeted, served) \in {p, Counted(p)}
          \/ (f.opcode = "hello" /\ Serve(p, f, n, greeted, served) = greeted)
          \/ (~p.closed /\ Serve(p, f, n, greeted, served) = served))
  BY DEF Serve
<1> QED BY <1>1, CountedSent

\* A batch is done as a whole, or the session ends with it.
LEMMA BatchForm ==
    ASSUME NEW p, Sent(p), ~p.closed, NEW b, b.count \in Nat,
           NEW last, last = BatchRun(p, b)[b.count], NEW q, q = OperationBatch(p, b)
    PROVE  /\ Sent(last) /\ Sent(q) /\ Continues(q, p)
           /\ ~last.closed => q = last \/ (q.closed /\ ~(BatchIds(b) \subseteq last.answered))
<1>1. b.count \in 0..b.count
  OBVIOUS
<1>2. Sent(last) /\ Continues(last, p)
  BY <1>1, BatchSent
<1>3. PICK broken : broken = Broken(last, p)
  OBVIOUS
<1>4. IsSession(broken) /\ Continues(broken, last) /\ broken.closed = TRUE
  BY <1>2, <1>3, BrokenForm DEF Sent
<1>5. q = IF last.closed \/ BatchIds(b) \subseteq last.answered THEN last ELSE broken
  BY <1>3 DEF OperationBatch
<1>6. CASE q = last /\ (last.closed \/ BatchIds(b) \subseteq last.answered)
  BY <1>2, <1>6
<1>7. CASE q = broken /\ ~(BatchIds(b) \subseteq last.answered)
  BY <1>2, <1>4, <1>7 DEF Sent, Continues
<1> QED BY <1>5, <1>6, <1>7

\* A request to the v2 session leaves nothing relied on that was not told.
LEMMA V2RequestSent ==
    ASSUME NEW p, Sent(p), ~p.closed, NEW f \in Frames, NEW q, q = V2Request(p, f)
    PROVE  Sent(q)
<1>1. CASE q = p
  BY <1>1
<1>2. CASE f.opcode = "event" /\ f.plain /\ q # p
  <2>1. PICK b : b = f.body
    OBVIOUS
  <2>2. q = V2Event(p, b) /\ (b.wellFormed => EventBody(b))
    BY <1>2, <2>1, EventsAreEvents DEF V2Request
  <2>3. CASE b.wellFormed /\ b.subject = "batch"
    <3>1. q = OperationBatch(p, b)
      BY <1>2, <2>2, <2>3 DEF V2Event
    <3>2. b.count \in Nat
      BY <2>2, <2>3 DEF EventBody
    <3> QED BY <3>1, <3>2, BatchForm
  <2>4. CASE ~(b.wellFormed /\ b.subject = "batch")
    <3>1. q = RuntimeEvent(p, b)
      BY <1>2, <2>2, <2>4 DEF V2Event
    <3> QED BY <2>2, <2>4, <3>1, RuntimeEventSent
  <2> QED BY <2>3, <2>4
<1>3. CASE ~(f.opcode = "event" /\ f.plain) /\ q # p
  <2>1. q = [p EXCEPT !.closed = TRUE]
    BY <1>3 DEF V2Request
  <2> QED BY <2>1, EndedForm DEF Sent
<1> QED BY <1>1, <1>2, <1>3

\* Nor does a request to the v1 session.
LEMMA V1RequestSent ==
    ASSUME NEW p, Sent(p), NEW f \in Frames, NEW q, q = V1Request(p, f)
    PROVE  Sent(q)
<1>1. CASE q = p
  BY <1>1
<1>2. CASE f.opcode = "event" /\ q # p
  <2>1. PICK b : b = f.body
    OBVIOUS
  <2>2. q = RuntimeEvent(p, b) /\ (b.wellFormed => EventBody(b) /\ b.subject # "batch")
    BY <1>2, <2>1, EventsAreEvents DEF V1Request
  <2> QED BY <2>2, RuntimeEventSent
<1>3. CASE f.opcode # "event" /\ q # p
  <2>1. q = [p EXCEPT !.closed = TRUE]
    BY <1>3 DEF V1Request
  <2> QED BY <2>1, EndedForm DEF Sent
<1> QED BY <1>1, <1>2, <1>3

\* Whatever arrives, each Python session has told what it relies on, or has ended.
LEMMA ServedSent ==
    ASSUME NEW p, Sent(p), NEW f \in Frames, NEW n
    PROVE  Sent(ServeV2(p, f, n)) /\ Sent(ServeV1(p, f, n))
<1>1. PICK q : q = Counted(p)
  OBVIOUS
<1>2. Sent(q) /\ q.closed = p.closed
  BY <1>1, CountedSent, CountedForm DEF Sent
<1>3. f.opcode = "hello" => Sent(V2Hello(q, f)) /\ Sent(V1Hello(q, f))
  <2> SUFFICES ASSUME f.opcode = "hello", NEW r \in {V2Hello(q, f), V1Hello(q, f)} PROVE Sent(r)
    OBVIOUS
  <2>1. IsSession(q)
    BY <1>2 DEF Sent
  <2>2. CASE r = V2Hello(q, f)
    <3>1. IsSession(r) /\ Greeted(r, q)
      BY <2>1, <2>2, V2HelloForm
    <3> QED BY <1>2, <3>1 DEF Greeted, Sent
  <2>3. CASE r = V1Hello(q, f)
    <3>1. IsSession(r) /\ Greeted(r, q)
      BY <2>1, <2>3, V1HelloForm
    <3> QED BY <1>2, <3>1 DEF Greeted, Sent
  <2> QED BY <2>2, <2>3
<1>4. ~p.closed => Sent(V2Request(q, f))
  BY <1>2, V2RequestSent
<1>5. Sent(V1Request(q, f))
  BY <1>2, V1RequestSent
<1>6. Sent(ServeV2(p, f, n))
  BY <1>1, <1>3, <1>4, ServeSent DEF ServeV2
<1>7. Sent(ServeV1(p, f, n))
  BY <1>1, <1>3, <1>5, ServeSent DEF ServeV1
<1> QED BY <1>6, <1>7

\* A frame the native session refuses without ending, both Python sessions refuse.
LEMMA RefusedLevel ==
    ASSUME ~closed, NEW f, NEW n, Refuse(f, n),
           NEW p, Level(p, sequence, negotiated, capabilities, core, answered),
           NEW greeted, NEW served
    PROVE  Serve(p, f, n, greeted, served) = p
<1>1. ~(f.request /\ n = p.expected) \/ (f.request /\ n = p.expected /\ p.negotiated /\ f.session # Identity)
  BY DEF Refuse, Admissible, Level
<1> QED BY <1>1 DEF Serve

\* An admitted frame gets to one of the handlers, with its number used up.
LEMMA AdmittedForm ==
    ASSUME NEW f, NEW n, Admissible(f, n),
           NEW p, Level(p, sequence, negotiated, capabilities, core, answered),
           NEW greeted, NEW served
    PROVE  Serve(p, f, n, greeted, served) =
             IF negotiated THEN served ELSE IF f.opcode = "hello" THEN greeted ELSE Counted(p)
<1>1. f.request /\ n = p.expected /\ p.negotiated = negotiated /\ ~p.closed
      /\ (negotiated => f.session = Identity)
  BY DEF Admissible, Level, Matches
<1>2. CASE negotiated
  BY <1>1, <1>2 DEF Serve
<1>3. CASE ~negotiated
  BY <1>1, <1>3 DEF Serve
<1> QED BY <1>2, <1>3

\* What the v2 session comes to while the native one stays open: it is level with it, or
\* has ended for a saving it had no room for.
Follows(q, next, met, granted, contract, c, ids) ==
    \/ Level(q, next, met, granted, c, ids) /\ (met => q.batch = contract)
    \/ q.closed /\ OversizedIn(c) # {}

\* A batch that the native session survives is done as a whole, or one of its answers did
\* not fit.
LEMMA BatchFollows ==
    ASSUME IsCore(core), Within(core), NEW p, Sent(p), NEW ids, Matches(p, core, ids),
           NEW b, b.count \in Nat, b.op \in Request,
           \A k \in 0..(b.count - 1) : <<b.batch, k>> \in OperationId,
           NEW c \in BatchCores(b)[b.count], NEW q, q = OperationBatch(p, b)
    PROVE  /\ Continues(q, p)
           /\ Matches(q, c, ids \cup BatchIds(b)) \/ (q.closed /\ OversizedIn(c) # {})
<1>1. PICK last : last = BatchRun(p, b)[b.count]
  OBVIOUS
<1>2. Matches(last, c, ids \cup BatchIds(b))
  <2>1. \A i \in 0..b.count : \A x \in BatchCores(b)[i] :
          Matches(BatchRun(p, b)[i], x, ids \cup Prefix(b, i))
    BY BatchMatches
  <2>2. BatchIds(b) = Prefix(b, b.count)
    BY DEF BatchIds, Prefix
  <2>3. b.count \in 0..b.count
    OBVIOUS
  <2> QED BY <1>1, <2>1, <2>2, <2>3
<1>3. /\ Continues(q, p)
      /\ ~last.closed => q = last \/ (q.closed /\ ~(BatchIds(b) \subseteq last.answered))
  <2>1. ~p.closed
    BY DEF Matches
  <2> QED BY <1>1, <2>1, BatchForm
<1>4. CASE q = last
  BY <1>2, <1>3, <1>4
<1>5. CASE q.closed /\ ~(BatchIds(b) \subseteq last.answered)
  <2>1. (ids \cup BatchIds(b)) \ last.answered \subseteq OversizedIn(c)
    BY <1>2 DEF Matches, Tells
  <2> QED BY <1>3, <1>5, <2>1
<1> QED BY <1>2, <1>3, <1>4, <1>5 DEF Matches

\* An event that the native session survives does the same to the v2 session.
LEMMA V2EventFollows ==
    ASSUME SessionInv, NEW f \in Frames, NEW n, Event(f, n), ~closed',
           NEW p, Sent(p), Level(p, sequence + 1, negotiated, capabilities, core, answered),
           p.batch = batch, NEW q, q = V2Request(p, f)
    PROVE  Follows(q, sequence', negotiated', capabilities', batch', core', answered')
<1>1. PICK o \in IF f.plain /\ Runtime \subseteq capabilities
                 THEN EventOutcomes(f.body) ELSE {Unchanged} :
        core' = o.core /\ ~o.fatal /\ answered' = answered \cup o.answered
  BY DEF Event
<1>2. /\ f.opcode = "event" /\ negotiated /\ sequence' = sequence + 1
      /\ UNCHANGED <<negotiated, capabilities, batch>>
  BY DEF Event, Consume
<1>3. IsCore(core) /\ Within(core) /\ IsSession(p) /\ Matches(p, core, answered)
      /\ p.accepted = capabilities
  BY <1>2 DEF SessionInv, TypeOK, Sent, Level
<1>4. SUFFICES /\ Continues(q, p)
               /\ Matches(q, core', answered') \/ (q.closed /\ OversizedIn(core') # {})
  BY <1>2 DEF Follows, Level, Continues
<1>5. CASE o = Unchanged /\ q = p
  BY <1>1, <1>3, <1>5 DEF Unchanged, Outcome, Continues
<1>6. CASE ~(f.plain /\ Runtime \subseteq capabilities)
  <2>1. o = Unchanged /\ q = p
    BY <1>1, <1>2, <1>3, <1>6 DEF V2Request, V2Event
  <2> QED BY <1>5, <2>1
<1>7. CASE f.plain /\ Runtime \subseteq capabilities
  <2>1. PICK b : b = f.body
    OBVIOUS
  <2>2. /\ o \in EventOutcomes(b) /\ q = V2Event(p, b) /\ Runtime \subseteq p.accepted
        /\ b.wellFormed => EventBody(b)
    BY <1>1, <1>2, <1>3, <1>7, <2>1, EventsAreEvents DEF V2Request
  <2>3. CASE ~(b.wellFormed /\ b.subject = "batch")
    <3>1. q = RuntimeEvent(p, b)
      BY <2>2, <2>3 DEF V2Event
    <3>2. Matches(q, o.core, answered \cup o.answered)
      BY <1>1, <1>3, <2>2, <2>3, <3>1, RuntimeEventMatches
    <3>3. Continues(q, p)
      BY <2>2, <2>3, <3>1, RuntimeEventSent
    <3> QED BY <1>1, <3>2, <3>3
  <2>4. CASE b.wellFormed /\ b.subject = "batch" /\ ~(batch /\ Batch \in capabilities)
    <3>1. o = Unchanged /\ q = p
      BY <1>3, <2>2, <2>4 DEF EventOutcomes, V2Event
    <3> QED BY <1>5, <3>1
  <2>5. CASE b.wellFormed /\ b.subject = "batch" /\ batch /\ Batch \in capabilities
    <3>1. o \in BatchOutcomes(b) /\ q = OperationBatch(p, b)
      BY <1>3, <2>2, <2>5 DEF EventOutcomes, V2Event
    <3>2. /\ b.count \in Nat /\ b.op \in Request
          /\ \A k \in 0..(b.count - 1) : <<b.batch, k>> \in OperationId
      BY <2>2, <2>5 DEF EventBody
    <3>3. PICK c \in BatchCores(b)[b.count] : o = Outcome(c, FALSE, BatchIds(b))
      BY <1>1, <3>1 DEF BatchOutcomes, Ended, Outcome
    <3>4. core' = c /\ answered' = answered \cup BatchIds(b)
      BY <1>1, <3>3 DEF Outcome
    <3> QED BY <1>3, <3>1, <3>2, <3>4, BatchFollows
  <2> QED BY <2>3, <2>4, <2>5
<1> QED BY <1>6, <1>7

\* And to the v1 session, if v1 has such an event.
LEMMA V1EventLevel ==
    ASSUME SessionInv, NEW f \in Frames, NEW n, Event(f, n), ~closed', ~ReadDifferently(f),
           NEW p, Sent(p), Level(p, sequence + 1, negotiated, capabilities, core, answered),
           NEW q, q = V1Request(p, f)
    PROVE  Level(q, sequence', negotiated', capabilities', core', answered')
<1>1. PICK o \in IF f.plain /\ Runtime \subseteq capabilities
                 THEN EventOutcomes(f.body) ELSE {Unchanged} :
        core' = o.core /\ ~o.fatal /\ answered' = answered \cup o.answered
  BY DEF Event
<1>2. /\ f.opcode = "event" /\ negotiated /\ sequence' = sequence + 1
      /\ UNCHANGED <<negotiated, capabilities, batch>>
  BY DEF Event, Consume
<1>3. IsCore(core) /\ IsSession(p) /\ Matches(p, core, answered) /\ p.accepted = capabilities
  BY <1>2 DEF SessionInv, TypeOK, Sent, Level
<1>4. SUFFICES Matches(q, core', answered') /\ Continues(q, p)
  BY <1>2 DEF Level, Continues
<1>5. PICK b : b = f.body
  OBVIOUS
<1>6. b.wellFormed => EventBody(b) /\ b.subject # "batch"
  BY <1>2, <1>5, EventsAreEvents DEF ReadDifferently
<1>7. CASE ~(f.plain /\ Runtime \subseteq capabilities)
  <2>1. o = Unchanged /\ q = p
    BY <1>1, <1>2, <1>3, <1>7 DEF V1Request
  <2> QED BY <1>1, <1>3, <2>1 DEF Unchanged, Outcome, Continues
<1>8. CASE f.plain /\ Runtime \subseteq capabilities
  <2>1. q = RuntimeEvent(p, b) /\ o \in EventOutcomes(b)
    BY <1>1, <1>2, <1>3, <1>5, <1>6, <1>8 DEF V1Request
  <2>2. Matches(q, o.core, answered \cup o.answered)
    BY <1>1, <1>3, <1>6, <2>1, RuntimeEventMatches
  <2>3. Continues(q, p)
    BY <1>6, <2>1, RuntimeEventSent
  <2> QED BY <1>1, <2>2, <2>3
<1> QED BY <1>7, <1>8

\* Whatever arrives, the v2 session follows a native session that stays open.
LEMMA V2GoesOn ==
    ASSUME SessionInv, ~closed, ~closed', NEW f \in Frames, NEW n, Arrive(f, n),
           NEW p, Sent(p), Level(p, sequence, negotiated, capabilities, core, answered),
           negotiated => p.batch = batch, NEW q, q = ServeV2(p, f, n)
    PROVE  Follows(q, sequence', negotiated', capabilities', batch', core', answered')
<1>1. CASE Refuse(f, n)
  <2>1. q = p
    BY <1>1, RefusedLevel DEF ServeV2
  <2> QED BY <1>1, <2>1 DEF Refuse, vars, Follows
<1>2. CASE Hello(f, n) \/ HelloRefused(f, n) \/ Event(f, n) \/ NoEffect(f, n)
  <2>1. Admissible(f, n) /\ sequence' = sequence + 1
    BY <1>2 DEF Hello, HelloRefused, Event, NoEffect, Consume
  <2>2. PICK r : r = Counted(p)
    OBVIOUS
  <2>3. q = IF negotiated THEN V2Request(r, f)
            ELSE IF f.opcode = "hello" THEN V2Hello(r, f) ELSE r
    BY <2>1, <2>2, AdmittedForm DEF ServeV2
  <2>4. /\ Level(r, sequence + 1, negotiated, capabilities, core, answered) /\ Sent(r)
        /\ r.batch = p.batch
    BY <2>2, CountedLevel, CountedSent, CountedForm DEF Sent
  <2>5. CASE Hello(f, n)
    <3>1. /\ ~negotiated /\ CanNegotiate(f) /\ f.opcode = "hello" /\ negotiated' = TRUE
          /\ batch' = AsksForBatches(f)
          /\ capabilities' = GrantedTo(f)
          /\ UNCHANGED <<core, answered>>
      BY <2>5 DEF Hello, CanNegotiate, KnownContract, HelloParses, AsksForBatches, GrantedTo
    <3>2. IsSession(r) /\ q = V2Hello(r, f)
      BY <2>3, <2>4, <3>1 DEF Sent
    <3>3. Greeted(q, r) /\ Granted(q, f) /\ Contracted(q, f)
      BY <3>1, <3>2, V2HelloForm
    <3> QED BY <2>1, <2>4, <3>1, <3>3 DEF Follows, Level, Matches, Tells, Greeted, Granted, Contracted
  <2>6. CASE HelloRefused(f, n)
    <3>1. ~negotiated /\ ~CanNegotiate(f) /\ UNCHANGED <<core, negotiated, capabilities, answered>>
      BY <2>6 DEF HelloRefused
    <3>2. q = r
      BY <2>3, <2>4, <3>1, V2HelloForm DEF Sent
    <3> QED BY <2>1, <2>4, <3>1, <3>2 DEF Follows
  <2>7. CASE Event(f, n)
    <3>1. negotiated
      BY <2>7 DEF Event
    <3> QED BY <2>3, <2>4, <2>7, <3>1, V2EventFollows
  <2>8. CASE NoEffect(f, n)
    <3>1. /\ negotiated /\ UNCHANGED <<core, negotiated, capabilities, batch, answered>>
          /\ \/ f.opcode \notin {"event", "goodbye"}
             \/ f.opcode = "goodbye" /\ ~(f.plain /\ f.body.wellFormed)
      BY <2>8 DEF NoEffect
    <3>2. q = r
      BY <2>3, <3>1 DEF V2Request
    <3> QED BY <2>1, <2>4, <3>1, <3>2 DEF Follows
  <2> QED BY <1>2, <2>5, <2>6, <2>7, <2>8
<1>3. CASE SequenceExhausted(f, n) \/ Goodbye(f, n) \/ OutOfMemory(f, n)
  BY <1>3 DEF SequenceExhausted, Goodbye, OutOfMemory
<1> QED BY <1>1, <1>2, <1>3 DEF Arrive

\* A v2 session that has ended stays so.
LEMMA V2StaysClosed ==
    ASSUME NEW p, IsSession(p), p.closed, NEW f, NEW n
    PROVE  ServeV2(p, f, n).closed
<1>1. PICK r : r = Counted(p)
  OBVIOUS
<1>2. IsSession(r) /\ r.closed
  BY <1>1, CountedForm
<1>3. PICK q : q = V2Hello(r, f)
  OBVIOUS
<1>4. f.opcode = "hello" => q.closed
  BY <1>2, <1>3, V2HelloForm DEF Greeted
<1>5. \/ ServeV2(p, f, n) \in {p, r}
      \/ f.opcode = "hello" /\ ServeV2(p, f, n) = q
  BY <1>1, <1>3 DEF ServeV2, Serve
<1> QED BY <1>2, <1>4, <1>5

\* Nothing that is processed is lost while the native session stays open.
LEMMA ArrivalKeeps ==
    ASSUME SessionInv, ~closed, ~closed', NEW f \in Frames, NEW n, Arrive(f, n)
    PROVE  Keeps(core, core')
<1>1. CASE Event(f, n)
  <2>1. PICK o \in IF f.plain /\ Runtime \subseteq capabilities
                   THEN EventOutcomes(f.body) ELSE {Unchanged} : core' = o.core
    BY <1>1 DEF Event
  <2>2. CASE o = Unchanged
    BY <2>1, <2>2 DEF Unchanged, Outcome, Keeps
  <2>3. CASE o \in EventOutcomes(f.body)
    <3>1. f.body.wellFormed => EventBody(f.body)
      BY <1>1, EventsAreEvents DEF Event
    <3>2. IsCore(core) /\ Within(core)
      BY DEF SessionInv, TypeOK
    <3> QED BY <2>1, <2>3, <3>1, <3>2, EventOutcome DEF Accounted
  <2> QED BY <2>1, <2>2, <2>3
<1>2. CASE ~Event(f, n)
  <2>1. core' = core
    BY <1>2 DEF Arrive, Refuse, SequenceExhausted, Hello, HelloRefused, NoEffect, Goodbye,
                OutOfMemory, vars
  <2> QED BY <2>1 DEF Keeps
<1> QED BY <1>1, <1>2

\* So does the v1 session, as long as the versions read alike.
LEMMA V1StaysLevel ==
    ASSUME SessionInv, ~closed, ~closed', NEW f \in Frames, NEW n, Arrive(f, n), ~ReadDifferently(f),
           NEW p, Sent(p), Level(p, sequence, negotiated, capabilities, core, answered),
           NEW q, q = ServeV1(p, f, n)
    PROVE  Level(q, sequence', negotiated', capabilities', core', answered')
<1>1. CASE Refuse(f, n)
  <2>1. q = p
    BY <1>1, RefusedLevel DEF ServeV1
  <2> QED BY <1>1, <2>1 DEF Refuse, vars
<1>2. CASE Hello(f, n) \/ HelloRefused(f, n) \/ Event(f, n) \/ NoEffect(f, n)
  <2>1. Admissible(f, n) /\ sequence' = sequence + 1
    BY <1>2 DEF Hello, HelloRefused, Event, NoEffect, Consume
  <2>2. PICK r : r = Counted(p)
    OBVIOUS
  <2>3. q = IF negotiated THEN V1Request(r, f)
            ELSE IF f.opcode = "hello" THEN V1Hello(r, f) ELSE r
    BY <2>1, <2>2, AdmittedForm DEF ServeV1
  <2>4. Level(r, sequence + 1, negotiated, capabilities, core, answered) /\ Sent(r)
    BY <2>2, CountedLevel, CountedSent DEF Sent
  <2>5. CASE Hello(f, n)
    <3>1. /\ ~negotiated /\ CanNegotiate(f) /\ f.opcode = "hello" /\ negotiated' = TRUE
          /\ capabilities' = GrantedTo(f)
          /\ UNCHANGED <<core, answered>>
      BY <2>5 DEF Hello, CanNegotiate, KnownContract, HelloParses, AsksForBatches, GrantedTo
    <3>2. IsSession(r) /\ q = V1Hello(r, f)
      BY <2>3, <2>4, <3>1 DEF Sent
    <3>3. Greeted(q, r) /\ Granted(q, f)
      BY <3>1, <3>2, V1HelloForm
    <3> QED BY <2>1, <2>4, <3>1, <3>3 DEF Level, Matches, Tells, Greeted, Granted
  <2>6. CASE HelloRefused(f, n)
    <3>1. ~negotiated /\ ~CanNegotiate(f) /\ UNCHANGED <<core, negotiated, capabilities, answered>>
      BY <2>6 DEF HelloRefused
    <3>2. q = r
      BY <2>3, <2>4, <3>1, V1HelloForm DEF Sent
    <3> QED BY <2>1, <2>4, <3>1, <3>2
  <2>7. CASE Event(f, n)
    <3>1. negotiated
      BY <2>7 DEF Event
    <3> QED BY <2>3, <2>4, <2>7, <3>1, V1EventLevel
  <2>8. CASE NoEffect(f, n)
    <3>1. /\ negotiated /\ UNCHANGED <<core, negotiated, capabilities, answered>>
          /\ \/ f.opcode \notin {"event", "goodbye"}
             \/ f.opcode = "goodbye" /\ ~(f.plain /\ f.body.wellFormed)
      BY <2>8 DEF NoEffect
    <3>2. q = r
      BY <2>3, <3>1 DEF V1Request, ReadDifferently
    <3> QED BY <2>1, <2>4, <3>1, <3>2
  <2> QED BY <1>2, <2>5, <2>6, <2>7, <2>8
<1>3. CASE SequenceExhausted(f, n) \/ Goodbye(f, n) \/ OutOfMemory(f, n)
  BY <1>3 DEF SequenceExhausted, Goodbye, OutOfMemory
<1> QED BY <1>1, <1>2, <1>3 DEF Arrive

\* The three sessions together take the native session's steps: the Python sessions only
\* listen, so what is proved of ProtocolSession holds in their company.
THEOREM TwinsImplementSession == TwinSpec => Spec
<1>1. TwinInit => Init
  BY DEF TwinInit
<1>2. [TwinNext]_<<vars, twinVars>> => [Next]_vars
  BY DEF TwinNext, Next
<1> QED BY <1>1, <1>2, PTL DEF TwinSpec, Spec

\* The inductive invariant of the three sessions.
THEOREM TwinSessionInvariant == TwinSpec => []TwinSessionInv
<1>1. TwinInit => TwinSessionInv
  <2> SUFFICES ASSUME TwinInit PROVE TwinSessionInv
    OBVIOUS
  <2>1. /\ v2 = NewSession(FALSE) /\ v1 = NewSession(TRUE) /\ parted = FALSE
        /\ core = EmptyCore /\ sequence = 1
        /\ negotiated = FALSE /\ capabilities = {} /\ answered = {}
    BY DEF TwinInit, Init
  <2> QED BY <2>1, NewSessionFresh DEF TwinSessionInv
<1>2. SessionInv /\ TwinSessionInv /\ [TwinNext]_<<vars, twinVars>> => TwinSessionInv'
  <2> SUFFICES ASSUME SessionInv, TwinSessionInv, [TwinNext]_<<vars, twinVars>>
               PROVE  TwinSessionInv'
    OBVIOUS
  <2>1. CASE UNCHANGED twinVars /\ (UNCHANGED vars \/ closed')
    BY <2>1 DEF TwinSessionInv, twinVars, vars
  <2>2. CASE Undecodable /\ UNCHANGED twinVars
    BY <2>1, <2>2 DEF Undecodable
  <2>3. ASSUME closed, NEW f \in Frames, NEW n \in 1..MaxSequence, Arrive(f, n), UNCHANGED twinVars
        PROVE  TwinSessionInv'
    <3>1. closed'
      BY <2>3 DEF Arrive, Refuse, SequenceExhausted, Hello, HelloRefused, Event, NoEffect, Goodbye,
                  OutOfMemory, Consume, Admissible, vars
    <3> QED BY <2>1, <2>3, <3>1
  <2>4. ASSUME ~closed, NEW f \in Frames, NEW n \in 1..MaxSequence, Arrive(f, n),
               v2' = ServeV2(v2, f, n), parted' = (parted \/ ReadDifferently(f)),
               v1' = IF parted' THEN NewSession(TRUE) ELSE ServeV1(v1, f, n)
        PROVE  TwinSessionInv'
    <3>1. /\ Sent(v2) /\ Sent(v1) /\ parted \in BOOLEAN
          /\ ~parted => Level(v1, sequence, negotiated, capabilities, core, answered)
      BY <2>4 DEF TwinSessionInv
    <3>2. Sent(v2')
      BY <2>4, <3>1, ServedSent
    <3>3. Sent(v1')
      BY <2>4, <3>1, ServedSent, NewSessionFresh
    <3>4. ASSUME ~closed'
          PROVE  /\ v2'.closed => OversizedIn(core') # {}
                 /\ ~v2'.closed =>
                       /\ Level(v2', sequence', negotiated', capabilities', core', answered')
                       /\ negotiated' => v2'.batch = batch'
      <4>1. CASE v2.closed
        <5>1. OversizedIn(core) # {}
          BY <2>4, <4>1 DEF TwinSessionInv
        <5>2. v2'.closed
          BY <2>4, <3>1, <4>1, V2StaysClosed DEF Sent
        <5>3. Keeps(core, core')
          BY <2>4, <3>4, ArrivalKeeps
        <5> QED BY <5>1, <5>2, <5>3 DEF Keeps, OversizedIn
      <4>2. CASE ~v2.closed
        <5>1. /\ Level(v2, sequence, negotiated, capabilities, core, answered)
              /\ negotiated => v2.batch = batch
          BY <2>4, <4>2 DEF TwinSessionInv
        <5>2. Follows(v2', sequence', negotiated', capabilities', batch', core', answered')
          BY <2>4, <3>1, <3>4, <5>1, V2GoesOn
        <5> QED BY <5>2 DEF Follows, Level, Matches
      <4> QED BY <4>1, <4>2
    <3>5. ASSUME ~closed', ~parted'
          PROVE  Level(v1', sequence', negotiated', capabilities', core', answered')
      <4>1. ~parted /\ ~ReadDifferently(f) /\ v1' = ServeV1(v1, f, n)
        BY <2>4, <3>5
      <4> QED BY <2>4, <3>1, <3>5, <4>1, V1StaysLevel
    <3>6. parted' \in BOOLEAN
      BY <2>4
    <3> QED BY <3>2, <3>3, <3>4, <3>5, <3>6 DEF TwinSessionInv
  <2> QED BY <2>1, <2>2, <2>3, <2>4 DEF TwinNext
<1>3. TwinSpec => []SessionInv
  BY TwinsImplementSession, SessionInvariant, PTL
<1> QED BY <1>1, <1>2, <1>3, PTL DEF TwinSpec

\* Native, v2 and v1 sessions (protocol.cpp, fluidlink_v2.py, fluidlink.py) admit the same
\* frames, grant the same capabilities and take in the same operations, whatever is sent,
\* for sessions and batches of any length.  They decide alike as long as the floats of the
\* Python sessions (fluidlink_v2.py:1289) tell the sizes apart, and the clients are told
\* alike but for savings that an answer of v2 has no room for.
THEOREM SessionsAlwaysAgree == TwinSpec => []SessionsAgree
<1>1. SessionInv /\ TwinSessionInv => SessionsAgree
  <2> SUFFICES ASSUME SessionInv, TwinSessionInv PROVE SessionsAgree
    OBVIOUS
  <2>1. IsCore(core)
    BY DEF SessionInv, TypeOK
  <2>2. OversizedIn(core) = Oversized
    BY DEF OversizedIn, Oversized
  <2>3. ASSUME NEW p, Level(p, sequence, negotiated, capabilities, core, answered)
        PROVE  Alike(p) /\ ~p.closed
    <3>1. Tracks(core, p.state) /\ p.frame = core.currentFrame /\ Tells(p, core, answered)
      BY <2>3 DEF Level, Matches
    <3>2. /\ SameAdmission(core, p.state, p.frame)
          /\ ToldApart(SizesOf(core)) => SameState(core, p.state, p.frame)
      BY <2>1, <3>1, TracksAgrees
    <3> QED BY <2>2, <2>3, <3>1, <3>2 DEF Level, Matches, Alike, Tells
  <2> QED BY <2>2, <2>3 DEF TwinSessionInv, SessionsAgree
<1>2. TwinSpec => []SessionInv
  BY TwinsImplementSession, SessionInvariant, PTL
<1> QED BY <1>1, <1>2, TwinSessionInvariant, PTL

\* A Python session that is open has sent the decision of everything it took in but for
\* some eliminations, rejected with their effect in place (fluidlink_v2.py:1487), which
\* nothing relies on; also where the native session has ended already.
THEOREM DecisionsAreAlwaysSent == TwinSpec => []DecisionsAreSent
<1>1. TwinSessionInv => DecisionsAreSent
  <2>1. \A p : p.closed \/ Sent(p) => p.closed \/ Honest(p.state, p.answered, p.json)
    BY DEF Sent
  <2> QED BY <2>1 DEF TwinSessionInv, DecisionsAreSent, Honest
<1> QED BY <1>1, TwinSessionInvariant, PTL
=============================================================================
