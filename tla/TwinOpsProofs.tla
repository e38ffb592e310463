---------------------------- MODULE TwinOpsProofs ----------------------------
(***************************************************************************)
(* Lemmas about the operators of the decision core, in both languages:     *)
(* what each operator of CoreOps changes and that it maps cores to cores,  *)
(* and that each operator of RuntimeOps does to the Python state what its  *)
(* counterpart does to the core, as long as the sizes are told apart.      *)
(***************************************************************************)
EXTENDS TwinOps, TLAPS

-----------------------------------------------------------------------------
(* The native core.                                                        *)

\* Binding one more id keeps a partial function well typed.
LEMMA BindType ==
    ASSUME NEW S, NEW f, f \in [DOMAIN f -> S], NEW x, NEW v \in S
    PROVE  /\ DOMAIN Bind(f, x, v) = DOMAIN f \cup {x}
           /\ Bind(f, x, v) \in [DOMAIN f \cup {x} -> S]
           /\ Bind(f, x, v)[x] = v
           /\ \A y \in DOMAIN f : y # x => Bind(f, x, v)[y] = f[y]
BY DEF Bind

\* Invalidation (State::invalidate) only ever clears copy pointers.
LEMMA InvalidateType ==
    ASSUME NEW c, IsCore(c), NEW id
    PROVE  /\ IsCore(Invalidate(c, id))
           /\ Registered(Invalidate(c, id)) = Registered(c)
           /\ Invalidate(c, id).operations = c.operations
           /\ Invalidate(c, id).currentFrame = c.currentFrame
           /\ \A r \in Registered(c) :
                Invalidate(c, id).resources[r] =
                    IF Retired(c, id, r) THEN [c.resources[r] EXCEPT !.copy = NoOp]
                                         ELSE c.resources[r]
<1> DEFINE R == [r \in Registered(c) |->
                    IF Retired(c, id, r) THEN [c.resources[r] EXCEPT !.copy = NoOp]
                                         ELSE c.resources[r]]
<1>1. Invalidate(c, id) = [resources |-> R, operations |-> c.operations,
                           currentFrame |-> c.currentFrame]
  BY DEF Invalidate, IsCore
<1>2. R \in [Registered(c) -> Resource]
  BY DEF IsCore, Registered, Resource
<1> QED BY <1>1, <1>2 DEF IsCore, Registered

\* The views stay as they were registered.
LEMMA InvalidateKeepsViews ==
    ASSUME NEW c, IsCore(c), NEW id, NEW r \in Registered(c)
    PROVE  /\ Invalidate(c, id).resources[r] \in Resource
           /\ Invalidate(c, id).resources[r].memory = c.resources[r].memory
           /\ Invalidate(c, id).resources[r].aliases = c.resources[r].aliases
<1> DEFINE x == c.resources[r]
           y == Invalidate(c, id).resources[r]
<1>1. x \in Resource
  BY DEF IsCore, Registered
<1>2. y = IF Retired(c, id, r) THEN [x EXCEPT !.copy = NoOp] ELSE x
  BY InvalidateType
<1>3. y \in Resource
  BY InvalidateType DEF IsCore, Registered
<1> HIDE DEF x, y
<1>4. y.memory = x.memory /\ y.aliases = x.aliases
  BY <1>1, <1>2 DEF Resource
<1> QED BY <1>3, <1>4 DEF x, y

\* Registration adds one resource that remembers nothing.
LEMMA RegisterType ==
    ASSUME NEW c, IsCore(c), NEW id \in ResourceId, NEW view \in View
    PROVE  /\ IsCore(RegisterResource(c, id, view))
           /\ Registered(RegisterResource(c, id, view)) = Registered(c) \cup {id}
           /\ RegisterResource(c, id, view).operations = c.operations
           /\ RegisterResource(c, id, view).resources[id] =
                [memory |-> view.memory, aliases |-> view.aliases,
                 copy |-> NoOp, allocation |-> NoOp]
           /\ \A r \in Registered(c) : r # id =>
                RegisterResource(c, id, view).resources[r] = c.resources[r]
<1> DEFINE blank == [memory |-> view.memory, aliases |-> view.aliases,
                     copy |-> NoOp, allocation |-> NoOp]
           R == Bind(c.resources, id, blank)
<1>1. blank \in Resource
  BY DEF View, Resource
<1>2. /\ DOMAIN R = Registered(c) \cup {id}
      /\ R \in [Registered(c) \cup {id} -> Resource]
      /\ R[id] = blank
      /\ \A r \in Registered(c) : r # id => R[r] = c.resources[r]
  <2> HIDE DEF blank
  <2> QED BY <1>1 DEF IsCore, Registered, Bind
<1> HIDE DEF R
<1>3. RegisterResource(c, id, view) =
        [resources |-> R, operations |-> c.operations, currentFrame |-> c.currentFrame]
  BY DEF RegisterResource, IsCore, R
<1> QED BY <1>2, <1>3 DEF IsCore, Registered

\* Releasing keeps every other resource, with its copy at most cleared.
LEMMA ReleaseType ==
    ASSUME NEW c, IsCore(c), NEW id
    PROVE  /\ IsCore(ReleaseResource(c, id))
           /\ Registered(ReleaseResource(c, id)) = Registered(c) \ {id}
           /\ ReleaseResource(c, id).operations = c.operations
           /\ ReleaseResource(c, id).currentFrame = c.currentFrame
           /\ \A r \in Registered(c) \ {id} :
                ReleaseResource(c, id).resources[r] = Invalidate(c, id).resources[r]
<1> DEFINE d == Invalidate(c, id)
           R == [r \in Registered(c) \ {id} |-> d.resources[r]]
<1>1. /\ IsCore(d) /\ Registered(d) = Registered(c)
      /\ d.operations = c.operations /\ d.currentFrame = c.currentFrame
  BY InvalidateType
<1>2. ReleaseResource(c, id) =
        [resources |-> R, operations |-> d.operations, currentFrame |-> d.currentFrame]
  BY <1>1 DEF ReleaseResource, IsCore
<1> HIDE DEF d
<1>3. R \in [Registered(c) \ {id} -> Resource]
  BY <1>1 DEF IsCore, Registered
<1>4. \A r \in Registered(c) \ {id} : R[r] = d.resources[r]
  OBVIOUS
<1> HIDE DEF R
<1>5. DOMAIN R = Registered(c) \ {id}
  BY <1>3
<1>6. IsCore(ReleaseResource(c, id))
  BY <1>1, <1>2, <1>3, <1>5 DEF IsCore, Registered
<1> QED BY <1>1, <1>2, <1>4, <1>5, <1>6 DEF Registered, d

\* Storing the record of an operation touches nothing else.
LEMMA StoreType ==
    ASSUME NEW c, IsCore(c), NEW id \in OperationId, NEW record \in StoredOperation
    PROVE  /\ IsCore(Store(c, id, record))
           /\ Store(c, id, record).resources = c.resources
           /\ Store(c, id, record).currentFrame = c.currentFrame
           /\ Processed(Store(c, id, record)) = Processed(c) \cup {id}
           /\ Store(c, id, record).operations[id] = record
           /\ \A o \in Processed(c) : o # id =>
                Store(c, id, record).operations[o] = c.operations[o]
<1> DEFINE O == Bind(c.operations, id, record)
<1>1. /\ DOMAIN O = Processed(c) \cup {id}
      /\ O \in [DOMAIN O -> StoredOperation]
      /\ O[id] = record
      /\ \A o \in Processed(c) : o # id => O[o] = c.operations[o]
  BY DEF Bind, IsCore, Processed
<1>2. Store(c, id, record) =
        [resources |-> c.resources, operations |-> O, currentFrame |-> c.currentFrame]
  BY DEF IsCore, Store
<1> HIDE DEF O
<1> QED BY <1>1, <1>2 DEF IsCore, Processed

\* The record of an operation is a stored operation.
LEMMA RecordType ==
    ASSUME NEW c, IsCore(c), NEW op \in Request, NEW eliminated \in BOOLEAN,
           NEW some \in SUBSET OperationId, NEW removed \in BOOLEAN
    PROVE  Record(c, op, eliminated, some, removed) \in StoredOperation
BY DEF Record, FrameOf, IsCore, Request, StoredOperation

\* What executing an operation does to the core: it is stored as executed, its
\* target remembers it, and what it wrote to is invalidated first.
LEMMA ExecuteType ==
    ASSUME NEW c, IsCore(c), NEW id \in OperationId, NEW op \in Request
    PROVE  /\ IsCore(Execute(c, id, op))
           /\ Registered(Execute(c, id, op)) = Registered(c)
           /\ Processed(Execute(c, id, op)) = Processed(c) \cup {id}
           /\ ~Execute(c, id, op).operations[id].eliminated
           /\ ~Execute(c, id, op).operations[id].removed
           /\ Execute(c, id, op).operations[id].source = op.source
           /\ Execute(c, id, op).operations[id].target = op.target
           /\ Execute(c, id, op).operations[id].frame = FrameOf(c, op)
           /\ Execute(c, id, op).operations[id].bytes = op.bytes
           /\ Execute(c, id, op).operations[id].queue = op.queue
           /\ Execute(c, id, op).currentFrame = c.currentFrame
           /\ \A o \in Processed(c) : o # id =>
                Execute(c, id, op).operations[o] = c.operations[o]
           /\ \A r \in Registered(c) :
                Execute(c, id, op).resources[r] =
                    IF r = op.target
                    THEN Remember(Overwritten(c, op).resources[r], id, op)
                    ELSE Overwritten(c, op).resources[r]
<1> DEFINE w == Overwritten(c, op)
           record == Record(c, op, FALSE, {}, FALSE)
           d == Store(w, id, record)
           R == [r \in Registered(c) |-> IF r = op.target THEN Remember(d.resources[r], id, op)
                                                          ELSE d.resources[r]]
<1>1. /\ IsCore(w) /\ Registered(w) = Registered(c)
      /\ w.operations = c.operations /\ w.currentFrame = c.currentFrame
  BY InvalidateType DEF Overwritten
<1>2. /\ record \in StoredOperation
      /\ ~record.eliminated /\ ~record.removed
      /\ record.source = op.source /\ record.target = op.target /\ record.frame = FrameOf(c, op)
      /\ record.bytes = op.bytes /\ record.queue = op.queue
  <2>1. record \in StoredOperation
    BY RecordType
  <2> QED BY <2>1 DEF Record
<1> HIDE DEF w, record
<1>3. /\ IsCore(d) /\ d.currentFrame = w.currentFrame
      /\ d.resources = w.resources
      /\ Processed(d) = Processed(c) \cup {id}
      /\ d.operations[id] = record
      /\ \A o \in Processed(c) : o # id => d.operations[o] = c.operations[o]
  BY <1>1, <1>2, StoreType DEF Processed
<1>4. Execute(c, id, op) = [d EXCEPT !.resources = R]
  BY DEF Execute, w, record
<1> HIDE DEF d
<1>5. \A r \in Registered(c) :
        /\ d.resources[r] \in Resource
        /\ Remember(d.resources[r], id, op) \in Resource
  <2>1. \A r \in Registered(c) : d.resources[r] \in Resource
    BY <1>1, <1>3 DEF IsCore, Registered
  <2> QED BY <2>1 DEF Remember, Resource
<1>6. /\ R \in [Registered(c) -> Resource]
      /\ DOMAIN R = Registered(c)
      /\ \A r \in Registered(c) :
            R[r] = IF r = op.target THEN Remember(d.resources[r], id, op) ELSE d.resources[r]
  BY <1>5
<1> HIDE DEF R
<1>7. Execute(c, id, op) =
        [resources |-> R, operations |-> d.operations, currentFrame |-> d.currentFrame]
  BY <1>3, <1>4 DEF IsCore
<1>8. IsCore(Execute(c, id, op))
  BY <1>3, <1>6, <1>7, <1>1 DEF IsCore, Registered, Processed
<1>9. /\ Registered(Execute(c, id, op)) = Registered(c)
      /\ Processed(Execute(c, id, op)) = Processed(c) \cup {id}
      /\ Execute(c, id, op).operations = d.operations
      /\ Execute(c, id, op).resources = R
      /\ Execute(c, id, op).currentFrame = c.currentFrame
  BY <1>1, <1>3, <1>6, <1>7 DEF Registered, Processed
<1> QED BY <1>2, <1>3, <1>6, <1>8, <1>9 DEF w

\* Whatever is retained, and whatever stands in for a dependency, is an id.
LEMMA ReplacementsType ==
    ASSUME NEW c, IsCore(c), NEW op \in Request
    PROVE  /\ Retained(c, op) \in OperationId \cup {NoOp}
           /\ Replacements(c, op) \subseteq OperationId
           /\ Decide(c, op) \in Opcode
<1>1. \A r \in Registered(c) : /\ c.resources[r].copy \in OperationId \cup {NoOp}
                               /\ c.resources[r].allocation \in OperationId \cup {NoOp}
  BY DEF IsCore, Registered, Resource
<1>2. Retained(c, op) \in OperationId \cup {NoOp}
  BY <1>1 DEF Retained, CollapsesAlias, RepeatsCopy, Endpoints, ReusesAllocation
<1>3. \A d \in op.deps : StandIns(c, d) \subseteq OperationId
  BY DEF StandIns, IsCore, Processed, StoredOperation, Request
<1>4. Replacements(c, op) \subseteq OperationId
  BY <1>2, <1>3 DEF Replacements
<1>5. Decide(c, op) \in Opcode
  BY DEF Decide, Opcode
<1> QED BY <1>2, <1>4, <1>5

\* A processed operation joins the ones before it, whose records stay.
LEMMA ProcessType ==
    ASSUME NEW c, IsCore(c), NEW id \in OperationId, NEW op \in Request
    PROVE  /\ IsCore(Process(c, id, op))
           /\ Registered(Process(c, id, op)) = Registered(c)
           /\ Process(c, id, op).currentFrame = c.currentFrame
           /\ Processed(Process(c, id, op)) = Processed(c) \cup {id}
           /\ \A o \in Processed(c) : o # id =>
                Process(c, id, op).operations[o] = c.operations[o]
           /\ Process(c, id, op).operations[id].bytes = op.bytes
<1>1. CASE Decide(c, op) = "keep"
  <2>1. Process(c, id, op) = Execute(c, id, op)
    BY <1>1 DEF Process
  <2>2. /\ IsCore(Execute(c, id, op))
        /\ Registered(Execute(c, id, op)) = Registered(c)
        /\ Execute(c, id, op).currentFrame = c.currentFrame
        /\ Processed(Execute(c, id, op)) = Processed(c) \cup {id}
        /\ \A o \in Processed(c) : o # id =>
             Execute(c, id, op).operations[o] = c.operations[o]
        /\ Execute(c, id, op).operations[id].bytes = op.bytes
    BY ExecuteType
  <2> QED BY <2>1, <2>2, Zenon
<1>2. CASE Decide(c, op) # "keep"
  <2>1. Process(c, id, op) = Eliminate(c, id, op)
    BY <1>2 DEF Process
  <2> DEFINE record == Record(c, op, TRUE, Replacements(c, op), Replacements(c, op) = {})
  <2>2. record \in StoredOperation /\ record.bytes = op.bytes
    <3>1. record \in StoredOperation
      BY ReplacementsType, RecordType
    <3> QED BY <3>1 DEF Record
  <2>3. Process(c, id, op) = Store(c, id, record)
    BY <2>1 DEF Eliminate
  <2> HIDE DEF record
  <2>4. /\ IsCore(Store(c, id, record))
        /\ Registered(Store(c, id, record)) = Registered(c)
        /\ Store(c, id, record).currentFrame = c.currentFrame
        /\ Processed(Store(c, id, record)) = Processed(c) \cup {id}
        /\ \A o \in Processed(c) : o # id =>
             Store(c, id, record).operations[o] = c.operations[o]
        /\ Store(c, id, record).operations[id].bytes = op.bytes
    BY <2>2, StoreType DEF Registered
  <2> QED BY <2>3, <2>4, Zenon
<1> QED BY <1>1, <1>2

\* The views themselves stay as they were registered.
LEMMA ProcessKeepsViews ==
    ASSUME NEW c, IsCore(c), NEW id \in OperationId, NEW op \in Request, NEW r \in Registered(c)
    PROVE  /\ Process(c, id, op).resources[r].memory = c.resources[r].memory
           /\ Process(c, id, op).resources[r].aliases = c.resources[r].aliases
<1>1. CASE Decide(c, op) = "keep"
  <2> DEFINE x == Overwritten(c, op).resources[r]
  <2>1. x \in Resource /\ x.memory = c.resources[r].memory /\ x.aliases = c.resources[r].aliases
    <3>1. c.resources[r] \in Resource
      BY DEF IsCore, Registered
    <3> QED BY <3>1, InvalidateKeepsViews DEF Overwritten
  <2>2. Process(c, id, op).resources[r] = IF r = op.target THEN Remember(x, id, op) ELSE x
    BY <1>1, ExecuteType DEF Process
  <2> HIDE DEF x
  <2>3. Remember(x, id, op).memory = x.memory /\ Remember(x, id, op).aliases = x.aliases
    BY <2>1 DEF Remember, Resource
  <2> QED BY <2>1, <2>2, <2>3
<1>2. CASE Decide(c, op) # "keep"
  <2>1. Process(c, id, op).resources = c.resources
    BY <1>2 DEF Process, Eliminate, Store, IsCore
  <2> QED BY <2>1
<1> QED BY <1>1, <1>2

\* Wherever a failed submission leaves the core, at most its record is new.
LEMMA CutShortType ==
    ASSUME NEW c, IsCore(c), NEW id \in OperationId, NEW op \in Request,
           NEW d \in ProcessCutShort(c, id, op)
    PROVE  /\ IsCore(d)
           /\ d.resources = c.resources
           /\ \/ d = c
              \/ /\ Processed(d) = Processed(c) \cup {id}
                 /\ d.operations[id].eliminated
                 /\ ~d.operations[id].removed
                 /\ d.operations[id].frame = FrameOf(c, op)
           /\ \A o \in Processed(c) : o # id => d.operations[o] = c.operations[o]
<1>1. CASE d = c
  BY <1>1
<1>2. CASE d # c
  <2>1. PICK some \in SUBSET Replacements(c, op) :
          d = Store(c, id, Record(c, op, TRUE, some, FALSE))
    BY <1>2 DEF ProcessCutShort
  <2> DEFINE record == Record(c, op, TRUE, some, FALSE)
  <2>4. d = Store(c, id, record)
    BY <2>1
  <2>2. /\ record \in StoredOperation /\ record.eliminated /\ ~record.removed
        /\ record.frame = FrameOf(c, op)
    <3>1. record \in StoredOperation
      BY ReplacementsType, RecordType
    <3> QED BY <3>1 DEF Record
  <2> HIDE DEF record
  <2>3. /\ IsCore(d)
        /\ d.resources = c.resources
        /\ Processed(d) = Processed(c) \cup {id}
        /\ d.operations[id] = record
        /\ \A o \in Processed(c) : o # id => d.operations[o] = c.operations[o]
    BY <2>2, <2>4, StoreType
  <2> QED BY <2>2, <2>3
<1> QED BY <1>1, <1>2

-----------------------------------------------------------------------------
(* When two states are the same, table by table.                           *)

\* What the Python side keeps of an operation the native core has stored.
Kept(c, o) == [id |-> o, source |-> c.operations[o].source,
               size |-> AsFloat(c.operations[o].bytes),
               frame |-> c.operations[o].frame, queue |-> c.operations[o].queue]

IsState(s) ==
    s = [resources |-> s.resources, lastCopy |-> s.lastCopy, activeBuffers |-> s.activeBuffers,
         replacements |-> s.replacements, removed |-> s.removed, ids |-> s.ids]

SameResources(c, s) ==
    /\ Known(s) = Registered(c)
    /\ \A r \in Registered(c) : /\ s.resources[r].memory = c.resources[r].memory
                                /\ s.resources[r].aliases = c.resources[r].aliases

SameCopies(c, s) ==
    /\ DOMAIN s.lastCopy = {r \in Registered(c) : c.resources[r].copy # NoOp}
    /\ \A r \in DOMAIN s.lastCopy : /\ c.resources[r].copy \in Processed(c)
                                    /\ s.lastCopy[r] = Kept(c, c.resources[r].copy)

Allocated(c) == {r \in Registered(c) : c.resources[r].allocation # NoOp}
BufferOf(c, r) == <<r, AsFloat(c.operations[c.resources[r].allocation].bytes)>>

SameBuffers(c, s) ==
    /\ DOMAIN s.activeBuffers = {BufferOf(c, r) : r \in Allocated(c)}
    /\ \A r \in Allocated(c) :
          /\ c.resources[r].allocation \in Processed(c)
          /\ s.activeBuffers[BufferOf(c, r)] = Kept(c, c.resources[r].allocation)

Same(c, s) ==
    /\ IsState(s)
    /\ s.ids = Processed(c)
    /\ SameResources(c, s)
    /\ SameCopies(c, s)
    /\ SameBuffers(c, s)
    /\ SameReplacements(c, s)

\* The fields of what is kept, one by one.
LEMMA KeptFields ==
    \A c, o : /\ Kept(c, o).id = o
              /\ Kept(c, o).source = c.operations[o].source
              /\ Kept(c, o).size = AsFloat(c.operations[o].bytes)
              /\ Kept(c, o).frame = c.operations[o].frame
              /\ Kept(c, o).queue = c.operations[o].queue
BY DEF Kept

\* The memory plan has at most one buffer of a resource: the allocation the core remembers.
LEMMA BuffersOfSame ==
    ASSUME NEW c, NEW s, Same(c, s), NEW r
    PROVE  BuffersOf(s, r) = IF r \in Allocated(c) THEN {BufferOf(c, r)} ELSE {}
<1>1. DOMAIN s.activeBuffers = {BufferOf(c, x) : x \in Allocated(c)}
  BY DEF Same, SameBuffers
<1>2. \A x : BufferOf(c, x)[1] = x
  BY DEF BufferOf
<1>3. ASSUME NEW key \in BuffersOf(s, r) PROVE r \in Allocated(c) /\ key = BufferOf(c, r)
  <2>1. PICK x \in Allocated(c) : key = BufferOf(c, x)
    BY <1>1, <1>3 DEF BuffersOf
  <2>2. x = r
    BY <1>2, <1>3, <2>1 DEF BuffersOf
  <2> QED BY <2>1, <2>2
<1>4. ASSUME r \in Allocated(c) PROVE BufferOf(c, r) \in BuffersOf(s, r)
  BY <1>1, <1>2, <1>4 DEF BuffersOf
<1> QED BY <1>3, <1>4

\* Two states that are the same in this sense are so in that of TwinOps.
LEMMA SameIsSameState ==
    ASSUME NEW c, IsCore(c), NEW s, Same(c, s)
    PROVE  SameState(c, s, c.currentFrame)
<1>1. SameAdmission(c, s, c.currentFrame)
  BY DEF Same, SameResources, SameAdmission
<1>2. ASSUME NEW r \in Registered(c)
      PROVE  /\ (c.resources[r].copy # NoOp) <=> (r \in DOMAIN s.lastCopy)
             /\ r \in DOMAIN s.lastCopy => s.lastCopy[r].id = c.resources[r].copy
  BY KeptFields DEF Same, SameCopies
<1>3. ASSUME NEW r \in Registered(c)
      PROVE  {s.activeBuffers[key].id : key \in BuffersOf(s, r)} = {c.resources[r].allocation} \ {NoOp}
  <2>1. BuffersOf(s, r) = IF r \in Allocated(c) THEN {BufferOf(c, r)} ELSE {}
    BY BuffersOfSame
  <2>2. r \in Allocated(c) => s.activeBuffers[BufferOf(c, r)].id = c.resources[r].allocation
    BY KeptFields DEF Same, SameBuffers
  <2> QED BY <2>1, <2>2 DEF Allocated
<1>4. SameProvenance(c, s)
  BY <1>2, <1>3 DEF SameProvenance
<1> QED BY <1>1, <1>4 DEF Same, SameState

-----------------------------------------------------------------------------
(* Resources.                                                              *)

\* Both worklists collect the same views.
LEMMA SameAffected ==
    ASSUME NEW c, NEW s, SameResources(c, s), NEW id
    PROVE  Connected(s, id) = Affected(c, id)
<1>1. \A a, b \in Registered(c) :
        SharesData(s.resources[a], s.resources[b]) <=> AliasesIntersect(c.resources[a], c.resources[b])
  BY DEF SameResources, SharesData, AliasesIntersect
<1>2. \A S \in SUBSET Registered(c) :
        (\A a \in S, b \in Known(s) : SharesData(s.resources[a], s.resources[b]) => b \in S)
        <=> AliasClosed(c, S)
  BY <1>1 DEF SameResources, AliasClosed
<1> QED BY <1>2 DEF SameResources, Connected, Affected

\* A write retires the same transfers on both sides.
LEMMA InvalidateSame ==
    ASSUME NEW c, IsCore(c), NEW s, Same(c, s), NEW id
    PROVE  Same(Invalidate(c, id), InvalidateResource(s, id))
<1> DEFINE d == Invalidate(c, id)
           t == InvalidateResource(s, id)
           stale == {r \in DOMAIN s.lastCopy : Retired(c, id, r)}
<1>1. /\ Registered(d) = Registered(c) /\ d.operations = c.operations
      /\ \A r \in Registered(c) :
            d.resources[r] = IF Retired(c, id, r) THEN [c.resources[r] EXCEPT !.copy = NoOp]
                                                  ELSE c.resources[r]
  BY InvalidateType
<1>2. \A r \in Registered(c) :
        /\ d.resources[r].memory = c.resources[r].memory
        /\ d.resources[r].aliases = c.resources[r].aliases
        /\ d.resources[r].allocation = c.resources[r].allocation
        /\ d.resources[r].copy = IF Retired(c, id, r) THEN NoOp ELSE c.resources[r].copy
  <2> TAKE r \in Registered(c)
  <2>1. c.resources[r] \in Resource
    BY DEF IsCore, Registered
  <2> QED BY <1>1, <2>1 DEF Resource
<1>3. t = [s EXCEPT !.lastCopy = Without(s.lastCopy, stale)]
  <2>1. CASE id \notin Registered(c)
    <3>1. stale = DOMAIN s.lastCopy
      BY <2>1 DEF Retired
    <3> QED BY <2>1, <3>1 DEF InvalidateResource, Same, SameResources
  <2>2. CASE id \in Registered(c)
    <3>1. Connected(s, id) = Affected(c, id) /\ Affected(c, id) \subseteq Registered(c)
      BY SameAffected DEF Same, Affected
    <3>2. \A r \in DOMAIN s.lastCopy :
            /\ r \in Registered(c) /\ c.resources[r].copy # NoOp
            /\ s.lastCopy[r].source = c.operations[c.resources[r].copy].source
      BY KeptFields DEF Same, SameCopies
    <3>3. stale = {r \in DOMAIN s.lastCopy :
                     r \in Connected(s, id) \/ s.lastCopy[r].source \in Connected(s, id)}
      BY <2>2, <3>1, <3>2 DEF Retired
    <3> QED BY <2>2, <3>3 DEF InvalidateResource, Same, SameResources
  <2> QED BY <2>1, <2>2
<1>4. /\ IsState(t) /\ t.ids = s.ids /\ t.resources = s.resources
      /\ t.activeBuffers = s.activeBuffers /\ t.replacements = s.replacements
      /\ t.removed = s.removed
      /\ t.lastCopy = Without(s.lastCopy, stale)
  BY <1>3 DEF Same, IsState
<1> HIDE DEF d, t
<1>5. /\ DOMAIN t.lastCopy = DOMAIN s.lastCopy \ stale
      /\ \A r \in DOMAIN t.lastCopy : t.lastCopy[r] = s.lastCopy[r]
  BY <1>4 DEF Without
<1>6. SameResources(d, t)
  BY <1>1, <1>2, <1>4 DEF Same, SameResources, Known
<1>7. Processed(d) = Processed(c) /\ \A o : Kept(d, o) = Kept(c, o)
  BY <1>1 DEF Processed, Kept
<1>8. SameCopies(d, t)
  BY <1>1, <1>2, <1>5, <1>7 DEF Same, SameCopies
<1>9. SameBuffers(d, t)
  <2>1. Allocated(d) = Allocated(c) /\ \A r \in Allocated(c) : BufferOf(d, r) = BufferOf(c, r)
    BY <1>1, <1>2 DEF Allocated, BufferOf
  <2> QED BY <1>2, <1>4, <1>7, <2>1 DEF Same, SameBuffers, Allocated
<1>10. SameReplacements(d, t) /\ t.ids = Processed(d)
  BY <1>1, <1>4, <1>7 DEF Same, SameReplacements
<1> QED BY <1>4, <1>6, <1>8, <1>9, <1>10 DEF Same, d, t

\* A new resource remembers nothing on either side.
LEMMA RegisterSame ==
    ASSUME NEW c, IsCore(c), NEW s, Same(c, s), NEW id \in ResourceId, NEW view \in View,
           CanRegister(c, id)
    PROVE  Same(RegisterResource(c, id, view), RegisterState(s, id, view))
<1> DEFINE d == RegisterResource(c, id, view)
           t == RegisterState(s, id, view)
<1>1. /\ Registered(d) = Registered(c) \cup {id} /\ d.operations = c.operations
      /\ d.resources[id] = [memory |-> view.memory, aliases |-> view.aliases,
                            copy |-> NoOp, allocation |-> NoOp]
      /\ \A r \in Registered(c) : r # id => d.resources[r] = c.resources[r]
  BY RegisterType
<1>2. t = [s EXCEPT !.resources = Bind(s.resources, id, view)]
  BY DEF RegisterState
<1>3. /\ IsState(t) /\ t.ids = s.ids /\ t.lastCopy = s.lastCopy
      /\ t.activeBuffers = s.activeBuffers /\ t.replacements = s.replacements
      /\ t.removed = s.removed
      /\ t.resources = Bind(s.resources, id, view)
  BY <1>2 DEF Same, IsState
<1> HIDE DEF d, t
<1>4. /\ d.resources[id].memory = view.memory /\ d.resources[id].aliases = view.aliases
      /\ d.resources[id].copy = NoOp /\ d.resources[id].allocation = NoOp
  BY <1>1
<1>5. id \notin Registered(c) /\ \A r \in Registered(c) : d.resources[r] = c.resources[r]
  BY <1>1 DEF CanRegister
<1>6. /\ Known(t) = Registered(c) \cup {id} /\ t.resources[id] = view
      /\ \A r \in Registered(c) : t.resources[r] = s.resources[r]
  BY <1>3, <1>5 DEF Bind, Known, Same, SameResources
<1>7. SameResources(d, t)
  BY <1>1, <1>4, <1>5, <1>6 DEF Same, SameResources
<1>8. Processed(d) = Processed(c) /\ \A o : Kept(d, o) = Kept(c, o)
  BY <1>1 DEF Processed, Kept
<1>9. SameCopies(d, t)
  BY <1>1, <1>3, <1>4, <1>5, <1>8 DEF Same, SameCopies
<1>10. SameBuffers(d, t)
  <2>1. Allocated(d) = Allocated(c) /\ \A r \in Allocated(c) : BufferOf(d, r) = BufferOf(c, r)
    BY <1>1, <1>4, <1>5 DEF Allocated, BufferOf
  <2> QED BY <1>3, <1>5, <1>8, <2>1 DEF Same, SameBuffers, Allocated
<1>11. SameReplacements(d, t) /\ t.ids = Processed(d)
  BY <1>1, <1>3, <1>8 DEF Same, SameReplacements
<1> QED BY <1>3, <1>7, <1>9, <1>10, <1>11 DEF Same, d, t

\* A release takes the resource, its copy and its buffers.
LEMMA ReleaseSame ==
    ASSUME NEW c, IsCore(c), NEW s, Same(c, s), NEW id
    PROVE  Same(ReleaseResource(c, id), ReleaseState(s, id))
<1> DEFINE v == Invalidate(c, id)
           w == InvalidateResource(s, id)
           d == ReleaseResource(c, id)
           t == ReleaseState(s, id)
<1>0. IsCore(v) /\ Registered(v) = Registered(c) /\ v.operations = c.operations
  BY InvalidateType
<1>1. Same(v, w)
  BY InvalidateSame
<1>2. /\ Registered(d) = Registered(v) \ {id} /\ d.operations = v.operations
      /\ \A r \in Registered(v) \ {id} : d.resources[r] = v.resources[r]
  BY <1>0, ReleaseType
<1>3. t = [w EXCEPT !.activeBuffers = Without(w.activeBuffers, BuffersOf(s, id)),
                    !.resources = Without(w.resources, {id})]
  BY DEF ReleaseState
<1>4. s.activeBuffers = w.activeBuffers
  <2>1. w = s \/ \E f : w = [s EXCEPT !.lastCopy = f]
    BY DEF InvalidateResource
  <2> HIDE DEF w
  <2> QED BY <2>1 DEF Same, IsState
<1>5. \A r \in Registered(c) : Retired(c, id, r) => v.resources[r].copy = NoOp
  BY InvalidateType DEF IsCore, Registered, Resource
<1>6. id \in Registered(c) => v.resources[id].copy = NoOp
  <2>1. id \in Registered(c) => Retired(c, id, id)
    BY DEF Retired, Affected
  <2> QED BY <1>5, <2>1
<1> HIDE DEF v, w
<1>7. /\ IsState(t) /\ t.ids = w.ids /\ t.lastCopy = w.lastCopy
      /\ t.activeBuffers = Without(w.activeBuffers, BuffersOf(w, id))
      /\ t.replacements = w.replacements /\ t.removed = w.removed
      /\ t.resources = Without(w.resources, {id})
  BY <1>1, <1>3, <1>4 DEF Same, IsState, BuffersOf
<1> HIDE DEF d, t
<1>8. SameResources(d, t)
  BY <1>1, <1>2, <1>7 DEF Same, SameResources, Known, Without
<1>9. Processed(d) = Processed(v) /\ \A o : Kept(d, o) = Kept(v, o)
  BY <1>2 DEF Processed, Kept
<1>10. SameCopies(d, t)
  <2>1. id \notin DOMAIN w.lastCopy
    BY <1>0, <1>1, <1>6 DEF Same, SameCopies
  <2> QED BY <1>1, <1>2, <1>7, <1>9, <2>1 DEF Same, SameCopies
<1>11. SameBuffers(d, t)
  <2>1. Allocated(d) = Allocated(v) \ {id} /\ \A r \in Allocated(d) : BufferOf(d, r) = BufferOf(v, r)
    BY <1>2 DEF Allocated, BufferOf
  <2>2. BuffersOf(w, id) = IF id \in Allocated(v) THEN {BufferOf(v, id)} ELSE {}
    BY <1>1, BuffersOfSame
  <2>3. DOMAIN t.activeBuffers = {BufferOf(v, r) : r \in Allocated(v) \ {id}}
    <3>1. \A r \in Allocated(v) \ {id} : BufferOf(v, r) # BufferOf(v, id)
      BY DEF BufferOf
    <3> QED BY <1>1, <1>7, <2>2, <3>1 DEF Same, SameBuffers, Without
  <2>4. \A key \in DOMAIN t.activeBuffers : t.activeBuffers[key] = w.activeBuffers[key]
    BY <1>7 DEF Without
  <2>5. \A r \in Allocated(d) : d.resources[r] = v.resources[r] /\ BufferOf(v, r) \in DOMAIN t.activeBuffers
    BY <1>2, <2>1, <2>3 DEF Allocated
  <2> QED BY <1>1, <1>9, <2>1, <2>3, <2>4, <2>5 DEF Same, SameBuffers
<1>12. SameReplacements(d, t) /\ t.ids = Processed(d)
  BY <1>1, <1>2, <1>7, <1>9 DEF Same, SameReplacements
<1> QED BY <1>7, <1>8, <1>10, <1>11, <1>12 DEF Same, d, t

-----------------------------------------------------------------------------
(* Decisions.                                                              *)

\* An operation that has been processed is told apart from op, if their sizes differ.
Distinguished(c, op) ==
    \A o \in Processed(c) :
        AsFloat(c.operations[o].bytes) = AsFloat(op.bytes) => c.operations[o].bytes = op.bytes

\* Decoding changes the size and nothing else.
LEMMA DecodedFields ==
    \A op \in Request :
        /\ Decoded(op).type = op.type
        /\ Decoded(op).source = op.source /\ Decoded(op).target = op.target
        /\ Decoded(op).queue = op.queue /\ Decoded(op).deps = op.deps
        /\ Decoded(op).idle = op.idle /\ Decoded(op).transient = op.transient
        /\ Decoded(op).frame = op.frame
        /\ Decoded(op).bytes = AsFloat(op.bytes)
BY DEF Decoded, Request

\* Each condition of one side is one of the other's.
LEMMA SameConditions ==
    ASSUME NEW c, IsCore(c), NEW s, Same(c, s), NEW op \in Request,
           Distinguished(c, op), NEW given, given = Decoded(op)
    PROVE  /\ SelfCopy(c, op) <=> EliminatesSelfCopy(s, given)
           /\ CollapsesAlias(c, op)
                <=> CollapsesAliasedCopy(s, given) /\ ~EliminatesSelfCopy(s, given)
           /\ RepeatsCopy(c, op) <=> /\ DeduplicatesTransfer(s, given, FrameOf(c, op))
                                     /\ ~EliminatesSelfCopy(s, given)
                                     /\ ~CollapsesAliasedCopy(s, given)
           /\ OrphanSync(c, op) <=> RemovesOrphanSync(s, given)
           /\ EmptySync(c, op) <=> RemovesEmptySync(given)
           /\ ReusesAllocation(c, op) <=> ReusesBuffer(s, given, FrameOf(c, op))
<1>0. /\ given.type = op.type /\ given.source = op.source /\ given.target = op.target
      /\ given.queue = op.queue /\ given.deps = op.deps /\ given.idle = op.idle
      /\ given.transient = op.transient /\ given.bytes = AsFloat(op.bytes)
  BY DecodedFields
<1>1. Endpoints(c, op) <=> KnownEndpoints(s, given)
  BY <1>0 DEF Same, SameResources, Endpoints, KnownEndpoints
<1>2. Endpoints(c, op) =>
        (SharesData(s.resources[op.target], s.resources[op.source])
         <=> AliasesIntersect(c.resources[op.source], c.resources[op.target]))
  BY DEF Same, SameResources, Endpoints, SharesData, AliasesIntersect
<1>3. SelfCopy(c, op) <=> EliminatesSelfCopy(s, given)
  BY <1>0, <1>1 DEF SelfCopy, EliminatesSelfCopy
<1>4. CollapsesAlias(c, op) <=> CollapsesAliasedCopy(s, given) /\ ~EliminatesSelfCopy(s, given)
  BY <1>0, <1>1, <1>2 DEF CollapsesAlias, CollapsesAliasedCopy, EliminatesSelfCopy
<1>5. RepeatsCopy(c, op) <=> /\ DeduplicatesTransfer(s, given, FrameOf(c, op))
                             /\ ~EliminatesSelfCopy(s, given)
                             /\ ~CollapsesAliasedCopy(s, given)
  <2>1. Endpoints(c, op) =>
          /\ op.target \in DOMAIN s.lastCopy <=> c.resources[op.target].copy # NoOp
          /\ op.target \in DOMAIN s.lastCopy =>
                s.lastCopy[op.target] = Kept(c, c.resources[op.target].copy)
    BY DEF Same, SameCopies, Endpoints
  <2>2. ~Endpoints(c, op) => ~RepeatsCopy(c, op) /\ ~DeduplicatesTransfer(s, given, FrameOf(c, op))
    BY <1>1 DEF RepeatsCopy, DeduplicatesTransfer
  <2>3. ASSUME Endpoints(c, op), op.target \in DOMAIN s.lastCopy
        PROVE  LET previous == c.resources[op.target].copy
               IN  DeduplicatesTransfer(s, given, FrameOf(c, op))
                     <=> /\ c.operations[previous].source = op.source
                         /\ c.operations[previous].bytes = op.bytes
                         /\ c.operations[previous].frame = FrameOf(c, op)
                         /\ c.operations[previous].queue = op.queue
    <3> DEFINE previous == c.resources[op.target].copy
    <3>1. DeduplicatesTransfer(s, given, FrameOf(c, op))
            <=> LET held == s.lastCopy[op.target]
                IN  /\ held.source = op.source /\ held.size = AsFloat(op.bytes)
                    /\ held.frame = FrameOf(c, op) /\ held.queue = op.queue
      BY <1>0, <1>1, <2>3 DEF DeduplicatesTransfer
    <3>2. s.lastCopy[op.target] = Kept(c, previous)
      BY <2>1, <2>3
    <3>3. /\ Kept(c, previous).source = c.operations[previous].source
          /\ Kept(c, previous).size = AsFloat(c.operations[previous].bytes)
          /\ Kept(c, previous).frame = c.operations[previous].frame
          /\ Kept(c, previous).queue = c.operations[previous].queue
      BY KeptFields
    <3>4. AsFloat(c.operations[previous].bytes) = AsFloat(op.bytes)
            <=> c.operations[previous].bytes = op.bytes
      BY <2>1, <2>3 DEF Distinguished, Same, SameCopies
    <3> QED BY <3>1, <3>2, <3>3, <3>4
  <2>4. ASSUME Endpoints(c, op), op.target \notin DOMAIN s.lastCopy
        PROVE  ~RepeatsCopy(c, op) /\ ~DeduplicatesTransfer(s, given, FrameOf(c, op))
    BY <1>0, <2>1, <2>4 DEF RepeatsCopy, DeduplicatesTransfer
  <2>5. ASSUME Endpoints(c, op)
        PROVE  /\ EliminatesSelfCopy(s, given) <=> op.source = op.target
               /\ CollapsesAliasedCopy(s, given)
                    <=> AliasesIntersect(c.resources[op.source], c.resources[op.target])
    BY <1>0, <1>1, <1>2, <2>5 DEF EliminatesSelfCopy, CollapsesAliasedCopy
  <2>6. CASE Endpoints(c, op) /\ op.target \in DOMAIN s.lastCopy
    BY <2>1, <2>3, <2>5, <2>6 DEF RepeatsCopy
  <2> QED BY <2>2, <2>4, <2>6
<1>6. OrphanSync(c, op) <=> RemovesOrphanSync(s, given)
  BY <1>0 DEF Same, SameReplacements, OrphanSync, RemovesOrphanSync
<1>7. EmptySync(c, op) <=> RemovesEmptySync(given)
  BY <1>0 DEF EmptySync, RemovesEmptySync
<1>8. ReusesAllocation(c, op) <=> ReusesBuffer(s, given, FrameOf(c, op))
  <2> DEFINE key == <<op.target, AsFloat(op.bytes)>>
  <2>1. key \in DOMAIN s.activeBuffers <=>
          /\ op.target \in Allocated(c)
          /\ c.operations[c.resources[op.target].allocation].bytes = op.bytes
    <3>1. key \in DOMAIN s.activeBuffers
            <=> op.target \in Allocated(c) /\ key = BufferOf(c, op.target)
      BY DEF Same, SameBuffers, BufferOf
    <3>2. op.target \in Allocated(c) =>
            (key = BufferOf(c, op.target)
             <=> c.operations[c.resources[op.target].allocation].bytes = op.bytes)
      BY DEF Distinguished, Same, SameBuffers, BufferOf
    <3> QED BY <3>1, <3>2
  <2>2. key \in DOMAIN s.activeBuffers =>
          s.activeBuffers[key].frame = c.operations[c.resources[op.target].allocation].frame
    <3>1. key \in DOMAIN s.activeBuffers => key = BufferOf(c, op.target)
      BY <2>1 DEF BufferOf
    <3>2. op.target \in Allocated(c) =>
            s.activeBuffers[BufferOf(c, op.target)] = Kept(c, c.resources[op.target].allocation)
      BY DEF Same, SameBuffers
    <3> QED BY <2>1, <3>1, <3>2, KeptFields
  <2> HIDE DEF key
  <2>3. ReusesBuffer(s, given, FrameOf(c, op)) <=>
          /\ op.type = "allocate" /\ key \in DOMAIN s.activeBuffers
          /\ s.activeBuffers[key].frame = FrameOf(c, op) /\ op.transient
    BY <1>0 DEF ReusesBuffer, key
  <2> QED BY <2>1, <2>2, <2>3 DEF ReusesAllocation, Allocated
<1> QED BY <1>3, <1>4, <1>5, <1>6, <1>7, <1>8

\* At most one of the conditions holds.
LEMMA OneCondition ==
    ASSUME NEW c, NEW op
    PROVE  /\ SelfCopy(c, op) => ~CollapsesAlias(c, op) /\ ~RepeatsCopy(c, op)
           /\ CollapsesAlias(c, op) => ~RepeatsCopy(c, op)
           /\ SelfCopy(c, op) \/ CollapsesAlias(c, op) \/ RepeatsCopy(c, op) =>
                ~OrphanSync(c, op) /\ ~EmptySync(c, op) /\ ~ReusesAllocation(c, op)
           /\ OrphanSync(c, op) => ~EmptySync(c, op) /\ ~ReusesAllocation(c, op)
           /\ EmptySync(c, op) => ~ReusesAllocation(c, op)
BY DEF SelfCopy, CollapsesAlias, RepeatsCopy, OrphanSync, EmptySync, ReusesAllocation,
       Endpoints, Transfers

\* Both decide alike,
LEMMA SameDecision ==
    ASSUME NEW c, IsCore(c), NEW s, Same(c, s), NEW op \in Request,
           Distinguished(c, op)
    PROVE  DecideOperation(s, Decoded(op), FrameOf(c, op)) = PolicyOf(Decide(c, op))
<1> DEFINE policy == DecideOperation(s, Decoded(op), FrameOf(c, op))
<1>1. CASE SelfCopy(c, op)
  <2>1. Decide(c, op) = "self_copy"
    BY <1>1, OneCondition DEF Decide
  <2>2. policy = "eliminate-self-copy"
    BY <1>1, OneCondition, SameConditions DEF DecideOperation
  <2> QED BY <2>1, <2>2 DEF PolicyOf
<1>2. CASE CollapsesAlias(c, op)
  <2>1. Decide(c, op) = "collapse_alias"
    BY <1>2, OneCondition DEF Decide
  <2>2. policy = "collapse-aliased-resource-copy"
    BY <1>2, OneCondition, SameConditions DEF DecideOperation
  <2> QED BY <2>1, <2>2 DEF PolicyOf
<1>3. CASE RepeatsCopy(c, op)
  <2>1. Decide(c, op) = "dedupe"
    BY <1>3, OneCondition DEF Decide
  <2>2. policy = "deduplicate-identical-transfer"
    BY <1>3, OneCondition, SameConditions DEF DecideOperation
  <2> QED BY <2>1, <2>2 DEF PolicyOf
<1>4. CASE OrphanSync(c, op)
  <2>1. Decide(c, op) = "orphan_sync"
    BY <1>4, OneCondition DEF Decide
  <2>2. policy = "remove-orphan-sync"
    BY <1>4, OneCondition, SameConditions DEF DecideOperation
  <2> QED BY <2>1, <2>2 DEF PolicyOf
<1>5. CASE EmptySync(c, op)
  <2>1. Decide(c, op) = "empty_sync"
    BY <1>5, OneCondition DEF Decide
  <2>2. policy = "remove-empty-sync"
    BY <1>5, OneCondition, SameConditions DEF DecideOperation
  <2> QED BY <2>1, <2>2 DEF PolicyOf
<1>6. CASE ReusesAllocation(c, op)
  <2>1. Decide(c, op) = "reuse_allocation"
    BY <1>6, OneCondition DEF Decide
  <2>2. policy = "reuse-transient-buffer"
    BY <1>6, OneCondition, SameConditions DEF DecideOperation
  <2> QED BY <2>1, <2>2 DEF PolicyOf
<1>7. CASE /\ ~SelfCopy(c, op) /\ ~CollapsesAlias(c, op) /\ ~RepeatsCopy(c, op)
           /\ ~OrphanSync(c, op) /\ ~EmptySync(c, op) /\ ~ReusesAllocation(c, op)
  <2>1. Decide(c, op) = "keep"
    BY <1>7 DEF Decide
  <2>2. policy = "none"
    BY <1>7, SameConditions DEF DecideOperation
  <2> QED BY <2>1, <2>2 DEF PolicyOf
<1> QED BY <1>1, <1>2, <1>3, <1>4, <1>5, <1>6, <1>7

\* and make what comes next wait for the same.
LEMMA SameWaits ==
    ASSUME NEW c, IsCore(c), NEW s, Same(c, s), NEW op \in Request
    PROVE  RetainedBy(s, Decoded(op), PolicyOf(Decide(c, op))) \cup Dependencies(s, Decoded(op))
              = Replacements(c, op)
<1> DEFINE policy == PolicyOf(Decide(c, op))
           given == Decoded(op)
<1>0. /\ given.source = op.source /\ given.target = op.target
      /\ given.deps = op.deps /\ given.bytes = AsFloat(op.bytes)
  BY DecodedFields
<1> HIDE DEF given
<1>1. RetainedBy(s, given, policy) = {Retained(c, op)} \ {NoOp}
  <2>1. CASE CollapsesAlias(c, op)
    <3>1. Retained(c, op) = c.resources[op.source].copy /\ op.source \in Registered(c)
      BY <2>1, OneCondition DEF Retained, CollapsesAlias, Endpoints
    <3>2. policy = "collapse-aliased-resource-copy"
      BY <2>1, OneCondition DEF Decide, PolicyOf
    <3>3. RetainedBy(s, given, policy) =
            IF op.source \in DOMAIN s.lastCopy THEN {s.lastCopy[op.source].id} ELSE {}
      BY <1>0, <3>2 DEF RetainedBy
    <3> QED BY <3>1, <3>3, KeptFields DEF Same, SameCopies
  <2>2. CASE RepeatsCopy(c, op)
    <3>1. Retained(c, op) = c.resources[op.target].copy /\ op.target \in Registered(c)
      BY <2>2, OneCondition DEF Retained, RepeatsCopy, Endpoints
    <3>2. c.resources[op.target].copy # NoOp
      BY <2>2 DEF RepeatsCopy
    <3>3. policy = "deduplicate-identical-transfer"
      BY <2>2, OneCondition DEF Decide, PolicyOf
    <3>4. RetainedBy(s, given, policy) = {s.lastCopy[op.target].id}
      BY <1>0, <3>3 DEF RetainedBy
    <3> QED BY <3>1, <3>2, <3>4, KeptFields DEF Same, SameCopies
  <2>3. CASE ReusesAllocation(c, op)
    <3>1. Retained(c, op) = c.resources[op.target].allocation
      BY <2>3, OneCondition DEF Retained
    <3>2. op.target \in Allocated(c) /\ BufferOf(c, op.target) = <<op.target, AsFloat(op.bytes)>>
      BY <2>3 DEF ReusesAllocation, Allocated, BufferOf
    <3>3. policy = "reuse-transient-buffer"
      BY <2>3, OneCondition DEF Decide, PolicyOf
    <3>4. RetainedBy(s, given, policy) = {s.activeBuffers[<<op.target, AsFloat(op.bytes)>>].id}
      BY <1>0, <3>3 DEF RetainedBy
    <3>5. s.activeBuffers[BufferOf(c, op.target)] = Kept(c, Retained(c, op))
      BY <3>1, <3>2 DEF Same, SameBuffers
    <3>6. Retained(c, op) # NoOp
      BY <3>1, <3>2 DEF Allocated
    <3> QED BY <3>2, <3>4, <3>5, <3>6, KeptFields
  <2>4. CASE ~CollapsesAlias(c, op) /\ ~RepeatsCopy(c, op) /\ ~ReusesAllocation(c, op)
    <3>1. Retained(c, op) = NoOp
      BY <2>4 DEF Retained
    <3>2. Decide(c, op) \in {"self_copy", "orphan_sync", "empty_sync", "keep"}
      BY <2>4 DEF Decide
    <3>3. policy \in {"eliminate-self-copy", "remove-orphan-sync", "remove-empty-sync", "none"}
      BY <3>2 DEF PolicyOf
    <3>4. RetainedBy(s, given, policy) = {}
      BY <1>0, <3>3 DEF RetainedBy
    <3> QED BY <3>1, <3>4
  <2> QED BY <2>1, <2>2, <2>3, <2>4
<1>2. Dependencies(s, given) = UNION {StandIns(c, d) : d \in op.deps}
  <2>1. \A d \in op.deps : (IF d \in DOMAIN s.replacements THEN s.replacements[d] ELSE {d})
                           = StandIns(c, d)
    BY DEF Same, SameReplacements, StandIns
  <2> QED BY <1>0, <2>1 DEF Dependencies
<1> QED BY <1>1, <1>2 DEF Replacements, given

-----------------------------------------------------------------------------
(* Operations.                                                             *)

\* What is kept of the operations before does not change with one more.
LEMMA KeptStays ==
    ASSUME NEW c, NEW s, Same(c, s), NEW d,
           \A o \in Processed(c) : d.operations[o] = c.operations[o]
    PROVE  /\ \A r \in Registered(c) : c.resources[r].copy # NoOp =>
                Kept(d, c.resources[r].copy) = Kept(c, c.resources[r].copy)
           /\ \A r \in Allocated(c) :
                /\ Kept(d, c.resources[r].allocation) = Kept(c, c.resources[r].allocation)
                /\ d.operations[c.resources[r].allocation].bytes
                     = c.operations[c.resources[r].allocation].bytes
BY DEF Same, SameCopies, SameBuffers, Kept

\* An eliminated operation is remembered by its replacements.
LEMMA EliminateSame ==
    ASSUME NEW c, IsCore(c), NEW s, Same(c, s), NEW id \in OperationId, NEW op \in Request,
           CanProcess(c, id)
    PROVE  Same(Eliminate(c, id, op), EliminateState(s, id, Decoded(op), PolicyOf(Decide(c, op))))
<1> DEFINE some == Replacements(c, op)
           record == Record(c, op, TRUE, some, some = {})
           d == Eliminate(c, id, op)
           t == EliminateState(s, id, Decoded(op), PolicyOf(Decide(c, op)))
<1>1. record \in StoredOperation
  BY ReplacementsType, RecordType
<1>2. record.eliminated = TRUE /\ record.replacements = some /\ record.removed = (some = {})
  BY DEF Record
<1>3. d = Store(c, id, record)
  BY DEF Eliminate
<1>4. RetainedBy(s, Decoded(op), PolicyOf(Decide(c, op))) \cup Dependencies(s, Decoded(op)) = some
  BY SameWaits
<1> HIDE DEF record, some
<1>5. /\ d.resources = c.resources
      /\ Processed(d) = Processed(c) \cup {id}
      /\ d.operations[id] = record
      /\ \A o \in Processed(c) : d.operations[o] = c.operations[o]
  BY <1>1, <1>3, StoreType DEF CanProcess
<1>6. t = [s EXCEPT !.ids = s.ids \cup {id},
                    !.replacements = Bind(s.replacements, id, some),
                    !.removed = IF some = {} THEN s.removed \cup {id} ELSE s.removed]
  BY <1>4 DEF EliminateState
<1>7. /\ IsState(t) /\ t.ids = s.ids \cup {id} /\ t.lastCopy = s.lastCopy
      /\ t.activeBuffers = s.activeBuffers /\ t.resources = s.resources
      /\ t.replacements = Bind(s.replacements, id, some)
      /\ t.removed = IF some = {} THEN s.removed \cup {id} ELSE s.removed
  BY <1>6 DEF Same, IsState
<1> HIDE DEF d, t
<1>8. Registered(d) = Registered(c) /\ Allocated(d) = Allocated(c)
  BY <1>5 DEF Registered, Allocated
<1>9. SameResources(d, t)
  BY <1>5, <1>7, <1>8 DEF Same, SameResources, Known
<1>10. SameCopies(d, t)
  BY <1>5, <1>7, <1>8, KeptStays DEF Same, SameCopies
<1>11. SameBuffers(d, t)
  <2>1. \A r \in Allocated(c) : BufferOf(d, r) = BufferOf(c, r)
    BY <1>5, KeptStays DEF BufferOf
  <2> QED BY <1>5, <1>7, <1>8, <2>1, KeptStays DEF Same, SameBuffers
<1>12. SameReplacements(d, t)
  <2>1. DOMAIN t.replacements = DOMAIN s.replacements \cup {id} /\ t.replacements[id] = some
        /\ \A o \in DOMAIN s.replacements : o # id => t.replacements[o] = s.replacements[o]
    BY <1>7 DEF Bind
  <2>2. id \notin Processed(c)
    BY DEF CanProcess
  <2>3. \A o \in Processed(c) : o # id /\ d.operations[o] = c.operations[o]
    BY <1>5, <2>2
  <2>4. DOMAIN t.replacements = {o \in Processed(d) : d.operations[o].eliminated}
    BY <1>2, <1>5, <2>1, <2>3 DEF Same, SameReplacements
  <2>5. \A o \in DOMAIN t.replacements : t.replacements[o] = d.operations[o].replacements
    BY <1>2, <1>5, <2>1, <2>3 DEF Same, SameReplacements
  <2>6. d.operations[id].removed <=> some = {}
    BY <1>2, <1>5
  <2>7. t.removed = {o \in Processed(d) : d.operations[o].removed}
    BY <1>5, <1>7, <2>2, <2>3, <2>6 DEF Same, SameReplacements
  <2> QED BY <2>4, <2>5, <2>7 DEF SameReplacements
<1>13. t.ids = Processed(d)
  BY <1>5, <1>7 DEF Same
<1> QED BY <1>7, <1>9, <1>10, <1>11, <1>12, <1>13 DEF Same, d, t

\* The write of an operation, before its result is remembered.
LEMMA OverwriteSame ==
    ASSUME NEW c, IsCore(c), NEW s, Same(c, s), NEW op \in Request, NEW w,
           w = IF op.type \in Writers THEN InvalidateResource(s, op.target) ELSE s
    PROVE  /\ IsCore(Overwritten(c, op)) /\ Same(Overwritten(c, op), w)
           /\ Registered(Overwritten(c, op)) = Registered(c)
           /\ Overwritten(c, op).operations = c.operations
           /\ w.activeBuffers = s.activeBuffers
<1>1. w.activeBuffers = s.activeBuffers
  <2>1. w = s \/ \E f : w = [s EXCEPT !.lastCopy = f]
    BY DEF InvalidateResource
  <2> QED BY <2>1 DEF Same, IsState
<1> QED BY <1>1, InvalidateType, InvalidateSame DEF Overwritten

\* An executed operation is remembered by its target.
LEMMA ExecuteSame ==
    ASSUME NEW c, IsCore(c), NEW s, Same(c, s), NEW id \in OperationId, NEW op \in Request,
           CanProcess(c, id)
    PROVE  Same(Execute(c, id, op), ExecuteState(s, id, Decoded(op), FrameOf(c, op)))
<1> DEFINE v == Overwritten(c, op)
           w == IF op.type \in Writers THEN InvalidateResource(s, op.target) ELSE s
           now == Operation(id, Decoded(op), FrameOf(c, op))
           copies == IF op.type \in Transfers /\ op.target \in Known(s)
                     THEN Bind(w.lastCopy, op.target, now) ELSE w.lastCopy
           buffers == IF op.type = "allocate" /\ op.target \in Known(s)
                      THEN Bind(Without(w.activeBuffers, BuffersOf(s, op.target)),
                                <<op.target, AsFloat(op.bytes)>>, now)
                      ELSE w.activeBuffers
           d == Execute(c, id, op)
           t == ExecuteState(s, id, Decoded(op), FrameOf(c, op))
<1>1. /\ IsCore(v) /\ Same(v, w) /\ Registered(v) = Registered(c) /\ v.operations = c.operations
      /\ w.activeBuffers = s.activeBuffers
  BY OverwriteSame
<1>2. /\ Registered(d) = Registered(c) /\ Processed(d) = Processed(c) \cup {id}
      /\ ~d.operations[id].eliminated /\ ~d.operations[id].removed
      /\ d.operations[id].source = op.source /\ d.operations[id].frame = FrameOf(c, op)
      /\ d.operations[id].bytes = op.bytes /\ d.operations[id].queue = op.queue
      /\ \A r \in Registered(c) : d.resources[r] = IF r = op.target
                                                   THEN Remember(v.resources[r], id, op)
                                                   ELSE v.resources[r]
  BY ExecuteType
<1>3. \A o \in Processed(c) : d.operations[o] = c.operations[o]
  BY ExecuteType DEF CanProcess
<1>0. LET given == Decoded(op)
      IN  /\ given.type = op.type /\ given.source = op.source /\ given.target = op.target
          /\ given.queue = op.queue /\ given.bytes = AsFloat(op.bytes)
  BY DecodedFields
<1>4. t = [w EXCEPT !.ids = w.ids \cup {id}, !.lastCopy = copies, !.activeBuffers = buffers]
  BY <1>0 DEF ExecuteState
<1> HIDE DEF v, w, copies, buffers
<1>5. /\ IsState(t) /\ t.ids = w.ids \cup {id} /\ t.lastCopy = copies /\ t.activeBuffers = buffers
      /\ t.resources = w.resources /\ t.replacements = w.replacements /\ t.removed = w.removed
  BY <1>1, <1>4 DEF Same, IsState
<1>6. Kept(d, id) = now
  BY <1>0, <1>2 DEF Kept, Operation
<1> HIDE DEF d, t, now
<1>7. Processed(v) = Processed(c) /\ id \notin Processed(c)
  BY <1>1 DEF Processed, CanProcess
<1>8. id # NoOp
  BY NullsAreNotIds
<1>9. \A r \in Registered(c) :
        /\ d.resources[r].memory = v.resources[r].memory
        /\ d.resources[r].aliases = v.resources[r].aliases
        /\ d.resources[r].copy = IF r = op.target /\ op.type \in Transfers
                                 THEN id ELSE v.resources[r].copy
        /\ d.resources[r].allocation = IF r = op.target /\ op.type = "allocate"
                                       THEN id ELSE v.resources[r].allocation
  <2> TAKE r \in Registered(c)
  <2>1. v.resources[r] \in Resource
    BY <1>1 DEF IsCore, Registered
  <2>2. \A x \in Resource :
          /\ Remember(x, id, op).memory = x.memory /\ Remember(x, id, op).aliases = x.aliases
          /\ Remember(x, id, op).copy = IF op.type \in Transfers THEN id ELSE x.copy
          /\ Remember(x, id, op).allocation = IF op.type = "allocate" THEN id ELSE x.allocation
    BY DEF Remember, Resource
  <2>3. d.resources[r] = IF r = op.target THEN Remember(v.resources[r], id, op) ELSE v.resources[r]
    BY <1>1, <1>2
  <2> QED BY <2>1, <2>2, <2>3
<1>10. Known(s) = Registered(c) /\ Known(w) = Registered(c)
  BY <1>1 DEF Same, SameResources
<1>11. SameResources(d, t)
  BY <1>1, <1>2, <1>5, <1>9, <1>10 DEF Same, SameResources, Known
<1>12. \A o \in Processed(v) : d.operations[o] = v.operations[o]
  BY <1>1, <1>3, <1>7
<1>13. SameCopies(d, t)
  <2>1. CASE op.type \in Transfers /\ op.target \in Registered(c)
    <3>1. /\ DOMAIN t.lastCopy = DOMAIN w.lastCopy \cup {op.target}
          /\ t.lastCopy[op.target] = now
          /\ \A r \in DOMAIN w.lastCopy : r # op.target => t.lastCopy[r] = w.lastCopy[r]
      BY <1>5, <1>10, <2>1 DEF copies, Bind
    <3>2. \A r \in Registered(c) :
            d.resources[r].copy = IF r = op.target THEN id ELSE v.resources[r].copy
      BY <1>9, <2>1
    <3>3. DOMAIN t.lastCopy = {r \in Registered(d) : d.resources[r].copy # NoOp}
      BY <1>1, <1>2, <1>8, <2>1, <3>1, <3>2 DEF Same, SameCopies
    <3>4. ASSUME NEW r \in DOMAIN t.lastCopy
          PROVE  /\ d.resources[r].copy \in Processed(d)
                 /\ t.lastCopy[r] = Kept(d, d.resources[r].copy)
      <4>1. CASE r = op.target
        BY <1>2, <1>6, <2>1, <3>1, <3>2, <4>1
      <4>2. CASE r # op.target
        <5>1. /\ r \in Registered(c) /\ d.resources[r].copy = v.resources[r].copy
              /\ r \in DOMAIN w.lastCopy /\ t.lastCopy[r] = w.lastCopy[r]
              /\ v.resources[r].copy # NoOp
          BY <1>1, <3>1, <3>2, <4>2 DEF Same, SameCopies
        <5>2. /\ v.resources[r].copy \in Processed(v)
              /\ w.lastCopy[r] = Kept(v, v.resources[r].copy)
          BY <1>1, <5>1 DEF Same, SameCopies
        <5>3. Kept(d, v.resources[r].copy) = Kept(v, v.resources[r].copy)
          BY <1>1, <1>12, <5>1, KeptStays
        <5> QED BY <1>2, <1>7, <5>1, <5>2, <5>3
      <4> QED BY <4>1, <4>2
    <3> QED BY <3>3, <3>4 DEF SameCopies
  <2>2. CASE ~(op.type \in Transfers /\ op.target \in Registered(c))
    <3>1. t.lastCopy = w.lastCopy
      BY <1>5, <1>10, <2>2 DEF copies
    <3>2. \A r \in Registered(c) : d.resources[r].copy = v.resources[r].copy
      BY <1>9, <2>2
    <3>3. DOMAIN t.lastCopy = {r \in Registered(d) : d.resources[r].copy # NoOp}
      BY <1>1, <1>2, <3>1, <3>2 DEF Same, SameCopies
    <3>4. ASSUME NEW r \in DOMAIN t.lastCopy
          PROVE  /\ d.resources[r].copy \in Processed(d)
                 /\ t.lastCopy[r] = Kept(d, d.resources[r].copy)
      <4>1. /\ r \in Registered(c) /\ v.resources[r].copy # NoOp
            /\ v.resources[r].copy \in Processed(v)
            /\ w.lastCopy[r] = Kept(v, v.resources[r].copy)
        BY <1>1, <3>1 DEF Same, SameCopies
      <4>2. Kept(d, v.resources[r].copy) = Kept(v, v.resources[r].copy)
        BY <1>1, <1>12, <4>1, KeptStays
      <4> QED BY <1>2, <1>7, <3>1, <3>2, <4>1, <4>2
    <3> QED BY <3>3, <3>4 DEF SameCopies
  <2> QED BY <2>1, <2>2
<1>14. SameBuffers(d, t)
  <2>1. CASE op.type = "allocate" /\ op.target \in Registered(c)
    <3>1. BuffersOf(s, op.target) = {BufferOf(v, r) : r \in Allocated(v) \cap {op.target}}
      <4>1. BuffersOf(s, op.target) = BuffersOf(w, op.target)
        BY <1>1 DEF BuffersOf
      <4>2. BuffersOf(w, op.target) = IF op.target \in Allocated(v) THEN {BufferOf(v, op.target)} ELSE {}
        BY <1>1, BuffersOfSame
      <4> QED BY <4>1, <4>2
    <3>2. Allocated(d) = Allocated(v) \cup {op.target}
      BY <1>1, <1>2, <1>8, <1>9, <2>1 DEF Allocated
    <3>3. \A r \in Allocated(v) \ {op.target} :
            /\ d.resources[r].allocation = v.resources[r].allocation
            /\ BufferOf(d, r) = BufferOf(v, r)
      <4>1. \A r \in Allocated(v) :
              d.operations[v.resources[r].allocation].bytes = v.operations[v.resources[r].allocation].bytes
        BY <1>1, <1>12, KeptStays
      <4>2. \A r \in Allocated(v) \ {op.target} :
              d.resources[r].allocation = v.resources[r].allocation
        BY <1>1, <1>9 DEF Allocated
      <4> QED BY <4>1, <4>2 DEF BufferOf
    <3>4. d.resources[op.target].allocation = id /\ BufferOf(d, op.target) = <<op.target, AsFloat(op.bytes)>>
      BY <1>2, <1>9, <2>1 DEF BufferOf
    <3> DEFINE others == {BufferOf(v, r) : r \in Allocated(v) \ {op.target}}
    <3>5. /\ DOMAIN t.activeBuffers = others \cup {<<op.target, AsFloat(op.bytes)>>}
          /\ t.activeBuffers[<<op.target, AsFloat(op.bytes)>>] = now
          /\ \A key \in others : t.activeBuffers[key] = w.activeBuffers[key]
      <4>1. \A r \in Allocated(v) \ {op.target} : /\ BufferOf(v, r) # BufferOf(v, op.target)
                                                  /\ BufferOf(v, r) # <<op.target, AsFloat(op.bytes)>>
        BY DEF BufferOf
      <4>2. DOMAIN w.activeBuffers \ BuffersOf(s, op.target) = others
        BY <1>1, <3>1, <4>1 DEF Same, SameBuffers
      <4>3. t.activeBuffers = Bind(Without(w.activeBuffers, BuffersOf(s, op.target)),
                                   <<op.target, AsFloat(op.bytes)>>, now)
        BY <1>5, <1>10, <2>1 DEF buffers
      <4>4. <<op.target, AsFloat(op.bytes)>> \notin others
        BY <4>1
      <4> HIDE DEF others
      <4> QED BY <4>2, <4>3, <4>4 DEF Bind, Without
    <3>6. DOMAIN t.activeBuffers = {BufferOf(d, r) : r \in Allocated(d)}
      BY <3>2, <3>3, <3>4, <3>5
    <3>7. ASSUME NEW r \in Allocated(d)
          PROVE  /\ d.resources[r].allocation \in Processed(d)
                 /\ t.activeBuffers[BufferOf(d, r)] = Kept(d, d.resources[r].allocation)
      <4>1. CASE r = op.target
        BY <1>2, <1>6, <3>4, <3>5, <4>1
      <4>2. CASE r # op.target
        <5>1. r \in Allocated(v) \ {op.target}
          BY <3>2, <4>2
        <5>2. /\ v.resources[r].allocation \in Processed(v)
              /\ w.activeBuffers[BufferOf(v, r)] = Kept(v, v.resources[r].allocation)
              /\ Kept(d, v.resources[r].allocation) = Kept(v, v.resources[r].allocation)
          BY <1>1, <1>12, <5>1, KeptStays DEF Same, SameBuffers
        <5> QED BY <1>2, <1>7, <3>3, <3>5, <5>1, <5>2
      <4> QED BY <4>1, <4>2
    <3> QED BY <3>6, <3>7 DEF SameBuffers
  <2>2. CASE ~(op.type = "allocate" /\ op.target \in Registered(c))
    <3>1. t.activeBuffers = w.activeBuffers
      BY <1>5, <1>10, <2>2 DEF buffers
    <3>2. \A r \in Registered(c) : d.resources[r].allocation = v.resources[r].allocation
      BY <1>9, <2>2
    <3>3. Allocated(d) = Allocated(v) /\ \A r \in Allocated(v) : BufferOf(d, r) = BufferOf(v, r)
      <4>1. Allocated(d) = Allocated(v)
        BY <1>1, <1>2, <3>2 DEF Allocated
      <4>2. \A r \in Allocated(v) : r \in Registered(c)
        BY <1>1 DEF Allocated
      <4>3. \A r \in Allocated(v) :
              d.operations[v.resources[r].allocation].bytes
                = v.operations[v.resources[r].allocation].bytes
        BY <1>1, <1>12, KeptStays
      <4> QED BY <3>2, <4>1, <4>2, <4>3 DEF BufferOf
    <3>4. ASSUME NEW r \in Allocated(v)
          PROVE  /\ d.resources[r].allocation \in Processed(d)
                 /\ t.activeBuffers[BufferOf(d, r)] = Kept(d, d.resources[r].allocation)
      <4>1. r \in Registered(c)
        BY <1>1 DEF Allocated
      <4>2. /\ v.resources[r].allocation \in Processed(v)
            /\ w.activeBuffers[BufferOf(v, r)] = Kept(v, v.resources[r].allocation)
        BY <1>1 DEF Same, SameBuffers
      <4>3. Kept(d, v.resources[r].allocation) = Kept(v, v.resources[r].allocation)
        BY <1>1, <1>12, KeptStays
      <4> QED BY <1>2, <1>7, <3>1, <3>2, <3>3, <4>1, <4>2, <4>3
    <3>5. DOMAIN t.activeBuffers = {BufferOf(d, r) : r \in Allocated(d)}
      BY <1>1, <3>1, <3>3 DEF Same, SameBuffers
    <3> QED BY <3>3, <3>4, <3>5 DEF SameBuffers
  <2> QED BY <2>1, <2>2
<1>15. SameReplacements(d, t) /\ t.ids = Processed(d)
  BY <1>1, <1>2, <1>5, <1>7, <1>12 DEF Same, SameReplacements
<1> QED BY <1>5, <1>11, <1>13, <1>14, <1>15 DEF Same, d, t

\* Whatever is submitted, both states stay the same, if its size is told apart.
LEMMA ProcessSame ==
    ASSUME NEW c, IsCore(c), NEW s, Same(c, s), NEW id \in OperationId, NEW op \in Request,
           CanProcess(c, id), Distinguished(c, op)
    PROVE  Same(Process(c, id, op), ProcessState(s, id, Decoded(op), FrameOf(c, op)))
<1>1. DecideOperation(s, Decoded(op), FrameOf(c, op)) = PolicyOf(Decide(c, op))
  BY SameDecision
<1>2. PolicyOf(Decide(c, op)) = "none" <=> Decide(c, op) = "keep"
  BY ReplacementsType DEF PolicyOf, Opcode
<1>3. CASE Decide(c, op) = "keep"
  BY <1>1, <1>2, <1>3, ExecuteSame DEF Process, ProcessState
<1>4. CASE Decide(c, op) # "keep"
  BY <1>1, <1>2, <1>4, EliminateSame DEF Process, ProcessState
<1> QED BY <1>3, <1>4

\* The first operation finds nothing on either side.
LEMMA EmptySame == Same(EmptyCore, EmptyState)
<1> DEFINE c == EmptyCore
           s == EmptyState
<1>1. Registered(c) = {} /\ Processed(c) = {} /\ Allocated(c) = {}
  BY DEF EmptyCore, Registered, Processed, Allocated
<1>2. /\ IsState(s) /\ s.ids = {} /\ s.removed = {} /\ DOMAIN s.resources = {}
      /\ DOMAIN s.lastCopy = {} /\ DOMAIN s.activeBuffers = {} /\ DOMAIN s.replacements = {}
  BY DEF EmptyState, IsState
<1> HIDE DEF c, s
<1> QED BY <1>1, <1>2 DEF Same, SameResources, SameCopies, SameBuffers, SameReplacements, Known, c, s

\* An open frame is part of the admission only.
LEMMA FrameSame ==
    ASSUME NEW c, IsCore(c), NEW s, Same(c, s), NEW d, d.resources = c.resources,
           d.operations = c.operations
    PROVE  Same(d, s)
<1>1. /\ Registered(d) = Registered(c) /\ Processed(d) = Processed(c) /\ Allocated(d) = Allocated(c)
      /\ \A o : Kept(d, o) = Kept(c, o)
      /\ \A r : BufferOf(d, r) = BufferOf(c, r)
  BY DEF Registered, Processed, Allocated, Kept, BufferOf
<1> QED BY <1>1 DEF Same, SameResources, SameCopies, SameBuffers, SameReplacements
-----------------------------------------------------------------------------
(* The Python state on its own.                                            *)

\* A write forgets transfers and nothing else.
LEMMA InvalidateState ==
    ASSUME NEW s, IsState(s), NEW id
    PROVE  IsState(InvalidateResource(s, id)) /\ InvalidateResource(s, id).ids = s.ids
<1>1. PICK f : InvalidateResource(s, id) = [s EXCEPT !.lastCopy = f]
  BY DEF InvalidateResource
<1> QED BY <1>1 DEF IsState

\* Resources come and go without touching the processed ids.
LEMMA ResourceState ==
    ASSUME NEW s, IsState(s), NEW id, NEW view
    PROVE  /\ IsState(RegisterState(s, id, view)) /\ RegisterState(s, id, view).ids = s.ids
           /\ IsState(ReleaseState(s, id)) /\ ReleaseState(s, id).ids = s.ids
<1> DEFINE t == InvalidateResource(s, id)
<1>1. IsState(RegisterState(s, id, view)) /\ RegisterState(s, id, view).ids = s.ids
  <2>1. PICK f : RegisterState(s, id, view) = [s EXCEPT !.resources = f]
    BY DEF RegisterState
  <2> QED BY <2>1 DEF IsState
<1>2. IsState(t) /\ t.ids = s.ids
  BY InvalidateState
<1>3. PICK f, g : ReleaseState(s, id) = [t EXCEPT !.activeBuffers = f, !.resources = g]
  BY DEF ReleaseState
<1> HIDE DEF t
<1>4. IsState(ReleaseState(s, id)) /\ ReleaseState(s, id).ids = t.ids
  BY <1>2, <1>3 DEF IsState
<1> QED BY <1>1, <1>2, <1>4

\* A processed operation joins the processed ids, whatever was decided.
LEMMA ProcessedState ==
    ASSUME NEW s, IsState(s), NEW id, NEW op, NEW frame
    PROVE  /\ IsState(ProcessState(s, id, op, frame))
           /\ ProcessState(s, id, op, frame).ids = s.ids \cup {id}
<1> DEFINE policy == DecideOperation(s, op, frame)
           w == IF op.type \in Writers THEN InvalidateResource(s, op.target) ELSE s
<1>1. CASE policy = "none"
  <2>1. IsState(w) /\ w.ids = s.ids
    BY InvalidateState
  <2>2. PICK f, g : ProcessState(s, id, op, frame) =
                      [w EXCEPT !.ids = w.ids \cup {id}, !.lastCopy = f, !.activeBuffers = g]
    BY <1>1 DEF ProcessState, ExecuteState
  <2> HIDE DEF w
  <2> QED BY <2>1, <2>2 DEF IsState
<1>2. CASE policy # "none"
  <2>1. PICK f, g : ProcessState(s, id, op, frame) =
                      [s EXCEPT !.ids = s.ids \cup {id}, !.replacements = f, !.removed = g]
    BY <1>2 DEF ProcessState, EliminateState
  <2> QED BY <2>1 DEF IsState
<1> QED BY <1>1, <1>2

\* Only a registration and a release change the registered resources.
LEMMA InvalidationKeepsResources ==
    ASSUME NEW s, IsState(s), NEW id
    PROVE  /\ IsState(InvalidateResource(s, id))
           /\ InvalidateResource(s, id).resources = s.resources
<1>1. PICK f : InvalidateResource(s, id) = [s EXCEPT !.lastCopy = f]
  BY DEF InvalidateResource
<1> QED BY <1>1 DEF IsState

\* A registration adds the view.
LEMMA RegistrationResources ==
    ASSUME NEW s, IsState(s), NEW id, NEW view, NEW t, t = RegisterState(s, id, view)
    PROVE  t.resources = Bind(s.resources, id, view)
BY DEF RegisterState, IsState

\* A release takes it away.
LEMMA ReleaseResources ==
    ASSUME NEW s, IsState(s), NEW id, NEW t, t = ReleaseState(s, id)
    PROVE  t.resources = Without(s.resources, {id})
<1> DEFINE q == InvalidateResource(s, id)
<1>1. IsState(q) /\ q.resources = s.resources
  BY InvalidationKeepsResources
<1>2. PICK f : ReleaseState(s, id)
                 = [q EXCEPT !.activeBuffers = f, !.resources = Without(q.resources, {id})]
  BY DEF ReleaseState
<1> HIDE DEF q
<1> QED BY <1>1, <1>2 DEF IsState

\* An operation leaves them alone.
LEMMA ProcessKeepsResources ==
    ASSUME NEW s, IsState(s), NEW id, NEW op, NEW frame, NEW t, t = ProcessState(s, id, op, frame)
    PROVE  t.resources = s.resources
<1> DEFINE policy == DecideOperation(s, op, frame)
           w == IF op.type \in Writers THEN InvalidateResource(s, op.target) ELSE s
<1>1. CASE policy = "none"
  <2>1. IsState(w) /\ w.resources = s.resources
    BY InvalidationKeepsResources
  <2>2. PICK f, g : ProcessState(s, id, op, frame) =
                      [w EXCEPT !.ids = w.ids \cup {id}, !.lastCopy = f, !.activeBuffers = g]
    BY <1>1 DEF ProcessState, ExecuteState
  <2> HIDE DEF w
  <2> QED BY <2>1, <2>2 DEF IsState
<1>2. CASE policy # "none"
  <2>1. PICK f, g : ProcessState(s, id, op, frame) =
                      [s EXCEPT !.ids = s.ids \cup {id}, !.replacements = f, !.removed = g]
    BY <1>2 DEF ProcessState, EliminateState
  <2> QED BY <2>1 DEF IsState
<1> QED BY <1>1, <1>2

-----------------------------------------------------------------------------
(* Whatever the sizes.                                                     *)

\* The Python state admits what the core admits, and is the same as long as the sizes
\* of all the operations are told apart.
Tracks(c, s) ==
    /\ IsState(s)
    /\ s.ids = Processed(c)
    /\ SameResources(c, s)
    /\ ToldApart(SizesOf(c)) => Same(c, s)

\* Tracking is the agreement of TwinOps.
LEMMA TracksAgrees ==
    ASSUME NEW c, IsCore(c), NEW s, Tracks(c, s)
    PROVE  /\ SameAdmission(c, s, c.currentFrame)
           /\ ToldApart(SizesOf(c)) => SameState(c, s, c.currentFrame)
<1>1. SameAdmission(c, s, c.currentFrame)
  BY DEF Tracks, SameResources, SameAdmission
<1>2. ToldApart(SizesOf(c)) => SameState(c, s, c.currentFrame)
  BY SameIsSameState DEF Tracks
<1> QED BY <1>1, <1>2

\* It starts with the two empty states.
LEMMA EmptyTracks == Tracks(EmptyCore, EmptyState)
BY EmptySame DEF Tracks, Same

\* An open frame has no part in it.
LEMMA FrameTracks ==
    ASSUME NEW c, IsCore(c), NEW s, Tracks(c, s), NEW d, d.resources = c.resources,
           d.operations = c.operations
    PROVE  Tracks(d, s)
<1>1. /\ Registered(d) = Registered(c) /\ Processed(d) = Processed(c)
      /\ SizesOf(d) = SizesOf(c)
  BY DEF Registered, Processed, SizesOf
<1>2. Same(c, s) => Same(d, s)
  BY FrameSame
<1> QED BY <1>1, <1>2 DEF Tracks, SameResources

\* A registration adds the same view on both sides.
LEMMA RegisterTracks ==
    ASSUME NEW c, IsCore(c), NEW s, Tracks(c, s), NEW id \in ResourceId, NEW view \in View,
           CanRegister(c, id)
    PROVE  Tracks(RegisterResource(c, id, view), RegisterState(s, id, view))
<1> DEFINE d == RegisterResource(c, id, view)
           t == RegisterState(s, id, view)
<1>1. /\ Registered(d) = Registered(c) \cup {id} /\ d.operations = c.operations
      /\ d.resources[id] = [memory |-> view.memory, aliases |-> view.aliases,
                            copy |-> NoOp, allocation |-> NoOp]
      /\ \A r \in Registered(c) : r # id => d.resources[r] = c.resources[r]
  BY RegisterType
<1>2. Processed(d) = Processed(c) /\ SizesOf(d) = SizesOf(c)
  BY <1>1 DEF Processed, SizesOf
<1>3. IsState(t) /\ t.ids = s.ids
  BY ResourceState DEF Tracks
<1>4. t.resources = Bind(s.resources, id, view)
  BY RegistrationResources DEF Tracks
<1>5. Same(c, s) => Same(d, t)
  BY RegisterSame
<1> HIDE DEF d, t
<1>6. d.resources[id].memory = view.memory /\ d.resources[id].aliases = view.aliases
  BY <1>1
<1>7. SameResources(d, t)
  BY <1>1, <1>4, <1>6 DEF Tracks, SameResources, Known, Bind
<1> QED BY <1>2, <1>3, <1>5, <1>7 DEF Tracks, d, t

\* A release takes the same view from both.
LEMMA ReleaseTracks ==
    ASSUME NEW c, IsCore(c), NEW s, Tracks(c, s), NEW id
    PROVE  Tracks(ReleaseResource(c, id), ReleaseState(s, id))
<1> DEFINE d == ReleaseResource(c, id)
           t == ReleaseState(s, id)
<1>1. /\ Registered(d) = Registered(c) \ {id} /\ d.operations = c.operations
      /\ \A r \in Registered(c) \ {id} : d.resources[r] = Invalidate(c, id).resources[r]
  BY ReleaseType
<1>2. \A r \in Registered(c) :
        /\ Invalidate(c, id).resources[r].memory = c.resources[r].memory
        /\ Invalidate(c, id).resources[r].aliases = c.resources[r].aliases
  BY InvalidateKeepsViews
<1>3. Processed(d) = Processed(c) /\ SizesOf(d) = SizesOf(c)
  BY <1>1 DEF Processed, SizesOf
<1>4. IsState(t) /\ t.ids = s.ids
  BY ResourceState DEF Tracks
<1>5. t.resources = Without(s.resources, {id})
  BY ReleaseResources DEF Tracks
<1>6. Same(c, s) => Same(d, t)
  BY ReleaseSame
<1> HIDE DEF d, t
<1>7. SameResources(d, t)
  BY <1>1, <1>2, <1>5 DEF Tracks, SameResources, Known, Without
<1> QED BY <1>3, <1>4, <1>6, <1>7 DEF Tracks, d, t

\* An operation adds its size to those that are to be told apart.
LEMMA ProcessSizes ==
    ASSUME NEW c, IsCore(c), NEW id \in OperationId, NEW op \in Request, CanProcess(c, id)
    PROVE  SizesOf(Process(c, id, op)) = SizesOf(c) \cup {op.bytes}
BY ProcessType DEF SizesOf, CanProcess

\* Sizes told apart distinguish an operation from those before it.
LEMMA ToldApartDistinguishes ==
    ASSUME NEW c, NEW op, ToldApart(SizesOf(c) \cup {op.bytes})
    PROVE  Distinguished(c, op) /\ ToldApart(SizesOf(c))
BY DEF ToldApart, Distinguished, SizesOf

\* An operation is tracked, whatever either side decides.
LEMMA ProcessTracks ==
    ASSUME NEW c, IsCore(c), NEW s, Tracks(c, s), NEW id \in OperationId, NEW op \in Request,
           CanProcess(c, id)
    PROVE  Tracks(Process(c, id, op), ProcessState(s, id, Decoded(op), FrameOf(c, op)))
<1> DEFINE d == Process(c, id, op)
           t == ProcessState(s, id, Decoded(op), FrameOf(c, op))
<1>1. Registered(d) = Registered(c) /\ Processed(d) = Processed(c) \cup {id}
  BY ProcessType
<1>2. \A r \in Registered(c) : /\ d.resources[r].memory = c.resources[r].memory
                               /\ d.resources[r].aliases = c.resources[r].aliases
  BY ProcessKeepsViews
<1>3. IsState(t) /\ t.ids = s.ids \cup {id}
  BY ProcessedState DEF Tracks
<1>4. t.resources = s.resources
  BY ProcessKeepsResources DEF Tracks
<1>5. SizesOf(d) = SizesOf(c) \cup {op.bytes}
  BY ProcessSizes
<1>6. ToldApart(SizesOf(d)) => Same(d, t)
  <2> SUFFICES ASSUME ToldApart(SizesOf(c) \cup {op.bytes}) PROVE Same(d, t)
    BY <1>5
  <2>1. Distinguished(c, op) /\ Same(c, s)
    BY ToldApartDistinguishes DEF Tracks
  <2> QED BY <2>1, ProcessSame
<1> HIDE DEF d, t
<1>7. SameResources(d, t)
  BY <1>1, <1>2, <1>4 DEF Tracks, SameResources, Known
<1> QED BY <1>1, <1>3, <1>6, <1>7 DEF Tracks, d, t

\* Sizes that a float represents exactly are told apart.
LEMMA ExactSizesToldApart ==
    ASSUME NEW S, S \subseteq 0..(2^FloatBits)
    PROVE  ToldApart(S) /\ \A bytes \in S : AsFloat(bytes) = bytes
<1>1. \A bytes \in S : AsFloat(bytes) = bytes
  BY DEF AsFloat
<1> QED BY <1>1 DEF ToldApart
=============================================================================
