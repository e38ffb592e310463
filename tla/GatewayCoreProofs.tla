------------------------- MODULE GatewayCoreProofs -------------------------
(***************************************************************************)
(* Theorems about GatewayCore: type correctness, and that the copies and   *)
(* allocations the core remembers are what it believes they are. About     *)
(* TwinCores: that the Python reference says the same. About AliasClosure: *)
(* that the worklist of State::invalidate computes Affected.               *)
(***************************************************************************)
EXTENDS TwinCores, AliasClosure, TwinOpsProofs, TLAPS

-----------------------------------------------------------------------------
(* Type correctness.                                                       *)

\* What is logged of a submission is a verdict, and joins the log.
LEMMA VerdictType ==
    ASSUME TypeOK, NEW id \in OperationId, NEW op \in Request,
           log' = Bind(log, id, [type |-> op.type, deps |-> op.deps, target |-> op.target,
                                 opcode |-> Decide(core, op), retained |-> Retained(core, op)])
    PROVE  /\ DOMAIN log' = Processed(core) \cup {id}
           /\ log' \in [DOMAIN log' -> Verdict]
           /\ log'[id].type = op.type
           /\ log'[id].deps = op.deps
           /\ log'[id].opcode = Decide(core, op)
           /\ log'[id].retained = Retained(core, op)
           /\ \A o \in Processed(core) : o # id => log'[o] = log[o]
<1> DEFINE v == [type |-> op.type, deps |-> op.deps, target |-> op.target,
                 opcode |-> Decide(core, op), retained |-> Retained(core, op)]
<1>1. v \in Verdict
  <2>1. /\ Decide(core, op) \in Opcode
        /\ Retained(core, op) \in OperationId \cup {NoOp}
    BY ReplacementsType DEF TypeOK
  <2> QED BY <2>1 DEF Verdict, Request
<1>2. /\ log' = Bind(log, id, v)
      /\ v.type = op.type
      /\ v.deps = op.deps
      /\ v.opcode = Decide(core, op)
      /\ v.retained = Retained(core, op)
  OBVIOUS
<1> HIDE DEF v
<1>3. /\ DOMAIN log' = Processed(core) \cup {id}
      /\ log' \in [DOMAIN log' -> Verdict]
      /\ log'[id] = v
      /\ \A o \in Processed(core) : o # id => log'[o] = log[o]
  BY <1>1, <1>2 DEF Bind, TypeOK
<1> QED BY <1>2, <1>3

\* Every reachable state is well typed: the core keeps its shape and the log
\* holds exactly the processed operations.
THEOREM TypeCorrect == Spec => []TypeOK
<1>1. Init => TypeOK
  <2> SUFFICES ASSUME Init PROVE TypeOK
    OBVIOUS
  <2>1. IsCore(core)
    BY DEF Init, EmptyCore, IsCore
  <2>2. Processed(core) = {} /\ DOMAIN log = {} /\ log \in [DOMAIN log -> Verdict]
    BY DEF Init, EmptyCore, Processed
  <2> QED BY <2>1, <2>2 DEF Init, TypeOK
<1>2. TypeOK /\ [Next]_vars => TypeOK'
  <2> SUFFICES ASSUME TypeOK, [Next]_vars PROVE TypeOK'
    OBVIOUS
  <2>1. IsCore(core)
    BY DEF TypeOK
  <2>2. ASSUME NEW f \in FrameId, BeginFrameStep(f) PROVE TypeOK'
    <3>1. IsCore(core') /\ Processed(core') = Processed(core)
      BY <2>1, <2>2 DEF BeginFrameStep, BeginFrame, IsCore, Processed
    <3> QED BY <2>2, <3>1 DEF BeginFrameStep, TypeOK, observer
  <2>3. ASSUME NEW f \in FrameId, EndFrameStep(f) PROVE TypeOK'
    <3>1. IsCore(core') /\ Processed(core') = Processed(core)
      BY <2>1, <2>3 DEF EndFrameStep, EndFrame, IsCore, Processed
    <3> QED BY <2>3, <3>1 DEF EndFrameStep, TypeOK, observer
  <2>4. ASSUME NEW r \in ResourceId, NEW view \in Views[r], Register(r, view) PROVE TypeOK'
    <3>1. view \in View
      BY ViewsAreViews
    <3>2. IsCore(core') /\ core'.operations = core.operations
      BY <2>1, <2>4, <3>1, RegisterType DEF Register
    <3> QED BY <2>4, <3>1, <3>2 DEF Register, TypeOK, Processed
  <2>5. ASSUME NEW r \in ResourceId, Release(r) PROVE TypeOK'
    <3>1. IsCore(core') /\ core'.operations = core.operations
      BY <2>1, <2>5, ReleaseType DEF Release
    <3> QED BY <2>5, <3>1 DEF Release, TypeOK, Processed
  <2>6. ASSUME NEW id \in OperationId, NEW op \in Requests, Submit(id, op) PROVE TypeOK'
    <3>1. op \in Request
      BY RequestsAreRequests
    <3>2. IsCore(core') /\ Processed(core') = Processed(core) \cup {id}
      BY <2>1, <2>6, <3>1, ProcessType DEF Submit
    <3>3. DOMAIN log' = Processed(core') /\ log' \in [DOMAIN log' -> Verdict]
      BY <2>6, <3>1, <3>2, VerdictType DEF Submit, Observe
    <3>4. intact' \subseteq intact \cup {id} /\ sourced' \subseteq sourced \cup {id}
      BY <2>6 DEF Submit, Observe
    <3>5. since' \in [ResourceId -> SUBSET Processed(core')]
      BY <2>6, <3>2 DEF Submit, Observe, TypeOK, IsCore, Registered
    <3> QED BY <2>6, <3>2, <3>3, <3>4, <3>5 DEF Submit, Observe, TypeOK
  <2>7. CASE Refused
    BY <2>7 DEF Refused, TypeOK, vars, observer
  <2>8. ASSUME NEW r \in ResourceId, RegisterFails(r) PROVE TypeOK'
    BY <2>8 DEF RegisterFails, TypeOK, observer
  <2>9. ASSUME NEW id \in OperationId, NEW op \in Requests, SubmitFails(id, op) PROVE TypeOK'
    <3>1. op \in Request
      BY RequestsAreRequests
    <3>2. /\ IsCore(core')
          /\ \/ Processed(core') = Processed(core)
             \/ Processed(core') = Processed(core) \cup {id}
      <4>1. core' = core \/ core' \in ProcessCutShort(core, id, op)
        BY <2>9 DEF SubmitFails
      <4>2. CASE core' = core
        BY <2>1, <4>2
      <4>3. CASE core' \in ProcessCutShort(core, id, op)
        BY <2>1, <3>1, <4>3, CutShortType
      <4> QED BY <4>1, <4>2, <4>3
    <3>3. DOMAIN log' = Processed(core') /\ log' \in [DOMAIN log' -> Verdict]
      <4>1. CASE id \in Processed(core')
        <5>1. DOMAIN log' = Processed(core) \cup {id} /\ log' \in [DOMAIN log' -> Verdict]
          BY <2>9, <3>1, <4>1, VerdictType DEF SubmitFails
        <5> QED BY <3>2, <4>1, <5>1
      <4>2. CASE id \notin Processed(core')
        BY <2>9, <3>2, <4>2 DEF SubmitFails, TypeOK
      <4> QED BY <4>1, <4>2
    <3> QED BY <2>9, <3>2, <3>3 DEF SubmitFails, TypeOK
  <2>10. CASE UNCHANGED vars
    BY <2>10 DEF TypeOK, vars, observer
  <2> QED BY <2>2, <2>3, <2>4, <2>5, <2>6, <2>7, <2>8, <2>9, <2>10 DEF Next
<1> QED BY <1>1, <1>2, PTL DEF Spec

-----------------------------------------------------------------------------
(* What the copy and allocation pointers of a resource stand for.          *)

\* A registered resource declares the view it occupies.
StorageDeclared ==
    \A r \in Registered(core) :
        /\ core.resources[r].memory = storage[r].memory
        /\ core.resources[r].aliases = storage[r].aliases

\* A remembered transfer between registered resources keeps its source
\* registered: releasing the source retires the copy.
SourcesStay ==
    \A r \in Registered(core) :
        core.resources[r].copy \in sourced =>
            core.operations[core.resources[r].copy].source \in Registered(core)

ProvenanceInv ==
    /\ TypeOK
    /\ StorageDeclared
    /\ SourcesStay
    /\ CopyProvenance
    /\ AllocationProvenance

\* A registered view that overlaps a written one is among the affected.
LEMMA OverlapIsAffected ==
    ASSUME TypeOK, StorageDeclared, NEW r \in Registered(core), NEW t \in Registered(core),
           Overlap(r, t)
    PROVE  r \in Affected(core, t)
<1>1. r # NoResource /\ t # NoResource
  BY NullsAreNotIds DEF TypeOK, IsCore, Registered
<1>2. r = t \/ AliasesIntersect(core.resources[t], core.resources[r])
  BY <1>1 DEF Overlap, StorageDeclared, AliasesIntersect
<1>3. ASSUME NEW S \in SUBSET Registered(core), t \in S, AliasClosed(core, S)
      PROVE  r \in S
  BY <1>2, <1>3 DEF AliasClosed
<1> QED BY <1>3 DEF Affected

\* A copy that survives a write to t is between resources the write missed.
LEMMA SurvivorsAreUntouched ==
    ASSUME TypeOK, StorageDeclared, SourcesStay, CopyProvenance,
           NEW r \in Registered(core), NEW t, ~Retired(core, t, r),
           core.resources[r].copy # NoOp
    PROVE  /\ t \in Registered(core)
           /\ ~Overlap(r, t)
           /\ core.resources[r].copy \in sourced =>
                /\ core.resources[r].copy \in intact \ Touching(t)
                /\ core.operations[core.resources[r].copy].source # t
<1>1. t \in Registered(core) /\ r \notin Affected(core, t)
  BY DEF Retired
<1>2. ~Overlap(r, t)
  BY <1>1, OverlapIsAffected
<1>3. ASSUME core.resources[r].copy \in sourced
      PROVE  /\ core.resources[r].copy \in intact \ Touching(t)
             /\ core.operations[core.resources[r].copy].source # t
  <2> DEFINE p == core.resources[r].copy
             q == core.operations[p].source
  <2>1. q \in Registered(core) /\ p \in intact /\ core.operations[p].target = r
    BY <1>3 DEF SourcesStay, CopyProvenance
  <2>2. q \notin Affected(core, t)
    BY <1>1, <2>1 DEF Retired
  <2>3. ~Overlap(q, t)
    BY <1>1, <2>1, <2>2, OverlapIsAffected
  <2>4. p \notin Touching(t)
    BY <1>2, <2>1, <2>3 DEF Touching
  <2>5. q # t
    BY <2>3 DEF Overlap
  <2> QED BY <2>1, <2>4, <2>5
<1> QED BY <1>1, <1>2, <1>3

\* Steps that leave resources, records and the observer's knowledge of them
\* alone, but may process another operation, keep what the pointers stand for.
LEMMA QuietStep ==
    ASSUME ProvenanceInv, TypeOK',
           core'.resources = core.resources,
           \A o \in Processed(core) : /\ o \in Processed(core')
                                     /\ core'.operations[o] = core.operations[o]
                                     /\ log'[o] = log[o],
           UNCHANGED <<storage, intact, sourced, since>>
    PROVE  ProvenanceInv'
<1>1. Registered(core') = Registered(core)
  BY DEF Registered
<1>2. StorageDeclared'
  BY <1>1 DEF ProvenanceInv, StorageDeclared
<1>3. sourced \subseteq Processed(core)
  BY DEF ProvenanceInv, TypeOK
<1>4. SourcesStay'
  BY <1>1, <1>3 DEF ProvenanceInv, SourcesStay
<1>5. CopyProvenance'
  BY <1>1 DEF ProvenanceInv, CopyProvenance, Executed
<1>6. AllocationProvenance'
  BY <1>1 DEF ProvenanceInv, AllocationProvenance, Executed
<1> QED BY <1>2, <1>4, <1>5, <1>6 DEF ProvenanceInv

\* An eliminated operation changes no resource.
LEMMA EliminateKeepsResources ==
    ASSUME NEW c, IsCore(c), NEW id \in OperationId, NEW op \in Request,
           Decide(c, op) # "keep"
    PROVE  Process(c, id, op).resources = c.resources
<1> DEFINE record == Record(c, op, TRUE, Replacements(c, op), Replacements(c, op) = {})
<1>1. Process(c, id, op) = Store(c, id, record)
  BY DEF Process, Eliminate
<1>2. record \in StoredOperation
  BY ReplacementsType, RecordType
<1> HIDE DEF record
<1>3. Store(c, id, record).resources = c.resources
  BY <1>2, StoreType
<1> QED BY <1>1, <1>3

\* Registering keeps what the pointers stand for: the new resource has none.
LEMMA RegisterStep ==
    ASSUME ProvenanceInv, TypeOK', NEW r \in ResourceId, NEW view \in Views[r],
           Register(r, view)
    PROVE  ProvenanceInv'
<1>0. view \in View
  BY ViewsAreViews
<1>1. /\ IsCore(core)
      /\ r \notin Registered(core)
      /\ core' = RegisterResource(core, r, view)
      /\ storage' = [storage EXCEPT ![r] = view]
      /\ storage \in [ResourceId -> View]
      /\ UNCHANGED <<log, sourced, since>>
  BY DEF Register, ProvenanceInv, TypeOK, CanRegister
<1>2. /\ Registered(core') = Registered(core) \cup {r}
      /\ core'.operations = core.operations
      /\ core'.resources[r] = [memory |-> view.memory, aliases |-> view.aliases,
                               copy |-> NoOp, allocation |-> NoOp]
      /\ \A s \in Registered(core) : s # r /\ core'.resources[s] = core.resources[s]
  BY <1>0, <1>1, RegisterType
<1>3. StorageDeclared'
  <2> SUFFICES ASSUME NEW s \in Registered(core')
               PROVE  /\ core'.resources[s].memory = storage'[s].memory
                      /\ core'.resources[s].aliases = storage'[s].aliases
    BY DEF StorageDeclared
  <2>1. CASE s = r
    BY <1>1, <1>2, <2>1
  <2>2. CASE s \in Registered(core)
    BY <1>1, <1>2, <2>2 DEF ProvenanceInv, StorageDeclared, IsCore, Registered
  <2> QED BY <1>2, <2>1, <2>2
<1>4. NoOp \notin sourced
  BY NullsAreNotIds DEF ProvenanceInv, TypeOK, IsCore, Processed
<1>5. SourcesStay'
  BY <1>1, <1>2, <1>4 DEF ProvenanceInv, SourcesStay
<1>6. \A s \in Registered(core) :
        core.resources[s].copy \in sourced =>
            core.resources[s].copy \in intact \ Naming(r)
  <2> SUFFICES ASSUME NEW s \in Registered(core), core.resources[s].copy \in sourced
               PROVE  core.resources[s].copy \in intact \ Naming(r)
    OBVIOUS
  <2> DEFINE copy == core.resources[s].copy
  <2>1. copy # NoOp
    BY <1>4
  <2>2. copy \in intact /\ core.operations[copy].target = s
    BY <2>1 DEF ProvenanceInv, CopyProvenance
  <2>3. core.operations[copy].source \in Registered(core)
    BY DEF ProvenanceInv, SourcesStay
  <2> QED BY <1>1, <2>2, <2>3 DEF Naming
<1>7. intact \ Naming(r) \subseteq intact'
  BY DEF Register
<1>8. Executed' = Executed
  BY <1>2 DEF Executed, Processed
<1>9. CopyProvenance'
  <2> SUFFICES ASSUME NEW s \in Registered(core'), core'.resources[s].copy # NoOp
               PROVE  LET copy == core'.resources[s].copy
                      IN  /\ copy \in Executed' \cap since'[s] /\ log'[copy].type \in Transfers
                          /\ core'.operations[copy].target = s
                          /\ copy \in sourced' => copy \in intact'
    BY DEF CopyProvenance
  <2> DEFINE copy == core.resources[s].copy
  <2>1. s \in Registered(core) /\ core'.resources[s].copy = copy /\ copy # NoOp
    BY <1>2
  <2>2. /\ copy \in Executed \cap since[s] /\ log[copy].type \in Transfers
        /\ core.operations[copy].target = s
    BY <2>1 DEF ProvenanceInv, CopyProvenance
  <2>3. copy \in sourced => copy \in intact'
    BY <1>6, <1>7, <2>1
  <2> HIDE DEF copy
  <2> QED BY <1>1, <1>2, <1>8, <2>1, <2>2, <2>3
<1>10. AllocationProvenance'
  <2> SUFFICES ASSUME NEW s \in Registered(core'), core'.resources[s].allocation # NoOp
               PROVE  LET allocation == core'.resources[s].allocation
                      IN  /\ allocation \in Executed' \cap since'[s]
                          /\ log'[allocation].type = "allocate"
                          /\ core'.operations[allocation].target = s
    BY DEF AllocationProvenance
  <2>1. s \in Registered(core) /\ core'.resources[s] = core.resources[s]
    BY <1>2
  <2> QED BY <1>1, <1>2, <1>8, <2>1 DEF ProvenanceInv, AllocationProvenance
<1> QED BY <1>3, <1>5, <1>9, <1>10 DEF ProvenanceInv

\* Releasing retires every copy that named the released resource.
LEMMA ReleaseStep ==
    ASSUME ProvenanceInv, TypeOK', NEW r \in ResourceId, Release(r)
    PROVE  ProvenanceInv'
<1>1. /\ IsCore(core)
      /\ core' = ReleaseResource(core, r)
      /\ intact' = intact \ Naming(r)
      /\ since' = [since EXCEPT ![r] = {}]
      /\ since \in [ResourceId -> SUBSET Processed(core)]
      /\ UNCHANGED <<log, sourced, storage>>
  BY DEF Release, ProvenanceInv, TypeOK
<1>2. /\ Registered(core') = Registered(core) \ {r}
      /\ core'.operations = core.operations
      /\ \A s \in Registered(core) \ {r} :
           core'.resources[s] = IF Retired(core, r, s)
                                THEN [core.resources[s] EXCEPT !.copy = NoOp]
                                ELSE core.resources[s]
  BY <1>1, ReleaseType, InvalidateType
<1>3. \A s \in Registered(core) :
        /\ core.resources[s] \in Resource
        /\ s \in ResourceId
  BY <1>1 DEF IsCore, Registered
<1>4. NoOp \notin sourced
  BY NullsAreNotIds DEF ProvenanceInv, TypeOK, IsCore, Processed
<1>5. \A s \in Registered(core) \ {r} :
        /\ core'.resources[s].memory = core.resources[s].memory
        /\ core'.resources[s].aliases = core.resources[s].aliases
        /\ core'.resources[s].allocation = core.resources[s].allocation
        /\ \/ core'.resources[s].copy = NoOp
           \/ /\ core'.resources[s].copy = core.resources[s].copy
              /\ ~Retired(core, r, s)
  BY <1>2, <1>3 DEF Resource
<1>6. StorageDeclared'
  BY <1>1, <1>2, <1>5 DEF ProvenanceInv, StorageDeclared
<1>7. \A s \in Registered(core) \ {r} :
        core'.resources[s].copy # NoOp =>
            /\ core'.resources[s].copy = core.resources[s].copy
            /\ core.resources[s].copy \in sourced =>
                 /\ core.resources[s].copy \in intact
                 /\ core.operations[core.resources[s].copy].source # r
  BY <1>5, SurvivorsAreUntouched DEF ProvenanceInv
<1>8. SourcesStay'
  BY <1>1, <1>2, <1>4, <1>7 DEF ProvenanceInv, SourcesStay
<1>9. CopyProvenance'
  <2> SUFFICES ASSUME NEW s \in Registered(core) \ {r}, core'.resources[s].copy # NoOp
               PROVE  /\ core'.resources[s].copy \in Executed' \cap since'[s]
                      /\ log'[core'.resources[s].copy].type \in Transfers
                      /\ core'.operations[core'.resources[s].copy].target = s
                      /\ core'.resources[s].copy \in sourced' =>
                           core'.resources[s].copy \in intact'
    BY <1>2 DEF CopyProvenance
  <2> DEFINE p == core.resources[s].copy
  <2>1. /\ p \in Executed \cap since[s]
        /\ log[p].type \in Transfers
        /\ core.operations[p].target = s
    BY <1>7 DEF ProvenanceInv, CopyProvenance
  <2>2. Executed' = Executed /\ since'[s] = since[s]
    BY <1>1, <1>2, <1>3 DEF Executed, Processed
  <2>3. p \in sourced => p \in intact'
    BY <1>1, <1>7, <2>1 DEF Naming
  <2> QED BY <1>1, <1>2, <1>7, <2>1, <2>2, <2>3
<1>10. AllocationProvenance'
  <2>1. Executed' = Executed
    BY <1>2 DEF Executed, Processed
  <2> QED BY <1>1, <1>2, <1>3, <1>5, <2>1 DEF ProvenanceInv, AllocationProvenance
<1> QED BY <1>6, <1>8, <1>9, <1>10 DEF ProvenanceInv

\* Executing an operation retires what it overwrites, and what its target then
\* remembers is the operation itself.
LEMMA ExecuteStep ==
    ASSUME ProvenanceInv, TypeOK', NEW id \in OperationId, NEW op \in Request,
           Submit(id, op), Decide(core, op) = "keep"
    PROVE  ProvenanceInv'
<1>0. /\ IsCore(core)
      /\ id \notin Processed(core)
      /\ intact \subseteq Processed(core)
      /\ sourced \subseteq Processed(core)
      /\ NoOp \notin Processed(core)
      /\ since \in [ResourceId -> SUBSET Processed(core)]
  BY NullsAreNotIds DEF Submit, CanProcess, ProvenanceInv, TypeOK, IsCore, Processed
<1>1. /\ Registered(core') = Registered(core)
      /\ Processed(core') = Processed(core) \cup {id}
      /\ ~core'.operations[id].eliminated
      /\ core'.operations[id].source = op.source
      /\ core'.operations[id].target = op.target
      /\ \A o \in Processed(core) : core'.operations[o] = core.operations[o]
      /\ \A r \in Registered(core) :
            core'.resources[r] = IF r = op.target
                                 THEN Remember(Overwritten(core, op).resources[r], id, op)
                                 ELSE Overwritten(core, op).resources[r]
  <2>1. core' = Execute(core, id, op)
    BY DEF Submit, Process
  <2>2. \A o \in Processed(core) : o # id
    BY <1>0
  <2> QED BY <1>0, <2>1, <2>2, ExecuteType
<1>2. /\ log'[id].type = op.type
      /\ \A o \in Processed(core) : log'[o] = log[o]
  <2>1. log' = Bind(log, id, [type |-> op.type, deps |-> op.deps, target |-> op.target,
                             opcode |-> Decide(core, op), retained |-> Retained(core, op)])
    BY DEF Submit, Observe
  <2>2. TypeOK
    BY DEF ProvenanceInv
  <2>3. /\ log'[id].type = op.type
        /\ \A o \in Processed(core) : o # id => log'[o] = log[o]
    BY <2>1, <2>2, VerdictType
  <2> QED BY <1>0, <2>3
<1>3. \A r \in Registered(core) :
        /\ Overwritten(core, op).resources[r] \in Resource
        /\ Overwritten(core, op).resources[r].memory = core.resources[r].memory
        /\ Overwritten(core, op).resources[r].aliases = core.resources[r].aliases
        /\ Overwritten(core, op).resources[r].allocation = core.resources[r].allocation
        /\ \/ Overwritten(core, op).resources[r].copy = NoOp
           \/ /\ Overwritten(core, op).resources[r].copy = core.resources[r].copy
              /\ op.type \in Writers => ~Retired(core, op.target, r)
  <2> SUFFICES ASSUME NEW r \in Registered(core)
               PROVE  /\ Overwritten(core, op).resources[r] \in Resource
                      /\ Overwritten(core, op).resources[r].memory = core.resources[r].memory
                      /\ Overwritten(core, op).resources[r].aliases = core.resources[r].aliases
                      /\ Overwritten(core, op).resources[r].allocation
                            = core.resources[r].allocation
                      /\ \/ Overwritten(core, op).resources[r].copy = NoOp
                         \/ /\ Overwritten(core, op).resources[r].copy
                                 = core.resources[r].copy
                            /\ op.type \in Writers => ~Retired(core, op.target, r)
    OBVIOUS
  <2>1. core.resources[r] \in Resource
    BY <1>0 DEF IsCore, Registered
  <2>2. CASE op.type \in Writers
    <3>1. Overwritten(core, op).resources[r] =
            IF Retired(core, op.target, r) THEN [core.resources[r] EXCEPT !.copy = NoOp]
                                           ELSE core.resources[r]
      BY <1>0, <2>2, InvalidateType DEF Overwritten
    <3> QED BY <2>1, <3>1 DEF Resource
  <2>3. CASE op.type \notin Writers
    BY <2>1, <2>3 DEF Overwritten
  <2> QED BY <2>2, <2>3
<1>4. \A r \in Registered(core) :
        /\ core'.resources[r].memory = core.resources[r].memory
        /\ core'.resources[r].aliases = core.resources[r].aliases
        /\ \/ core'.resources[r].copy = NoOp
           \/ /\ core'.resources[r].copy = core.resources[r].copy
              /\ op.type \in Writers => ~Retired(core, op.target, r)
           \/ /\ core'.resources[r].copy = id
              /\ r = op.target
              /\ op.type \in Transfers
        /\ \/ core'.resources[r].allocation = core.resources[r].allocation
           \/ /\ core'.resources[r].allocation = id
              /\ r = op.target
              /\ op.type = "allocate"
  <2> SUFFICES ASSUME NEW r \in Registered(core)
               PROVE  /\ core'.resources[r].memory = core.resources[r].memory
                      /\ core'.resources[r].aliases = core.resources[r].aliases
                      /\ \/ core'.resources[r].copy = NoOp
                         \/ /\ core'.resources[r].copy = core.resources[r].copy
                            /\ op.type \in Writers => ~Retired(core, op.target, r)
                         \/ /\ core'.resources[r].copy = id
                            /\ r = op.target
                            /\ op.type \in Transfers
                      /\ \/ core'.resources[r].allocation = core.resources[r].allocation
                         \/ /\ core'.resources[r].allocation = id
                            /\ r = op.target
                            /\ op.type = "allocate"
    OBVIOUS
  <2> DEFINE w == Overwritten(core, op).resources[r]
  <2>1. core'.resources[r] = IF r = op.target THEN Remember(w, id, op) ELSE w
    BY <1>1
  <2>2. w \in Resource
    BY <1>3
  <2> HIDE DEF w
  <2>3. /\ Remember(w, id, op).memory = w.memory
        /\ Remember(w, id, op).aliases = w.aliases
        /\ Remember(w, id, op).copy = IF op.type \in Transfers THEN id ELSE w.copy
        /\ Remember(w, id, op).allocation = IF op.type = "allocate" THEN id ELSE w.allocation
    BY <2>2 DEF Remember, Resource
  <2>4. /\ w.memory = core.resources[r].memory
        /\ w.aliases = core.resources[r].aliases
        /\ w.allocation = core.resources[r].allocation
        /\ \/ w.copy = NoOp
           \/ /\ w.copy = core.resources[r].copy
              /\ op.type \in Writers => ~Retired(core, op.target, r)
    BY <1>3 DEF w
  <2> QED BY <2>1, <2>3, <2>4
<1>5. /\ storage' = storage
      /\ (IF op.type \in Writers THEN intact \ Touching(op.target) ELSE intact)
            \subseteq intact'
      /\ sourced' \subseteq sourced \cup {id}
      /\ id \in sourced' => Endpoints(core, op)
      /\ \A r \in ResourceId : since[r] \subseteq since'[r]
      /\ op.target \in Registered(core) => id \in since'[op.target]
      /\ op.type \in Transfers /\ ~Overlap(op.source, op.target) => id \in intact'
  BY <1>0 DEF Submit, Observe, IsCore, Registered
<1>6. StorageDeclared'
  BY <1>1, <1>4, <1>5 DEF ProvenanceInv, StorageDeclared
<1>7. \A r \in Registered(core) : r \in ResourceId
  BY <1>0 DEF IsCore, Registered
<1>8. \A r \in Registered(core) :
        core.resources[r].copy \in sourced /\ (op.type \in Writers => ~Retired(core, op.target, r))
            => core.resources[r].copy \in intact'
  <2> SUFFICES ASSUME NEW r \in Registered(core), core.resources[r].copy \in sourced,
                      op.type \in Writers => ~Retired(core, op.target, r)
               PROVE  core.resources[r].copy \in intact'
    OBVIOUS
  <2>1. core.resources[r].copy # NoOp
    BY <1>0
  <2>2. CASE op.type \in Writers
    BY <1>5, <2>1, <2>2, SurvivorsAreUntouched DEF ProvenanceInv
  <2>3. CASE op.type \notin Writers
    BY <1>5, <2>1, <2>3 DEF ProvenanceInv, CopyProvenance
  <2> QED BY <2>2, <2>3
<1>9. SourcesStay'
  <2> SUFFICES ASSUME NEW r \in Registered(core), core'.resources[r].copy \in sourced'
               PROVE  core'.operations[core'.resources[r].copy].source \in Registered(core)
    BY <1>1 DEF SourcesStay
  <2>1. CASE core'.resources[r].copy = id
    BY <1>1, <1>5, <2>1 DEF Endpoints
  <2>2. CASE core'.resources[r].copy # id
    <3>1. core'.resources[r].copy = core.resources[r].copy
      BY <1>0, <1>4, <1>5, <2>2, NullsAreNotIds
    <3> QED BY <1>0, <1>1, <1>5, <2>2, <3>1 DEF ProvenanceInv, SourcesStay
  <2> QED BY <2>1, <2>2
<1>10. id \in sourced' => id \in intact'
  <2> SUFFICES ASSUME Endpoints(core, op) PROVE id \in intact'
    BY <1>5
  <2>1. /\ op.source # op.target
        /\ ~AliasesIntersect(core.resources[op.source], core.resources[op.target])
    BY DEF Decide, SelfCopy, CollapsesAlias
  <2>2. op.source # NoResource /\ op.target # NoResource
    BY <1>7, NullsAreNotIds DEF Endpoints
  <2>3. ~Overlap(op.source, op.target)
    BY <2>1, <2>2 DEF Overlap, Endpoints, ProvenanceInv, StorageDeclared, AliasesIntersect
  <2> QED BY <1>5, <2>3 DEF Endpoints
<1>11. Executed \cup {id} \subseteq Executed'
  BY <1>0, <1>1 DEF Executed
<1>12. CopyProvenance'
  <2> SUFFICES ASSUME NEW r \in Registered(core), core'.resources[r].copy # NoOp
               PROVE  /\ core'.resources[r].copy \in Executed' \cap since'[r]
                      /\ log'[core'.resources[r].copy].type \in Transfers
                      /\ core'.operations[core'.resources[r].copy].target = r
                      /\ core'.resources[r].copy \in sourced' =>
                           core'.resources[r].copy \in intact'
    BY <1>1 DEF CopyProvenance
  <2>1. CASE /\ core'.resources[r].copy = id
             /\ r = op.target
             /\ op.type \in Transfers
    BY <1>1, <1>2, <1>5, <1>10, <1>11, <2>1
  <2>2. CASE /\ core'.resources[r].copy = core.resources[r].copy
             /\ op.type \in Writers => ~Retired(core, op.target, r)
    <3> DEFINE q == core.resources[r].copy
    <3>1. /\ q \in Executed /\ q \in since[r]
          /\ log[q].type \in Transfers
          /\ core.operations[q].target = r
      BY <2>2 DEF ProvenanceInv, CopyProvenance
    <3>2. q \in Processed(core)
      BY <3>1 DEF Executed
    <3>3. q \in sourced' => q \in intact'
      BY <1>0, <1>5, <1>8, <2>2, <3>2
    <3> HIDE DEF q
    <3>4. core'.resources[r].copy = q
      BY <2>2 DEF q
    <3> QED BY <1>1, <1>2, <1>5, <1>7, <1>11, <3>1, <3>2, <3>3, <3>4
  <2> QED BY <1>4, <2>1, <2>2
<1>13. AllocationProvenance'
  <2> SUFFICES ASSUME NEW r \in Registered(core), core'.resources[r].allocation # NoOp
               PROVE  /\ core'.resources[r].allocation \in Executed' \cap since'[r]
                      /\ log'[core'.resources[r].allocation].type = "allocate"
                      /\ core'.operations[core'.resources[r].allocation].target = r
    BY <1>1 DEF AllocationProvenance
  <2>1. CASE /\ core'.resources[r].allocation = id
             /\ r = op.target
             /\ op.type = "allocate"
    BY <1>1, <1>2, <1>5, <1>11, <2>1
  <2>2. CASE core'.resources[r].allocation = core.resources[r].allocation
    <3> DEFINE q == core.resources[r].allocation
    <3>1. /\ q \in Executed /\ q \in since[r]
          /\ log[q].type = "allocate"
          /\ core.operations[q].target = r
      BY <2>2 DEF ProvenanceInv, AllocationProvenance
    <3>2. q \in Processed(core)
      BY <3>1 DEF Executed
    <3> HIDE DEF q
    <3>3. core'.resources[r].allocation = q
      BY <2>2 DEF q
    <3> QED BY <1>1, <1>2, <1>5, <1>7, <1>11, <3>1, <3>2, <3>3
  <2> QED BY <1>4, <2>1, <2>2
<1> QED BY <1>6, <1>9, <1>12, <1>13 DEF ProvenanceInv

\* An eliminated operation writes nothing and leaves every pointer.
LEMMA EliminateStep ==
    ASSUME ProvenanceInv, TypeOK', NEW id \in OperationId, NEW op \in Request,
           Submit(id, op), Decide(core, op) # "keep"
    PROVE  ProvenanceInv'
<1>1. TypeOK /\ IsCore(core) /\ id \notin Processed(core)
  BY DEF ProvenanceInv, TypeOK, Submit, CanProcess
<1>2. core'.resources = core.resources
  BY <1>1, EliminateKeepsResources DEF Submit
<1>3. \A o \in Processed(core) : /\ o \in Processed(core')
                                /\ core'.operations[o] = core.operations[o]
  BY <1>1, ProcessType DEF Submit
<1>4. \A o \in Processed(core) : log'[o] = log[o]
  <2>1. log' = Bind(log, id, [type |-> op.type, deps |-> op.deps, target |-> op.target,
                             opcode |-> Decide(core, op), retained |-> Retained(core, op)])
    BY DEF Submit, Observe
  <2> QED BY <1>1, <2>1, VerdictType
<1>5. UNCHANGED <<storage, intact, sourced, since>>
  BY DEF Submit, Observe
<1> QED BY <1>2, <1>3, <1>4, <1>5, QuietStep

\* The strengthened invariant holds in every reachable state of the core.
THEOREM ProvenanceInvariant == Spec => []ProvenanceInv
<1>1. Init /\ TypeOK => ProvenanceInv
  BY DEF Init, EmptyCore, Registered, ProvenanceInv, StorageDeclared, SourcesStay,
         CopyProvenance, AllocationProvenance
<1>2. ProvenanceInv /\ TypeOK' /\ [Next]_vars => ProvenanceInv'
  <2> SUFFICES ASSUME ProvenanceInv, TypeOK', [Next]_vars PROVE ProvenanceInv'
    OBVIOUS
  <2>0. IsCore(core)
    BY DEF ProvenanceInv, TypeOK
  <2>1. ASSUME NEW f \in FrameId, BeginFrameStep(f) \/ EndFrameStep(f) PROVE ProvenanceInv'
    <3>1. /\ core'.resources = core.resources
          /\ core'.operations = core.operations
          /\ UNCHANGED observer
      BY <2>0, <2>1 DEF BeginFrameStep, BeginFrame, EndFrameStep, EndFrame, IsCore
    <3> QED BY <3>1, QuietStep DEF Processed, observer
  <2>2. ASSUME NEW r \in ResourceId, NEW view \in Views[r], Register(r, view)
        PROVE  ProvenanceInv'
    BY <2>2, RegisterStep
  <2>3. ASSUME NEW r \in ResourceId, Release(r) PROVE ProvenanceInv'
    BY <2>3, ReleaseStep
  <2>4. ASSUME NEW id \in OperationId, NEW op \in Requests, Submit(id, op) PROVE ProvenanceInv'
    BY <2>4, RequestsAreRequests, ExecuteStep, EliminateStep
  <2>5. CASE Refused \/ UNCHANGED vars \/ \E r \in ResourceId : RegisterFails(r)
    BY <2>5, QuietStep DEF Refused, RegisterFails, vars, observer
  <2>6. ASSUME NEW id \in OperationId, NEW op \in Requests, SubmitFails(id, op)
        PROVE  ProvenanceInv'
    <3>1. op \in Request /\ id \notin Processed(core) /\ TypeOK
      BY <2>6, RequestsAreRequests DEF SubmitFails, CanProcess, ProvenanceInv
    <3>2. /\ core'.resources = core.resources
          /\ \A o \in Processed(core) : /\ o \in Processed(core')
                                        /\ core'.operations[o] = core.operations[o]
      <4>1. core' = core \/ core' \in ProcessCutShort(core, id, op)
        BY <2>6 DEF SubmitFails
      <4>2. CASE core' \in ProcessCutShort(core, id, op)
        BY <2>0, <3>1, <4>2, CutShortType
      <4> QED BY <4>1, <4>2
    <3>3. \A o \in Processed(core) : log'[o] = log[o]
      <4>1. CASE log' = log
        BY <4>1
      <4>2. CASE log' = Bind(log, id, [type |-> op.type, deps |-> op.deps,
                                       target |-> op.target, opcode |-> Decide(core, op),
                                       retained |-> Retained(core, op)])
        BY <3>1, <4>2, VerdictType
      <4> QED BY <2>6, <4>1, <4>2 DEF SubmitFails
    <3> QED BY <2>6, <3>2, <3>3, QuietStep DEF SubmitFails
  <2> QED BY <2>1, <2>2, <2>3, <2>4, <2>5, <2>6 DEF Next
<1> QED BY <1>1, <1>2, TypeCorrect, PTL DEF Spec

\* In every reachable state the copy a registered resource remembers was
\* executed on it, and if both endpoints were known when it ran it still
\* describes the bytes of both: State::invalidate clears Resource::copy in time.
THEOREM CopyProvenanceHolds == Spec => []CopyProvenance
BY ProvenanceInvariant, PTL DEF ProvenanceInv

\* The allocation a registered resource remembers was executed on it since its
\* registration (Resource::allocation dies with the resource).
THEOREM AllocationProvenanceHolds == Spec => []AllocationProvenance
BY ProvenanceInvariant, PTL DEF ProvenanceInv

\* A dedupe verdict names the copy the target remembers.
LEMMA DedupeRepeats ==
    ASSUME NEW c, NEW op, Decide(c, op) = "dedupe"
    PROVE  op.target \in Registered(c) /\ Retained(c, op) = c.resources[op.target].copy
           /\ c.resources[op.target].copy # NoOp
<1>1. RepeatsCopy(c, op)
  BY DEF Decide
<1>2. ~CollapsesAlias(c, op) /\ ~ReusesAllocation(c, op)
  BY <1>1 DEF RepeatsCopy, CollapsesAlias, ReusesAllocation, Endpoints, Transfers
<1>3. Retained(c, op) = c.resources[op.target].copy
  BY <1>1, <1>2 DEF Retained
<1> QED BY <1>1, <1>3 DEF RepeatsCopy, Endpoints

\* No transfer is ever deduplicated against one whose source or target has been
\* written or released since (decision 2 of State::process), for any number of
\* resources, views, operations and limits.
THEOREM DedupeSound == Spec => DedupeIsSound
<1> DEFINE Sound == \A o \in Decided :
                      log'[o].opcode = "dedupe" /\ log'[o].retained \in sourced
                          => log'[o].retained \in intact
<1>1. ProvenanceInv /\ [Next]_vars => [Sound]_vars
  <2> SUFFICES ASSUME ProvenanceInv, Next PROVE Sound
    OBVIOUS
  <2>0. DOMAIN log = Processed(core) /\ TypeOK
    BY DEF ProvenanceInv, TypeOK
  <2>1. CASE log' = log
    BY <2>1 DEF Decided
  <2>2. ASSUME NEW id \in OperationId, NEW op \in Request, id \notin Processed(core),
               log' = Bind(log, id, [type |-> op.type, deps |-> op.deps, target |-> op.target,
                                     opcode |-> Decide(core, op),
                                     retained |-> Retained(core, op)])
        PROVE  Sound
    <3>1. /\ DOMAIN log' = Processed(core) \cup {id}
          /\ log'[id].opcode = Decide(core, op)
          /\ log'[id].retained = Retained(core, op)
      BY <2>0, <2>2, VerdictType
    <3>2. Decided = {id}
      BY <2>0, <2>2, <3>1 DEF Decided
    <3>3. Decide(core, op) = "dedupe" /\ Retained(core, op) \in sourced
            => Retained(core, op) \in intact
      BY DedupeRepeats DEF ProvenanceInv, CopyProvenance
    <3> QED BY <3>1, <3>2, <3>3
  <2>3. ASSUME NEW id \in OperationId, NEW op \in Requests,
               Submit(id, op) \/ SubmitFails(id, op)
        PROVE  Sound
    BY <2>1, <2>2, <2>3, RequestsAreRequests DEF Submit, Observe, SubmitFails, CanProcess
  <2>4. (\E id \in OperationId, op \in Requests : Submit(id, op) \/ SubmitFails(id, op))
        \/ log' = log
    BY DEF Next, BeginFrameStep, EndFrameStep, Register, Release, Refused, RegisterFails,
           vars, observer
  <2> QED BY <2>1, <2>3, <2>4
<1>2. [][Sound]_vars <=> DedupeIsSound
  BY DEF DedupeIsSound
<1> QED BY <1>1, <1>2, ProvenanceInvariant, PTL DEF Spec

-----------------------------------------------------------------------------
(* What a removed operation leaves behind.                                 *)

\* While the session lives, removed means eliminated without replacement.  A
\* budget failure breaks it, for the operation it cuts short, by ending the
\* session.
RemovedInv ==
    /\ alive => \A o \in Processed(core) :
                   core.operations[o].removed <=> /\ core.operations[o].eliminated
                                                  /\ core.operations[o].replacements = {}
    /\ RemovedIsClosed
    /\ OrphanSyncIsSound

\* What processing an operation records of it, and what that says of the
\* operations it depends on.
LEMMA ProcessRecord ==
    ASSUME NEW c, IsCore(c), NEW id \in OperationId, NEW op \in Request,
           id \notin Processed(c)
    PROVE  LET o == Process(c, id, op).operations[id]
           IN  /\ o.frame = FrameOf(c, op)
               /\ o.removed <=> o.eliminated /\ o.replacements = {}
               /\ o.removed => /\ Retained(c, op) = NoOp
                               /\ \A d \in op.deps : /\ d \in Processed(c)
                                                     /\ c.operations[d].eliminated
                                                     /\ c.operations[d].replacements = {}
<1> DEFINE executed == Record(c, op, FALSE, {}, FALSE)
           eliminated == Record(c, op, TRUE, Replacements(c, op), Replacements(c, op) = {})
<1>1. CASE Decide(c, op) = "keep"
  <2>1. /\ ~Execute(c, id, op).operations[id].eliminated
        /\ ~Execute(c, id, op).operations[id].removed
        /\ Execute(c, id, op).operations[id].frame = FrameOf(c, op)
    BY ExecuteType
  <2> QED BY <1>1, <2>1 DEF Process
<1>2. CASE Decide(c, op) # "keep"
  <2>1. eliminated \in StoredOperation
    BY ReplacementsType, RecordType
  <2>2. /\ eliminated.eliminated
        /\ eliminated.frame = FrameOf(c, op)
        /\ eliminated.replacements = Replacements(c, op)
        /\ eliminated.removed <=> Replacements(c, op) = {}
    BY DEF Record
  <2>3. Process(c, id, op) = Store(c, id, eliminated)
    BY <1>2 DEF Process, Eliminate
  <2> HIDE DEF eliminated
  <2>4. Store(c, id, eliminated).operations[id] = eliminated
    BY <2>1, StoreType
  <2>5. ASSUME Replacements(c, op) = {}
        PROVE  /\ Retained(c, op) = NoOp
               /\ \A d \in op.deps : /\ d \in Processed(c)
                                     /\ c.operations[d].eliminated
                                     /\ c.operations[d].replacements = {}
    <3>1. Retained(c, op) = NoOp
      BY <2>5 DEF Replacements
    <3>2. \A d \in op.deps : StandIns(c, d) = {}
      BY <2>5 DEF Replacements
    <3> QED BY <3>1, <3>2 DEF StandIns
  <2>6. Process(c, id, op).operations[id] = eliminated
    BY <2>3, <2>4
  <2> QED BY <2>2, <2>5, <2>6
<1> QED BY <1>1, <1>2

\* Storing one more operation keeps what is known of the ones before, and of
\* the new one it takes that what it depends on was removed before it.
LEMMA RemovedGrows ==
    ASSUME RemovedInv, TypeOK, NEW id \in OperationId, NEW op \in Request,
           id \notin Processed(core),
           Processed(core') = Processed(core) \cup {id},
           \A o \in Processed(core) : core'.operations[o] = core.operations[o],
           log' = Bind(log, id, [type |-> op.type, deps |-> op.deps, target |-> op.target,
                                 opcode |-> Decide(core, op), retained |-> Retained(core, op)]),
           core'.operations[id].removed =>
               /\ core'.operations[id].eliminated
               /\ Retained(core, op) = NoOp
               /\ op.deps \subseteq Removed
    PROVE  RemovedIsClosed' /\ OrphanSyncIsSound'
<1>1. /\ DOMAIN log' = Processed(core) \cup {id}
      /\ log'[id].deps = op.deps
      /\ log'[id].opcode = Decide(core, op)
      /\ log'[id].retained = Retained(core, op)
      /\ \A o \in Processed(core) : o # id => log'[o] = log[o]
  BY VerdictType
<1>2. Removed \subseteq Removed' /\ id \notin Removed
  BY DEF Removed
<1>3. \A o \in Removed' : o = id \/ o \in Removed
  BY DEF Removed
<1>4. RemovedIsClosed'
  <2> SUFFICES ASSUME NEW o \in Removed'
               PROVE  /\ core'.operations[o].eliminated
                      /\ log'[o].retained = NoOp
                      /\ log'[o].deps \subseteq Removed' \ {o}
    BY DEF RemovedIsClosed
  <2>1. CASE o = id
    BY <1>1, <1>2, <2>1 DEF Removed
  <2>2. CASE o # id
    <3>1. o \in Removed /\ o \in Processed(core) /\ log'[o] = log[o]
      BY <1>1, <1>3, <2>2 DEF Removed
    <3> QED BY <1>2, <3>1 DEF RemovedInv, RemovedIsClosed
  <2> QED BY <2>1, <2>2
<1>5. Decide(core, op) = "orphan_sync" => op.deps # {} /\ op.deps \subseteq Removed
  <2>1. Decide(core, op) = "orphan_sync" => OrphanSync(core, op)
    BY DEF Decide
  <2> QED BY <2>1 DEF OrphanSync, Removed
<1>6. OrphanSyncIsSound'
  <2> SUFFICES ASSUME NEW o \in DOMAIN log', log'[o].opcode = "orphan_sync"
               PROVE  log'[o].deps # {} /\ log'[o].deps \subseteq Removed'
    BY DEF OrphanSyncIsSound
  <2>1. CASE o = id
    BY <1>1, <1>2, <1>5, <2>1
  <2>2. CASE o # id
    <3>1. o \in DOMAIN log /\ log'[o] = log[o]
      BY <1>1, <2>2 DEF TypeOK
    <3> QED BY <1>2, <3>1 DEF RemovedInv, OrphanSyncIsSound
  <2> QED BY <2>1, <2>2
<1> QED BY <1>4, <1>6

\* A registration stores no operation and logs no decision.
LEMMA RegisterStores ==
    ASSUME IsCore(core), NEW r \in ResourceId, NEW view \in Views[r], Register(r, view)
    PROVE  core'.operations = core.operations /\ log' = log
<1>1. view \in View
  BY ViewsAreViews
<1>2. core' = RegisterResource(core, r, view) /\ log' = log
  BY DEF Register
<1>3. RegisterResource(core, r, view).operations = core.operations
  BY <1>1, RegisterType
<1> QED BY <1>2, <1>3

\* No operation is ever marked removed while anything it waits for remains, so
\* no synchronisation is dropped that still has something to wait for
\* (StoredOperation::removed and decision 4 of State::process).
THEOREM RemovedSound == Spec => [](RemovedIsClosed /\ OrphanSyncIsSound)
<1>1. Init => RemovedInv
  BY DEF Init, EmptyCore, RemovedInv, RemovedIsClosed, OrphanSyncIsSound, Removed, Processed
<1>2. RemovedInv /\ TypeOK /\ [Next]_vars => RemovedInv'
  <2> SUFFICES ASSUME RemovedInv, TypeOK, [Next]_vars PROVE RemovedInv'
    OBVIOUS
  <2>0. IsCore(core)
    BY DEF TypeOK
  <2>1. ASSUME core'.operations = core.operations, log' = log, alive' => alive
        PROVE  RemovedInv'
    BY <2>1 DEF RemovedInv, RemovedIsClosed, OrphanSyncIsSound, Removed, Processed
  <2>2. ASSUME NEW f \in FrameId, BeginFrameStep(f) \/ EndFrameStep(f) PROVE RemovedInv'
    <3>1. core'.operations = core.operations
      BY <2>0, <2>2 DEF BeginFrameStep, BeginFrame, EndFrameStep, EndFrame, IsCore
    <3> QED BY <2>1, <2>2, <3>1 DEF BeginFrameStep, EndFrameStep, observer
  <2>3. ASSUME NEW r \in ResourceId, NEW view \in Views[r], Register(r, view)
        PROVE  RemovedInv'
    <3>1. core'.operations = core.operations
      BY <2>0, <2>3, RegisterStores
    <3> QED BY <2>1, <2>3, <3>1 DEF Register
  <2>4. ASSUME NEW r \in ResourceId, Release(r) PROVE RemovedInv'
    <3>1. core'.operations = core.operations
      BY <2>0, <2>4, ReleaseType DEF Release
    <3> QED BY <2>1, <2>4, <3>1 DEF Release
  <2>5. ASSUME NEW id \in OperationId, NEW op \in Requests, Submit(id, op)
        PROVE  RemovedInv'
    <3>1. /\ op \in Request
          /\ id \notin Processed(core)
          /\ core' = Process(core, id, op)
          /\ alive /\ alive' = alive
      BY <2>5, RequestsAreRequests DEF Submit, CanProcess
    <3>2. /\ Processed(core') = Processed(core) \cup {id}
          /\ \A o \in Processed(core) : core'.operations[o] = core.operations[o]
      BY <2>0, <3>1, ProcessType
    <3>3. /\ core'.operations[id].removed <=> /\ core'.operations[id].eliminated
                                              /\ core'.operations[id].replacements = {}
          /\ core'.operations[id].removed =>
               /\ Retained(core, op) = NoOp
               /\ \A d \in op.deps : /\ d \in Processed(core)
                                     /\ core.operations[d].eliminated
                                     /\ core.operations[d].replacements = {}
      BY <2>0, <3>1, ProcessRecord
    <3>4. core'.operations[id].removed => op.deps \subseteq Removed
      BY <3>1, <3>3 DEF RemovedInv, Removed
    <3>5. RemovedIsClosed' /\ OrphanSyncIsSound'
      BY <2>5, <3>1, <3>2, <3>3, <3>4, RemovedGrows DEF Submit, Observe
    <3>6. \A o \in Processed(core') :
            core'.operations[o].removed <=> /\ core'.operations[o].eliminated
                                            /\ core'.operations[o].replacements = {}
      BY <3>1, <3>2, <3>3 DEF RemovedInv
    <3> QED BY <3>5, <3>6 DEF RemovedInv
  <2>6. CASE Refused \/ UNCHANGED vars \/ \E r \in ResourceId : RegisterFails(r)
    BY <2>1, <2>6 DEF Refused, RegisterFails, vars, observer
  <2>7. ASSUME NEW id \in OperationId, NEW op \in Requests, SubmitFails(id, op)
        PROVE  RemovedInv'
    <3>1. op \in Request /\ id \notin Processed(core) /\ ~alive'
      BY <2>7, RequestsAreRequests DEF SubmitFails, CanProcess
    <3>2. CASE core' = core
      <4>1. log' = log
        BY <2>7, <3>1, <3>2 DEF SubmitFails
      <4> QED BY <2>1, <3>1, <3>2, <4>1
    <3>3. CASE core' # core
      <4>1. core' \in ProcessCutShort(core, id, op)
        BY <2>7, <3>3 DEF SubmitFails
      <4>2. /\ Processed(core') = Processed(core) \cup {id}
            /\ ~core'.operations[id].removed
            /\ \A o \in Processed(core) : core'.operations[o] = core.operations[o]
        BY <2>0, <3>1, <3>3, <4>1, CutShortType
      <4>3. RemovedIsClosed' /\ OrphanSyncIsSound'
        BY <2>7, <3>1, <4>2, RemovedGrows DEF SubmitFails
      <4> QED BY <3>1, <4>3 DEF RemovedInv
    <3> QED BY <3>2, <3>3
  <2> QED BY <2>2, <2>3, <2>4, <2>5, <2>6, <2>7 DEF Next
<1>3. RemovedInv => RemovedIsClosed /\ OrphanSyncIsSound
  BY DEF RemovedInv
<1> QED BY <1>1, <1>2, <1>3, TypeCorrect, PTL DEF Spec

-----------------------------------------------------------------------------
(* Decisions, and what they rely on.                                       *)

\* What a step does to the operations: nothing, or it stores one more, for the frame it
\* belongs to, and logs the decision.
Stores(id, op) ==
    /\ id \notin Processed(core)
    /\ Processed(core') = Processed(core) \cup {id}
    /\ \A o \in Processed(core) : core'.operations[o] = core.operations[o]
    /\ core'.operations[id].frame = FrameOf(core, op)
    /\ log' = Bind(log, id, [type |-> op.type, deps |-> op.deps, target |-> op.target,
                             opcode |-> Decide(core, op), retained |-> Retained(core, op)])

LEMMA StepStores ==
    ASSUME TypeOK, [Next]_vars
    PROVE  \/ core'.operations = core.operations /\ log' = log
           \/ \E id \in OperationId, op \in Request : Stores(id, op)
<1>0. IsCore(core)
  BY DEF TypeOK
<1>1. ASSUME NEW f \in FrameId, BeginFrameStep(f) \/ EndFrameStep(f)
      PROVE  core'.operations = core.operations /\ log' = log
  BY <1>0, <1>1 DEF BeginFrameStep, BeginFrame, EndFrameStep, EndFrame, IsCore, observer
<1>2. ASSUME NEW r \in ResourceId, NEW view \in Views[r], Register(r, view)
      PROVE  core'.operations = core.operations /\ log' = log
  BY <1>0, <1>2, RegisterStores
<1>3. ASSUME NEW r \in ResourceId, Release(r)
      PROVE  core'.operations = core.operations /\ log' = log
  BY <1>0, <1>3, ReleaseType DEF Release
<1>4. ASSUME NEW id \in OperationId, NEW op \in Requests, Submit(id, op)
      PROVE  op \in Request /\ Stores(id, op)
  <2>1. op \in Request /\ id \notin Processed(core) /\ core' = Process(core, id, op)
    BY <1>4, RequestsAreRequests DEF Submit, CanProcess
  <2>2. /\ Processed(core') = Processed(core) \cup {id}
        /\ \A o \in Processed(core) : core'.operations[o] = core.operations[o]
    BY <1>0, <2>1, ProcessType
  <2>3. core'.operations[id].frame = FrameOf(core, op)
    BY <1>0, <2>1, ProcessRecord
  <2> QED BY <1>4, <2>1, <2>2, <2>3 DEF Submit, Observe, Stores
<1>5. ASSUME NEW id \in OperationId, NEW op \in Requests, SubmitFails(id, op)
      PROVE  \/ core'.operations = core.operations /\ log' = log
             \/ op \in Request /\ Stores(id, op)
  <2>1. op \in Request /\ id \notin Processed(core)
    BY <1>5, RequestsAreRequests DEF SubmitFails, CanProcess
  <2>2. CASE core' = core
    BY <1>5, <2>1, <2>2 DEF SubmitFails
  <2>3. CASE core' # core
    <3>1. core' \in ProcessCutShort(core, id, op)
      BY <1>5, <2>3 DEF SubmitFails
    <3>2. /\ Processed(core') = Processed(core) \cup {id}
          /\ core'.operations[id].frame = FrameOf(core, op)
          /\ \A o \in Processed(core) : core'.operations[o] = core.operations[o]
      BY <1>0, <2>1, <2>3, <3>1, CutShortType
    <3> QED BY <1>5, <2>1, <3>2 DEF SubmitFails, Stores
  <2> QED BY <2>2, <2>3
<1>6. ASSUME Refused \/ UNCHANGED vars \/ \E r \in ResourceId : RegisterFails(r)
      PROVE  core'.operations = core.operations /\ log' = log
  BY <1>6 DEF Refused, RegisterFails, vars, observer
<1> QED BY <1>1, <1>2, <1>3, <1>4, <1>5, <1>6 DEF Next

\* No decision is revised: no step changes or loses what is stored of an operation, not
\* even one that fails half way (State::process refuses an id it knows).
THEOREM DecisionsAreAlwaysFinal == Spec => DecisionsAreFinal
<1>1. TypeOK /\ [Next]_vars =>
        [\A o \in Processed(core) :
          /\ o \in Processed(core)'
          /\ core'.operations[o] = core.operations[o]]_vars
  BY StepStores DEF Stores, Processed
<1> QED BY <1>1, TypeCorrect, PTL DEF Spec, DecisionsAreFinal

\* What is retained is an operation its resource remembers, so it was executed; and a
\* dedupe and a reused allocation compare the frames.
LEMMA RetainedIsLive ==
    ASSUME ProvenanceInv, NEW op, Retained(core, op) # NoOp
    PROVE  /\ Retained(core, op) \in Executed
           /\ Decide(core, op) \in {"dedupe", "reuse_allocation"} =>
                core.operations[Retained(core, op)].frame = FrameOf(core, op)
<1>1. /\ Decide(core, op) = "dedupe" => RepeatsCopy(core, op)
      /\ Decide(core, op) = "reuse_allocation" => ReusesAllocation(core, op)
  BY DEF Decide
<1>2. /\ ~(CollapsesAlias(core, op) /\ RepeatsCopy(core, op))
      /\ ~(CollapsesAlias(core, op) /\ ReusesAllocation(core, op))
      /\ ~(RepeatsCopy(core, op) /\ ReusesAllocation(core, op))
  BY DEF CollapsesAlias, RepeatsCopy, ReusesAllocation, Endpoints, Transfers
<1>3. CollapsesAlias(core, op) \/ RepeatsCopy(core, op) \/ ReusesAllocation(core, op)
  BY DEF Retained
<1>4. CASE CollapsesAlias(core, op)
  <2>1. op.source \in Registered(core)
    BY <1>4 DEF CollapsesAlias, Endpoints
  <2>2. Retained(core, op) = core.resources[op.source].copy
    BY <1>2, <1>4 DEF Retained
  <2> QED BY <1>1, <1>2, <1>4, <2>1, <2>2 DEF ProvenanceInv, CopyProvenance
<1>5. CASE RepeatsCopy(core, op)
  <2>1. /\ op.target \in Registered(core)
        /\ core.operations[core.resources[op.target].copy].frame = FrameOf(core, op)
    BY <1>5 DEF RepeatsCopy, Endpoints
  <2>2. Retained(core, op) = core.resources[op.target].copy
    BY <1>2, <1>5 DEF Retained
  <2> QED BY <2>1, <2>2 DEF ProvenanceInv, CopyProvenance
<1>6. CASE ReusesAllocation(core, op)
  <2>1. /\ op.target \in Registered(core)
        /\ core.operations[core.resources[op.target].allocation].frame = FrameOf(core, op)
    BY <1>6 DEF ReusesAllocation
  <2>2. Retained(core, op) = core.resources[op.target].allocation
    BY <1>2, <1>6 DEF Retained
  <2> QED BY <2>1, <2>2 DEF ProvenanceInv, AllocationProvenance
<1> QED BY <1>3, <1>4, <1>5, <1>6

\* Work is only dropped in favour of work that was executed, in the same frame if frames
\* count: the chain of retained operations has no second link (State::process).
THEOREM RetainedSound == Spec => []RetainedWasExecuted
<1>1. Init => RetainedWasExecuted
  BY DEF Init, RetainedWasExecuted
<1>2. RetainedWasExecuted /\ ProvenanceInv /\ [Next]_vars => RetainedWasExecuted'
  <2> SUFFICES ASSUME RetainedWasExecuted, ProvenanceInv, [Next]_vars
               PROVE  RetainedWasExecuted'
    OBVIOUS
  <2>0. TypeOK /\ DOMAIN log = Processed(core)
    BY DEF ProvenanceInv, TypeOK
  <2>1. CASE core'.operations = core.operations /\ log' = log
    BY <2>1 DEF RetainedWasExecuted, Executed, Processed
  <2>2. ASSUME NEW id \in OperationId, NEW op \in Request, Stores(id, op)
        PROVE  RetainedWasExecuted'
    <3>1. /\ DOMAIN log' = Processed(core) \cup {id}
          /\ log'[id].opcode = Decide(core, op)
          /\ log'[id].retained = Retained(core, op)
          /\ \A o \in Processed(core) : o # id => log'[o] = log[o]
      BY <2>0, <2>2, VerdictType DEF Stores
    <3>2. /\ \A k \in Executed : k \in Executed' /\ core'.operations[k] = core.operations[k]
          /\ id \notin Executed /\ core'.operations[id].frame = FrameOf(core, op)
      BY <2>2 DEF Stores, Executed
    <3> SUFFICES ASSUME NEW o \in DOMAIN log', log'[o].retained # NoOp
                 PROVE  /\ log'[o].retained \in Executed' \ {o}
                        /\ log'[o].opcode \in {"dedupe", "reuse_allocation"} =>
                             core'.operations[log'[o].retained].frame = core'.operations[o].frame
      BY DEF RetainedWasExecuted
    <3>3. CASE o = id
      BY <3>1, <3>2, <3>3, RetainedIsLive
    <3>4. CASE o # id
      <4>1. o \in DOMAIN log /\ log'[o] = log[o] /\ core'.operations[o] = core.operations[o]
        BY <2>0, <2>2, <3>1, <3>4 DEF Stores
      <4> QED BY <3>2, <4>1 DEF RetainedWasExecuted
    <3> QED BY <3>3, <3>4
  <2> QED BY <2>0, <2>1, <2>2, StepStores
<1> QED BY <1>1, <1>2, ProvenanceInvariant, PTL DEF Spec

-----------------------------------------------------------------------------
(* The two side by side.                                                   *)

\* The Python side only watches: the two together behave as the native core does, so
\* whatever is proved of GatewayCore holds of TwinCores.
THEOREM TwinsImplementCore == TwinSpec => Spec
<1>1. TwinInit => Init
  BY DEF TwinInit
<1>2. [TwinNext]_<<vars, twinVars>> => [Next]_vars
  BY DEF TwinNext, Next, twinVars
<1> QED BY <1>1, <1>2, PTL DEF TwinSpec, Spec

\* The inductive invariant: while the native session lives, the Python state tracks the
\* core, in every table as long as the sizes are told apart.
TwinInv ==
    /\ IsCore(core)
    /\ alive => Tracks(core, twin) /\ twinFrame = core.currentFrame

\* The Python state tracks the core in every session, until the native one ends.
THEOREM TwinInvariant == TwinSpec => []TwinInv
<1>1. TwinInit => TwinInv
  <2> SUFFICES ASSUME TwinInit PROVE TwinInv
    OBVIOUS
  <2>1. core = EmptyCore /\ twin = EmptyState /\ twinFrame = NoFrame
    BY DEF TwinInit, Init
  <2>2. IsCore(EmptyCore) /\ EmptyCore.currentFrame = NoFrame
    BY DEF EmptyCore, IsCore
  <2> QED BY <2>1, <2>2, EmptyTracks DEF TwinInv
<1>2. TwinInv /\ [TwinNext]_<<vars, twinVars>> => TwinInv'
  <2> SUFFICES ASSUME TwinInv, [TwinNext]_<<vars, twinVars>> PROVE TwinInv'
    OBVIOUS
  <2>0. IsCore(core)
    BY DEF TwinInv
  <2>1. ASSUME NEW f \in FrameId, BeginFrameStep(f), twinFrame' = f, UNCHANGED twin PROVE TwinInv'
    <3>1. /\ IsCore(core') /\ core'.currentFrame = f
          /\ core'.resources = core.resources /\ core'.operations = core.operations
      BY <2>0, <2>1 DEF BeginFrameStep, BeginFrame, IsCore
    <3> QED BY <2>0, <2>1, <3>1, FrameTracks DEF BeginFrameStep, TwinInv
  <2>2. ASSUME NEW f \in FrameId, EndFrameStep(f), twinFrame' = NoFrame, UNCHANGED twin
        PROVE  TwinInv'
    <3>1. /\ IsCore(core') /\ core'.currentFrame = NoFrame
          /\ core'.resources = core.resources /\ core'.operations = core.operations
      BY <2>0, <2>2 DEF EndFrameStep, EndFrame, IsCore
    <3> QED BY <2>0, <2>2, <3>1, FrameTracks DEF EndFrameStep, TwinInv
  <2>3. ASSUME NEW r \in ResourceId, NEW view \in Views[r], Register(r, view),
               twin' = RegisterState(twin, r, view), UNCHANGED twinFrame
        PROVE  TwinInv'
    <3>1. view \in View
      BY ViewsAreViews
    <3>2. /\ core' = RegisterResource(core, r, view) /\ CanRegister(core, r) /\ alive
      BY <2>3 DEF Register
    <3>3. IsCore(core') /\ core'.currentFrame = core.currentFrame
      BY <2>0, <3>1, <3>2, RegisterType DEF RegisterResource, IsCore
    <3>4. Tracks(core', twin')
      BY <2>0, <2>3, <3>1, <3>2, RegisterTracks DEF TwinInv
    <3> QED BY <2>3, <3>2, <3>3, <3>4 DEF TwinInv
  <2>4. ASSUME NEW r \in ResourceId, Release(r), twin' = ReleaseState(twin, r), UNCHANGED twinFrame
        PROVE  TwinInv'
    <3>1. core' = ReleaseResource(core, r) /\ alive
      BY <2>4 DEF Release
    <3>2. IsCore(core') /\ core'.currentFrame = core.currentFrame
      BY <2>0, <3>1, ReleaseType
    <3>3. Tracks(core', twin')
      BY <2>0, <2>4, <3>1, ReleaseTracks DEF TwinInv
    <3> QED BY <2>4, <3>1, <3>2, <3>3 DEF TwinInv
  <2>5. ASSUME NEW id \in OperationId, NEW op \in Requests, Submit(id, op),
               twin' = ProcessState(twin, id, Decoded(op), TwinFrameOf(op)), UNCHANGED twinFrame
        PROVE  TwinInv'
    <3>1. op \in Request /\ core' = Process(core, id, op) /\ CanProcess(core, id) /\ alive
      BY <2>5, RequestsAreRequests DEF Submit
    <3>2. TwinFrameOf(op) = FrameOf(core, op)
      BY <3>1 DEF TwinInv, TwinFrameOf, FrameOf
    <3>3. IsCore(core') /\ core'.currentFrame = core.currentFrame
      BY <2>0, <3>1, ProcessType
    <3>4. Tracks(core', twin')
      BY <2>0, <2>5, <3>1, <3>2, ProcessTracks DEF TwinInv
    <3> QED BY <2>5, <3>1, <3>3, <3>4 DEF TwinInv
  <2>6. CASE Refused /\ UNCHANGED twinVars
    BY <2>6 DEF Refused, vars, twinVars, TwinInv
  <2>7. ASSUME NEW r \in ResourceId, RegisterFails(r) PROVE TwinInv'
    BY <2>7 DEF RegisterFails, TwinInv
  <2>8. ASSUME NEW id \in OperationId, NEW op \in Requests, SubmitFails(id, op) PROVE TwinInv'
    <3>1. op \in Request
      BY RequestsAreRequests
    <3>2. core' = core \/ core' \in ProcessCutShort(core, id, op)
      BY <2>8 DEF SubmitFails
    <3>3. IsCore(core')
      BY <2>0, <3>1, <3>2, CutShortType
    <3> QED BY <2>8, <3>3 DEF SubmitFails, TwinInv
  <2>9. CASE UNCHANGED <<vars, twinVars>>
    BY <2>9 DEF vars, twinVars, TwinInv
  <2> QED BY <2>1, <2>2, <2>3, <2>4, <2>5, <2>6, <2>7, <2>8, <2>9 DEF TwinNext
<1> QED BY <1>1, <1>2, PTL DEF TwinSpec

\* The native core (core.cpp) and the Python reference (runtime.py) admit the same, for any
\* resources, views, operations and sizes; they remember the same and give the same advice to
\* whatever comes next as long as Python tells the sizes apart.
THEOREM TwinsAlwaysAgree == TwinSpec => []TwinsAgree
<1>1. TwinInv => TwinsAgree
  <2> SUFFICES ASSUME TwinInv, alive
               PROVE  /\ SameAdmission(core, twin, twinFrame)
                      /\ ToldApart(SizesOf(core)) =>
                            SameState(core, twin, twinFrame) /\ SameAdvice
    BY DEF TwinsAgree
  <2>1. IsCore(core) /\ Tracks(core, twin) /\ twinFrame = core.currentFrame
    BY DEF TwinInv
  <2>2. /\ SameAdmission(core, twin, twinFrame)
        /\ ToldApart(SizesOf(core)) => SameState(core, twin, twinFrame)
    BY <2>1, TracksAgrees
  <2>3. ASSUME NEW op \in Requests, ToldApart(SizesOf(core) \cup {op.bytes})
        PROVE  /\ DecideOperation(twin, Decoded(op), TwinFrameOf(op)) = PolicyOf(Decide(core, op))
               /\ RetainedBy(twin, Decoded(op), DecideOperation(twin, Decoded(op), TwinFrameOf(op)))
                    \cup Dependencies(twin, op) = Replacements(core, op)
    <3>1. op \in Request /\ TwinFrameOf(op) = FrameOf(core, op)
      BY <2>1, RequestsAreRequests DEF TwinFrameOf, FrameOf
    <3>2. Distinguished(core, op) /\ Same(core, twin)
      BY <2>1, <2>3, ToldApartDistinguishes DEF Tracks
    <3>3. DecideOperation(twin, Decoded(op), TwinFrameOf(op)) = PolicyOf(Decide(core, op))
      BY <2>1, <3>1, <3>2, SameDecision
    <3>4. Dependencies(twin, op) = Dependencies(twin, Decoded(op))
      BY <3>1, DecodedFields DEF Dependencies
    <3> QED BY <2>1, <3>1, <3>2, <3>3, <3>4, SameWaits
  <2>4. SameAdvice
    BY <2>3 DEF SameAdvice
  <2> QED BY <2>2, <2>4
<1> QED BY <1>1, TwinInvariant, PTL

\* The two do agree, state by state and on every operation that comes next.
TwinsAgreeThroughout ==
    alive =>
        /\ SameState(core, twin, twinFrame)
        /\ \A op \in Requests :
              DecideOperation(twin, Decoded(op), TwinFrameOf(op)) = PolicyOf(Decide(core, op))

\* Sizes up to the precision of a float, 2^53 bytes, need no condition: Python decodes
\* them (fluidlink_v2.py:1289) to what the native core compares.
THEOREM ExactTwinsAgree ==
    ASSUME Size \subseteq 0..(2^FloatBits)
    PROVE  TwinSpec => []TwinsAgreeThroughout
<1>1. TwinInv /\ TwinsAgree => TwinsAgreeThroughout
  <2> SUFFICES ASSUME TwinInv, TwinsAgree, alive
               PROVE  /\ SameState(core, twin, twinFrame)
                      /\ \A op \in Requests :
                            DecideOperation(twin, Decoded(op), TwinFrameOf(op))
                              = PolicyOf(Decide(core, op))
    BY DEF TwinsAgreeThroughout
  <2>1. SizesOf(core) \subseteq Size
    BY DEF TwinInv, IsCore, SizesOf, Processed, StoredOperation
  <2>2. \A op \in Requests : SizesOf(core) \cup {op.bytes} \subseteq Size
    BY <2>1, RequestsAreRequests DEF Request
  <2>3. ToldApart(SizesOf(core)) /\ \A op \in Requests : ToldApart(SizesOf(core) \cup {op.bytes})
    <3>1. ToldApart(Size)
      BY ExactSizesToldApart
    <3> QED BY <2>1, <2>2, <3>1 DEF ToldApart
  <2>4. SameState(core, twin, twinFrame) /\ SameAdvice
    BY <2>3 DEF TwinsAgree
  <2> QED BY <2>3, <2>4 DEF SameAdvice
<1> QED BY <1>1, TwinInvariant, TwinsAlwaysAgree, PTL

-----------------------------------------------------------------------------
(* The worklist of State::invalidate computes Affected, for any number of  *)
(* resources and any aliasing between them.                                *)

\* The views that need no more comparing meet none that is left.
Settled ==
    /\ \A k \in 0..(cursor - 1), j \in 0..(remaining_count - 1) :
          ~AliasesIntersect(table.resources[affected[k]], table.resources[remaining[j]])
    /\ cursor < count =>
          \A j \in 0..(i - 1) :
              ~AliasesIntersect(table.resources[affected[cursor]], table.resources[remaining[j]])

LoopInv ==
    /\ LoopTypeOK
    /\ cursor <= count /\ i <= remaining_count
    /\ count + remaining_count <= ResourceLimit
    /\ NothingIsLost
    /\ written \in Elements(affected, count)
    /\ Elements(affected, count) \subseteq Affected(table, written)
    /\ Settled

-----------------------------------------------------------------------------
(* Arrays.                                                                 *)

\* Writing behind the first n elements adds one.
LEMMA AppendElements ==
    ASSUME NEW a \in Array, NEW n \in Index, NEW v \in ResourceId
    PROVE  Elements([a EXCEPT ![n] = v], n + 1) = Elements(a, n) \cup {v}
<1> DEFINE b == [a EXCEPT ![n] = v]
<1>1. \A k \in 0..n : b[k] = IF k = n THEN v ELSE a[k]
  BY LimitsArePositive DEF Array, Index
<1>2. 0..((n + 1) - 1) = (0..(n - 1)) \cup {n}
  BY DEF Index
<1> HIDE DEF b
<1>3. Elements(b, n + 1) \subseteq Elements(a, n) \cup {v}
  BY <1>1, <1>2 DEF Elements, Index
<1>4. Elements(a, n) \subseteq Elements(b, n + 1)
  <2> SUFFICES ASSUME NEW k \in 0..(n - 1) PROVE a[k] \in Elements(b, n + 1)
    BY DEF Elements
  <2>1. k \in 0..((n + 1) - 1) /\ b[k] = a[k]
    BY <1>1 DEF Index
  <2> QED BY <2>1 DEF Elements
<1>5. v \in Elements(b, n + 1)
  <2>1. n \in 0..((n + 1) - 1) /\ b[n] = v
    BY <1>1 DEF Index
  <2> QED BY <2>1 DEF Elements
<1> QED BY <1>3, <1>4, <1>5 DEF b

\* Moving the last of n elements to place j drops the element that was there.
LEMMA RemoveElements ==
    ASSUME NEW a \in Array, NEW n \in 1..ResourceLimit, NEW j \in 0..(n - 1)
    PROVE  Elements([a EXCEPT ![j] = a[n - 1]], n - 1) \cup {a[j]} = Elements(a, n)
<1> DEFINE b == [a EXCEPT ![j] = a[n - 1]]
<1>1. \A k \in 0..(n - 1) : b[k] = IF k = j THEN a[n - 1] ELSE a[k]
  BY LimitsArePositive DEF Array, Index
<1> HIDE DEF b
<1>2. Elements(b, n - 1) \cup {a[j]} \subseteq Elements(a, n)
  <2>1. \A k \in 0..((n - 1) - 1) : b[k] \in Elements(a, n)
    BY <1>1, LimitsArePositive DEF Elements
  <2> QED BY <2>1 DEF Elements
<1>3. Elements(a, n) \subseteq Elements(b, n - 1) \cup {a[j]}
  <2> SUFFICES ASSUME NEW k \in 0..(n - 1), k # j
               PROVE  a[k] \in Elements(b, n - 1)
    BY DEF Elements
  <2>1. CASE k = n - 1
    <3>1. j \in 0..((n - 1) - 1) /\ b[j] = a[k]
      BY <2>1, <1>1, LimitsArePositive
    <3> QED BY <3>1 DEF Elements
  <2>2. CASE k # n - 1
    <3>1. k \in 0..((n - 1) - 1) /\ b[k] = a[k]
      BY <2>2, <1>1, LimitsArePositive
    <3> QED BY <3>1 DEF Elements
  <2> QED BY <2>1, <2>2
<1> QED BY <1>2, <1>3 DEF b

-----------------------------------------------------------------------------
(* The loop invariant.                                                     *)

\* Nothing is compared yet.
LEMMA InitLoopInv == LoopInit => LoopInv
<1> SUFFICES ASSUME LoopInit PROVE LoopInv
  OBVIOUS
<1> DEFINE Blank == {r \in Resource : r.copy = NoOp /\ r.allocation = NoOp}
<1>1. PICK S \in SUBSET ResourceId, n \in 0..(ResourceLimit - 1) :
          /\ table \in {[EmptyCore EXCEPT !.resources = f] : f \in [S -> Blank]}
          /\ written \in S
          /\ remaining_count = n
          /\ remaining \in Array
          /\ Elements(remaining, n) = S \ {written}
  BY DEF LoopInit
<1>2. PICK f \in [S -> Blank] : table = [EmptyCore EXCEPT !.resources = f]
  BY <1>1
<1>3. /\ table = [resources |-> f, operations |-> EmptyCore.operations,
                 currentFrame |-> NoFrame]
      /\ DOMAIN EmptyCore.operations = {}
      /\ EmptyCore.operations \in [{} -> StoredOperation]
  BY <1>2 DEF EmptyCore
<1>4. /\ table.resources = f
      /\ table.operations = EmptyCore.operations
      /\ table.currentFrame = NoFrame
  BY <1>3
<1>5. Registered(table) = S
  BY <1>4 DEF Registered
<1>6. IsCore(table)
  <2>1. f \in [S -> Resource] /\ DOMAIN f = S
    OBVIOUS
  <2> QED BY <1>3, <1>4, <2>1 DEF IsCore
<1>7. /\ affected \in Array
      /\ affected[0] = written
      /\ count = 1 /\ cursor = 0 /\ i = 0
  BY <1>1, LimitsArePositive DEF LoopInit, Array, Index
<1>8. Elements(affected, count) = {written}
  BY <1>7 DEF Elements
<1>9. LoopTypeOK
  BY <1>1, <1>5, <1>6, <1>7, LimitsArePositive DEF LoopTypeOK
<1>10. NothingIsLost
  BY <1>1, <1>5, <1>8 DEF NothingIsLost
<1>11. {written} \subseteq Affected(table, written)
  BY <1>1, <1>5 DEF Affected
<1>12. Settled
  BY <1>7 DEF Settled
<1>13. cursor <= count /\ i <= remaining_count /\ count + remaining_count <= ResourceLimit
  BY <1>1, <1>7, LimitsArePositive
<1> QED BY <1>8, <1>9, <1>10, <1>11, <1>12, <1>13 DEF LoopInv

\* A view that shares a name with an affected one is affected.
LEMMA AffectedIsClosed ==
    ASSUME NEW c, NEW w, NEW r \in Affected(c, w), NEW s \in Registered(c),
           AliasesIntersect(c.resources[r], c.resources[s])
    PROVE  s \in Affected(c, w)
<1>1. ASSUME NEW S \in SUBSET Registered(c), w \in S, AliasClosed(c, S)
      PROVE  s \in S
  <2>1. r \in S
    BY <1>1 DEF Affected
  <2> QED BY <1>1, <2>1 DEF AliasClosed
<1> QED BY <1>1 DEF Affected

\* A view that is reached moves behind the others.
LEMMA ReachKeepsLoopInv == LoopInv /\ Reach => LoopInv'
<1> SUFFICES ASSUME LoopInv, Reach PROVE LoopInv'
  OBVIOUS
<1> USE LimitsArePositive
<1> DEFINE v == remaining[i]
           u == affected[cursor]
<1>1. /\ LoopTypeOK
      /\ cursor < count /\ i < remaining_count
      /\ cursor \in Nat /\ count \in Nat /\ i \in Nat /\ remaining_count \in Nat
      /\ count + remaining_count <= ResourceLimit
      /\ affected \in Array /\ remaining \in Array
  BY DEF LoopInv, LoopTypeOK, Reach
<1>2. /\ affected' = [affected EXCEPT ![count] = v]
      /\ count' = count + 1
      /\ remaining' = [remaining EXCEPT ![i] = remaining[remaining_count - 1]]
      /\ remaining_count' = remaining_count - 1
      /\ table' = table /\ written' = written /\ cursor' = cursor /\ i' = i
  BY DEF Reach
<1>3. /\ count \in Index /\ i \in Index /\ cursor \in Index
      /\ remaining_count \in 1..ResourceLimit /\ i \in 0..(remaining_count - 1)
      /\ remaining_count - 1 \in Index
  BY <1>1 DEF Index
<1>4. v \in Elements(remaining, remaining_count) /\ u \in Elements(affected, count)
  BY <1>1, <1>3 DEF Elements
<1>5. Registered(table) \subseteq ResourceId
  BY <1>1 DEF LoopTypeOK, IsCore, Registered
<1>6. v \in Registered(table) /\ v \in Affected(table, written)
  BY <1>4, AffectedIsClosed DEF LoopInv, NothingIsLost, Reach, Meets
<1>7. Elements(affected', count') = Elements(affected, count) \cup {v}
  <2>1. Elements([affected EXCEPT ![count] = v], count + 1) = Elements(affected, count) \cup {v}
    BY <1>1, <1>3, <1>5, <1>6, AppendElements
  <2> QED BY <1>2, <2>1, Zenon
<1>8. Elements(remaining', remaining_count') \cup {v} = Elements(remaining, remaining_count)
  BY <1>1, <1>2, <1>3, RemoveElements
<1>9. LoopTypeOK'
  <2>1. affected' \in Array
    BY <1>1, <1>2, <1>3, <1>5, <1>6 DEF Array
  <2>2. remaining' \in Array
    BY <1>1, <1>2, <1>3 DEF Array
  <2> QED BY <1>1, <1>2, <2>1, <2>2 DEF LoopTypeOK
<1>10. NothingIsLost'
  BY <1>2, <1>7, <1>8 DEF LoopInv, NothingIsLost
<1>11. /\ written' \in Elements(affected', count')
       /\ Elements(affected', count') \subseteq Affected(table', written')
  BY <1>2, <1>6, <1>7 DEF LoopInv
<1>12. /\ \A k \in 0..cursor : affected'[k] = affected[k]
       /\ \A j \in 0..(remaining_count' - 1) : \E l \in 0..(remaining_count - 1) :
              remaining'[j] = remaining[l]
       /\ \A j \in 0..(i - 1) : remaining'[j] = remaining[j]
  BY <1>1, <1>2, <1>3 DEF Array, Index
<1>13. Settled'
  <2>1. ASSUME NEW k \in 0..(cursor - 1), NEW j \in 0..(remaining_count' - 1)
        PROVE  ~AliasesIntersect(table.resources[affected'[k]], table.resources[remaining'[j]])
    BY <1>1, <1>12 DEF LoopInv, Settled
  <2>2. ASSUME NEW j \in 0..(i - 1)
        PROVE  ~AliasesIntersect(table.resources[affected'[cursor]], table.resources[remaining'[j]])
    BY <1>1, <1>12 DEF LoopInv, Settled
  <2> QED BY <1>2, <2>1, <2>2 DEF Settled
<1>14. /\ cursor' <= count' /\ i' <= remaining_count'
       /\ count' + remaining_count' <= ResourceLimit
  BY <1>1, <1>2
<1> QED BY <1>9, <1>10, <1>11, <1>13, <1>14 DEF LoopInv

\* A view that is passed over stays.
LEMMA PassKeepsLoopInv == LoopInv /\ Pass => LoopInv'
<1> SUFFICES ASSUME LoopInv, Pass PROVE LoopInv'
  OBVIOUS
<1> USE LimitsArePositive
<1>1. LoopTypeOK' /\ i' <= remaining_count'
  BY DEF LoopInv, Pass, LoopTypeOK, arrays
<1>2. Settled'
  <2>1. \A j \in 0..i :
           ~AliasesIntersect(table.resources[affected[cursor]], table.resources[remaining[j]])
    BY DEF LoopInv, LoopTypeOK, Settled, Pass, Meets
  <2> QED BY <2>1 DEF LoopInv, LoopTypeOK, Settled, Pass, arrays
<1> QED BY <1>1, <1>2 DEF LoopInv, Pass, arrays, NothingIsLost

\* The next view starts over with what is left.
LEMMA NextCursorKeepsLoopInv == LoopInv /\ NextCursor => LoopInv'
<1> SUFFICES ASSUME LoopInv, NextCursor PROVE LoopInv'
  OBVIOUS
<1> USE LimitsArePositive
<1>1. LoopTypeOK' /\ cursor' <= count' /\ i' <= remaining_count'
  BY DEF LoopInv, NextCursor, LoopTypeOK, arrays
<1>2. Settled'
  <2>1. i = remaining_count
    BY DEF LoopInv, LoopTypeOK, NextCursor
  <2> QED BY <2>1 DEF LoopInv, LoopTypeOK, Settled, NextCursor, arrays
<1> QED BY <1>1, <1>2 DEF LoopInv, NextCursor, arrays, NothingIsLost

\* The arrays of State::invalidate never overflow and hold every resource between
\* them, and what has been compared stays compared, whatever is registered.
THEOREM LoopInvariant == LoopSpec => []LoopInv
<1>1. ASSUME LoopInv, [LoopNext]_loop_vars PROVE LoopInv'
  <2>1. CASE Reach
    BY <1>1, <2>1, ReachKeepsLoopInv
  <2>2. CASE Pass
    BY <1>1, <2>2, PassKeepsLoopInv
  <2>3. CASE NextCursor
    BY <1>1, <2>3, NextCursorKeepsLoopInv
  <2>4. CASE UNCHANGED loop_vars
    BY <1>1, <2>4 DEF LoopInv, LoopTypeOK, NothingIsLost, Settled, loop_vars, arrays
  <2> QED BY <1>1, <2>1, <2>2, <2>3, <2>4 DEF LoopNext
<1> QED BY <1>1, InitLoopInv, PTL DEF LoopSpec

\* The loop of State::invalidate ends with exactly the views that share storage
\* with the written one, directly or through others.
THEOREM LoopIsCorrect == LoopSpec => []LoopComputesAffected
<1>1. ASSUME LoopInv PROVE LoopComputesAffected
  <2> SUFFICES ASSUME Done PROVE Affected(table, written) \subseteq Elements(affected, count)
    BY <1>1 DEF LoopComputesAffected, LoopInv
  <2> DEFINE S == Elements(affected, count)
  <2>1. cursor = count
    BY <1>1 DEF LoopInv, LoopTypeOK, Done
  <2>2. S \in SUBSET Registered(table) /\ written \in S
    BY <1>1 DEF LoopInv, NothingIsLost
  <2>3. AliasClosed(table, S)
    <3> SUFFICES ASSUME NEW r \in S, NEW s \in Registered(table), s \notin S
                 PROVE  ~AliasesIntersect(table.resources[r], table.resources[s])
      BY DEF AliasClosed
    <3>1. PICK k \in 0..(count - 1) : r = affected[k]
      BY DEF Elements
    <3>2. PICK j \in 0..(remaining_count - 1) : s = remaining[j]
      BY <1>1 DEF LoopInv, NothingIsLost, Elements
    <3> QED BY <1>1, <2>1, <3>1, <3>2 DEF LoopInv, Settled
  <2> QED BY <2>2, <2>3 DEF Affected
<1> QED BY <1>1, LoopInvariant, PTL

\* No step of the loop moves a resource out of the two arrays.
THEOREM LoopLosesNothing == LoopSpec => []NothingIsLost
<1>1. LoopInv => NothingIsLost
  BY DEF LoopInv
<1> QED BY <1>1, LoopInvariant, PTL

\* The loop comes to an end: its steps descend in a well-founded order.
THEOREM LoopDescends == LoopSpec => LoopProgresses
<1>1. ASSUME LoopInv, [LoopNext]_loop_vars
      PROVE  [\/ count' - cursor' + remaining_count' < count - cursor + remaining_count
              \/ /\ count' - cursor' + remaining_count' = count - cursor + remaining_count
                 /\ remaining_count' - i' < remaining_count - i]_loop_vars
  <2>1. /\ cursor \in Nat /\ count \in Nat /\ i \in Nat /\ remaining_count \in Nat
    BY <1>1 DEF LoopInv, LoopTypeOK
  <2>2. CASE Reach
    BY <2>1, <2>2 DEF Reach
  <2>3. CASE Pass
    BY <2>1, <2>3 DEF Pass, arrays
  <2>4. CASE NextCursor
    BY <2>1, <2>4 DEF NextCursor, arrays
  <2>5. CASE UNCHANGED loop_vars
    BY <2>5
  <2> QED BY <1>1, <2>2, <2>3, <2>4, <2>5 DEF LoopNext
<1> QED BY <1>1, LoopInvariant, PTL DEF LoopSpec, LoopProgresses
=============================================================================
