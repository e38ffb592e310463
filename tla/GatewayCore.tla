---------------------------- MODULE GatewayCore ----------------------------
(***************************************************************************)
(* One native session's decision core driven by arbitrary client events:   *)
(* resources are registered and released, frames opened and closed, and    *)
(* operations submitted, in any order.  A fatal error (a full table, or an *)
(* exhausted memory budget) ends the session.                              *)
(*                                                                         *)
(* Beside the core the module keeps what an observer of the application    *)
(* would know: which storage each resource really occupies and which       *)
(* executed transfers still describe the bytes in it.  The core sees none  *)
(* of this; the properties hold its decisions against it.                  *)
(***************************************************************************)
EXTENDS CoreOps

CONSTANTS
    Requests,   \* the operations clients submit
    Views       \* resource id -> the views it may be created with

ASSUME RequestsAreRequests == Requests \subseteq Request
ASSUME ViewsAreViews == Views \in [ResourceId -> (SUBSET View) \ {{}}]

VARIABLES
    core,       \* the State object
    alive,      \* no fatal error yet
    log,        \* processed id -> the request and what was decided for it
    storage,    \* the view each resource occupies when it exists
    intact,     \* executed transfers whose source and target nobody changed
    sourced,    \* executed transfers between two registered resources
    since       \* resource -> operations executed on it since registration

observer == <<log, storage, intact, sourced, since>>
vars == <<core, alive, observer>>

Verdict == [type : OperationType, deps : SUBSET OperationId,
            target : ResourceId \cup {NoResource},
            opcode : Opcode, retained : OperationId \cup {NoOp}]

TypeOK ==
    /\ IsCore(core)
    /\ alive \in BOOLEAN
    /\ DOMAIN log = Processed(core)
    /\ log \in [DOMAIN log -> Verdict]
    /\ storage \in [ResourceId -> View]
    /\ intact \subseteq Processed(core)
    /\ sourced \subseteq Processed(core)
    /\ since \in [ResourceId -> SUBSET Processed(core)]

Init ==
    /\ core = EmptyCore
    /\ alive = TRUE
    /\ log = [o \in {} |-> {}]
    /\ storage \in {s \in [ResourceId -> View] : \A r \in ResourceId : s[r] \in Views[r]}
    /\ intact = {}
    /\ sourced = {}
    /\ since = [r \in ResourceId |-> {}]

-----------------------------------------------------------------------------
(* What the observer knows.                                                *)

\* Writing r changes bytes of s.  Nothing is known of an unnamed target.
Overlap(r, s) ==
    \/ r = s
    \/ NoResource \in {r, s}
    \/ AliasesIntersect(storage[r], storage[s])

Touching(r) == {o \in intact : \/ Overlap(core.operations[o].source, r)
                               \/ Overlap(core.operations[o].target, r)}

Naming(r) == {o \in intact : r \in {core.operations[o].source, core.operations[o].target}}

Observe(id, op) ==
    LET opcode == Decide(core, op)
        executes == opcode = "keep"
        transfers == executes /\ op.type \in Transfers
    IN  /\ log' = Bind(log, id, [type |-> op.type, deps |-> op.deps, target |-> op.target,
                                 opcode |-> opcode, retained |-> Retained(core, op)])
        /\ intact' = (IF executes /\ op.type \in Writers
                      THEN intact \ Touching(op.target) ELSE intact)
                     \cup (IF transfers /\ ~Overlap(op.source, op.target)
                           THEN {id} ELSE {})
        /\ sourced' = IF transfers /\ Endpoints(core, op) THEN sourced \cup {id} ELSE sourced
        /\ since' = IF executes /\ op.target \in Registered(core)
                    THEN [since EXCEPT ![op.target] = @ \cup {id}] ELSE since
        /\ UNCHANGED storage

-----------------------------------------------------------------------------

BeginFrameStep(f) ==
    /\ alive
    /\ CanBeginFrame(core)
    /\ core' = BeginFrame(core, f)
    /\ UNCHANGED <<alive, observer>>

EndFrameStep(f) ==
    /\ alive
    /\ CanEndFrame(core, f)
    /\ core' = EndFrame(core)
    /\ UNCHANGED <<alive, observer>>

\* A resource registered as a view other than its last is new storage.
Register(r, view) ==
    /\ alive
    /\ CanRegister(core, r)
    /\ ~ResourceTableFull(core)
    /\ core' = RegisterResource(core, r, view)
    /\ storage' = [storage EXCEPT ![r] = view]
    /\ intact' = IF view = storage[r] THEN intact ELSE intact \ Naming(r)
    /\ UNCHANGED <<alive, log, sourced, since>>

\* Also accepted for an id that is not registered.
Release(r) ==
    /\ alive
    /\ core' = ReleaseResource(core, r)
    /\ intact' = intact \ Naming(r)
    /\ since' = [since EXCEPT ![r] = {}]
    /\ UNCHANGED <<alive, log, storage, sourced>>

Submit(id, op) ==
    /\ alive
    /\ CanProcess(core, id)
    /\ ~OperationTableFull(core)
    /\ core' = Process(core, id, op)
    /\ Observe(id, op)
    /\ UNCHANGED alive

\* An error that is not fatal leaves the session as it was.
Refused ==
    /\ alive
    /\ \/ \E f \in FrameId : ~CanBeginFrame(core) \/ ~CanEndFrame(core, f)
       \/ \E r \in ResourceId : ~CanRegister(core, r)
       \/ \E id \in OperationId : ~CanProcess(core, id)
    /\ UNCHANGED vars

RegisterFails(r) ==
    /\ alive
    /\ CanRegister(core, r)
    /\ alive' = FALSE
    /\ UNCHANGED <<core, observer>>

\* operation_limit is reached, or the budget runs out while storing.
SubmitFails(id, op) ==
    /\ alive
    /\ CanProcess(core, id)
    /\ alive' = FALSE
    /\ core' \in IF OperationTableFull(core) THEN {core} ELSE ProcessCutShort(core, id, op)
    /\ log' = IF id \in Processed(core')
              THEN Bind(log, id, [type |-> op.type, deps |-> op.deps, target |-> op.target,
                                  opcode |-> Decide(core, op), retained |-> Retained(core, op)])
              ELSE log
    /\ UNCHANGED <<storage, intact, sourced, since>>

Next ==
    \/ \E f \in FrameId : BeginFrameStep(f)
    \/ \E f \in FrameId : EndFrameStep(f)
    \/ \E r \in ResourceId : \E view \in Views[r] : Register(r, view)
    \/ \E r \in ResourceId : Release(r)
    \/ \E id \in OperationId, op \in Requests : Submit(id, op)
    \/ Refused
    \/ \E r \in ResourceId : RegisterFails(r)
    \/ \E id \in OperationId, op \in Requests : SubmitFails(id, op)

Spec == Init /\ [][Next]_vars

-----------------------------------------------------------------------------
(* Properties.                                                             *)

Executed == {o \in Processed(core) : ~core.operations[o].eliminated}
Removed == {o \in Processed(core) : core.operations[o].removed}

\* The copy a resource remembers (Resource::copy) was executed on it since it
\* was registered, and if both its endpoints were registered then, neither has
\* been written, through any overlapping view, or released in between.
CopyProvenance ==
    \A r \in Registered(core) :
        LET copy == core.resources[r].copy
        IN  copy # NoOp =>
                /\ copy \in Executed \cap since[r]
                /\ log[copy].type \in Transfers
                /\ core.operations[copy].target = r
                /\ copy \in sourced => copy \in intact

\* The allocation a resource remembers (Resource::allocation) was executed on
\* it since it was registered: a recreated resource inherits no allocation.
AllocationProvenance ==
    \A r \in Registered(core) :
        LET allocation == core.resources[r].allocation
        IN  allocation # NoOp =>
                /\ allocation \in Executed \cap since[r]
                /\ log[allocation].type = "allocate"
                /\ core.operations[allocation].target = r

Decided == {o \in DOMAIN log' : o \notin DOMAIN log}

\* A transfer is only deduplicated (decision 2 of State::process) when the
\* transfer that stays would still give the same bytes: nothing wrote to the
\* source or the target in between.  Transfers executed while an endpoint was
\* unknown to the gateway are excepted.
DedupeIsSound ==
    [][\A o \in Decided :
          log'[o].opcode = "dedupe" /\ log'[o].retained \in sourced
              => log'[o].retained \in intact]_vars

\* As DedupeIsSound, of every transfer.
EveryDedupeIsSound ==
    [][\A o \in Decided :
          log'[o].opcode = "dedupe" => log'[o].retained \in intact]_vars

\* A transfer whose decision relies on a retained one points at work that was
\* executed in the same frame, never at a placeholder that was itself removed.
RetainedWasExecuted ==
    \A o \in DOMAIN log :
        LET kept == log[o].retained
        IN  kept # NoOp =>
                /\ kept \in Executed \ {o}
                /\ log[o].opcode \in {"dedupe", "reuse_allocation"} =>
                     core.operations[kept].frame = core.operations[o].frame

\* An operation marked removed leaves nothing behind: it relies on no retained
\* operation and all it depended on is itself removed, so no work is waited for.
RemovedIsClosed ==
    \A o \in Removed :
        /\ core.operations[o].eliminated
        /\ log[o].retained = NoOp
        /\ log[o].deps \subseteq Removed \ {o}

\* A synchronisation is only dropped as an orphan (decision 4) when nothing that
\* was executed, or is still to come, is reachable through its dependencies.
OrphanSyncIsSound ==
    \A o \in DOMAIN log :
        log[o].opcode = "orphan_sync" => log[o].deps # {} /\ log[o].deps \subseteq Removed

\* What an operation was decided to be is never revised, neither by a second
\* operation of the same id nor by a later release or failure.
DecisionsAreFinal ==
    [][\A o \in Processed(core) :
          /\ o \in Processed(core)'
          /\ core'.operations[o] = core.operations[o]]_vars
=============================================================================
