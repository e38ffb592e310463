----------------------------- MODULE TwinCores ------------------------------
(***************************************************************************)
(* The two implementations of the decision core side by side: every event  *)
(* a native session accepts is also given to the Python state behind       *)
(* RuntimeAdapterSession, with its size as fluidlink_v2.py decodes it.     *)
(* The Python side has no limits and no budget, so the comparison ends     *)
(* where the native session does.                                          *)
(***************************************************************************)
EXTENDS GatewayCore, TwinOps

VARIABLES
    twin,        \* RuntimeOptimizationState
    twinFrame    \* RuntimeAdapterSession.current_frame

twinVars == <<twin, twinFrame>>

TwinInit == Init /\ twin = EmptyState /\ twinFrame = NoFrame

\* The adapter gives an operation the open frame if it names none.
TwinFrameOf(op) == IF op.frame = NoFrame THEN twinFrame ELSE op.frame

TwinNext ==
    \/ \E f \in FrameId : BeginFrameStep(f) /\ twinFrame' = f /\ UNCHANGED twin
    \/ \E f \in FrameId : EndFrameStep(f) /\ twinFrame' = NoFrame /\ UNCHANGED twin
    \/ \E r \in ResourceId : \E view \in Views[r] :
          Register(r, view) /\ twin' = RegisterState(twin, r, view) /\ UNCHANGED twinFrame
    \/ \E r \in ResourceId :
          Release(r) /\ twin' = ReleaseState(twin, r) /\ UNCHANGED twinFrame
    \/ \E id \in OperationId, op \in Requests :
          /\ Submit(id, op)
          /\ twin' = ProcessState(twin, id, Decoded(op), TwinFrameOf(op))
          /\ UNCHANGED twinFrame
    \/ Refused /\ UNCHANGED twinVars
    \/ \E r \in ResourceId : RegisterFails(r) /\ UNCHANGED twinVars
    \/ \E id \in OperationId, op \in Requests : SubmitFails(id, op) /\ UNCHANGED twinVars

TwinSpec == TwinInit /\ [][TwinNext]_<<vars, twinVars>>

-----------------------------------------------------------------------------
(* Properties.                                                             *)

\* Whatever comes next, of a size told apart from those before, the two give the same
\* advice and make it wait for the same.
SameAdvice ==
    \A op \in Requests :
        ToldApart(SizesOf(core) \cup {op.bytes}) =>
            LET policy == DecideOperation(twin, Decoded(op), TwinFrameOf(op))
            IN  /\ policy = PolicyOf(Decide(core, op))
                /\ RetainedBy(twin, Decoded(op), policy) \cup Dependencies(twin, op)
                      = Replacements(core, op)

\* The native core (core.cpp) and the Python reference (runtime.py) admit the same
\* resources, operations and frames in every session, and decide alike, though they keep
\* provenance in different tables, as long as the rounding of Python's sizes does not
\* make two of them one.
TwinsAgree ==
    alive =>
        /\ SameAdmission(core, twin, twinFrame)
        /\ ToldApart(SizesOf(core)) => SameState(core, twin, twinFrame) /\ SameAdvice
=============================================================================
