--------------------------- MODULE MCGatewayCore ---------------------------
(***************************************************************************)
(* Model checking values for TwinCores: two views src and peer that may    *)
(* share storage, through a third or directly, and a destination.          *)
(***************************************************************************)
EXTENDS TwinCores, TLC

CONSTANTS src, dst, peer, o1, o2, o3, f1, gpu, x, y, queue

MCView(names) == [memory |-> gpu, aliases |-> names]

\* src and peer may share x; dst may be a view of neither or of peer's y.
MCViews == (src :> {MCView({x})}) @@ (dst :> {MCView({})}) @@ (peer :> {MCView({x}), MCView({y})})

OneViewEach == (src :> {MCView({x})}) @@ (dst :> {MCView({})}) @@ (peer :> {MCView({x})})
PlainViews == (src :> {MCView({x})}) @@ (dst :> {MCView({y})})

\* With floats of two bits, 5 bytes are read as 4.
SizedOp(bytes, type, source, target, frame, deps, idle, transient) ==
    [type |-> type, source |-> source, target |-> target, frame |-> frame,
     bytes |-> bytes, queue |-> queue, deps |-> deps, idle |-> idle, transient |-> transient]

Op(type, source, target, frame, deps, idle, transient) ==
    SizedOp(4, type, source, target, frame, deps, idle, transient)

\* Eliminations that chain: a self copy removes itself, what waits for it can
\* follow, and a forward dependency or a retained operation keeps it.
ChainRequests ==
    {Op("copy", src, src, NoFrame, {}, FALSE, FALSE),
     Op("copy", src, src, NoFrame, {o2}, FALSE, FALSE),
     Op("copy", src, dst, f1, {}, FALSE, FALSE),
     Op("allocate", NoResource, dst, NoFrame, {}, FALSE, TRUE),
     Op("sync", NoResource, NoResource, NoFrame, {}, TRUE, FALSE),
     Op("sync", NoResource, NoResource, NoFrame, {o1}, FALSE, FALSE),
     Op("sync", NoResource, NoResource, NoFrame, {o1, o2}, FALSE, FALSE)}

\* Transfers of sizes told apart and not, the writes that race with them, allocations
\* and a wait.
CopyRequests ==
    {SizedOp(5, "copy", src, dst, NoFrame, {}, FALSE, FALSE),
     Op("copy", src, dst, NoFrame, {}, FALSE, FALSE),
     Op("upload", NoResource, dst, NoFrame, {}, FALSE, FALSE),
     Op("compute", NoResource, peer, NoFrame, {}, FALSE, FALSE),
     Op("allocate", NoResource, dst, NoFrame, {}, FALSE, TRUE),
     Op("sync", NoResource, NoResource, NoFrame, {o1}, FALSE, FALSE)}

\* No request names o2 or o3.
CopySymmetry == Permutations({o2, o3})
=============================================================================
