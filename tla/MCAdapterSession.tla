-------------------------- MODULE MCAdapterSession --------------------------
(***************************************************************************)
(* Model checking values for AdapterSession: a buffer in ram and one in    *)
(* vram, two frames, and work that together crosses every threshold: nine  *)
(* tenths of a frame, a quarter of it on the copy queue, a whole frame.    *)
(***************************************************************************)
EXTENDS AdapterSession, TLC

CONSTANTS ram, vram, o1, o2, o3

MCView(layer, size, life) ==
    [memory |-> layer, aliases |-> {}, size |-> size, lifetime |-> life]

MCViews == (ram :> {MCView("ram", 8, "persistent")}) @@
           (vram :> {MCView("vram", 8, "transient")})

MCBudgets == {[layer \in {} |-> 0], "vram" :> 4}

Work(type, source, target, frame, queue, cost, transient) ==
    [type |-> type, source |-> source, target |-> target, frame |-> frame, bytes |-> 8,
     queue |-> queue, deps |-> {}, idle |-> cost = 0, transient |-> transient, cost |-> cost]

MCRequests ==
    {Work("copy", ram, vram, NoFrame, "copy", 3, FALSE),
     Work("draw", NoResource, vram, NoFrame, "graphics", 6, FALSE),
     Work("sync", NoResource, NoResource, 1, "graphics", 0, FALSE)}

\* A frame that fills up, and the copy that is submitted twice.
HeldRequests ==
    {Work("copy", ram, vram, NoFrame, "copy", 3, FALSE),
     Work("draw", NoResource, NoResource, NoFrame, "graphics", 9, FALSE)}
=============================================================================
