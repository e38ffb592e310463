---------------------------- MODULE HandleTable ----------------------------
(***************************************************************************)
(* What the in-process C interface (native/include/fluidgateway_native.h)  *)
(* promises its callers: sessions are opened under handles that were never *)
(* used before, at most Capacity at a time, exchange frames until they are *)
(* closed, and end when destroyed.                                         *)
(***************************************************************************)
EXTENDS Naturals, FiniteSets

CONSTANTS Handle, Capacity

VARIABLES
    live,   \* handle -> "open" or "closed", for the sessions that exist
    used    \* every handle ever returned

vars == <<live, used>>

Init == live = [h \in {} |-> "open"] /\ used = {}

Open(h) ==
    /\ h \notin used
    /\ Cardinality(DOMAIN live) < Capacity
    /\ live' = [g \in DOMAIN live \cup {h} |-> IF g = h THEN "open" ELSE live[g]]
    /\ used' = used \cup {h}

\* An exchange that retires the session: a goodbye, or any error that closes it.
Retire(h) ==
    /\ h \in DOMAIN live
    /\ live[h] = "open"
    /\ live' = [live EXCEPT ![h] = "closed"]
    /\ UNCHANGED used

Destroy(h) ==
    /\ h \in DOMAIN live
    /\ live' = [g \in DOMAIN live \ {h} |-> live[g]]
    /\ UNCHANGED used

Next == \E h \in Handle : Open(h) \/ Retire(h) \/ Destroy(h)

Spec == Init /\ [][Next]_vars
=============================================================================
