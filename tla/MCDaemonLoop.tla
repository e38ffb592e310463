---------------------------- MODULE MCDaemonLoop ----------------------------
(***************************************************************************)
(* Model checking values for DaemonLoop: a calm session, one whose frame   *)
(* overruns and whose memory is over budget, one near its memory budget    *)
(* and one with an empty frame; and hosts that give every signal, that run *)
(* no Windows, that are short of memory, that have a weak processor and    *)
(* that do not tell their memory.                                          *)
(***************************************************************************)
EXTENDS DaemonLoop

Tenth == Millisecond \div 10

Result(id, frame, type, policy, source, target, size, cost) ==
    [id |-> id, frame |-> frame, type |-> type, policy |-> policy, executed |-> policy = None,
     source |-> source, target |-> target, size |-> size, cost |-> cost * Tenth]

MCResources == [r \in {"staging", "texture"} |->
                  IF r = "staging" THEN [memory |-> "ram", size |-> 20]
                  ELSE [memory |-> "vram", size |-> 40]]

\* What a frame was charged: the operations that were executed in it.
Observed(results, f) ==
    MapThenSumSet(LAMBDA k : results[k].cost,
                  {k \in DOMAIN results : results[k].frame = f /\ results[k].executed})

MCSession(results, frames, vram) ==
    [results |-> results, resources |-> MCResources,
     frames |-> [f \in frames |-> [target |-> 100 * Tenth, observed |-> Observed(results, f)]],
     totals |-> [m \in {"ram", "vram"} |-> IF m = "ram" THEN 20 ELSE 40],
     budgets |-> [m \in IF vram = 0 THEN {} ELSE {"vram"} |-> vram]]

CalmResults ==
    <<Result(1, 1, "copy", None, "staging", "texture", 8, 5),
      Result(2, 1, "draw", None, None, "texture", 0, 20),
      Result(3, 1, "copy", "deduplicate-identical-transfer", "staging", "texture", 8, 5)>>

HotResults ==
    <<Result(1, NoFrame, "present", None, None, "texture", 0, 30),
      Result(2, 0, "draw", None, None, "texture", 0, 80),
      Result(3, 1, "upload", None, "staging", "texture", 20, 40),
      Result(4, 1, "draw", None, None, "texture", 0, 60),
      Result(5, 1, "draw", None, None, "texture", 0, 50),
      Result(6, 1, "sync", "remove-orphan-sync", None, None, 0, 10),
      Result(7, 1, "allocate", None, None, "texture", 40, 10),
      Result(8, 1, "allocate", "reuse-transient-buffer", None, "texture", 40, 10)>>

MCSessionIds == {"calm", "hot", "near", "idle"}
MCSessionOf ==
    [s \in MCSessionIds |->
       CASE s = "calm" -> MCSession(CalmResults, {1}, 0)
         [] s = "hot" -> MCSession(HotResults, {0, 1}, 20)
         [] s = "near" -> MCSession(CalmResults, {1}, 40)
         [] s = "idle" -> MCSession(<<>>, {2}, 0)]

MCPathLists == {<<"calm">>, <<"calm", "hot">>, <<"hot", "calm">>, <<"hot", "near">>}

MCHosts ==
    {[cpu |-> 8, total |-> 32, available |-> 20, gpus |-> <<16>>, errors |-> FALSE],
     CollectPosix(16, 32),
     [cpu |-> 8, total |-> 16, available |-> 2, gpus |-> <<Unknown, 8>>, errors |-> FALSE],
     [cpu |-> 2, total |-> 16, available |-> 12, gpus |-> <<>>, errors |-> TRUE],
     [cpu |-> 8, total |-> Unknown, available |-> Unknown, gpus |-> <<8>>, errors |-> TRUE],
     [cpu |-> 8, total |-> 16, available |-> 12, gpus |-> <<2>>, errors |-> FALSE]}
=============================================================================
