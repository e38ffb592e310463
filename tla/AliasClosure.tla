---------------------------- MODULE AliasClosure ----------------------------
(***************************************************************************)
(* The worklist of State::invalidate (native/src/core.cpp): two arrays of  *)
(* resource pointers, one that grows with the views reached so far and one *)
(* that shrinks by moving its last element into the gap.  CoreOps says by  *)
(* Affected what the loop is to compute; this module is how it does it.    *)
(*                                                                         *)
(* Arrays are functions on indices from 0; a null pointer is NoResource.   *)
(***************************************************************************)
EXTENDS CoreOps

VARIABLES
    table, written,         \* the resources, and the one that is written
    affected, count,
    remaining, remaining_count,
    cursor, i

arrays == <<affected, count, remaining, remaining_count>>
loop_vars == <<table, written, arrays, cursor, i>>

Index == 0..(ResourceLimit - 1)
Array == [Index -> ResourceId \cup {NoResource}]

\* The elements of the first n places of an array.
Elements(array, n) == {array[k] : k \in 0..(n - 1)}

LoopTypeOK ==
    /\ IsCore(table)
    /\ written \in Registered(table)
    /\ affected \in Array /\ remaining \in Array
    /\ count \in 1..ResourceLimit
    /\ remaining_count \in 0..ResourceLimit
    /\ cursor \in 0..ResourceLimit
    /\ i \in 0..ResourceLimit

\* The cores a write can meet: no more resources than the table holds.
LoopInit ==
    /\ \E S \in SUBSET ResourceId, n \in 0..(ResourceLimit - 1) :
          /\ table \in {[EmptyCore EXCEPT !.resources = f] :
                          f \in [S -> {r \in Resource : r.copy = NoOp /\ r.allocation = NoOp}]}
          /\ written \in S
          /\ remaining_count = n
          \* the other resources, each once, in the order of the hash table
          /\ remaining \in {a \in Array : /\ Elements(a, n) = S \ {written}
                                          /\ \A j, k \in 0..(n - 1) : a[j] = a[k] => j = k
                                          /\ \A k \in Index : k >= n => a[k] = NoResource}
    /\ affected = [k \in Index |-> IF k = 0 THEN written ELSE NoResource]
    /\ count = 1
    /\ cursor = 0
    /\ i = 0

Meets == AliasesIntersect(table.resources[affected[cursor]], table.resources[remaining[i]])

\* A faulty variant, for the check that the properties notice it: the element
\* moved into the gap is passed over.
ReachAndAdvance ==
    /\ cursor < count
    /\ i < remaining_count
    /\ Meets
    /\ affected' = [affected EXCEPT ![count] = remaining[i]]
    /\ count' = count + 1
    /\ remaining' = [remaining EXCEPT ![i] = remaining[remaining_count - 1]]
    /\ remaining_count' = remaining_count - 1
    /\ i' = i + 1
    /\ UNCHANGED <<table, written, cursor>>

\* A faulty variant, for the check that the properties notice it: the last
\* element is lost instead of moved.
ReachAndDrop ==
    /\ cursor < count
    /\ i < remaining_count
    /\ Meets
    /\ affected' = [affected EXCEPT ![count] = remaining[i]]
    /\ count' = count + 1
    /\ remaining_count' = remaining_count - 1
    /\ UNCHANGED <<table, written, remaining, cursor, i>>

\* A faulty variant, for the check that the properties notice it: the place
\* stays, with what it holds.
ReachAndKeep ==
    /\ cursor < count
    /\ i < remaining_count
    /\ Meets
    /\ affected' = [affected EXCEPT ![count] = remaining[i]]
    /\ count' = count + 1
    /\ UNCHANGED <<table, written, remaining, remaining_count, cursor, i>>

\* remaining[i] shares a name with the view under the cursor.
Reach ==
    /\ cursor < count
    /\ i < remaining_count
    /\ Meets
    /\ affected' = [affected EXCEPT ![count] = remaining[i]]
    /\ count' = count + 1
    /\ remaining' = [remaining EXCEPT ![i] = remaining[remaining_count - 1]]
    /\ remaining_count' = remaining_count - 1
    /\ UNCHANGED <<table, written, cursor, i>>

Pass ==
    /\ cursor < count
    /\ i < remaining_count
    /\ ~Meets
    /\ i' = i + 1
    /\ UNCHANGED <<table, written, arrays, cursor>>

NextCursor ==
    /\ cursor < count
    /\ i >= remaining_count
    /\ cursor' = cursor + 1
    /\ i' = 0
    /\ UNCHANGED <<table, written, arrays>>

Done == cursor >= count

LoopNext == Reach \/ Pass \/ NextCursor

LoopSpec == LoopInit /\ [][LoopNext]_loop_vars

-----------------------------------------------------------------------------
(* Properties.                                                             *)

\* The two arrays hold every registered resource between them: moving the last
\* element of remaining into the gap loses none.
NothingIsLost ==
    Elements(affected, count) \cup Elements(remaining, remaining_count) = Registered(table)

\* When the loop ends the first array holds exactly the views that share storage
\* with the written one, directly or through others, as CoreOps assumes.
LoopComputesAffected == Done => Elements(affected, count) = Affected(table, written)

\* Every step comes closer to the end, so a write always finishes: there are fewer
\* views left to start from, or fewer left to compare with this one.
LoopProgresses ==
    [][\/ count' - cursor' + remaining_count' < count - cursor + remaining_count
       \/ /\ count' - cursor' + remaining_count' = count - cursor + remaining_count
          /\ remaining_count' - i' < remaining_count - i]_loop_vars
=============================================================================
