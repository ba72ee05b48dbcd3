------------------------------ MODULE DeltaVector ------------------------------
(***************************************************************************)
(* The vector m_delta_events of sc_simcontext, together with the position  *)
(* m_delta_event_index every sc_event keeps of itself (0 stands for -1:    *)
(* positions count from 1 here).                                           *)
(*                                                                         *)
(* Only the first "size" slots are in the vector.  resize() to a smaller   *)
(* size leaves the old pointers behind in "slot": the notification loop of *)
(* crunch() walks a raw pointer and the size it read before it started, so *)
(* it can read them.                                                       *)
(***************************************************************************)
EXTENDS Integers, Sequences

EmptyDelta(Event) ==
  [slot |-> <<>>, size |-> 0, index |-> [e \in Event |-> 0]]

AddDelta(v, e) ==
  [slot  |-> Append(SubSeq(v.slot, 1, v.size), e),
   size  |-> v.size + 1,
   index |-> [v.index EXCEPT ![e] = v.size + 1]]

\* Variant: the event that is moved keeps its old index.
RemoveDeltaOldIndex(v, e) ==
  [slot  |-> [v.slot EXCEPT ![v.index[e]] = v.slot[v.size]],
   size  |-> v.size - 1,
   index |-> [v.index EXCEPT ![e] = 0]]

(* The last event moves into the slot of the removed one.                  *)
RemoveDelta(v, e) ==
  LET last == v.slot[v.size] IN
  [slot  |-> [v.slot EXCEPT ![v.index[e]] = last],
   size  |-> v.size - 1,
   index |-> [[v.index EXCEPT ![last] = v.index[e]] EXCEPT ![e] = 0]]

(* Several events are removed, one after the other.                        *)
RemoveAllDelta(v, order) ==
  LET after[i \in 0 .. Len(order)] ==
        IF i = 0 THEN v ELSE RemoveDelta(after[i - 1], order[i])
  IN  after[Len(order)]

(* assert( i >= 0 && i <= j ) of remove_delta_event, and the slot is e's.  *)
RemovableDelta(v, e) ==
  /\ v.index[e] \in 1 .. v.size
  /\ v.slot[v.index[e]] = e

Unindexed(v, e) == [v EXCEPT !.index[e] = 0]

ClearDelta(v) == [v EXCEPT !.slot = <<>>, !.size = 0]
===============================================================================
