-------------------------- MODULE EventQueueSpec ---------------------------
(***************************************************************************)
(* What sc_event_queue promises (sc_event_queue.h:60-63: any number of     *)
(* pending notifications): each notification triggers the default event    *)
(* once, in a delta cycle of its own, at its time, unless it is cancelled. *)
(***************************************************************************)
EXTENDS Integers

CONSTANT Time

VARIABLES
    now,
    due     \* due[t]: the number of notifications for time t still to come

Init == now = 0 /\ due = [t \in Time |-> 0]

Add == \E t \in Time : /\ t >= now
                       /\ due' = [due EXCEPT ![t] = @ + 1]
                       /\ UNCHANGED now

Clear == due' = [t \in Time |-> 0] /\ UNCHANGED now

(* Time may pass up to the first notification, never beyond it. *)
NoneMissed(t) == \A s \in Time : s < t => due[s] = 0

Deliver == \E t \in Time : /\ t >= now /\ now' = t
                           /\ NoneMissed(t) /\ due[t] > 0
                           /\ due' = [due EXCEPT ![t] = @ - 1]

Pass == /\ now' \in {t \in Time : t > now /\ NoneMissed(t) /\ due[t] = 0}
        /\ UNCHANGED due

Next == Add \/ Clear \/ Deliver \/ Pass

Spec == Init /\ [][Next]_<<now, due>>
============================================================================
