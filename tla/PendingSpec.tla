------------------------------ MODULE PendingSpec ------------------------------
(***************************************************************************)
(* What the notification machinery of sc_event and sc_simcontext promises: *)
(* every event has at most one pending notification, the earliest of those *)
(* asked for and not cancelled; a delta notification is delivered in the   *)
(* next notification phase, a timed one exactly at its time.               *)
(***************************************************************************)
EXTENDS Integers

CONSTANTS Event, Timeout, MaxTime

None  == -1
Delta == -2
Time  == 0 .. MaxTime

VARIABLES
  pend, \* None, Delta or the time of the timed notification of every event
  now,  \* the simulated time
  mode  \* processes call, or the scheduler delivers

vars == <<pend, now, mode>>

Init ==
  /\ pend = [e \in Event |-> None]
  /\ now = 0
  /\ mode = "calls"

NotifyZero(e) ==
  /\ mode = "calls"
  /\ pend' = [pend EXCEPT ![e] = Delta]
  /\ UNCHANGED <<now, mode>>

(* A later time never replaces an earlier one.                             *)
NotifyAt(e, t) ==
  /\ mode = "calls"
  /\ t > now
  /\ pend[e] = None \/ pend[e] > t
  /\ pend' = [pend EXCEPT ![e] = t]
  /\ UNCHANGED <<now, mode>>

(* Cancelled by a process, or a timeout cancelled by the scheduler because *)
(* its process has been woken by another event.                            *)
Withdraw(e) ==
  /\ mode = "calls" \/ e \in Timeout
  /\ pend' = [pend EXCEPT ![e] = None]
  /\ UNCHANGED <<now, mode>>

Deliver(e) ==
  /\ \/ mode = "delta" /\ pend[e] = Delta
     \/ mode = "timed" /\ pend[e] = now
  /\ pend' = [pend EXCEPT ![e] = None]
  /\ UNCHANGED <<now, mode>>

BeginDelta == mode = "calls" /\ mode' = "delta" /\ UNCHANGED <<pend, now>>

EndDelta ==
  /\ mode = "delta"
  /\ \A e \in Event : pend[e] # Delta
  /\ mode' \in {"calls", "timed"}
  /\ UNCHANGED <<pend, now>>

Advance ==
  /\ mode = "timed"
  /\ \A e \in Event : pend[e] = None \/ pend[e] > now
  /\ \E e \in Event :
       /\ pend[e] # None
       /\ now' = pend[e]
       /\ \A f \in Event : pend[f] = None \/ pend[f] >= pend[e]
  /\ UNCHANGED <<pend, mode>>

EndTimed ==
  /\ mode = "timed"
  /\ \A e \in Event : pend[e] = None \/ pend[e] > now
  /\ mode' = "calls"
  /\ UNCHANGED <<pend, now>>

Next ==
  \/ \E e \in Event :
       \/ NotifyZero(e)
       \/ \E t \in Time : NotifyAt(e, t)
       \/ Withdraw(e)
       \/ Deliver(e)
  \/ BeginDelta
  \/ EndDelta
  \/ Advance
  \/ EndTimed

Spec == Init /\ [][Next]_vars
===============================================================================
