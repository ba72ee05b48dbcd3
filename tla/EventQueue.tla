----------------------------- MODULE EventQueue -----------------------------
(***************************************************************************)
(* sc_event_queue (communication/sc_event_queue.{h,cpp}): many pending     *)
(* notifications over one sc_event m_e, which keeps only the earliest.     *)
(*                                                                         *)
(* The scheduler around it is reduced to evaluation phases in which user   *)
(* processes and the method fire_event run in any order, delta cycles and  *)
(* the advance of time.  A user process may run at any time.               *)
(***************************************************************************)
EXTENDS PriorityQueue

CONSTANTS
    MaxTime,        \* bound: the last time
    MaxPending,     \* bound: notifications in the queue
    LateCancel      \* TRUE: cancel_all() is also called between the trigger of
                    \* m_e and the run of fire_event

ASSUME EventQueueAssumption ==
    MaxTime \in Nat /\ MaxPending \in Nat /\ LateCancel \in BOOLEAN

VARIABLES
    now,        \* sc_time_stamp()
    m_ppq,      \* the heap of absolute times
    m_e,        \* the pending notification of m_e: None, Delta or a time
    fireable    \* fire_event is in the run queue: m_e has triggered it

vars == <<now, m_ppq, m_e, fireable>>

Time == 0..MaxTime
None == -1
Delta == -2

Init ==
    /\ now = 0
    /\ m_ppq = <<>>
    /\ m_e = None
    /\ fireable = FALSE

(* m_e.notify(t - now): a pending notification that is not later stays *)
Notified(t) ==
    IF m_e = Delta THEN Delta
    ELSE IF t = now THEN Delta
    ELSE IF m_e # None /\ m_e <= t THEN m_e
    ELSE t

---------------------------------------------------------------------------
\* Variant: m_e is notified for the first notification only.
Notify_first(t) ==
    /\ t >= now /\ Len(m_ppq) < MaxPending
    /\ m_e' = IF m_ppq = <<>> THEN Notified(t) ELSE m_e
    /\ m_ppq' = Insert(m_ppq, t)
    /\ UNCHANGED <<now, fireable>>

Notify(t) ==
    /\ t >= now /\ Len(m_ppq) < MaxPending
    /\ m_e' = IF m_ppq = <<>> \/ t < HTop(m_ppq) THEN Notified(t) ELSE m_e
    /\ m_ppq' = Insert(m_ppq, t)
    /\ UNCHANGED <<now, fireable>>

Cancel_all ==
    /\ LateCancel \/ ~fireable
    /\ m_ppq' = <<>>
    /\ m_e' = None
    /\ UNCHANGED <<now, fireable>>

Fire_event ==
    /\ fireable
    /\ fireable' = FALSE
    /\ IF m_ppq = <<>>
       THEN UNCHANGED <<m_ppq, m_e>>
       ELSE /\ m_ppq' = Extracted(m_ppq)
            /\ m_e' = IF m_ppq' = <<>> THEN m_e ELSE Notified(HTop(m_ppq'))
    /\ UNCHANGED now

(* A delta cycle: m_e triggers fire_event *)
DeltaCycle ==
    /\ ~fireable /\ m_e = Delta
    /\ m_e' = None
    /\ fireable' = TRUE
    /\ UNCHANGED <<now, m_ppq>>

(* The time advances to the notification of m_e or to an earlier one *)
AdvanceTime ==
    /\ ~fireable /\ m_e # Delta
    /\ now' \in (now + 1)..(IF m_e = None THEN MaxTime ELSE m_e)
    /\ fireable' = (m_e = now')
    /\ m_e' = IF m_e = now' THEN None ELSE m_e
    /\ UNCHANGED m_ppq

Next ==
    \/ \E t \in Time : Notify(t)
    \/ Cancel_all
    \/ Fire_event
    \/ DeltaCycle
    \/ AdvanceTime

Spec == Init /\ [][Next]_vars

---------------------------------------------------------------------------
(* "assert( *t==sc_time_stamp() )" (fire_event(), line 90): m_e never triggers
   at a time for which nothing was notified, although it is notified again and
   again and keeps only its earliest notification. *)
AssertionHolds ==
    [][Fire_event /\ m_ppq # <<>> => HTop(m_ppq) = now]_vars

(* The queue implements its abstract specification.  The default event has
   triggered for the top entry when fire_event is in the run queue. *)
Abstract == INSTANCE EventQueueSpec WITH
    due <- Content(IF fireable /\ m_ppq # <<>> THEN Extracted(m_ppq) ELSE m_ppq, Time)

ImplementsEventQueue == Abstract!Spec
============================================================================
