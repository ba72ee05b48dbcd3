----------------------------- MODULE Notifications -----------------------------
(***************************************************************************)
(* The pending notifications of sc_event and where they are stored: the    *)
(* vector of delta events, the queue of sc_event_timed entries, and the    *)
(* three members of each event (m_notify_type, m_delta_event_index,        *)
(* m_timed) that must agree with them.  Processes are left out: a trigger  *)
(* is a period in which the processes being woken may cancel their timeout *)
(* events, which is all that triggering does to notifications.             *)
(***************************************************************************)
EXTENDS DeltaVector, FiniteSets

CONSTANTS
  Event,    \* all events
  Timeout,  \* m_timeout_event_p of the processes, a subset of Event
  Entry,    \* the sc_event_timed objects (the bound on how many are alive)
  NoEvent,  \* null pointer to an event
  NoEntry,  \* null pointer to an entry
  MaxTime   \* bound of the simulated time

ASSUME NotificationsAssumption ==
  /\ Timeout \subseteq Event
  /\ NoEvent \notin Event
  /\ NoEntry \notin Entry
  /\ MaxTime \in Nat

UserEvent == Event \ Timeout

VARIABLES
  notifyType,  \* m_notify_type of every event
  delta,       \* m_delta_events and m_delta_event_index
  timedEvents, \* m_timed_events: the entries in the queue, event and time
  timed,       \* m_timed of every event
  currTime,    \* m_curr_time
  phase,       \* what the scheduler is doing
  cursor,      \* i of the notification loop of crunch()
  firing       \* the event whose trigger() is running, or NoEvent

vars == <<notifyType, delta, timedEvents, timed, currTime, phase, cursor, firing>>

Time == 0 .. MaxTime

Phase == {"evaluate", "update", "notify", "advance", "timednotify"}

(* The types of the members.  The notification loop never stands outside   *)
(* the storage of the vector (cursor).                                     *)
TypeOK ==
  /\ notifyType \in [Event -> {"NONE", "DELTA", "TIMED"}]
  /\ delta \in [slot : Seq(Event), size : Nat, index : [Event -> Nat]]
  /\ delta.size <= Len(delta.slot)
  /\ DOMAIN timedEvents \subseteq Entry
  /\ \A x \in DOMAIN timedEvents :
       timedEvents[x] \in [event : Event \cup {NoEvent}, time : Time]
  /\ timed \in [Event -> Entry \cup {NoEntry}]
  /\ currTime \in Time
  /\ phase \in Phase
  /\ cursor \in 0 .. Len(delta.slot)
  /\ firing \in Event \cup {NoEvent}

Init ==
  /\ notifyType = [e \in Event |-> "NONE"]
  /\ delta = EmptyDelta(Event)
  /\ timedEvents = <<>>
  /\ timed = [e \in Event |-> NoEntry]
  /\ currTime = 0
  /\ phase = "evaluate"
  /\ cursor = 0
  /\ firing = NoEvent

-------------------------------------------------------------------------------
(* m_timed->m_event = 0 for the entry of e: it stays in the queue.         *)
Orphan(e) == [timedEvents EXCEPT ![timed[e]].event = NoEvent]

AddTimed(queue, x, e, t) ==
  [y \in DOMAIN queue \cup {x} |-> IF y = x THEN [event |-> e, time |-> t] ELSE queue[y]]

Extract(X) == [y \in DOMAIN timedEvents \ X |-> timedEvents[y]]

(* What cancel() leaves in the two stores and in the members of e.         *)
CancelStores(e) ==
  /\ notifyType' = [notifyType EXCEPT ![e] = "NONE"]
  /\ delta' = IF notifyType[e] = "DELTA" THEN RemoveDelta(delta, e) ELSE delta
  /\ timedEvents' = IF notifyType[e] = "TIMED" THEN Orphan(e) ELSE timedEvents
  /\ timed' = IF notifyType[e] = "TIMED" THEN [timed EXCEPT ![e] = NoEntry] ELSE timed

(* Processes and channels only call the interface of an event while no     *)
(* trigger() is running: triggering runs no user code.                     *)
Calling == phase \in {"evaluate", "update"} /\ firing = NoEvent

Cancel(e) ==
  /\ Calling
  /\ CancelStores(e)
  /\ UNCHANGED <<currTime, phase, cursor, firing>>

(* notify(): an error in the update phase, otherwise cancel and trigger.   *)
NotifyImmediate(e) ==
  /\ Calling
  /\ phase = "evaluate"
  /\ CancelStores(e)
  /\ firing' = e
  /\ UNCHANGED <<currTime, phase, cursor>>

\* Variant: the timed entry that is replaced still names the event.
NotifyDeltaKeepsEntry(e) ==
  /\ Calling
  /\ notifyType[e] # "DELTA"
  /\ delta' = AddDelta(delta, e)
  /\ notifyType' = [notifyType EXCEPT ![e] = "DELTA"]
  /\ timed' = IF notifyType[e] = "TIMED" THEN [timed EXCEPT ![e] = NoEntry] ELSE timed
  /\ UNCHANGED <<timedEvents, currTime, phase, cursor, firing>>

(* notify(SC_ZERO_TIME); a delta notification pending already is kept.     *)
NotifyDelta(e) ==
  /\ Calling
  /\ notifyType[e] # "DELTA"
  /\ delta' = AddDelta(delta, e)
  /\ notifyType' = [notifyType EXCEPT ![e] = "DELTA"]
  /\ timedEvents' = IF notifyType[e] = "TIMED" THEN Orphan(e) ELSE timedEvents
  /\ timed' = IF notifyType[e] = "TIMED" THEN [timed EXCEPT ![e] = NoEntry] ELSE timed
  /\ UNCHANGED <<currTime, phase, cursor, firing>>

\* Variant: a later notification replaces an earlier one.
NotifyTimedLater(e, t) ==
  /\ Calling
  /\ notifyType[e] # "DELTA"
  /\ currTime + t <= MaxTime
  /\ \E x \in Entry \ DOMAIN timedEvents :
       /\ timedEvents' =
            AddTimed(IF notifyType[e] = "TIMED" THEN Orphan(e) ELSE timedEvents,
                     x, e, currTime + t)
       /\ timed' = [timed EXCEPT ![e] = x]
  /\ notifyType' = [notifyType EXCEPT ![e] = "TIMED"]
  /\ UNCHANGED <<delta, currTime, phase, cursor, firing>>

(* notify(t), t > 0: an earlier or equal pending notification is kept.     *)
NotifyTimed(e, t) ==
  /\ Calling
  /\ notifyType[e] # "DELTA"
  /\ notifyType[e] = "TIMED" => timedEvents[timed[e]].time > currTime + t
  /\ currTime + t <= MaxTime
  /\ \E x \in Entry \ DOMAIN timedEvents :
       /\ timedEvents' =
            AddTimed(IF notifyType[e] = "TIMED" THEN Orphan(e) ELSE timedEvents,
                     x, e, currTime + t)
       /\ timed' = [timed EXCEPT ![e] = x]
  /\ notifyType' = [notifyType EXCEPT ![e] = "TIMED"]
  /\ UNCHANGED <<delta, currTime, phase, cursor, firing>>

(* notify_internal(t) with t > 0: no look at what is pending.  A process   *)
(* arms its timeout event when it waits, so nothing is pending on it.      *)
NotifyInternalTimed(e, t) ==
  /\ Calling
  /\ notifyType[e] = "NONE"
  /\ currTime + t <= MaxTime
  /\ \E x \in Entry \ DOMAIN timedEvents :
       /\ timedEvents' = AddTimed(timedEvents, x, e, currTime + t)
       /\ timed' = [timed EXCEPT ![e] = x]
  /\ notifyType' = [notifyType EXCEPT ![e] = "TIMED"]
  /\ UNCHANGED <<delta, currTime, phase, cursor, firing>>

(* notify_internal(SC_ZERO_TIME), and notify_next_delta(), which reports   *)
(* an error when something is pending.                                     *)
NotifyNextDelta(e) ==
  /\ Calling
  /\ notifyType[e] = "NONE"
  /\ delta' = AddDelta(delta, e)
  /\ notifyType' = [notifyType EXCEPT ![e] = "DELTA"]
  /\ UNCHANGED <<timedEvents, timed, currTime, phase, cursor, firing>>
-------------------------------------------------------------------------------
(* Inside trigger(), a process woken by the firing event cancels and       *)
(* resets its own timeout event.                                           *)
CancelInTrigger(c) ==
  /\ firing \notin {NoEvent, c}
  /\ notifyType' = [notifyType EXCEPT ![c] = "NONE"]
  /\ delta' = Unindexed(IF notifyType[c] = "DELTA" THEN RemoveDelta(delta, c) ELSE delta, c)
  /\ timedEvents' = IF notifyType[c] = "TIMED" THEN Orphan(c) ELSE timedEvents
  /\ timed' = [timed EXCEPT ![c] = NoEntry]
  /\ UNCHANGED <<currTime, phase, cursor, firing>>

(* The last three assignments of trigger().                                *)
TriggerEnd ==
  /\ firing # NoEvent
  /\ notifyType' = [notifyType EXCEPT ![firing] = "NONE"]
  /\ delta' = Unindexed(delta, firing)
  /\ timed' = [timed EXCEPT ![firing] = NoEntry]
  /\ firing' = NoEvent
  /\ UNCHANGED <<timedEvents, currTime, phase, cursor>>

UpdatePhase ==
  /\ Calling
  /\ phase = "evaluate"
  /\ phase' = "update"
  /\ UNCHANGED <<notifyType, delta, timedEvents, timed, currTime, cursor, firing>>

\* Variant: the loop starts one slot too low, even of an empty vector.
NotifyPhaseOffByOne ==
  /\ Calling
  /\ phase = "update"
  /\ phase' = "notify"
  /\ cursor' = delta.size - 1
  /\ UNCHANGED <<notifyType, delta, timedEvents, timed, currTime, firing>>

\* Variant: the loop does not reach the last slot.
NotifyPhaseSkipsLast ==
  /\ Calling
  /\ phase = "update"
  /\ phase' = "notify"
  /\ cursor' = IF delta.size = 0 THEN 0 ELSE delta.size - 1
  /\ UNCHANGED <<notifyType, delta, timedEvents, timed, currTime, firing>>

NotifyPhase ==
  /\ Calling
  /\ phase = "update"
  /\ phase' = "notify"
  /\ cursor' = delta.size
  /\ UNCHANGED <<notifyType, delta, timedEvents, timed, currTime, firing>>

(* l_events[i]->trigger(): the slot, whether still in the vector or not.   *)
DeltaStep ==
  /\ phase = "notify"
  /\ firing = NoEvent
  /\ cursor > 0
  /\ firing' = delta.slot[cursor]
  /\ cursor' = cursor - 1
  /\ UNCHANGED <<notifyType, delta, timedEvents, timed, currTime, phase>>

(* m_delta_events.resize(0); then another delta cycle if a process is      *)
(* runnable, otherwise the time advances or sc_start() returns.            *)
DeltaDone ==
  /\ phase = "notify"
  /\ firing = NoEvent
  /\ cursor = 0
  /\ delta' = ClearDelta(delta)
  /\ phase' \in {"evaluate", "advance"}
  /\ UNCHANGED <<notifyType, timedEvents, timed, currTime, cursor, firing>>

Live == {x \in DOMAIN timedEvents : timedEvents[x].event # NoEvent}

\* Variant: the time goes to any entry, not to the earliest one.
NextTimeAny ==
  /\ phase = "advance"
  /\ \E top \in Live :
       LET t == timedEvents[top].time IN
       /\ timedEvents' = Extract({x \in DOMAIN timedEvents \ Live : timedEvents[x].time < t})
       /\ currTime' = t
  /\ phase' = "timednotify"
  /\ UNCHANGED <<notifyType, delta, timed, cursor, firing>>

(* next_time() throws away the cancelled entries it finds on top of the    *)
(* queue (of entries of one time, any may be on top) and the time advances *)
(* to the first live one.                                                  *)
NextTime ==
  /\ phase = "advance"
  /\ \E top \in Live :
       LET t == timedEvents[top].time
           dropped == {x \in DOMAIN timedEvents \ Live : timedEvents[x].time < t}
           ties    == {x \in DOMAIN timedEvents \ Live : timedEvents[x].time = t}
       IN  /\ \A x \in Live : t <= timedEvents[x].time
           /\ \E some \in SUBSET ties : timedEvents' = Extract(dropped \cup some)
           /\ currTime' = t
  /\ phase' = "timednotify"
  /\ UNCHANGED <<notifyType, delta, timed, cursor, firing>>

NoNextTime ==
  /\ phase = "advance"
  /\ Live = {}
  /\ timedEvents' = <<>>
  /\ phase' = "evaluate"
  /\ UNCHANGED <<notifyType, delta, timed, currTime, cursor, firing>>

(* extract_top(), ~sc_event_timed(), and trigger() unless cancelled.       *)
TimedStep ==
  /\ phase = "timednotify"
  /\ firing = NoEvent
  /\ \E x \in DOMAIN timedEvents :
       LET e == timedEvents[x].event IN
       /\ timedEvents[x].time = currTime
       /\ timedEvents' = Extract({x})
       /\ firing' = e
       /\ timed' = IF e # NoEvent THEN [timed EXCEPT ![e] = NoEntry] ELSE timed
  /\ UNCHANGED <<notifyType, delta, currTime, phase, cursor>>

TimedDone ==
  /\ phase = "timednotify"
  /\ firing = NoEvent
  /\ \A x \in DOMAIN timedEvents : timedEvents[x].time # currTime
  /\ phase' \in {"evaluate", "advance"}
  /\ UNCHANGED <<notifyType, delta, timedEvents, timed, currTime, cursor, firing>>

Next ==
  \/ \E e \in Event : Cancel(e)
  \/ \E e \in UserEvent :
       \/ NotifyImmediate(e)
       \/ NotifyDelta(e)
       \/ \E t \in Time \ {0} : NotifyTimed(e, t)
  \/ \E e \in Event : NotifyNextDelta(e)
  \/ \E e \in Timeout, t \in Time \ {0} : NotifyInternalTimed(e, t)
  \/ \E c \in Timeout : CancelInTrigger(c)
  \/ TriggerEnd
  \/ UpdatePhase
  \/ NotifyPhase
  \/ DeltaStep
  \/ DeltaDone
  \/ NextTime
  \/ NoNextTime
  \/ TimedStep
  \/ TimedDone

Spec == Init /\ [][Next]_vars

-------------------------------------------------------------------------------
(* The index of an event with a pending delta notification is its slot in  *)
(* the vector: the assertion of remove_delta_event() never fails, and it   *)
(* removes the event it is asked to remove and no other one, even when it  *)
(* is called in the middle of the notification loop.                       *)
DeltaIndexed ==
  \A e \in Event : notifyType[e] = "DELTA" => RemovableDelta(delta, e)

(* A timed event points to its entry and the entry points back, so that    *)
(* assert( m_timed != 0 ) holds in cancel() and notify(t) and no entry     *)
(* that was cancelled or replaced can still trigger its event.             *)
TimedLinked ==
  /\ \A e \in Event \ {firing} :
       notifyType[e] = "TIMED" =>
         /\ timed[e] \in DOMAIN timedEvents
         /\ timedEvents[timed[e]].event = e
  /\ \A x \in Live :
       LET e == timedEvents[x].event IN notifyType[e] = "TIMED" /\ timed[e] = x

(* No delta notification is skipped or left behind by the notification     *)
(* loop, although events are removed from the vector under it: what has    *)
(* not been triggered yet lies in the slots it has not reached.            *)
NoLostDelta ==
  /\ phase = "notify" =>
       \A e \in Event \ {firing} : notifyType[e] = "DELTA" => delta.index[e] <= cursor
  /\ phase \in {"advance", "timednotify"} =>
       \A e \in Event : notifyType[e] # "DELTA"

(* No entry is in the past, so that the time never goes back and nothing   *)
(* is delivered late: next_time() sees the earliest live entry first.      *)
TimedInFuture ==
  \A x \in Live :
    \/ timedEvents[x].time > currTime
    \/ phase = "timednotify" /\ timedEvents[x].time = currTime

(* The pending notification the members of an event stand for.             *)
Pend(e) ==
  CASE notifyType[e] = "NONE"  -> -1
    [] notifyType[e] = "DELTA" -> -2
    [] notifyType[e] = "TIMED" ->
         IF e = firing THEN currTime ELSE timedEvents[timed[e]].time

Mode ==
  CASE phase \in {"evaluate", "update"} -> "calls"
    [] phase = "notify" -> "delta"
    [] phase \in {"advance", "timednotify"} -> "timed"

Pending == INSTANCE PendingSpec
  WITH pend <- [e \in Event |-> Pend(e)], now <- currTime, mode <- Mode

(* The two stores implement one pending notification per event, the        *)
(* earliest one, delivered in its delta cycle or at its time.              *)
ImplementsPending == Pending!Spec
===============================================================================
