-------------------------- MODULE NotificationsProofs --------------------------
(***************************************************************************)
(* The safety of Notifications, proved for any number of events, entries   *)
(* and any bound of the time.                                              *)
(***************************************************************************)
EXTENDS Notifications, TLAPS

(* An event with a pending delta notification is in the vector only once.  *)
DeltaUnique ==
  \A i \in 1 .. delta.size :
    notifyType[delta.slot[i]] = "DELTA" => delta.index[delta.slot[i]] = i

(* What the loop needs to know of the vector: between two loops it holds   *)
(* only events with a pending delta notification, and in the loop no slot  *)
(* still to be read holds an event with a timed one.                       *)
VectorExact ==
  /\ phase \in {"evaluate", "update"} =>
       \A i \in 1 .. delta.size : notifyType[delta.slot[i]] = "DELTA"
  /\ phase = "notify" =>
       \A i \in 1 .. Len(delta.slot) :
         i <= delta.size \/ i <= cursor => notifyType[delta.slot[i]] # "TIMED"
  /\ phase \in {"advance", "timednotify"} => delta.size = 0

(* Where a trigger can be running, and on what.                            *)
FiringOK ==
  /\ phase # "notify" => cursor = 0
  /\ phase \in {"update", "advance"} => firing = NoEvent
  /\ firing # NoEvent /\ phase = "evaluate" => notifyType[firing] = "NONE"
  /\ firing # NoEvent /\ phase = "notify" => notifyType[firing] # "TIMED"
  /\ firing # NoEvent /\ phase = "timednotify" =>
       notifyType[firing] = "TIMED" /\ timed[firing] = NoEntry

IInv ==
  /\ TypeOK
  /\ DeltaIndexed
  /\ TimedLinked
  /\ NoLostDelta
  /\ TimedInFuture
  /\ DeltaUnique
  /\ VectorExact
  /\ FiringOK

-------------------------------------------------------------------------------
DeltaType == [slot : Seq(Event), size : Nat, index : [Event -> Nat]]

(* push_back() keeps the events of the vector and puts e after them.       *)
LEMMA AddDeltaFacts ==
  ASSUME NEW v \in DeltaType, v.size <= Len(v.slot), NEW e \in Event
  PROVE  /\ AddDelta(v, e) \in DeltaType
         /\ AddDelta(v, e).size = v.size + 1
         /\ Len(AddDelta(v, e).slot) = v.size + 1
         /\ \A i \in 1 .. v.size : AddDelta(v, e).slot[i] = v.slot[i]
         /\ AddDelta(v, e).slot[v.size + 1] = e
         /\ AddDelta(v, e).index = [v.index EXCEPT ![e] = v.size + 1]
<1> DEFINE s == SubSeq(v.slot, 1, v.size)
<1>1. s \in Seq(Event) /\ Len(s) = v.size /\ \A i \in 1 .. v.size : s[i] = v.slot[i]
  BY DEF DeltaType
<1>2. Append(s, e) \in Seq(Event) /\ Len(Append(s, e)) = v.size + 1
  BY <1>1 DEF DeltaType
<1>3. /\ \A i \in 1 .. v.size : Append(s, e)[i] = v.slot[i]
      /\ Append(s, e)[v.size + 1] = e
  BY <1>1 DEF DeltaType
<1> HIDE DEF s
<1>4. AddDelta(v, e) = [slot |-> Append(s, e), size |-> v.size + 1,
                        index |-> [v.index EXCEPT ![e] = v.size + 1]]
  BY DEF AddDelta, s
<1> QED  BY <1>2, <1>3, <1>4 DEF DeltaType

(* remove_delta_event() puts the last event in the slot of e, and changes  *)
(* nothing else of the vector.                                             *)
LEMMA RemoveDeltaFacts ==
  ASSUME NEW v \in DeltaType, v.size <= Len(v.slot), NEW e \in Event,
         RemovableDelta(v, e)
  PROVE  /\ RemoveDelta(v, e) \in DeltaType
         /\ v.size \in 1 .. Len(v.slot)
         /\ v.slot[v.size] \in Event
         /\ RemoveDelta(v, e).size = v.size - 1
         /\ Len(RemoveDelta(v, e).slot) = Len(v.slot)
         /\ \A i \in 1 .. Len(v.slot) :
              RemoveDelta(v, e).slot[i] =
                IF i = v.index[e] THEN v.slot[v.size] ELSE v.slot[i]
         /\ \A f \in Event :
              RemoveDelta(v, e).index[f] =
                IF f = e THEN 0
                ELSE IF f = v.slot[v.size] THEN v.index[e] ELSE v.index[f]
<1>1. v.size \in 1 .. Len(v.slot) /\ v.index[e] \in 1 .. Len(v.slot)
  BY DEF RemovableDelta, DeltaType
<1>2. v.slot[v.size] \in Event
  BY <1>1 DEF DeltaType
<1> DEFINE k    == v.index[e]
           last == v.slot[v.size]
           s    == [v.slot EXCEPT ![k] = last]
           x    == [[v.index EXCEPT ![last] = k] EXCEPT ![e] = 0]
<1>3. RemoveDelta(v, e) = [slot |-> s, size |-> v.size - 1, index |-> x]
  BY DEF RemoveDelta
<1>4. v.slot \in Seq(Event) /\ v.index \in [Event -> Nat] /\ k \in Nat
  BY DEF DeltaType
<1>5. /\ s \in Seq(Event)
      /\ Len(s) = Len(v.slot)
      /\ \A i \in 1 .. Len(v.slot) : s[i] = IF i = k THEN last ELSE v.slot[i]
  BY <1>1, <1>2, <1>4
<1>6. /\ x \in [Event -> Nat]
      /\ \A f \in Event : x[f] = IF f = e THEN 0 ELSE IF f = last THEN k ELSE v.index[f]
  BY <1>2, <1>4
<1>7. v.size - 1 \in Nat
  BY <1>1
<1> HIDE DEF s, x
<1> QED  BY <1>1, <1>2, <1>3, <1>5, <1>6, <1>7 DEF DeltaType

-------------------------------------------------------------------------------
(* Cancelling e takes nothing else out of the vector, and moves no event   *)
(* that is still to be triggered to a slot the loop has passed.            *)
LEMMA CancelDeltaFacts ==
  ASSUME TypeOK, DeltaIndexed, DeltaUnique, NEW e \in Event, NEW d,
         d = IF notifyType[e] = "DELTA" THEN RemoveDelta(delta, e) ELSE delta
  PROVE  /\ d \in DeltaType
         /\ d.size <= Len(d.slot)
         /\ Len(d.slot) = Len(delta.slot)
         /\ d.size <= delta.size
         /\ \A f \in Event \ {e} :
              notifyType[f] = "DELTA" =>
                RemovableDelta(d, f) /\ d.index[f] <= delta.index[f]
         /\ \A i \in 1 .. Len(d.slot) :
              d.slot[i] = delta.slot[i] \/ (delta.size > 0 /\ d.slot[i] = delta.slot[delta.size])
         /\ \A i \in 1 .. d.size :
              notifyType[d.slot[i]] = "DELTA" =>
                d.slot[i] # e /\ d.index[d.slot[i]] = i
<1>0. delta \in DeltaType /\ delta.size <= Len(delta.slot)
  BY DEF TypeOK, DeltaType
<1>1. CASE notifyType[e] # "DELTA"
  <2>1. d = delta
    BY <1>1
  <2>2. \A i \in 1 .. delta.size : delta.slot[i] \in Event
    BY <1>0 DEF DeltaType
  <2> QED  BY <1>0, <1>1, <2>1, <2>2 DEF DeltaIndexed, DeltaUnique, DeltaType, RemovableDelta
<1>2. CASE notifyType[e] = "DELTA"
  <2>1. d = RemoveDelta(delta, e) /\ RemovableDelta(delta, e)
    BY <1>2 DEF DeltaIndexed
  <2>2. /\ d \in DeltaType
        /\ delta.size \in 1 .. Len(delta.slot)
        /\ delta.slot[delta.size] \in Event
        /\ d.size = delta.size - 1
        /\ Len(d.slot) = Len(delta.slot)
        /\ \A i \in 1 .. Len(delta.slot) :
             d.slot[i] = IF i = delta.index[e] THEN delta.slot[delta.size] ELSE delta.slot[i]
        /\ \A f \in Event :
             d.index[f] = IF f = e THEN 0
                          ELSE IF f = delta.slot[delta.size] THEN delta.index[e]
                          ELSE delta.index[f]
    BY <1>0, <2>1, RemoveDeltaFacts
  <2>3. delta.index \in [Event -> Nat] /\ delta.size \in Nat /\ delta.slot \in Seq(Event)
    BY <1>0 DEF DeltaType
  <2>8. 1 .. delta.size \subseteq 1 .. Len(delta.slot)
    BY <2>2, <2>3
  <2>4. ASSUME NEW f \in Event \ {e}, notifyType[f] = "DELTA"
        PROVE  RemovableDelta(d, f) /\ d.index[f] <= delta.index[f]
    <3>1. RemovableDelta(delta, f)
      BY <2>4 DEF DeltaIndexed
    <3>2. CASE f = delta.slot[delta.size]
      <4>1. delta.index[f] \in 1 .. delta.size /\ delta.index[e] \in 1 .. delta.size
        BY <2>1, <3>1 DEF RemovableDelta
      <4>2. delta.index[e] # delta.size
        BY <2>1, <3>2 DEF RemovableDelta
      <4>3. delta.slot[delta.index[f]] = f
        BY <3>1 DEF RemovableDelta
      <4>4. d.index[f] = delta.index[e] /\ d.slot[delta.index[e]] = f
        BY <2>2, <2>3, <2>8, <3>2, <4>1
      <4>5. delta.size \in 1 .. delta.size
        BY <2>2, <2>3
      <4>6. delta.index[f] = delta.size
        BY <2>4, <3>2, <4>5 DEF DeltaUnique
      <4> QED  BY <2>2, <2>3, <4>1, <4>2, <4>4, <4>6 DEF RemovableDelta
    <3>3. CASE f # delta.slot[delta.size]
      <4>1. delta.index[f] \in 1 .. delta.size /\ delta.slot[delta.index[f]] = f
        BY <3>1 DEF RemovableDelta
      <4>2. delta.index[f] # delta.size /\ delta.index[f] # delta.index[e]
        BY <2>1, <3>3, <4>1 DEF RemovableDelta
      <4>3. d.index[f] = delta.index[f] /\ d.slot[delta.index[f]] = f
        BY <2>2, <2>3, <2>8, <3>3, <4>1, <4>2
      <4> QED  BY <2>2, <2>3, <4>1, <4>2, <4>3 DEF RemovableDelta
    <3> QED  BY <3>2, <3>3
  <2>5. ASSUME NEW i \in 1 .. d.size, notifyType[d.slot[i]] = "DELTA"
        PROVE  d.slot[i] # e /\ d.index[d.slot[i]] = i
    <3>1. delta.index[e] \in 1 .. delta.size /\ delta.slot[delta.index[e]] = e
      BY <2>1 DEF RemovableDelta
    <3>2. i \in 1 .. delta.size /\ i # delta.size /\ delta.slot[i] \in Event
      BY <2>2, <2>3
    <3>3. delta.size \in 1 .. delta.size
      BY <2>2, <2>3
    <3>4. CASE i = delta.index[e]
      <4>1. d.slot[i] = delta.slot[delta.size]
        BY <2>2, <3>2, <3>4
      <4>2. delta.index[delta.slot[delta.size]] = delta.size
        BY <2>5, <3>3, <4>1 DEF DeltaUnique
      <4>3. delta.slot[delta.size] # e
        BY <3>2, <3>4, <4>2
      <4> QED  BY <2>2, <3>4, <4>1, <4>3
    <3>5. CASE i # delta.index[e]
      <4>1. d.slot[i] = delta.slot[i]
        BY <2>2, <3>2, <3>5
      <4>2. delta.index[delta.slot[i]] = i
        BY <2>5, <3>2, <4>1 DEF DeltaUnique
      <4>3. delta.slot[i] # e
        BY <3>5, <4>2
      <4>4. delta.slot[i] # delta.slot[delta.size]
        BY <2>5, <3>2, <3>3, <4>1, <4>2 DEF DeltaUnique
      <4> QED  BY <2>2, <3>2, <4>1, <4>2, <4>3, <4>4
    <3> QED  BY <3>4, <3>5
  <2>6. d.size <= Len(d.slot) /\ d.size <= delta.size
    BY <2>2, <2>3
  <2>7. \A i \in 1 .. Len(d.slot) :
          d.slot[i] = delta.slot[i] \/ (delta.size > 0 /\ d.slot[i] = delta.slot[delta.size])
    BY <2>2, <2>3
  <2> QED  BY <2>2, <2>4, <2>5, <2>6, <2>7
<1> QED  BY <1>1, <1>2

(* Cancelling e leaves its entry in the queue, without its event, and      *)
(* changes no other entry: afterwards no entry triggers e.                 *)
LEMMA OrphanFacts ==
  ASSUME TypeOK, TimedLinked, NEW e \in Event, firing # e, NEW q,
         q = IF notifyType[e] = "TIMED" THEN Orphan(e) ELSE timedEvents
  PROVE  /\ DOMAIN q = DOMAIN timedEvents
         /\ \A x \in DOMAIN q :
              /\ q[x] \in [event : Event \cup {NoEvent}, time : Time]
              /\ q[x].time = timedEvents[x].time
              /\ q[x].event # e
              /\ q[x].event \in {NoEvent, timedEvents[x].event}
         /\ \A x \in DOMAIN q :
              timedEvents[x].event # e => q[x].event = timedEvents[x].event
<1>1. \A x \in DOMAIN timedEvents :
        timedEvents[x] \in [event : Event \cup {NoEvent}, time : Time]
  BY DEF TypeOK
<1>2. NoEvent \notin Event
  BY NotificationsAssumption
<1>3. \A x \in DOMAIN timedEvents :
        timedEvents[x].event = e => notifyType[e] = "TIMED" /\ timed[e] = x
  BY <1>2 DEF TimedLinked, Live
<1>4. CASE notifyType[e] # "TIMED"
  <2>1. q = timedEvents
    BY <1>4
  <2> QED  BY <1>1, <1>3, <1>4, <2>1
<1>5. CASE notifyType[e] = "TIMED"
  <2>1. timed[e] \in DOMAIN timedEvents /\ timedEvents[timed[e]].event = e
    BY <1>5 DEF TimedLinked
  <2>2. q = [timedEvents EXCEPT ![timed[e]].event = NoEvent]
    BY <1>5 DEF Orphan
  <2>3. /\ DOMAIN q = DOMAIN timedEvents
        /\ \A x \in DOMAIN timedEvents :
             q[x] = IF x = timed[e] THEN [timedEvents[x] EXCEPT !.event = NoEvent]
                                    ELSE timedEvents[x]
    BY <2>1, <2>2
  <2>4. ASSUME NEW x \in DOMAIN timedEvents, x = timed[e]
        PROVE  q[x] = [event |-> NoEvent, time |-> timedEvents[x].time]
    BY <1>1, <2>3, <2>4
  <2>5. ASSUME NEW x \in DOMAIN timedEvents, x # timed[e]
        PROVE  q[x] = timedEvents[x] /\ timedEvents[x].event # e
    BY <1>3, <2>3, <2>5
  <2>6. NoEvent # e
    BY <1>2
  <2>7. ASSUME NEW x \in DOMAIN timedEvents
        PROVE  /\ q[x] \in [event : Event \cup {NoEvent}, time : Time]
               /\ q[x].time = timedEvents[x].time
               /\ q[x].event # e
               /\ q[x].event \in {NoEvent, timedEvents[x].event}
               /\ timedEvents[x].event # e => q[x].event = timedEvents[x].event
    <3>1. CASE x = timed[e]
      <4>1. timedEvents[x].time \in Time
        BY <1>1
      <4>2. timedEvents[x].event = e
        BY <2>1, <3>1
      <4>3. q[x] = [event |-> NoEvent, time |-> timedEvents[x].time]
        BY <2>4, <3>1
      <4> QED  BY <2>6, <4>1, <4>2, <4>3
    <3>2. CASE x # timed[e]
      BY <1>1, <2>5, <3>2
    <3> QED  BY <3>1, <3>2
  <2> QED  BY <2>3, <2>7
<1> QED  BY <1>4, <1>5

-------------------------------------------------------------------------------
(* The initial state satisfies the invariant.                              *)
LEMMA InitIInv == Init => IInv
<1> SUFFICES ASSUME Init PROVE IInv
  OBVIOUS
<1> USE NotificationsAssumption DEF Init, EmptyDelta
<1>1. <<>> \in Seq(Event) /\ Len(<<>>) = 0
  OBVIOUS
<1>2. delta = [slot |-> <<>>, size |-> 0, index |-> [e \in Event |-> 0]]
  OBVIOUS
<1>3. TypeOK
  BY <1>1, <1>2 DEF TypeOK, Phase, Time
<1>4. DeltaIndexed
  BY <1>1, <1>2 DEF DeltaIndexed, RemovableDelta
<1>5. TimedLinked
  BY <1>1, <1>2 DEF TimedLinked, Live
<1>6. NoLostDelta
  BY <1>1, <1>2 DEF NoLostDelta
<1>7. TimedInFuture
  BY <1>1, <1>2 DEF TimedInFuture, Live
<1>8. DeltaUnique
  BY <1>1, <1>2 DEF DeltaUnique
<1>9. VectorExact
  BY <1>1, <1>2 DEF VectorExact
<1>10. FiringOK
  BY <1>1, <1>2 DEF FiringOK
<1> QED  BY <1>3, <1>4, <1>5, <1>6, <1>7, <1>8, <1>9, <1>10 DEF IInv

(* The end of trigger(), which resets the members of the event, keeps the  *)
(* invariant.                                                              *)
LEMMA TriggerEndIInv == IInv /\ TriggerEnd => IInv'
<1> SUFFICES ASSUME IInv, TriggerEnd PROVE IInv'
  OBVIOUS
<1> USE NotificationsAssumption DEF IInv, TriggerEnd, Unindexed
<1>1. TypeOK'
  BY DEF TypeOK, FiringOK, VectorExact, Phase, Time
<1>2. DeltaIndexed'
  BY DEF TypeOK, FiringOK, VectorExact, DeltaIndexed, RemovableDelta
<1>3. TimedLinked'
  <2>1. ASSUME NEW x \in Live PROVE timedEvents[x].event # firing
    <3>1. timedEvents[x].event = firing => notifyType[firing] = "TIMED" /\ timed[firing] = x
      BY DEF TimedLinked
    <3>2. x # NoEntry
      BY DEF TypeOK, Live
    <3> QED  BY <3>1, <3>2 DEF FiringOK, TypeOK, Phase
  <2>2. \A x \in Live : timedEvents[x].event \in Event
    BY DEF TypeOK, Live
  <2> QED  BY <2>1, <2>2 DEF TypeOK, TimedLinked, Live
<1>4. NoLostDelta'
  BY DEF TypeOK, FiringOK, VectorExact, DeltaIndexed, RemovableDelta, TimedLinked, NoLostDelta
<1>5. TimedInFuture'
  BY DEF TypeOK, FiringOK, VectorExact, DeltaIndexed, RemovableDelta, TimedLinked, NoLostDelta, TimedInFuture, Live
<1>6. DeltaUnique'
  BY DEF TypeOK, FiringOK, VectorExact, DeltaUnique
<1>7. VectorExact'
  BY DEF TypeOK, FiringOK, VectorExact, DeltaIndexed, RemovableDelta, TimedLinked, NoLostDelta
<1>8. FiringOK'
  BY DEF TypeOK, FiringOK, VectorExact, DeltaIndexed, RemovableDelta, TimedLinked, NoLostDelta
<1> QED  BY <1>1, <1>2, <1>3, <1>4, <1>5, <1>6, <1>7, <1>8 DEF IInv

(* The end of the evaluation, which touches no notification, keeps the     *)
(* invariant.                                                              *)
LEMMA UpdatePhaseIInv == IInv /\ UpdatePhase => IInv'
<1> SUFFICES ASSUME IInv, UpdatePhase PROVE IInv'
  OBVIOUS
<1> USE NotificationsAssumption DEF IInv, UpdatePhase, Calling
<1>1. TypeOK'
  BY DEF TypeOK, FiringOK, VectorExact, Phase, Time
<1>2. DeltaIndexed'
  BY DEF TypeOK, FiringOK, VectorExact, DeltaIndexed, RemovableDelta
<1>3. TimedLinked'
  BY DEF TypeOK, FiringOK, VectorExact, DeltaIndexed, RemovableDelta, TimedLinked, NoLostDelta, Live
<1>4. NoLostDelta'
  BY DEF TypeOK, FiringOK, VectorExact, DeltaIndexed, RemovableDelta, TimedLinked, NoLostDelta
<1>5. TimedInFuture'
  BY DEF TypeOK, FiringOK, VectorExact, DeltaIndexed, RemovableDelta, TimedLinked, NoLostDelta, TimedInFuture, Live
<1>6. DeltaUnique'
  BY DEF TypeOK, FiringOK, VectorExact, DeltaUnique
<1>7. VectorExact'
  BY DEF TypeOK, FiringOK, VectorExact, DeltaIndexed, RemovableDelta, TimedLinked, NoLostDelta
<1>8. FiringOK'
  BY DEF TypeOK, FiringOK, VectorExact, DeltaIndexed, RemovableDelta, TimedLinked, NoLostDelta
<1> QED  BY <1>1, <1>2, <1>3, <1>4, <1>5, <1>6, <1>7, <1>8 DEF IInv

(* The start of the notification loop of crunch(), over the whole vector,  *)
(* keeps the invariant.                                                    *)
LEMMA NotifyPhaseIInv == IInv /\ NotifyPhase => IInv'
<1> SUFFICES ASSUME IInv, NotifyPhase PROVE IInv'
  OBVIOUS
<1> USE NotificationsAssumption DEF IInv, NotifyPhase, Calling
<1>1. TypeOK'
  BY DEF TypeOK, FiringOK, VectorExact, Phase, Time
<1>2. DeltaIndexed'
  BY DEF TypeOK, FiringOK, VectorExact, DeltaIndexed, RemovableDelta
<1>3. TimedLinked'
  BY DEF TypeOK, FiringOK, VectorExact, DeltaIndexed, RemovableDelta, TimedLinked, NoLostDelta, Live
<1>4. NoLostDelta'
  BY DEF TypeOK, FiringOK, VectorExact, DeltaIndexed, RemovableDelta, TimedLinked, NoLostDelta
<1>5. TimedInFuture'
  BY DEF TypeOK, FiringOK, VectorExact, DeltaIndexed, RemovableDelta, TimedLinked, NoLostDelta, TimedInFuture, Live
<1>6. DeltaUnique'
  BY DEF TypeOK, FiringOK, VectorExact, DeltaUnique
<1>7. VectorExact'
  BY DEF TypeOK, FiringOK, VectorExact, DeltaIndexed, RemovableDelta, TimedLinked, NoLostDelta
<1>8. FiringOK'
  BY DEF TypeOK, FiringOK, VectorExact, DeltaIndexed, RemovableDelta, TimedLinked, NoLostDelta
<1> QED  BY <1>1, <1>2, <1>3, <1>4, <1>5, <1>6, <1>7, <1>8 DEF IInv

(* One round of the notification loop, which fires the event of one slot,  *)
(* keeps the invariant.                                                    *)
LEMMA DeltaStepIInv == IInv /\ DeltaStep => IInv'
<1> SUFFICES ASSUME IInv, DeltaStep PROVE IInv'
  OBVIOUS
<1> USE NotificationsAssumption DEF IInv, DeltaStep
<1>1. TypeOK'
  BY DEF TypeOK, FiringOK, VectorExact, Phase, Time
<1>2. DeltaIndexed'
  BY DEF TypeOK, FiringOK, VectorExact, DeltaIndexed, RemovableDelta
<1>3. TimedLinked'
  BY DEF TypeOK, FiringOK, VectorExact, DeltaIndexed, RemovableDelta, TimedLinked, NoLostDelta, Live
<1>4. NoLostDelta'
  <2>1. ASSUME NEW e \in Event \ {delta.slot[cursor]}, notifyType[e] = "DELTA"
        PROVE  delta.index[e] <= cursor - 1
    <3>1. delta.index[e] <= cursor
      BY <2>1 DEF NoLostDelta, TypeOK
    <3>2. delta.index[e] # cursor
      BY <2>1 DEF DeltaIndexed, RemovableDelta
    <3> QED  BY <3>1, <3>2 DEF TypeOK
  <2> QED  BY <2>1 DEF NoLostDelta
<1>5. TimedInFuture'
  BY DEF TypeOK, FiringOK, VectorExact, DeltaIndexed, RemovableDelta, TimedLinked, NoLostDelta, TimedInFuture, Live
<1>6. DeltaUnique'
  BY DEF TypeOK, FiringOK, VectorExact, DeltaUnique
<1>7. VectorExact'
  BY DEF TypeOK, FiringOK, VectorExact, DeltaIndexed, RemovableDelta, TimedLinked, NoLostDelta
<1>8. FiringOK'
  BY DEF TypeOK, FiringOK, VectorExact, DeltaIndexed, RemovableDelta, TimedLinked, NoLostDelta
<1> QED  BY <1>1, <1>2, <1>3, <1>4, <1>5, <1>6, <1>7, <1>8 DEF IInv

(* resize(0) after the notification loop: every event left in the vector   *)
(* has been triggered, and the step keeps the invariant.                   *)
LEMMA DeltaDoneIInv == IInv /\ DeltaDone => IInv'
<1> SUFFICES ASSUME IInv, DeltaDone PROVE IInv'
  OBVIOUS
<1> USE NotificationsAssumption DEF IInv, DeltaDone, ClearDelta
<1>1. TypeOK'
  <2>1. delta' = [slot |-> <<>>, size |-> 0, index |-> delta.index]
    BY DEF TypeOK
  <2>2. <<>> \in Seq(Event) /\ Len(<<>>) = 0
    OBVIOUS
  <2>3. delta.index \in [Event -> Nat]
    BY DEF TypeOK
  <2>4. cursor' = 0
    OBVIOUS
  <2>5. /\ delta' \in [slot : Seq(Event), size : Nat, index : [Event -> Nat]]
        /\ delta'.size <= Len(delta'.slot)
        /\ cursor' \in 0 .. Len(delta'.slot)
    <3> HIDE DEF IInv, DeltaDone, ClearDelta
    <3> QED  BY <2>1, <2>2, <2>3, <2>4
  <2> QED  BY <2>5 DEF TypeOK, Phase, Time
<1>2. DeltaIndexed'
  BY DEF TypeOK, NoLostDelta, DeltaIndexed, RemovableDelta
<1>3. TimedLinked'
  BY DEF TypeOK, FiringOK, VectorExact, DeltaIndexed, RemovableDelta, TimedLinked, NoLostDelta, Live
<1>4. NoLostDelta'
  BY DEF TypeOK, FiringOK, VectorExact, DeltaIndexed, RemovableDelta, TimedLinked, NoLostDelta
<1>5. TimedInFuture'
  BY DEF TypeOK, FiringOK, VectorExact, DeltaIndexed, RemovableDelta, TimedLinked, NoLostDelta, TimedInFuture, Live
<1>6. DeltaUnique'
  BY DEF TypeOK, FiringOK, VectorExact, DeltaUnique
<1>7. VectorExact'
  BY DEF TypeOK, FiringOK, VectorExact, DeltaIndexed, RemovableDelta, TimedLinked, NoLostDelta
<1>8. FiringOK'
  BY DEF TypeOK, FiringOK, VectorExact, DeltaIndexed, RemovableDelta, TimedLinked, NoLostDelta
<1> QED  BY <1>1, <1>2, <1>3, <1>4, <1>5, <1>6, <1>7, <1>8 DEF IInv

(* next_time(), which drops cancelled entries and advances the time, keeps *)
(* the invariant.                                                          *)
LEMMA NextTimeIInv == IInv /\ NextTime => IInv'
<1> SUFFICES ASSUME IInv, NextTime PROVE IInv'
  OBVIOUS
<1> USE NotificationsAssumption DEF IInv, NextTime, Extract, Live
<1>1. TypeOK'
  BY DEF TypeOK, FiringOK, VectorExact, Phase, Time
<1>2. DeltaIndexed'
  BY DEF TypeOK, FiringOK, VectorExact, DeltaIndexed, RemovableDelta
<1>3. TimedLinked'
  BY DEF TypeOK, FiringOK, VectorExact, DeltaIndexed, RemovableDelta, TimedLinked, NoLostDelta, Live
<1>4. NoLostDelta'
  BY DEF TypeOK, FiringOK, VectorExact, DeltaIndexed, RemovableDelta, TimedLinked, NoLostDelta
<1>5. TimedInFuture'
  <2>1. PICK top \in Live :
            /\ \A x \in Live : timedEvents[top].time <= timedEvents[x].time
            /\ currTime' = timedEvents[top].time
    BY Zenon
  <2>2. \A x \in Live' : x \in Live /\ timedEvents'[x] = timedEvents[x]
    BY DEF Live
  <2>3. \A x \in Live : timedEvents[x].time \in Time
    BY DEF TypeOK, Live
  <2> QED  BY <2>1, <2>2, <2>3 DEF TimedInFuture, Time
<1>6. DeltaUnique'
  BY DEF TypeOK, FiringOK, VectorExact, DeltaUnique
<1>7. VectorExact'
  BY DEF TypeOK, FiringOK, VectorExact, DeltaIndexed, RemovableDelta, TimedLinked, NoLostDelta
<1>8. FiringOK'
  BY DEF TypeOK, FiringOK, VectorExact, DeltaIndexed, RemovableDelta, TimedLinked, NoLostDelta
<1> QED  BY <1>1, <1>2, <1>3, <1>4, <1>5, <1>6, <1>7, <1>8 DEF IInv

(* next_time() with nothing live in the queue keeps the invariant.         *)
LEMMA NoNextTimeIInv == IInv /\ NoNextTime => IInv'
<1> SUFFICES ASSUME IInv, NoNextTime PROVE IInv'
  OBVIOUS
<1> USE NotificationsAssumption DEF IInv, NoNextTime, Live
<1>1. TypeOK'
  BY DEF TypeOK, FiringOK, VectorExact, Phase, Time
<1>2. DeltaIndexed'
  BY DEF TypeOK, FiringOK, VectorExact, DeltaIndexed, RemovableDelta
<1>3. TimedLinked'
  BY DEF TypeOK, FiringOK, VectorExact, DeltaIndexed, RemovableDelta, TimedLinked, NoLostDelta, Live
<1>4. NoLostDelta'
  BY DEF TypeOK, FiringOK, VectorExact, DeltaIndexed, RemovableDelta, TimedLinked, NoLostDelta
<1>5. TimedInFuture'
  BY DEF TypeOK, FiringOK, VectorExact, DeltaIndexed, RemovableDelta, TimedLinked, NoLostDelta, TimedInFuture, Live
<1>6. DeltaUnique'
  BY DEF TypeOK, FiringOK, VectorExact, DeltaUnique
<1>7. VectorExact'
  BY DEF TypeOK, FiringOK, VectorExact, DeltaIndexed, RemovableDelta, TimedLinked, NoLostDelta
<1>8. FiringOK'
  BY DEF TypeOK, FiringOK, VectorExact, DeltaIndexed, RemovableDelta, TimedLinked, NoLostDelta
<1> QED  BY <1>1, <1>2, <1>3, <1>4, <1>5, <1>6, <1>7, <1>8 DEF IInv

(* extract_top() and the deletion of one entry of the current time keeps   *)
(* the invariant.                                                          *)
LEMMA TimedStepIInv == IInv /\ TimedStep => IInv'
<1> SUFFICES ASSUME IInv, TimedStep PROVE IInv'
  OBVIOUS
<1> USE NotificationsAssumption DEF IInv, TimedStep, Extract
<1>1. TypeOK'
  BY DEF TypeOK, FiringOK, VectorExact, Phase, Time
<1>2. DeltaIndexed'
  BY DEF TypeOK, FiringOK, VectorExact, DeltaIndexed, RemovableDelta
<1>3. TimedLinked'
  BY DEF TypeOK, FiringOK, VectorExact, DeltaIndexed, RemovableDelta, TimedLinked, NoLostDelta, Live
<1>4. NoLostDelta'
  BY DEF TypeOK, FiringOK, VectorExact, DeltaIndexed, RemovableDelta, TimedLinked, NoLostDelta
<1>5. TimedInFuture'
  BY DEF TypeOK, FiringOK, VectorExact, DeltaIndexed, RemovableDelta, TimedLinked, NoLostDelta, TimedInFuture, Live
<1>6. DeltaUnique'
  BY DEF TypeOK, FiringOK, VectorExact, DeltaUnique
<1>7. VectorExact'
  BY DEF TypeOK, FiringOK, VectorExact, DeltaIndexed, RemovableDelta, TimedLinked, NoLostDelta
<1>8. FiringOK'
  <2>1. PICK x \in DOMAIN timedEvents :
            /\ firing' = timedEvents[x].event
            /\ timed' = IF timedEvents[x].event # NoEvent
                        THEN [timed EXCEPT ![timedEvents[x].event] = NoEntry] ELSE timed
    BY Zenon
  <2>2. CASE firing' # NoEvent
    <3>1. x \in Live /\ firing' \in Event
      BY <2>1, <2>2 DEF TypeOK, Live
    <3>2. notifyType[firing'] = "TIMED"
      BY <2>1, <3>1 DEF TimedLinked
    <3>3. timed'[firing'] = NoEntry
      BY <2>1, <2>2, <3>1 DEF TypeOK
    <3> QED  BY <3>2, <3>3 DEF FiringOK
  <2>3. CASE firing' = NoEvent
    BY <2>3 DEF FiringOK
  <2> QED  BY <2>2, <2>3
<1> QED  BY <1>1, <1>2, <1>3, <1>4, <1>5, <1>6, <1>7, <1>8 DEF IInv

(* The end of the timed notification phase keeps the invariant.            *)
LEMMA TimedDoneIInv == IInv /\ TimedDone => IInv'
<1> SUFFICES ASSUME IInv, TimedDone PROVE IInv'
  OBVIOUS
<1> USE NotificationsAssumption DEF IInv, TimedDone
<1>1. TypeOK'
  BY DEF TypeOK, FiringOK, VectorExact, Phase, Time
<1>2. DeltaIndexed'
  BY DEF TypeOK, FiringOK, VectorExact, DeltaIndexed, RemovableDelta
<1>3. TimedLinked'
  BY DEF TypeOK, FiringOK, VectorExact, DeltaIndexed, RemovableDelta, TimedLinked, NoLostDelta, Live
<1>4. NoLostDelta'
  BY DEF TypeOK, FiringOK, VectorExact, DeltaIndexed, RemovableDelta, TimedLinked, NoLostDelta
<1>5. TimedInFuture'
  BY DEF TypeOK, FiringOK, VectorExact, DeltaIndexed, RemovableDelta, TimedLinked, NoLostDelta, TimedInFuture, Live
<1>6. DeltaUnique'
  BY DEF TypeOK, FiringOK, VectorExact, DeltaUnique
<1>7. VectorExact'
  BY DEF TypeOK, FiringOK, VectorExact, DeltaIndexed, RemovableDelta, TimedLinked, NoLostDelta
<1>8. FiringOK'
  BY DEF TypeOK, FiringOK, VectorExact, DeltaIndexed, RemovableDelta, TimedLinked, NoLostDelta
<1> QED  BY <1>1, <1>2, <1>3, <1>4, <1>5, <1>6, <1>7, <1>8 DEF IInv

-------------------------------------------------------------------------------
(* Calls that cancel: cancel(), notify(), and the cancellation of a  *)
(* timeout inside a trigger.                                               *)
LEMMA CancelIInv ==
  ASSUME IInv, NEW e \in Event, Cancel(e)
  PROVE  IInv'
<1> DEFINE d == IF notifyType[e] = "DELTA" THEN RemoveDelta(delta, e) ELSE delta
           q == IF notifyType[e] = "TIMED" THEN Orphan(e) ELSE timedEvents
<1>1. firing # e /\ e # NoEvent
  BY NotificationsAssumption DEF Cancel, Calling
<1>2. /\ d \in DeltaType
      /\ d.size <= Len(d.slot)
      /\ Len(d.slot) = Len(delta.slot)
      /\ d.size <= delta.size
      /\ \A f \in Event \ {e} :
           notifyType[f] = "DELTA" =>
             RemovableDelta(d, f) /\ d.index[f] <= delta.index[f]
      /\ \A i \in 1 .. Len(d.slot) :
           d.slot[i] = delta.slot[i] \/ (delta.size > 0 /\ d.slot[i] = delta.slot[delta.size])
      /\ \A i \in 1 .. d.size :
           notifyType[d.slot[i]] = "DELTA" => d.slot[i] # e /\ d.index[d.slot[i]] = i
  BY CancelDeltaFacts DEF IInv
<1>3. /\ DOMAIN q = DOMAIN timedEvents
      /\ \A x \in DOMAIN q :
           /\ q[x] \in [event : Event \cup {NoEvent}, time : Time]
           /\ q[x].time = timedEvents[x].time
           /\ q[x].event # e
           /\ q[x].event \in {NoEvent, timedEvents[x].event}
      /\ \A x \in DOMAIN q :
           timedEvents[x].event # e => q[x].event = timedEvents[x].event
  BY <1>1, OrphanFacts DEF IInv
<1>4. /\ notifyType' = [notifyType EXCEPT ![e] = "NONE"]
      /\ delta' = d
      /\ timedEvents' = q
      /\ timed' = IF notifyType[e] = "TIMED" THEN [timed EXCEPT ![e] = NoEntry] ELSE timed
      /\ currTime' = currTime /\ phase' = phase /\ cursor' = cursor
      /\ firing' = firing
  BY DEF Cancel, CancelStores
<1> HIDE DEF d, q
<1>5. /\ TypeOK /\ DeltaIndexed /\ TimedLinked /\ NoLostDelta /\ TimedInFuture
      /\ DeltaUnique /\ VectorExact /\ FiringOK
  BY DEF IInv
<1>6. phase \in {"evaluate", "update"} /\ firing = NoEvent
  BY DEF Cancel, Calling
<1>8. /\ \A f \in Event : notifyType'[f] = IF f = e THEN "NONE" ELSE notifyType[f]
      /\ \A f \in Event \ {e} : timed'[f] = timed[f]
      /\ \A i \in 1 .. Len(d.slot) : d.slot[i] \in Event /\ delta.slot[i] \in Event
      /\ 1 .. d.size \subseteq 1 .. Len(d.slot)
      /\ 1 .. d.size \subseteq 1 .. delta.size
  BY <1>2, <1>4, <1>5 DEF TypeOK, DeltaType
<1>9. TypeOK'
  BY <1>1, <1>2, <1>3, <1>4, <1>5, <1>6 DEF TypeOK, DeltaType
<1>10. DeltaIndexed'
  BY <1>2, <1>4, <1>5 DEF DeltaIndexed, RemovableDelta, TypeOK, DeltaType
<1>11. TimedLinked'
  BY <1>1, <1>3, <1>4, <1>5, <1>6, <1>8, NotificationsAssumption DEF TimedLinked, Live, TypeOK
<1>12. NoLostDelta'
  BY <1>4, <1>6 DEF NoLostDelta
<1>13. TimedInFuture'
  BY <1>3, <1>4, <1>5 DEF TimedInFuture, Live
<1>14. DeltaUnique'
  BY <1>2, <1>4, <1>8 DEF DeltaUnique
<1>15. VectorExact'
  <2>1. ASSUME NEW i \in 1 .. d.size PROVE notifyType'[d.slot[i]] = "DELTA"
    <3>1. \A j \in 1 .. delta.size : notifyType[delta.slot[j]] = "DELTA"
      BY <1>5, <1>6 DEF VectorExact
    <3>2. delta.size > 0 => delta.size \in 1 .. delta.size
      BY <1>5 DEF TypeOK
    <3>3. notifyType[d.slot[i]] = "DELTA"
      BY <1>2, <1>8, <3>1, <3>2
    <3> QED  BY <1>2, <1>8, <3>3
  <2> QED  BY <1>4, <1>6, <2>1 DEF VectorExact
<1>16. FiringOK'
  BY <1>1, <1>4, <1>5, <1>6 DEF FiringOK, TypeOK
<1> QED  BY <1>9, <1>10, <1>11, <1>12, <1>13, <1>14, <1>15, <1>16 DEF IInv

(* notify(), which cancels and then fires the event, keeps the invariant.  *)
LEMMA NotifyImmediateIInv ==
  ASSUME IInv, NEW e \in Event, NotifyImmediate(e)
  PROVE  IInv'
<1> DEFINE d == IF notifyType[e] = "DELTA" THEN RemoveDelta(delta, e) ELSE delta
           q == IF notifyType[e] = "TIMED" THEN Orphan(e) ELSE timedEvents
<1>1. firing # e /\ e # NoEvent
  BY NotificationsAssumption DEF NotifyImmediate, Calling
<1>2. /\ d \in DeltaType
      /\ d.size <= Len(d.slot)
      /\ Len(d.slot) = Len(delta.slot)
      /\ d.size <= delta.size
      /\ \A f \in Event \ {e} :
           notifyType[f] = "DELTA" =>
             RemovableDelta(d, f) /\ d.index[f] <= delta.index[f]
      /\ \A i \in 1 .. Len(d.slot) :
           d.slot[i] = delta.slot[i] \/ (delta.size > 0 /\ d.slot[i] = delta.slot[delta.size])
      /\ \A i \in 1 .. d.size :
           notifyType[d.slot[i]] = "DELTA" => d.slot[i] # e /\ d.index[d.slot[i]] = i
  BY CancelDeltaFacts DEF IInv
<1>3. /\ DOMAIN q = DOMAIN timedEvents
      /\ \A x \in DOMAIN q :
           /\ q[x] \in [event : Event \cup {NoEvent}, time : Time]
           /\ q[x].time = timedEvents[x].time
           /\ q[x].event # e
           /\ q[x].event \in {NoEvent, timedEvents[x].event}
      /\ \A x \in DOMAIN q :
           timedEvents[x].event # e => q[x].event = timedEvents[x].event
  BY <1>1, OrphanFacts DEF IInv
<1>4. /\ notifyType' = [notifyType EXCEPT ![e] = "NONE"]
      /\ delta' = d
      /\ timedEvents' = q
      /\ timed' = IF notifyType[e] = "TIMED" THEN [timed EXCEPT ![e] = NoEntry] ELSE timed
      /\ currTime' = currTime /\ phase' = phase /\ cursor' = cursor
      /\ firing' = e
  BY DEF NotifyImmediate, CancelStores
<1> HIDE DEF d, q
<1>5. /\ TypeOK /\ DeltaIndexed /\ TimedLinked /\ NoLostDelta /\ TimedInFuture
      /\ DeltaUnique /\ VectorExact /\ FiringOK
  BY DEF IInv
<1>6. phase \in {"evaluate"} /\ firing = NoEvent
  BY DEF NotifyImmediate, Calling
<1>8. /\ \A f \in Event : notifyType'[f] = IF f = e THEN "NONE" ELSE notifyType[f]
      /\ \A f \in Event \ {e} : timed'[f] = timed[f]
      /\ \A i \in 1 .. Len(d.slot) : d.slot[i] \in Event /\ delta.slot[i] \in Event
      /\ 1 .. d.size \subseteq 1 .. Len(d.slot)
      /\ 1 .. d.size \subseteq 1 .. delta.size
  BY <1>2, <1>4, <1>5 DEF TypeOK, DeltaType
<1>9. TypeOK'
  BY <1>1, <1>2, <1>3, <1>4, <1>5, <1>6 DEF TypeOK, DeltaType
<1>10. DeltaIndexed'
  BY <1>2, <1>4, <1>5 DEF DeltaIndexed, RemovableDelta, TypeOK, DeltaType
<1>11. TimedLinked'
  BY <1>1, <1>3, <1>4, <1>5, <1>6, <1>8, NotificationsAssumption DEF TimedLinked, Live, TypeOK
<1>12. NoLostDelta'
  BY <1>4, <1>6 DEF NoLostDelta
<1>13. TimedInFuture'
  BY <1>3, <1>4, <1>5 DEF TimedInFuture, Live
<1>14. DeltaUnique'
  BY <1>2, <1>4, <1>8 DEF DeltaUnique
<1>15. VectorExact'
  <2>1. ASSUME NEW i \in 1 .. d.size PROVE notifyType'[d.slot[i]] = "DELTA"
    <3>1. \A j \in 1 .. delta.size : notifyType[delta.slot[j]] = "DELTA"
      BY <1>5, <1>6 DEF VectorExact
    <3>2. delta.size > 0 => delta.size \in 1 .. delta.size
      BY <1>5 DEF TypeOK
    <3>3. notifyType[d.slot[i]] = "DELTA"
      BY <1>2, <1>8, <3>1, <3>2
    <3> QED  BY <1>2, <1>8, <3>3
  <2> QED  BY <1>4, <1>6, <2>1 DEF VectorExact
<1>16. FiringOK'
  BY <1>1, <1>4, <1>5, <1>6 DEF FiringOK, TypeOK
<1> QED  BY <1>9, <1>10, <1>11, <1>12, <1>13, <1>14, <1>15, <1>16 DEF IInv

(* The cancellation of a timeout event by a process that another event     *)
(* wakes, in the middle of a loop or not, keeps the invariant.             *)
LEMMA CancelInTriggerIInv ==
  ASSUME IInv, NEW c \in Event, CancelInTrigger(c)
  PROVE  IInv'
<1> DEFINE d == IF notifyType[c] = "DELTA" THEN RemoveDelta(delta, c) ELSE delta
           q == IF notifyType[c] = "TIMED" THEN Orphan(c) ELSE timedEvents
<1>1. firing # c /\ c # NoEvent
  BY NotificationsAssumption DEF CancelInTrigger
<1>2. /\ d \in DeltaType
      /\ d.size <= Len(d.slot)
      /\ Len(d.slot) = Len(delta.slot)
      /\ d.size <= delta.size
      /\ \A f \in Event \ {c} :
           notifyType[f] = "DELTA" =>
             RemovableDelta(d, f) /\ d.index[f] <= delta.index[f]
      /\ \A i \in 1 .. Len(d.slot) :
           d.slot[i] = delta.slot[i] \/ (delta.size > 0 /\ d.slot[i] = delta.slot[delta.size])
      /\ \A i \in 1 .. d.size :
           notifyType[d.slot[i]] = "DELTA" => d.slot[i] # c /\ d.index[d.slot[i]] = i
  BY CancelDeltaFacts DEF IInv
<1>3. /\ DOMAIN q = DOMAIN timedEvents
      /\ \A x \in DOMAIN q :
           /\ q[x] \in [event : Event \cup {NoEvent}, time : Time]
           /\ q[x].time = timedEvents[x].time
           /\ q[x].event # c
           /\ q[x].event \in {NoEvent, timedEvents[x].event}
      /\ \A x \in DOMAIN q :
           timedEvents[x].event # c => q[x].event = timedEvents[x].event
  BY <1>1, OrphanFacts DEF IInv
<1>4. /\ notifyType' = [notifyType EXCEPT ![c] = "NONE"]
      /\ delta' = [d EXCEPT !.index[c] = 0]
      /\ timedEvents' = q
      /\ timed' = [timed EXCEPT ![c] = NoEntry]
      /\ currTime' = currTime /\ phase' = phase /\ cursor' = cursor
      /\ firing' = firing
  BY DEF CancelInTrigger, Unindexed
<1> HIDE DEF d, q
<1>5. /\ TypeOK /\ DeltaIndexed /\ TimedLinked /\ NoLostDelta /\ TimedInFuture
      /\ DeltaUnique /\ VectorExact /\ FiringOK
  BY DEF IInv
<1>6. firing \in Event /\ NoEntry \notin Entry
  BY <1>5, NotificationsAssumption DEF CancelInTrigger, TypeOK
<1>7. /\ delta'.slot = d.slot /\ delta'.size = d.size
      /\ delta'.index = [d.index EXCEPT ![c] = 0]
      /\ delta' \in DeltaType
  BY <1>2, <1>4 DEF DeltaType
<1>8. /\ \A f \in Event : notifyType'[f] = IF f = c THEN "NONE" ELSE notifyType[f]
      /\ \A f \in Event \ {c} : timed'[f] = timed[f]
      /\ \A i \in 1 .. Len(d.slot) : d.slot[i] \in Event /\ delta.slot[i] \in Event
      /\ 1 .. d.size \subseteq 1 .. Len(d.slot)
      /\ 1 .. d.size \subseteq 1 .. delta.size
  BY <1>2, <1>4, <1>5 DEF TypeOK, DeltaType
<1>9. TypeOK'
  BY <1>1, <1>2, <1>3, <1>4, <1>5, <1>7 DEF TypeOK, DeltaType
<1>10. DeltaIndexed'
  BY <1>2, <1>4, <1>5, <1>7 DEF DeltaIndexed, RemovableDelta, TypeOK, DeltaType
<1>11. TimedLinked'
  BY <1>1, <1>3, <1>4, <1>5, <1>6, <1>8, NotificationsAssumption DEF TimedLinked, Live, TypeOK
<1>12. NoLostDelta'
  <2>1. ASSUME phase = "notify", NEW f \in Event \ {firing}, notifyType'[f] = "DELTA"
        PROVE  delta'.index[f] <= cursor
    <3>1. f # c /\ notifyType[f] = "DELTA"
      BY <1>8, <2>1
    <3>2. delta.index[f] <= cursor /\ d.index[f] <= delta.index[f]
      BY <1>2, <1>5, <2>1, <3>1 DEF NoLostDelta
    <3>3. delta'.index[f] = d.index[f]
      BY <1>2, <1>7, <3>1 DEF DeltaType
    <3> QED  BY <1>2, <1>5, <3>2, <3>3 DEF TypeOK, DeltaType
  <2>2. phase \in {"advance", "timednotify"} => \A f \in Event : notifyType'[f] # "DELTA"
    BY <1>5, <1>8 DEF NoLostDelta
  <2> QED  BY <1>4, <2>1, <2>2 DEF NoLostDelta
<1>13. TimedInFuture'
  BY <1>3, <1>4, <1>5 DEF TimedInFuture, Live
<1>14. DeltaUnique'
  BY <1>2, <1>4, <1>7, <1>8 DEF DeltaUnique, DeltaType
<1>15. VectorExact'
  <2>1. CASE phase = "evaluate"
    <3>1. ASSUME NEW i \in 1 .. d.size PROVE notifyType'[d.slot[i]] = "DELTA"
      <4>1. \A j \in 1 .. delta.size : notifyType[delta.slot[j]] = "DELTA"
        BY <1>5, <2>1 DEF VectorExact
      <4>2. delta.size > 0 => delta.size \in 1 .. delta.size
        BY <1>5 DEF TypeOK
      <4>3. notifyType[d.slot[i]] = "DELTA"
        BY <1>2, <1>8, <4>1, <4>2
      <4> QED  BY <1>2, <1>8, <4>3
    <3> QED  BY <1>4, <1>7, <2>1, <3>1 DEF VectorExact
  <2>2. CASE phase = "notify"
    <3>1. ASSUME NEW i \in 1 .. Len(d.slot), i <= d.size \/ i <= cursor
          PROVE  notifyType'[d.slot[i]] # "TIMED"
      <4>1. CASE d.slot[i] = delta.slot[i]
        <5>1. i \in 1 .. Len(delta.slot) /\ (i <= delta.size \/ i <= cursor)
          BY <1>2, <1>5, <3>1 DEF TypeOK, DeltaType
        <5>2. notifyType[delta.slot[i]] # "TIMED"
          BY <1>5, <2>2, <5>1 DEF VectorExact
        <5> QED  BY <1>8, <4>1, <5>2
      <4>2. CASE delta.size > 0 /\ d.slot[i] = delta.slot[delta.size]
        <5>1. delta.size \in 1 .. Len(delta.slot)
          BY <1>5, <4>2 DEF TypeOK
        <5>2. notifyType[delta.slot[delta.size]] # "TIMED"
          BY <1>5, <2>2, <5>1 DEF VectorExact
        <5> QED  BY <1>8, <4>2, <5>2
      <4> QED  BY <1>2, <4>1, <4>2
    <3> QED  BY <1>4, <1>7, <2>2, <3>1 DEF VectorExact
  <2>3. CASE phase \in {"update", "advance", "timednotify"}
    <3>1. phase = "timednotify"
      BY <1>5, <1>6, <2>3, NotificationsAssumption DEF FiringOK
    <3>2. d.size = 0
      BY <1>2, <1>5, <3>1 DEF VectorExact, DeltaType
    <3> QED  BY <1>4, <1>7, <3>1, <3>2 DEF VectorExact
  <2> QED  BY <1>5, <2>1, <2>2, <2>3 DEF TypeOK, Phase
<1>16. FiringOK'
  BY <1>1, <1>4, <1>5, <1>6, <1>7 DEF FiringOK, TypeOK
<1> QED  BY <1>9, <1>10, <1>11, <1>12, <1>13, <1>14, <1>15, <1>16 DEF IInv

-------------------------------------------------------------------------------
(* Notifications that add: to the vector, and to the queue.           *)
LEMMA NotifyDeltaIInv ==
  ASSUME IInv, NEW e \in Event, NotifyDelta(e)
  PROVE  IInv'
<1> DEFINE d == AddDelta(delta, e)
           q == IF notifyType[e] = "TIMED" THEN Orphan(e) ELSE timedEvents
<1>1. /\ TypeOK /\ DeltaIndexed /\ TimedLinked /\ NoLostDelta /\ TimedInFuture
      /\ DeltaUnique /\ VectorExact /\ FiringOK
  BY DEF IInv
<1>2. /\ phase \in {"evaluate", "update"} /\ firing = NoEvent
      /\ cursor = 0 /\ e # NoEvent /\ notifyType[e] # "DELTA"
  BY <1>1, NotificationsAssumption DEF NotifyDelta, Calling, FiringOK
<1>3. /\ d \in DeltaType
      /\ d.size = delta.size + 1
      /\ Len(d.slot) = delta.size + 1
      /\ \A i \in 1 .. delta.size : d.slot[i] = delta.slot[i]
      /\ d.slot[delta.size + 1] = e
      /\ d.index = [delta.index EXCEPT ![e] = delta.size + 1]
  <2>1. delta \in DeltaType /\ delta.size <= Len(delta.slot)
    BY <1>1 DEF TypeOK, DeltaType
  <2> QED  BY <2>1, AddDeltaFacts
<1>4. /\ DOMAIN q = DOMAIN timedEvents
      /\ \A x \in DOMAIN q :
           /\ q[x] \in [event : Event \cup {NoEvent}, time : Time]
           /\ q[x].time = timedEvents[x].time
           /\ q[x].event # e
           /\ q[x].event \in {NoEvent, timedEvents[x].event}
      /\ \A x \in DOMAIN q :
           timedEvents[x].event # e => q[x].event = timedEvents[x].event
  BY <1>1, <1>2, OrphanFacts
<1>5. /\ notifyType' = [notifyType EXCEPT ![e] = "DELTA"]
      /\ delta' = d
      /\ timedEvents' = q
      /\ timed' = IF notifyType[e] = "TIMED" THEN [timed EXCEPT ![e] = NoEntry] ELSE timed
      /\ currTime' = currTime /\ phase' = phase /\ cursor' = cursor /\ firing' = firing
  BY DEF NotifyDelta
<1> HIDE DEF d, q
<1>6. /\ \A f \in Event : notifyType'[f] = IF f = e THEN "DELTA" ELSE notifyType[f]
      /\ \A f \in Event \ {e} : timed'[f] = timed[f] /\ d.index[f] = delta.index[f]
      /\ d.index[e] = delta.size + 1
      /\ delta.size \in Nat
      /\ \A i \in 1 .. delta.size : delta.slot[i] \in Event
      /\ 1 .. d.size = (1 .. delta.size) \cup {delta.size + 1}
  BY <1>1, <1>3, <1>5 DEF TypeOK, DeltaType
<1>7. \A i \in 1 .. delta.size : notifyType[delta.slot[i]] = "DELTA" /\ delta.slot[i] # e
  BY <1>1, <1>2 DEF VectorExact
<1>8. TypeOK'
  BY <1>1, <1>2, <1>3, <1>4, <1>5 DEF TypeOK, DeltaType
<1>9. DeltaIndexed'
  <2>1. ASSUME NEW f \in Event \ {e}, notifyType'[f] = "DELTA"
        PROVE  RemovableDelta(d, f)
    <3>1. RemovableDelta(delta, f)
      BY <1>1, <1>6, <2>1 DEF DeltaIndexed
    <3>2. d.index[f] = delta.index[f] /\ d.index[f] \in 1 .. delta.size
      BY <1>6, <3>1 DEF RemovableDelta
    <3>3. d.slot[d.index[f]] = f
      BY <1>3, <3>1, <3>2 DEF RemovableDelta
    <3> QED  BY <1>6, <3>2, <3>3 DEF RemovableDelta
  <2>2. RemovableDelta(d, e)
    BY <1>3, <1>6 DEF RemovableDelta
  <2> QED  BY <1>5, <2>1, <2>2 DEF DeltaIndexed
<1>10. TimedLinked'
  BY <1>1, <1>2, <1>4, <1>5, <1>6, NotificationsAssumption DEF TimedLinked, Live, TypeOK
<1>11. NoLostDelta'
  BY <1>2, <1>5 DEF NoLostDelta
<1>12. TimedInFuture'
  BY <1>1, <1>4, <1>5 DEF TimedInFuture, Live
<1>13. DeltaUnique'
  <2>1. ASSUME NEW i \in 1 .. delta.size PROVE d.index[d.slot[i]] = i
    <3>1. d.slot[i] = delta.slot[i] /\ delta.slot[i] \in Event \ {e}
      BY <1>3, <1>6, <1>7
    <3>2. delta.index[delta.slot[i]] = i
      BY <1>1, <1>7 DEF DeltaUnique
    <3>3. d.index[delta.slot[i]] = delta.index[delta.slot[i]]
      BY <1>6, <3>1
    <3> QED  BY <3>1, <3>2, <3>3
  <2>2. d.index[d.slot[delta.size + 1]] = delta.size + 1
    BY <1>3, <1>6
  <2>3. ASSUME NEW i \in 1 .. d.size PROVE d.index[d.slot[i]] = i
    <3>1. CASE i \in 1 .. delta.size
      BY <2>1, <3>1
    <3>2. CASE i = delta.size + 1
      BY <2>2, <3>2
    <3>3. i \in 1 .. delta.size \/ i = delta.size + 1
      BY <1>6
    <3> QED  BY <3>1, <3>2, <3>3
  <2> QED  BY <1>5, <2>3 DEF DeltaUnique
<1>14. VectorExact'
  <2>1. ASSUME NEW i \in 1 .. delta.size PROVE notifyType'[d.slot[i]] = "DELTA"
    <3>1. d.slot[i] = delta.slot[i] /\ delta.slot[i] \in Event
      BY <1>3, <1>6
    <3>2. notifyType[delta.slot[i]] = "DELTA" /\ delta.slot[i] # e
      BY <1>7
    <3>3. notifyType'[delta.slot[i]] = notifyType[delta.slot[i]]
      BY <1>6, <3>1, <3>2
    <3> QED  BY <3>1, <3>2, <3>3
  <2>2. notifyType'[d.slot[delta.size + 1]] = "DELTA"
    BY <1>3, <1>6
  <2>3. ASSUME NEW i \in 1 .. d.size PROVE notifyType'[d.slot[i]] = "DELTA"
    <3>1. i \in 1 .. delta.size \/ i = delta.size + 1
      BY <1>6
    <3> QED  BY <2>1, <2>2, <3>1
  <2> QED  BY <1>2, <1>5, <2>3 DEF VectorExact
<1>15. FiringOK'
  BY <1>1, <1>2, <1>5 DEF FiringOK
<1> QED  BY <1>8, <1>9, <1>10, <1>11, <1>12, <1>13, <1>14, <1>15 DEF IInv

(* notify_next_delta() and notify_internal(SC_ZERO_TIME), which add to the *)
(* vector, keeps the invariant.                                            *)
LEMMA NotifyNextDeltaIInv ==
  ASSUME IInv, NEW e \in Event, NotifyNextDelta(e)
  PROVE  IInv'
<1> DEFINE d == AddDelta(delta, e)
<1>1. /\ TypeOK /\ DeltaIndexed /\ TimedLinked /\ NoLostDelta /\ TimedInFuture
      /\ DeltaUnique /\ VectorExact /\ FiringOK
  BY DEF IInv
<1>2. /\ phase \in {"evaluate", "update"} /\ firing = NoEvent
      /\ cursor = 0 /\ e # NoEvent /\ notifyType[e] # "DELTA"
  BY <1>1, NotificationsAssumption DEF NotifyNextDelta, Calling, FiringOK
<1>3. /\ d \in DeltaType
      /\ d.size = delta.size + 1
      /\ Len(d.slot) = delta.size + 1
      /\ \A i \in 1 .. delta.size : d.slot[i] = delta.slot[i]
      /\ d.slot[delta.size + 1] = e
      /\ d.index = [delta.index EXCEPT ![e] = delta.size + 1]
  <2>1. delta \in DeltaType /\ delta.size <= Len(delta.slot)
    BY <1>1 DEF TypeOK, DeltaType
  <2> QED  BY <2>1, AddDeltaFacts
<1> DEFINE q == timedEvents
<1>4. \A x \in Live : timedEvents[x].event # e
  BY <1>1, <1>2, NotificationsAssumption DEF NotifyNextDelta, TimedLinked, Live
<1>5. /\ notifyType' = [notifyType EXCEPT ![e] = "DELTA"]
      /\ delta' = d
      /\ timedEvents' = q
      /\ timed' = timed
      /\ currTime' = currTime /\ phase' = phase /\ cursor' = cursor /\ firing' = firing
  BY DEF NotifyNextDelta
<1> HIDE DEF d, q
<1>6. /\ \A f \in Event : notifyType'[f] = IF f = e THEN "DELTA" ELSE notifyType[f]
      /\ \A f \in Event \ {e} : timed'[f] = timed[f] /\ d.index[f] = delta.index[f]
      /\ d.index[e] = delta.size + 1
      /\ delta.size \in Nat
      /\ \A i \in 1 .. delta.size : delta.slot[i] \in Event
      /\ 1 .. d.size = (1 .. delta.size) \cup {delta.size + 1}
  BY <1>1, <1>3, <1>5 DEF TypeOK, DeltaType
<1>7. \A i \in 1 .. delta.size : notifyType[delta.slot[i]] = "DELTA" /\ delta.slot[i] # e
  BY <1>1, <1>2 DEF VectorExact
<1>8. TypeOK'
  BY <1>1, <1>2, <1>3, <1>5 DEF TypeOK, DeltaType, q
<1>9. DeltaIndexed'
  <2>1. ASSUME NEW f \in Event \ {e}, notifyType'[f] = "DELTA"
        PROVE  RemovableDelta(d, f)
    <3>1. RemovableDelta(delta, f)
      BY <1>1, <1>6, <2>1 DEF DeltaIndexed
    <3>2. d.index[f] = delta.index[f] /\ d.index[f] \in 1 .. delta.size
      BY <1>6, <3>1 DEF RemovableDelta
    <3>3. d.slot[d.index[f]] = f
      BY <1>3, <3>1, <3>2 DEF RemovableDelta
    <3> QED  BY <1>6, <3>2, <3>3 DEF RemovableDelta
  <2>2. RemovableDelta(d, e)
    BY <1>3, <1>6 DEF RemovableDelta
  <2> QED  BY <1>5, <2>1, <2>2 DEF DeltaIndexed
<1>10. TimedLinked'
  BY <1>1, <1>2, <1>4, <1>5, <1>6, NotificationsAssumption DEF TimedLinked, Live, TypeOK, q
<1>11. NoLostDelta'
  BY <1>2, <1>5 DEF NoLostDelta
<1>12. TimedInFuture'
  BY <1>1, <1>4, <1>5 DEF TimedInFuture, Live, q
<1>13. DeltaUnique'
  <2>1. ASSUME NEW i \in 1 .. delta.size PROVE d.index[d.slot[i]] = i
    <3>1. d.slot[i] = delta.slot[i] /\ delta.slot[i] \in Event \ {e}
      BY <1>3, <1>6, <1>7
    <3>2. delta.index[delta.slot[i]] = i
      BY <1>1, <1>7 DEF DeltaUnique
    <3>3. d.index[delta.slot[i]] = delta.index[delta.slot[i]]
      BY <1>6, <3>1
    <3> QED  BY <3>1, <3>2, <3>3
  <2>2. d.index[d.slot[delta.size + 1]] = delta.size + 1
    BY <1>3, <1>6
  <2>3. ASSUME NEW i \in 1 .. d.size PROVE d.index[d.slot[i]] = i
    <3>1. CASE i \in 1 .. delta.size
      BY <2>1, <3>1
    <3>2. CASE i = delta.size + 1
      BY <2>2, <3>2
    <3>3. i \in 1 .. delta.size \/ i = delta.size + 1
      BY <1>6
    <3> QED  BY <3>1, <3>2, <3>3
  <2> QED  BY <1>5, <2>3 DEF DeltaUnique
<1>14. VectorExact'
  <2>1. ASSUME NEW i \in 1 .. delta.size PROVE notifyType'[d.slot[i]] = "DELTA"
    <3>1. d.slot[i] = delta.slot[i] /\ delta.slot[i] \in Event
      BY <1>3, <1>6
    <3>2. notifyType[delta.slot[i]] = "DELTA" /\ delta.slot[i] # e
      BY <1>7
    <3>3. notifyType'[delta.slot[i]] = notifyType[delta.slot[i]]
      BY <1>6, <3>1, <3>2
    <3> QED  BY <3>1, <3>2, <3>3
  <2>2. notifyType'[d.slot[delta.size + 1]] = "DELTA"
    BY <1>3, <1>6
  <2>3. ASSUME NEW i \in 1 .. d.size PROVE notifyType'[d.slot[i]] = "DELTA"
    <3>1. i \in 1 .. delta.size \/ i = delta.size + 1
      BY <1>6
    <3> QED  BY <2>1, <2>2, <3>1
  <2> QED  BY <1>2, <1>5, <2>3 DEF VectorExact
<1>15. FiringOK'
  BY <1>1, <1>2, <1>5 DEF FiringOK
<1> QED  BY <1>8, <1>9, <1>10, <1>11, <1>12, <1>13, <1>14, <1>15 DEF IInv

(* notify(t), which replaces a later entry by a new one, keeps the         *)
(* invariant.                                                              *)
LEMMA NotifyTimedIInv ==
  ASSUME IInv, NEW e \in Event, NEW t \in Time \ {0}, NotifyTimed(e, t)
  PROVE  IInv'
<1> DEFINE q == IF notifyType[e] = "TIMED" THEN Orphan(e) ELSE timedEvents
<1>1. /\ TypeOK /\ DeltaIndexed /\ TimedLinked /\ NoLostDelta /\ TimedInFuture
      /\ DeltaUnique /\ VectorExact /\ FiringOK
  BY DEF IInv
<1>2. /\ phase \in {"evaluate", "update"} /\ firing = NoEvent
      /\ e # NoEvent /\ notifyType[e] # "DELTA"
      /\ currTime + t \in Time /\ currTime + t > currTime
  BY <1>1, NotificationsAssumption DEF NotifyTimed, Calling, TypeOK, Time
<1>3. /\ DOMAIN q = DOMAIN timedEvents
      /\ \A x \in DOMAIN q :
           /\ q[x] \in [event : Event \cup {NoEvent}, time : Time]
           /\ q[x].time = timedEvents[x].time
           /\ q[x].event # e
           /\ q[x].event \in {NoEvent, timedEvents[x].event}
      /\ \A x \in DOMAIN q :
           timedEvents[x].event # e => q[x].event = timedEvents[x].event
  BY <1>1, <1>2, OrphanFacts
<1>4. PICK y \in Entry \ DOMAIN timedEvents :
        /\ timedEvents' = AddTimed(q, y, e, currTime + t)
        /\ timed' = [timed EXCEPT ![e] = y]
  BY Zenon DEF NotifyTimed
<1>5. /\ notifyType' = [notifyType EXCEPT ![e] = "TIMED"]
      /\ delta' = delta
      /\ currTime' = currTime /\ phase' = phase /\ cursor' = cursor /\ firing' = firing
  BY DEF NotifyTimed
<1> HIDE DEF q
<1>6. /\ DOMAIN timedEvents' = DOMAIN timedEvents \cup {y}
      /\ \A x \in DOMAIN timedEvents : timedEvents'[x] = q[x]
      /\ timedEvents'[y] = [event |-> e, time |-> currTime + t]
  BY <1>3, <1>4 DEF AddTimed
<1>7. /\ \A f \in Event : notifyType'[f] = IF f = e THEN "TIMED" ELSE notifyType[f]
      /\ \A f \in Event : timed'[f] = IF f = e THEN y ELSE timed[f]
  BY <1>1, <1>4, <1>5 DEF TypeOK
<1>8. TypeOK'
  <2>1. timedEvents'[y] \in [event : Event \cup {NoEvent}, time : Time]
    BY <1>2, <1>6
  <2>2. \A x \in DOMAIN timedEvents' :
          timedEvents'[x] \in [event : Event \cup {NoEvent}, time : Time]
    BY <1>3, <1>6, <2>1
  <2>3. DOMAIN timedEvents' \subseteq Entry
    BY <1>1, <1>6 DEF TypeOK
  <2>4. /\ timed' \in [Event -> Entry \cup {NoEntry}]
        /\ notifyType' \in [Event -> {"NONE", "DELTA", "TIMED"}]
    BY <1>1, <1>4, <1>5 DEF TypeOK
  <2> QED  BY <1>1, <1>5, <2>2, <2>3, <2>4 DEF TypeOK
<1>9. DeltaIndexed'
  BY <1>1, <1>5, <1>7 DEF DeltaIndexed
<1>10. TimedLinked'
  <2>1. ASSUME NEW f \in Event \ {firing}, notifyType'[f] = "TIMED"
        PROVE  timed'[f] \in DOMAIN timedEvents' /\ timedEvents'[timed'[f]].event = f
    BY <1>1, <1>3, <1>6, <1>7, <2>1 DEF TimedLinked
  <2>2. ASSUME NEW x \in Live'
        PROVE  notifyType'[timedEvents'[x].event] = "TIMED" /\ timed'[timedEvents'[x].event] = x
    <3>1. CASE x = y
      BY <1>6, <1>7, <3>1
    <3>2. CASE x # y
      <4>1. x \in DOMAIN timedEvents /\ timedEvents'[x] = q[x] /\ q[x].event # NoEvent
        BY <1>6, <2>2, <3>2 DEF Live
      <4>2. q[x].event = timedEvents[x].event /\ q[x].event # e /\ x \in Live
        BY <1>3, <4>1 DEF Live
      <4>3. q[x].event \in Event
        BY <1>1, <4>1, <4>2 DEF TypeOK, Live
      <4> QED  BY <1>1, <1>7, <4>1, <4>2, <4>3 DEF TimedLinked
    <3> QED  BY <3>1, <3>2
  <2> QED  BY <1>5, <2>1, <2>2 DEF TimedLinked
<1>11. NoLostDelta'
  BY <1>2, <1>5 DEF NoLostDelta
<1>12. TimedInFuture'
  BY <1>1, <1>2, <1>3, <1>5, <1>6 DEF TimedInFuture, Live
<1>13. DeltaUnique'
  <2>1. \A i \in 1 .. delta.size : delta.slot[i] \in Event
    BY <1>1 DEF TypeOK
  <2>2. \A i \in 1 .. delta.size :
          notifyType'[delta.slot[i]] = "DELTA" => notifyType[delta.slot[i]] = "DELTA"
    BY <1>7, <2>1
  <2> QED  BY <1>1, <1>5, <2>2 DEF DeltaUnique
<1>14. VectorExact'
  <2>1. \A i \in 1 .. delta.size : notifyType[delta.slot[i]] = "DELTA" /\ delta.slot[i] # e
    BY <1>1, <1>2 DEF VectorExact
  <2>2. \A i \in 1 .. delta.size : delta.slot[i] \in Event
    BY <1>1 DEF TypeOK
  <2> QED  BY <1>2, <1>5, <1>7, <2>1, <2>2 DEF VectorExact
<1>15. FiringOK'
  BY <1>1, <1>2, <1>5 DEF FiringOK
<1> QED  BY <1>8, <1>9, <1>10, <1>11, <1>12, <1>13, <1>14, <1>15 DEF IInv

(* notify_internal(t) of an event with nothing pending keeps the invariant.*)
LEMMA NotifyInternalTimedIInv ==
  ASSUME IInv, NEW e \in Event, NEW t \in Time \ {0}, NotifyInternalTimed(e, t)
  PROVE  IInv'
<1> DEFINE q == timedEvents
<1>1. /\ TypeOK /\ DeltaIndexed /\ TimedLinked /\ NoLostDelta /\ TimedInFuture
      /\ DeltaUnique /\ VectorExact /\ FiringOK
  BY DEF IInv
<1>2. /\ phase \in {"evaluate", "update"} /\ firing = NoEvent
      /\ e # NoEvent /\ notifyType[e] # "DELTA"
      /\ currTime + t \in Time /\ currTime + t > currTime
  BY <1>1, NotificationsAssumption DEF NotifyInternalTimed, Calling, TypeOK, Time
<1>3. /\ DOMAIN q = DOMAIN timedEvents
      /\ \A x \in DOMAIN q :
           /\ q[x] \in [event : Event \cup {NoEvent}, time : Time]
           /\ q[x].time = timedEvents[x].time
           /\ q[x].event # e
           /\ q[x].event \in {NoEvent, timedEvents[x].event}
      /\ \A x \in DOMAIN q :
           timedEvents[x].event # e => q[x].event = timedEvents[x].event
  <2>1. notifyType[e] = "NONE"
    BY DEF NotifyInternalTimed
  <2>2. \A x \in DOMAIN timedEvents : timedEvents[x].event # e
    BY <1>1, <1>2, <2>1 DEF TimedLinked, Live
  <2> QED  BY <1>1, <2>2 DEF TypeOK
<1>4. PICK y \in Entry \ DOMAIN timedEvents :
        /\ timedEvents' = AddTimed(q, y, e, currTime + t)
        /\ timed' = [timed EXCEPT ![e] = y]
  BY Zenon DEF NotifyInternalTimed
<1>5. /\ notifyType' = [notifyType EXCEPT ![e] = "TIMED"]
      /\ delta' = delta
      /\ currTime' = currTime /\ phase' = phase /\ cursor' = cursor /\ firing' = firing
  BY DEF NotifyInternalTimed
<1> HIDE DEF q
<1>6. /\ DOMAIN timedEvents' = DOMAIN timedEvents \cup {y}
      /\ \A x \in DOMAIN timedEvents : timedEvents'[x] = q[x]
      /\ timedEvents'[y] = [event |-> e, time |-> currTime + t]
  BY <1>3, <1>4 DEF AddTimed
<1>7. /\ \A f \in Event : notifyType'[f] = IF f = e THEN "TIMED" ELSE notifyType[f]
      /\ \A f \in Event : timed'[f] = IF f = e THEN y ELSE timed[f]
  BY <1>1, <1>4, <1>5 DEF TypeOK
<1>8. TypeOK'
  <2>1. timedEvents'[y] \in [event : Event \cup {NoEvent}, time : Time]
    BY <1>2, <1>6
  <2>2. \A x \in DOMAIN timedEvents' :
          timedEvents'[x] \in [event : Event \cup {NoEvent}, time : Time]
    BY <1>3, <1>6, <2>1
  <2>3. DOMAIN timedEvents' \subseteq Entry
    BY <1>1, <1>6 DEF TypeOK
  <2>4. /\ timed' \in [Event -> Entry \cup {NoEntry}]
        /\ notifyType' \in [Event -> {"NONE", "DELTA", "TIMED"}]
    BY <1>1, <1>4, <1>5 DEF TypeOK
  <2> QED  BY <1>1, <1>5, <2>2, <2>3, <2>4 DEF TypeOK
<1>9. DeltaIndexed'
  BY <1>1, <1>5, <1>7 DEF DeltaIndexed
<1>10. TimedLinked'
  <2>1. ASSUME NEW f \in Event \ {firing}, notifyType'[f] = "TIMED"
        PROVE  timed'[f] \in DOMAIN timedEvents' /\ timedEvents'[timed'[f]].event = f
    BY <1>1, <1>3, <1>6, <1>7, <2>1 DEF TimedLinked
  <2>2. ASSUME NEW x \in Live'
        PROVE  notifyType'[timedEvents'[x].event] = "TIMED" /\ timed'[timedEvents'[x].event] = x
    <3>1. CASE x = y
      BY <1>6, <1>7, <3>1
    <3>2. CASE x # y
      <4>1. x \in DOMAIN timedEvents /\ timedEvents'[x] = q[x] /\ q[x].event # NoEvent
        BY <1>6, <2>2, <3>2 DEF Live
      <4>2. q[x].event = timedEvents[x].event /\ q[x].event # e /\ x \in Live
        BY <1>3, <4>1 DEF Live
      <4>3. q[x].event \in Event
        BY <1>1, <4>1, <4>2 DEF TypeOK, Live
      <4> QED  BY <1>1, <1>7, <4>1, <4>2, <4>3 DEF TimedLinked
    <3> QED  BY <3>1, <3>2
  <2> QED  BY <1>5, <2>1, <2>2 DEF TimedLinked
<1>11. NoLostDelta'
  BY <1>2, <1>5 DEF NoLostDelta
<1>12. TimedInFuture'
  BY <1>1, <1>2, <1>3, <1>5, <1>6 DEF TimedInFuture, Live
<1>13. DeltaUnique'
  <2>1. \A i \in 1 .. delta.size : delta.slot[i] \in Event
    BY <1>1 DEF TypeOK
  <2>2. \A i \in 1 .. delta.size :
          notifyType'[delta.slot[i]] = "DELTA" => notifyType[delta.slot[i]] = "DELTA"
    BY <1>7, <2>1
  <2> QED  BY <1>1, <1>5, <2>2 DEF DeltaUnique
<1>14. VectorExact'
  <2>1. \A i \in 1 .. delta.size : notifyType[delta.slot[i]] = "DELTA" /\ delta.slot[i] # e
    BY <1>1, <1>2 DEF VectorExact
  <2>2. \A i \in 1 .. delta.size : delta.slot[i] \in Event
    BY <1>1 DEF TypeOK
  <2> QED  BY <1>2, <1>5, <1>7, <2>1, <2>2 DEF VectorExact
<1>15. FiringOK'
  BY <1>1, <1>2, <1>5 DEF FiringOK
<1> QED  BY <1>8, <1>9, <1>10, <1>11, <1>12, <1>13, <1>14, <1>15 DEF IInv

-------------------------------------------------------------------------------
(* A step that changes nothing.                                            *)
LEMMA StutterIInv == IInv /\ UNCHANGED vars => IInv'
  BY DEF vars, IInv, TypeOK, DeltaIndexed, RemovableDelta, TimedLinked, Live, NoLostDelta,
         TimedInFuture, DeltaUnique, VectorExact, FiringOK

(* The members of every event agree with the two stores in every reachable *)
(* state, whatever is notified, cancelled and triggered in whatever order: *)
(* the strengthening of the invariants below that is inductive.            *)
THEOREM Inductive == Spec => []IInv
<1>1. Init => IInv
  BY InitIInv
<1>2. IInv /\ [Next]_vars => IInv'
  <2> SUFFICES ASSUME IInv, [Next]_vars PROVE IInv'
    OBVIOUS
  <2>0. UserEvent \subseteq Event /\ Timeout \subseteq Event
    BY NotificationsAssumption DEF UserEvent
  <2>1. CASE \E e \in Event : Cancel(e)
    BY <2>1, CancelIInv
  <2>2. CASE \E e \in UserEvent : NotifyImmediate(e)
    BY <2>0, <2>2, NotifyImmediateIInv
  <2>3. CASE \E e \in UserEvent : NotifyDelta(e)
    BY <2>0, <2>3, NotifyDeltaIInv
  <2>4. CASE \E e \in UserEvent : \E t \in Time \ {0} : NotifyTimed(e, t)
    BY <2>0, <2>4, NotifyTimedIInv
  <2>5. CASE \E e \in Event : NotifyNextDelta(e)
    BY <2>5, NotifyNextDeltaIInv
  <2>6. CASE \E e \in Timeout, t \in Time \ {0} : NotifyInternalTimed(e, t)
    BY <2>0, <2>6, NotifyInternalTimedIInv
  <2>7. CASE \E c \in Timeout : CancelInTrigger(c)
    BY <2>0, <2>7, CancelInTriggerIInv
  <2>8. CASE TriggerEnd
    BY <2>8, TriggerEndIInv
  <2>9. CASE UpdatePhase
    BY <2>9, UpdatePhaseIInv
  <2>10. CASE NotifyPhase
    BY <2>10, NotifyPhaseIInv
  <2>11. CASE DeltaStep
    BY <2>11, DeltaStepIInv
  <2>12. CASE DeltaDone
    BY <2>12, DeltaDoneIInv
  <2>13. CASE NextTime
    BY <2>13, NextTimeIInv
  <2>14. CASE NoNextTime
    BY <2>14, NoNextTimeIInv
  <2>15. CASE TimedStep
    BY <2>15, TimedStepIInv
  <2>16. CASE TimedDone
    BY <2>16, TimedDoneIInv
  <2>17. CASE UNCHANGED vars
    BY <2>17, StutterIInv
  <2> QED  BY <2>1, <2>2, <2>3, <2>4, <2>5, <2>6, <2>7, <2>8, <2>9, <2>10, <2>11, <2>12,
              <2>13, <2>14, <2>15, <2>16, <2>17 DEF Next
<1> QED  BY <1>1, <1>2, PTL DEF Spec

(* Type correctness.                                                       *)
THEOREM TypeCorrect == Spec => []TypeOK
<1>1. IInv => TypeOK
  BY DEF IInv
<1> QED  BY <1>1, Inductive, PTL

(* assert( i >= 0 && i <= j ) of remove_delta_event() cannot fail, in or   *)
(* out of the notification loop, and it removes the right event.           *)
THEOREM DeltaIndexCorrect == Spec => []DeltaIndexed
<1>1. IInv => DeltaIndexed
  BY DEF IInv
<1> QED  BY <1>1, Inductive, PTL

(* assert( m_timed != 0 ) of cancel() and notify(t) cannot fail, and no    *)
(* cancelled entry of the queue can trigger its former event.              *)
THEOREM TimedLinkCorrect == Spec => []TimedLinked
<1>1. IInv => TimedLinked
  BY DEF IInv
<1> QED  BY <1>1, Inductive, PTL

(* The notification loop of crunch() triggers every event that has a delta *)
(* notification pending, although triggers remove events from the vector.  *)
THEOREM DeltaDelivered == Spec => []NoLostDelta
<1>1. IInv => NoLostDelta
  BY DEF IInv
<1> QED  BY <1>1, Inductive, PTL

(* No timed notification is left in the past.                              *)
THEOREM TimedOnTime == Spec => []TimedInFuture
<1>1. IInv => TimedInFuture
  BY DEF IInv
<1> QED  BY <1>1, Inductive, PTL

-------------------------------------------------------------------------------
(* The refinement of PendingSpec, step by step.  What the members of an    *)
(* event stand for depends on m_notify_type, and for a timed notification  *)
(* on its entry, or on the current time while it triggers.                 *)
LEMMA PendFacts ==
  ASSUME IInv, NEW e \in Event
  PROVE  /\ notifyType[e] = "NONE" <=> Pend(e) = -1
         /\ notifyType[e] = "DELTA" <=> Pend(e) = -2
         /\ notifyType[e] = "TIMED" /\ e # firing =>
              /\ timed[e] \in DOMAIN timedEvents
              /\ timed[e] \in Live
              /\ timedEvents[timed[e]].event = e
              /\ Pend(e) = timedEvents[timed[e]].time
         /\ notifyType[e] = "TIMED" /\ e = firing => Pend(e) = currTime
         /\ notifyType[e] = "TIMED" => Pend(e) \in Time
<1>1. notifyType[e] \in {"NONE", "DELTA", "TIMED"} /\ currTime \in Time
  BY DEF IInv, TypeOK
<1>2. ASSUME notifyType[e] = "TIMED", e # firing
      PROVE  /\ timed[e] \in DOMAIN timedEvents
             /\ timed[e] \in Live
             /\ timedEvents[timed[e]].event = e
             /\ timedEvents[timed[e]].time \in Time
  <2>1. timed[e] \in DOMAIN timedEvents /\ timedEvents[timed[e]].event = e
    BY <1>2 DEF IInv, TimedLinked
  <2>2. e # NoEvent
    BY NotificationsAssumption
  <2> QED  BY <2>1, <2>2 DEF IInv, TypeOK, Live
<1>3. CASE notifyType[e] = "NONE"
  BY <1>3 DEF Pend
<1>4. CASE notifyType[e] = "DELTA"
  BY <1>4 DEF Pend
<1>5. CASE notifyType[e] = "TIMED" /\ e = firing
  <2>1. Pend(e) = currTime
    BY <1>5 DEF Pend
  <2> QED  BY <1>1, <1>5, <2>1 DEF Time
<1>6. CASE notifyType[e] = "TIMED" /\ e # firing
  <2>1. Pend(e) = timedEvents[timed[e]].time
    BY <1>6 DEF Pend
  <2> QED  BY <1>2, <1>6, <2>1 DEF Time
<1> QED  BY <1>1, <1>3, <1>4, <1>5, <1>6

(* The notification of an event is the same after a step that changes      *)
(* neither its type nor the time at which it is due.                       *)
LEMMA PendKept ==
  ASSUME NEW e \in Event, notifyType'[e] = notifyType[e],
         notifyType[e] = "TIMED" =>
           /\ firing = e <=> firing' = e
           /\ firing = e => currTime' = currTime
           /\ firing # e => timedEvents'[timed'[e]].time = timedEvents[timed[e]].time
  PROVE  Pend(e)' = Pend(e)
<1>1. CASE notifyType[e] = "TIMED" /\ firing = e
  BY <1>1 DEF Pend
<1>2. CASE notifyType[e] = "TIMED" /\ firing # e
  BY <1>2 DEF Pend
<1>3. CASE notifyType[e] # "TIMED"
  BY <1>3 DEF Pend
<1> QED  BY <1>1, <1>2, <1>3

(* What a step does to the notifications of all events, from what it does  *)
(* to each: nothing, or a change of that of e.                             *)
LEMMA PendSame ==
  ASSUME \A f \in Event : Pend(f)' = Pend(f)
  PROVE  [f \in Event |-> Pend(f)]' = [f \in Event |-> Pend(f)]
  OBVIOUS

LEMMA PendChanged ==
  ASSUME NEW e \in Event, NEW v, Pend(e)' = v,
         \A f \in Event \ {e} : Pend(f)' = Pend(f)
  PROVE  [f \in Event |-> Pend(f)]' = [[f \in Event |-> Pend(f)] EXCEPT ![e] = v]
  OBVIOUS

(* Entries are added to the queue and lose their event, which changes the  *)
(* time of none that was in it.                                            *)
LEMMA PendOfOthers ==
  ASSUME IInv, NEW f \in Event, notifyType'[f] = notifyType[f], timed'[f] = timed[f],
         firing = f <=> firing' = f, currTime' = currTime,
         \A x \in DOMAIN timedEvents : timedEvents'[x].time = timedEvents[x].time
  PROVE  Pend(f)' = Pend(f)
<1>1. notifyType[f] = "TIMED" /\ firing # f => timed[f] \in DOMAIN timedEvents
  BY PendFacts
<1> QED  BY <1>1, PendKept

(* cancel(), and the cancel() at the start of notify(), withdraw what is   *)
(* pending on the event.                                                   *)
LEMMA CancelPend ==
  ASSUME IInv, NEW e \in Event, Calling, CancelStores(e), firing' \in {NoEvent, e},
         UNCHANGED <<currTime, phase>>
  PROVE  Pending!Withdraw(e)
<1>1. notifyType \in [Event -> {"NONE", "DELTA", "TIMED"}] /\ timed \in [Event -> Entry \cup {NoEntry}]
  BY DEF IInv, TypeOK
<1>2. /\ firing = NoEvent /\ firing # e
      /\ notifyType' = [notifyType EXCEPT ![e] = "NONE"]
      /\ timed' = IF notifyType[e] = "TIMED" THEN [timed EXCEPT ![e] = NoEntry] ELSE timed
      /\ timedEvents' = IF notifyType[e] = "TIMED" THEN Orphan(e) ELSE timedEvents
  BY NotificationsAssumption DEF Calling, CancelStores
<1>3. \A x \in DOMAIN timedEvents : timedEvents'[x].time = timedEvents[x].time
  BY <1>2, OrphanFacts DEF IInv
<1>4. \A f \in Event \ {e} : Pend(f)' = Pend(f)
  BY <1>1, <1>2, <1>3, PendOfOthers, NotificationsAssumption
<1>5. Pend(e)' = -1
  BY <1>1, <1>2 DEF Pend
<1>6. [f \in Event |-> Pend(f)]' = [[f \in Event |-> Pend(f)] EXCEPT ![e] = -1]
  BY <1>4, <1>5, PendChanged
<1>7. Mode = "calls" /\ Mode' = Mode
  BY DEF Calling, Mode
<1> QED  BY <1>6, <1>7 DEF Pending!Withdraw, Pending!None

(* A delta notification replaces a timed one or none.                      *)
LEMMA NotifyDeltaPend ==
  ASSUME IInv, NEW e \in Event, NotifyDelta(e) \/ NotifyNextDelta(e)
  PROVE  Pending!NotifyZero(e)
<1>1. notifyType \in [Event -> {"NONE", "DELTA", "TIMED"}] /\ timed \in [Event -> Entry \cup {NoEntry}]
  BY DEF IInv, TypeOK
<1>2. /\ Calling /\ firing = NoEvent /\ firing # e /\ firing' = firing
      /\ currTime' = currTime /\ phase' = phase
      /\ notifyType' = [notifyType EXCEPT ![e] = "DELTA"]
      /\ timed' = IF notifyType[e] = "TIMED" THEN [timed EXCEPT ![e] = NoEntry] ELSE timed
      /\ timedEvents' = IF notifyType[e] = "TIMED" THEN Orphan(e) ELSE timedEvents
  BY NotificationsAssumption DEF Calling, NotifyDelta, NotifyNextDelta
<1>3. \A x \in DOMAIN timedEvents : timedEvents'[x].time = timedEvents[x].time
  BY <1>2, OrphanFacts DEF IInv
<1>4. \A f \in Event \ {e} : Pend(f)' = Pend(f)
  BY <1>1, <1>2, <1>3, PendOfOthers
<1>5. Pend(e)' = -2
  BY <1>1, <1>2 DEF Pend
<1>6. [f \in Event |-> Pend(f)]' = [[f \in Event |-> Pend(f)] EXCEPT ![e] = -2]
  BY <1>4, <1>5, PendChanged
<1>7. Mode = "calls" /\ Mode' = Mode
  BY <1>2 DEF Calling, Mode
<1> QED  BY <1>2, <1>6, <1>7 DEF Pending!NotifyZero, Pending!Delta

(* A timed notification is taken when nothing earlier is pending.          *)
LEMMA NotifyTimedPend ==
  ASSUME IInv, NEW e \in Event, NEW t \in Time \ {0},
         NotifyTimed(e, t) \/ NotifyInternalTimed(e, t)
  PROVE  currTime + t \in Time /\ Pending!NotifyAt(e, currTime + t)
<1>1. /\ notifyType \in [Event -> {"NONE", "DELTA", "TIMED"}]
      /\ timed \in [Event -> Entry \cup {NoEntry}]
      /\ currTime \in Time /\ MaxTime \in Nat
  BY NotificationsAssumption DEF IInv, TypeOK
<1>2. /\ Calling /\ firing = NoEvent /\ firing # e /\ firing' = firing
      /\ currTime' = currTime /\ phase' = phase
      /\ notifyType' = [notifyType EXCEPT ![e] = "TIMED"]
      /\ notifyType[e] # "DELTA"
      /\ notifyType[e] = "TIMED" => timedEvents[timed[e]].time > currTime + t
      /\ currTime + t <= MaxTime
  BY NotificationsAssumption DEF Calling, NotifyTimed, NotifyInternalTimed
<1> DEFINE q == IF notifyType[e] = "TIMED" THEN Orphan(e) ELSE timedEvents
<1>3. PICK x \in Entry \ DOMAIN timedEvents :
        /\ timedEvents' = AddTimed(q, x, e, currTime + t)
        /\ timed' = [timed EXCEPT ![e] = x]
  BY DEF NotifyTimed, NotifyInternalTimed
<1>4. /\ DOMAIN q = DOMAIN timedEvents
      /\ \A y \in DOMAIN timedEvents : q[y].time = timedEvents[y].time
  BY <1>2, OrphanFacts DEF IInv
<1> HIDE DEF q
<1>5. /\ \A y \in DOMAIN timedEvents : timedEvents'[y].time = timedEvents[y].time
      /\ timedEvents'[x].time = currTime + t
  BY <1>3, <1>4 DEF AddTimed
<1>6. \A f \in Event \ {e} : Pend(f)' = Pend(f)
  BY <1>1, <1>2, <1>3, <1>5, PendOfOthers
<1>7. Pend(e)' = currTime + t
  BY <1>1, <1>2, <1>3, <1>5 DEF Pend
<1>8. [f \in Event |-> Pend(f)]' = [[f \in Event |-> Pend(f)] EXCEPT ![e] = currTime + t]
  BY <1>6, <1>7, PendChanged
<1>9. Pend(e) = -1 \/ Pend(e) > currTime + t
  BY <1>1, <1>2, PendFacts
<1>10. Mode = "calls" /\ Mode' = Mode
  BY <1>2 DEF Calling, Mode
<1>11. currTime + t \in Time /\ currTime + t > currTime
  BY <1>1, <1>2 DEF Time
<1> QED  BY <1>2, <1>8, <1>9, <1>10, <1>11 DEF Pending!NotifyAt, Pending!None

(* The timeout of a process woken by another event is withdrawn.           *)
LEMMA CancelInTriggerPend ==
  ASSUME IInv, NEW c \in Timeout, CancelInTrigger(c)
  PROVE  Pending!Withdraw(c)
<1>1. /\ notifyType \in [Event -> {"NONE", "DELTA", "TIMED"}]
      /\ timed \in [Event -> Entry \cup {NoEntry}]
      /\ c \in Event
  BY NotificationsAssumption DEF IInv, TypeOK
<1>2. /\ firing # c /\ firing' = firing /\ currTime' = currTime /\ phase' = phase
      /\ notifyType' = [notifyType EXCEPT ![c] = "NONE"]
      /\ timed' = [timed EXCEPT ![c] = NoEntry]
      /\ timedEvents' = IF notifyType[c] = "TIMED" THEN Orphan(c) ELSE timedEvents
  BY DEF CancelInTrigger
<1>3. \A x \in DOMAIN timedEvents : timedEvents'[x].time = timedEvents[x].time
  BY <1>1, <1>2, OrphanFacts DEF IInv
<1>4. \A f \in Event \ {c} : Pend(f)' = Pend(f)
  BY <1>1, <1>2, <1>3, PendOfOthers
<1>5. Pend(c)' = -1
  BY <1>1, <1>2 DEF Pend
<1>6. [f \in Event |-> Pend(f)]' = [[f \in Event |-> Pend(f)] EXCEPT ![c] = -1]
  BY <1>1, <1>4, <1>5, PendChanged
<1>7. Mode' = Mode
  BY <1>2 DEF Mode
<1> QED  BY <1>2, <1>6, <1>7 DEF Pending!Withdraw, Pending!None

(* The end of trigger() delivers what was pending on the event: nothing    *)
(* after notify() or when it was cancelled under the loop.                 *)
LEMMA TriggerEndPend ==
  ASSUME IInv, TriggerEnd
  PROVE  (\E e \in Event : Pending!Deliver(e)) \/ UNCHANGED Pending!vars
<1>0. PICK e \in Event : e = firing
  BY DEF IInv, TypeOK, TriggerEnd
<1>1. /\ notifyType \in [Event -> {"NONE", "DELTA", "TIMED"}]
      /\ timed \in [Event -> Entry \cup {NoEntry}]
      /\ phase \in Phase
  BY DEF IInv, TypeOK
<1>2. /\ e = firing /\ firing # NoEvent /\ firing' = NoEvent /\ firing' \notin Event
      /\ currTime' = currTime /\ phase' = phase /\ timedEvents' = timedEvents
      /\ notifyType' = [notifyType EXCEPT ![e] = "NONE"]
      /\ timed' = [timed EXCEPT ![e] = NoEntry]
  BY <1>0, NotificationsAssumption DEF TriggerEnd
<1>3. \A f \in Event \ {e} : Pend(f)' = Pend(f)
  BY <1>1, <1>2, PendOfOthers
<1>4. Pend(e)' = -1
  BY <1>1, <1>2 DEF Pend
<1>5. [f \in Event |-> Pend(f)]' = [[f \in Event |-> Pend(f)] EXCEPT ![e] = -1]
  BY <1>1, <1>3, <1>4, PendChanged
<1>6. Mode' = Mode
  BY <1>2 DEF Mode
<1>7. CASE notifyType[e] = "NONE"
  <2>1. Pend(e)' = Pend(e)
    BY <1>4, <1>7 DEF Pend
  <2>2. [f \in Event |-> Pend(f)]' = [f \in Event |-> Pend(f)]
    BY <1>3, <2>1, PendSame
  <2> QED  BY <1>2, <1>6, <2>2 DEF Pending!vars
<1>8. CASE notifyType[e] = "DELTA"
  <2>1. phase = "notify"
    BY <1>1, <1>2, <1>8 DEF IInv, FiringOK, Phase
  <2>2. Mode = "delta"
    BY <2>1 DEF Mode
  <2>3. Pend(e) = -2
    BY <1>8 DEF Pend
  <2>4. Pending!Deliver(e)
    BY <1>1, <1>2, <1>5, <1>6, <2>2, <2>3 DEF Pending!Deliver, Pending!Delta, Pending!None
  <2> QED  BY <2>4
<1>9. CASE notifyType[e] = "TIMED"
  <2>1. phase = "timednotify"
    BY <1>1, <1>2, <1>9 DEF IInv, FiringOK, Phase
  <2>2. Mode = "timed"
    BY <2>1 DEF Mode
  <2>3. Pend(e) = currTime
    BY <1>2, <1>9 DEF Pend
  <2>4. Pending!Deliver(e)
    BY <1>1, <1>2, <1>5, <1>6, <2>2, <2>3 DEF Pending!Deliver, Pending!None
  <2> QED  BY <2>4
<1> QED  BY <1>1, <1>7, <1>8, <1>9

(* The steps of the scheduler that change no notification.                 *)
LEMMA QuietPend ==
  ASSUME IInv, UpdatePhase \/ DeltaStep \/ UNCHANGED vars
  PROVE  UNCHANGED Pending!vars
<1>1. /\ notifyType' = notifyType /\ timed' = timed /\ timedEvents' = timedEvents
      /\ currTime' = currTime
  BY DEF UpdatePhase, DeltaStep, vars
<1>2. Mode' = Mode
  BY DEF UpdatePhase, DeltaStep, vars, Mode
<1>3. ASSUME NEW f \in Event, notifyType[f] = "TIMED"
      PROVE  firing = f <=> firing' = f
  <2>1. CASE DeltaStep
    <3>1. cursor \in 1 .. Len(delta.slot) /\ firing' = delta.slot[cursor] /\ firing = NoEvent
      BY <2>1 DEF DeltaStep, IInv, TypeOK
    <3>2. notifyType[firing'] # "TIMED"
      BY <2>1, <3>1 DEF DeltaStep, IInv, VectorExact, TypeOK
    <3> QED  BY <1>3, <3>1, <3>2, NotificationsAssumption
  <2> QED  BY <2>1 DEF UpdatePhase, vars
<1>4. \A f \in Event : Pend(f)' = Pend(f)
  BY <1>1, <1>3, PendKept
<1>5. [f \in Event |-> Pend(f)]' = [f \in Event |-> Pend(f)]
  BY <1>4, PendSame
<1> QED  BY <1>1, <1>2, <1>5 DEF Pending!vars

(* The notification phase begins, and ends with no delta notification      *)
(* pending.                                                                *)
LEMMA DeltaPhasePend ==
  ASSUME IInv, NotifyPhase \/ DeltaDone
  PROVE  Pending!BeginDelta \/ Pending!EndDelta
<1>1. /\ notifyType' = notifyType /\ timed' = timed /\ timedEvents' = timedEvents
      /\ currTime' = currTime /\ firing' = firing
  BY DEF NotifyPhase, DeltaDone
<1>2. \A f \in Event : Pend(f)' = Pend(f)
  BY <1>1, PendKept
<1>3. [f \in Event |-> Pend(f)]' = [f \in Event |-> Pend(f)]
  BY <1>2, PendSame
<1>4. CASE NotifyPhase
  <2>1. Mode = "calls" /\ Mode' = "delta"
    BY <1>4 DEF NotifyPhase, Mode
  <2> QED  BY <1>1, <1>3, <2>1 DEF Pending!BeginDelta
<1>5. CASE DeltaDone
  <2>1. Mode = "delta" /\ Mode' \in {"calls", "timed"}
    BY <1>5 DEF DeltaDone, Mode
  <2>2. \A e \in Event : notifyType[e] # "DELTA"
    BY <1>5, NotificationsAssumption
    DEF DeltaDone, IInv, TypeOK, NoLostDelta, DeltaIndexed, RemovableDelta
  <2>3. \A e \in Event : Pend(e) # -2
    BY <2>2, PendFacts
  <2> QED  BY <1>1, <1>3, <2>1, <2>3 DEF Pending!EndDelta, Pending!Delta
<1> QED  BY <1>4, <1>5

(* The time advances to the earliest notification pending, and to no       *)
(* cancelled one.                                                          *)
LEMMA NextTimePend ==
  ASSUME IInv, NextTime
  PROVE  Pending!Advance
<1>1. /\ phase = "advance" /\ firing = NoEvent /\ phase' = "timednotify" /\ firing' = firing
      /\ notifyType' = notifyType /\ timed' = timed
  BY DEF NextTime, IInv, FiringOK
<1>2. PICK top \in Live :
        /\ \A x \in Live : timedEvents[top].time <= timedEvents[x].time
        /\ currTime' = timedEvents[top].time
        /\ \E X \in SUBSET (DOMAIN timedEvents \ Live) : timedEvents' = Extract(X)
  <2>1. PICK top \in Live :
          LET t == timedEvents[top].time
              dropped == {x \in DOMAIN timedEvents \ Live : timedEvents[x].time < t}
              ties    == {x \in DOMAIN timedEvents \ Live : timedEvents[x].time = t}
          IN  /\ \A x \in Live : t <= timedEvents[x].time
              /\ \E some \in SUBSET ties : timedEvents' = Extract(dropped \cup some)
              /\ currTime' = t
    BY DEF NextTime
  <2> DEFINE t == timedEvents[top].time
             dropped == {x \in DOMAIN timedEvents \ Live : timedEvents[x].time < t}
             ties    == {x \in DOMAIN timedEvents \ Live : timedEvents[x].time = t}
  <2>2. PICK some \in SUBSET ties : timedEvents' = Extract(dropped \cup some)
    BY <2>1
  <2>3. dropped \cup some \in SUBSET (DOMAIN timedEvents \ Live)
    OBVIOUS
  <2> QED  BY <2>1, <2>2, <2>3
<1>3. \A x \in Live : timedEvents'[x] = timedEvents[x]
  BY <1>2 DEF Extract, Live
<1>4. /\ \A e \in Event : notifyType[e] # "DELTA" /\ e # firing
      /\ \A x \in Live : timedEvents[x].time > currTime
  BY <1>1, NotificationsAssumption DEF IInv, NoLostDelta, TimedInFuture
<1>5. \A e \in Event :
        notifyType[e] = "TIMED" => timed[e] \in Live /\ Pend(e) = timedEvents[timed[e]].time
  BY <1>4, PendFacts
<1>6. \A f \in Event : Pend(f)' = Pend(f)
  BY <1>1, <1>3, <1>4, <1>5, PendKept
<1>7. [f \in Event |-> Pend(f)]' = [f \in Event |-> Pend(f)]
  BY <1>6, PendSame
<1>8. \A f \in Event :
        \/ Pend(f) = -1
        \/ Pend(f) > currTime /\ Pend(f) >= timedEvents[top].time
  <2> SUFFICES ASSUME NEW f \in Event, notifyType[f] = "TIMED"
               PROVE  Pend(f) > currTime /\ Pend(f) >= timedEvents[top].time
    BY <1>4, PendFacts DEF IInv, TypeOK
  <2>1. timed[f] \in Live /\ Pend(f) = timedEvents[timed[f]].time
    BY <1>5
  <2>2. timedEvents[timed[f]].time \in Time /\ timedEvents[top].time \in Time
    BY <1>2, <2>1 DEF IInv, TypeOK, Live
  <2> QED  BY <1>2, <1>4, <2>1, <2>2 DEF Time
<1>9. PICK e \in Event : timedEvents[top].event = e
  BY <1>2 DEF IInv, TypeOK, Live
<1>10. notifyType[e] = "TIMED" /\ timed[e] = top
  BY <1>2, <1>9 DEF IInv, TimedLinked
<1>11. Pend(e) = timedEvents[top].time /\ Pend(e) # -1
  BY <1>5, <1>10, PendFacts
<1>12. Mode = "timed" /\ Mode' = Mode
  BY <1>1 DEF Mode
<1> QED  BY <1>2, <1>7, <1>8, <1>11, <1>12 DEF Pending!Advance, Pending!None

(* Processes run again when nothing is pending for the current time.       *)
LEMMA TimedPhasePend ==
  ASSUME IInv, NoNextTime \/ TimedDone
  PROVE  Pending!EndTimed \/ UNCHANGED Pending!vars
<1>1. /\ notifyType' = notifyType /\ timed' = timed
      /\ currTime' = currTime /\ firing' = firing /\ firing = NoEvent
      /\ phase \in {"advance", "timednotify"} /\ phase' \in {"evaluate", "advance"}
  BY DEF NoNextTime, TimedDone, IInv, FiringOK
<1>2. Mode = "timed" /\ Mode' \in {"calls", "timed"}
  BY <1>1 DEF Mode
<1>3. \A f \in Event : f # firing /\ notifyType[f] # "DELTA"
  BY <1>1, NotificationsAssumption DEF IInv, NoLostDelta
<1>4. \A f \in Event :
        notifyType[f] = "TIMED" => timed[f] \in Live /\ Pend(f) = timedEvents[timed[f]].time
  BY <1>3, PendFacts
<1>5. \A x \in Live : timedEvents[x].time > currTime /\ timedEvents' = timedEvents
  BY <1>1 DEF NoNextTime, TimedDone, IInv, TimedInFuture, Live
<1>6. \A f \in Event : Pend(f)' = Pend(f)
  BY <1>1, <1>3, <1>4, <1>5, PendKept
<1>7. [f \in Event |-> Pend(f)]' = [f \in Event |-> Pend(f)]
  BY <1>6, PendSame
<1>8. \A f \in Event : Pend(f) = -1 \/ Pend(f) > currTime
  BY <1>3, <1>4, <1>5, PendFacts DEF IInv, TypeOK
<1> QED  BY <1>1, <1>2, <1>7, <1>8 DEF Pending!EndTimed, Pending!None, Pending!vars

(* An entry of the current time that is taken from the queue is that of no *)
(* event but the one it triggers, which stays pending until it has.        *)
LEMMA TimedStepPend ==
  ASSUME IInv, TimedStep
  PROVE  UNCHANGED Pending!vars
<1>1. /\ firing = NoEvent /\ notifyType' = notifyType
      /\ currTime' = currTime /\ phase' = phase
      /\ timed \in [Event -> Entry \cup {NoEntry}]
  BY DEF TimedStep, IInv, TypeOK
<1>2. PICK x \in DOMAIN timedEvents :
        /\ timedEvents[x].time = currTime
        /\ timedEvents' = Extract({x})
        /\ firing' = timedEvents[x].event
        /\ timed' = IF timedEvents[x].event # NoEvent
                    THEN [timed EXCEPT ![timedEvents[x].event] = NoEntry] ELSE timed
  BY DEF TimedStep
<1>3. \A f \in Event :
        notifyType[f] = "TIMED" =>
          /\ timed[f] \in DOMAIN timedEvents /\ timedEvents[timed[f]].event = f
          /\ Pend(f) = timedEvents[timed[f]].time
  BY <1>1, PendFacts, NotificationsAssumption
<1>4. ASSUME NEW f \in Event PROVE Pend(f)' = Pend(f)
  <2>1. CASE notifyType[f] # "TIMED"
    BY <1>1, <2>1, PendKept
  <2>2. CASE notifyType[f] = "TIMED" /\ timed[f] = x
    <3>1. firing' = f /\ Pend(f) = currTime
      BY <1>2, <1>3, <2>2
    <3>2. Pend(f)' = currTime'
      BY <1>1, <2>2, <3>1 DEF Pend
    <3> QED  BY <1>1, <3>1, <3>2
  <2>3. CASE notifyType[f] = "TIMED" /\ timed[f] # x
    <3>1. timedEvents[x].event # f
      <4>1. timedEvents[x].event = f => x \in Live
        BY NotificationsAssumption DEF Live
      <4> QED  BY <2>3, <4>1 DEF IInv, TimedLinked
    <3>2. timed'[f] = timed[f] /\ firing' # f
      BY <1>1, <1>2, <3>1
    <3>3. timedEvents'[timed'[f]] = timedEvents[timed[f]]
      BY <1>2, <1>3, <2>3, <3>2 DEF Extract
    <3> QED  BY <1>1, <3>2, <3>3, PendKept, NotificationsAssumption
  <2> QED  BY <2>1, <2>2, <2>3
<1>5. [f \in Event |-> Pend(f)]' = [f \in Event |-> Pend(f)]
  BY <1>4, PendSame
<1>6. Mode' = Mode
  BY <1>1 DEF Mode
<1> QED  BY <1>1, <1>5, <1>6 DEF Pending!vars

(* The two stores and the three members of each event implement the        *)
(* promise of PendingSpec: at most one pending notification per event, the *)
(* earliest asked for, which is delivered in the next notification phase   *)
(* or at its time, or withdrawn.                                           *)
THEOREM Refinement == Spec => ImplementsPending
<1>1. Init => Pending!Init
  <2> SUFFICES ASSUME Init PROVE Pending!Init
    OBVIOUS
  <2>1. [e \in Event |-> Pend(e)] = [e \in Event |-> -1]
    BY DEF Init, Pend
  <2> QED  BY <2>1 DEF Init, Mode, Pending!Init, Pending!None
<1>2. IInv /\ [Next]_vars => [Pending!Next]_Pending!vars
  <2> SUFFICES ASSUME IInv, [Next]_vars PROVE Pending!Next \/ UNCHANGED Pending!vars
    OBVIOUS
  <2>0. UserEvent \subseteq Event /\ Timeout \subseteq Event
    BY NotificationsAssumption DEF UserEvent
  <2>1. CASE \E e \in Event : Cancel(e)
    BY <2>1, CancelPend DEF Cancel, Calling, Pending!Next
  <2>2. CASE \E e \in UserEvent : NotifyImmediate(e)
    BY <2>0, <2>2, CancelPend DEF NotifyImmediate, Pending!Next
  <2>3. CASE \/ \E e \in UserEvent : NotifyDelta(e)
             \/ \E e \in Event : NotifyNextDelta(e)
    BY <2>0, <2>3, NotifyDeltaPend DEF Pending!Next
  <2>4. CASE \/ \E e \in UserEvent : \E t \in Time \ {0} : NotifyTimed(e, t)
             \/ \E e \in Timeout, t \in Time \ {0} : NotifyInternalTimed(e, t)
    BY <2>0, <2>4, NotifyTimedPend DEF Pending!Next, Pending!Time, Time
  <2>5. CASE \E c \in Timeout : CancelInTrigger(c)
    BY <2>0, <2>5, CancelInTriggerPend DEF Pending!Next
  <2>6. CASE TriggerEnd
    BY <2>6, TriggerEndPend DEF Pending!Next
  <2>7. CASE UpdatePhase \/ DeltaStep \/ UNCHANGED vars
    BY <2>7, QuietPend
  <2>8. CASE NotifyPhase \/ DeltaDone
    BY <2>8, DeltaPhasePend DEF Pending!Next
  <2>9. CASE NextTime
    BY <2>9, NextTimePend DEF Pending!Next
  <2>10. CASE NoNextTime \/ TimedDone
    BY <2>10, TimedPhasePend DEF Pending!Next
  <2>11. CASE TimedStep
    BY <2>11, TimedStepPend
  <2> QED  BY <2>1, <2>2, <2>3, <2>4, <2>5, <2>6, <2>7, <2>8, <2>9, <2>10, <2>11 DEF Next
<1> QED  BY <1>1, <1>2, Inductive, PTL DEF Spec, ImplementsPending, Pending!Spec
===============================================================================
