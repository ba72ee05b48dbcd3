---------------------------- MODULE MonitorsProofs ----------------------------
(***************************************************************************)
(* The dispatch of the monitors and the dialogue with PLASMA, proved for   *)
(* any events, locations and monitors, any nesting and any queue.          *)
(***************************************************************************)
EXTENDS Monitors, FiniteSetTheorems, SequenceTheorems, WellFoundedInduction, TLAPS

(* The frame of a dispatch: a busy one is in the callback of its last      *)
(* monitor, those called are in the order of their numbers, and each       *)
(* monitor owed a call has had it or is ahead.  A location calls only the  *)
(* generated monitor.                                                      *)
Frame_ok(f, s) ==
    /\ f.busy => f.called # <<>>
    /\ \A i, j \in 1..Len(f.called) : i < j => f.called[i] < f.called[j]
    /\ \A m \in f.owed : \/ \E i \in 1..Len(f.called) : f.called[i] = m
                         \/ \A i \in 1..Len(f.called) : f.called[i] < m
    /\ \/ f.at \in Point \cup Event /\ f.owed \subseteq s[f.at]
       \/ f.at \in Location /\ f.busy /\ f.called = <<Generated>>

(* Only a monitor written by hand lets another dispatch begin under it.    *)
Nested(f) == f.busy /\ Last(f.called) # Generated

Frames_ok(st, s) ==
    /\ st \in Seq(Frame)
    /\ \A i \in 1..Len(st) : Frame_ok(st[i], s)
    /\ \A i \in 2..Len(st) : Nested(st[i])

(* The labels that are up.                                                 *)
Up(st) ==
    {l \in Label : st # <<>> /\ Head(st).busy /\ Last(Head(st).called) = Generated
                   /\ Head(st).at = l}

Labels_ok(fl, st) == fl \in [Label -> BOOLEAN] /\ \A l \in Label : fl[l] <=> l \in Up(st)

IInv == TypeOK /\ Frames_ok(stack, sets) /\ Labels_ok(flags, stack)
-------------------------------------------------------------------------------
LEMMA Smallest ==
    ASSUME NEW S \in SUBSET Nat, S # {}
    PROVE  Min(S) \in S /\ \A y \in S : Min(S) <= y
<1>1. \E x \in S : \A y \in S : ~(<<y, x>> \in OpToRel(<, Nat))
  BY NatLessThanWellFounded, WFMin
<1>2. \E x \in S : \A y \in S : ~(y < x)
  BY <1>1 DEF OpToRel
<1>3. \E x \in S : \A y \in S : x <= y
  BY <1>2
<1> QED BY <1>3 DEF Min

(* The stack *)

LEMMA Push ==
    ASSUME NEW st, NEW s, Frames_ok(st, s), NEW f \in Frame, Frame_ok(f, s),
           st = <<>> \/ Nested(Head(st))
    PROVE  /\ Frames_ok(<<f>> \o st, s)
           /\ Head(<<f>> \o st) = f /\ <<f>> \o st # <<>>
           /\ Len(<<f>> \o st) = Len(st) + 1
<1> DEFINE x == <<f>> \o st
<1>1. st \in Seq(Frame) /\ <<f>> \in Seq(Frame) /\ Len(<<f>>) = 1 /\ <<f>>[1] = f
  BY DEF Frames_ok
<1>2. x \in Seq(Frame) /\ Len(x) = Len(st) + 1 /\ Len(st) \in Nat
  BY <1>1, ConcatProperties
<1>3. x[1] = f /\ \A i \in 2..(Len(st) + 1) : x[i] = st[i - 1]
  BY <1>1, <1>2, ConcatProperties
<1> HIDE DEF x
<1>4. x # <<>> /\ Head(x) = f
  BY <1>2, <1>3
<1>5. \A i \in 1..Len(x) : Frame_ok(x[i], s)
  <2> SUFFICES ASSUME NEW i \in 1..Len(x) PROVE Frame_ok(x[i], s)
    OBVIOUS
  <2>1. CASE i = 1
    BY <1>3, <2>1
  <2>2. CASE i # 1
    <3>1. i \in 2..(Len(st) + 1) /\ i - 1 \in 1..Len(st)
      BY <1>2, <2>2
    <3> QED BY <1>3, <3>1 DEF Frames_ok
  <2> QED BY <2>1, <2>2
<1>6. \A i \in 2..Len(x) : Nested(x[i])
  <2> SUFFICES ASSUME NEW i \in 2..Len(x) PROVE Nested(x[i])
    OBVIOUS
  <2>1. i \in 2..(Len(st) + 1) /\ i - 1 \in 1..Len(st) /\ st # <<>>
    BY <1>1, <1>2
  <2>2. CASE i = 2
    <3>1. x[2] = st[1] /\ Head(st) = st[1]
      BY <1>1, <1>3, <2>1, <2>2
    <3> QED BY <2>1, <2>2, <3>1
  <2>3. CASE i # 2
    <3>1. i - 1 \in 2..Len(st)
      BY <2>1, <2>3
    <3> QED BY <1>3, <2>1, <3>1 DEF Frames_ok
  <2> QED BY <2>2, <2>3
<1> QED BY <1>2, <1>4, <1>5, <1>6 DEF Frames_ok, x

LEMMA Pop ==
    ASSUME NEW st, NEW s, Frames_ok(st, s), st # <<>>
    PROVE  /\ Frames_ok(Tail(st), s)
           /\ Tail(st) = <<>> \/ Nested(Head(Tail(st)))
           /\ Len(Tail(st)) = Len(st) - 1
           /\ Head(st) \in Frame /\ Frame_ok(Head(st), s)
<1> DEFINE x == Tail(st)
<1>1. st \in Seq(Frame) /\ Len(st) \in Nat /\ Len(st) >= 1
  BY EmptySeq DEF Frames_ok
<1>2. /\ x \in Seq(Frame) /\ Len(x) = Len(st) - 1
      /\ \A i \in 1..Len(x) : x[i] = st[i + 1]
  BY <1>1, HeadTailProperties
<1>3. Head(st) = st[1] /\ Head(st) \in Frame /\ Frame_ok(Head(st), s)
  BY <1>1 DEF Frames_ok
<1> HIDE DEF x
<1>4. \A i \in 1..Len(x) : Frame_ok(x[i], s) /\ Nested(x[i])
  <2> SUFFICES ASSUME NEW i \in 1..Len(x) PROVE Frame_ok(x[i], s) /\ Nested(x[i])
    OBVIOUS
  <2>1. i + 1 \in 1..Len(st) /\ i + 1 \in 2..Len(st)
    BY <1>1, <1>2
  <2> QED BY <1>2, <2>1 DEF Frames_ok
<1>5. x = <<>> \/ Nested(Head(x))
  <2> SUFFICES ASSUME x # <<>> PROVE Nested(Head(x))
    OBVIOUS
  <2>1. 1 \in 1..Len(x) /\ Head(x) = x[1]
    BY <1>2, EmptySeq
  <2> QED BY <1>4, <2>1
<1>6. \A i \in 2..Len(x) : i \in 1..Len(x)
  BY <1>1, <1>2
<1> QED BY <1>2, <1>3, <1>4, <1>5, <1>6 DEF Frames_ok, x

(* Monitors are only added to the sets.                                    *)
LEMMA Grow ==
    ASSUME NEW st, NEW s, NEW r, Frames_ok(st, s),
           \A at \in Point \cup Event : s[at] \subseteq r[at]
    PROVE  Frames_ok(st, r)
<1>1. \A f : Frame_ok(f, s) => Frame_ok(f, r)
  BY DEF Frame_ok
<1> QED BY <1>1 DEF Frames_ok
-------------------------------------------------------------------------------
(* Everything but the stack and the labels.                                *)
Rest_ok ==
    /\ num \in 0..MaxMonitors
    /\ sets \in [Point \cup Event -> SUBSET (0..(num - 1))]
    /\ call \in Point \cup {"main"} /\ todo \in Seq(Point)
    /\ stdin \in Seq({"newstate", "quit", "other"}) /\ Len(stdin) <= MaxQueue
    /\ plasma \in {"on", "quit", "dead"}
    /\ asked \in Int /\ due \in Int /\ over \in BOOLEAN

LEMMA Split ==
    IInv <=> /\ Rest_ok /\ Frames_ok(stack, sets) /\ Labels_ok(flags, stack)
             /\ Len(stack) <= MaxNest
BY DEF IInv, TypeOK, Rest_ok, Frames_ok, Labels_ok

LEMMA SplitNext ==
    Rest_ok' /\ Frames_ok(stack', sets') /\ Labels_ok(flags', stack') /\ Len(stack') <= MaxNest
        => IInv'
BY DEF IInv, TypeOK, Rest_ok, Frames_ok, Labels_ok

LEMMA Constants ==
    ASSUME MonitorsAssumption
    PROVE  /\ MaxMonitors \in Nat /\ Generated \in Monitor /\ MaxNest \in Int /\ MaxNest > 0
           /\ Monitor \subseteq Nat /\ Event \subseteq Label /\ Location \subseteq Label
           /\ MaxQueue \in Nat
BY DEF MonitorsAssumption, Monitor, Label

LEMMA Same ==
    ASSUME IInv, UNCHANGED <<sets, stack, flags>>, Rest_ok' PROVE IInv'
BY Split, SplitNext

(* A new dispatch *)
LEMMA DispatchStep ==
    ASSUME MonitorsAssumption, IInv, NEW at \in Point \cup Event, Dispatch(at),
           stack = <<>> \/ (Nested(Head(stack)) /\ Len(stack) < MaxNest),
           UNCHANGED <<registry, dialogue, flags, over>>,
           call' = call, todo' \in Seq(Point)
    PROVE  IInv'
<1> USE Constants
<1> DEFINE f == [at |-> at, owed |-> sets[at], called |-> <<>>, busy |-> FALSE]
<1>1. Rest_ok /\ Frames_ok(stack, sets) /\ Labels_ok(flags, stack) /\ Len(stack) <= MaxNest
  BY Split
<1>2. sets[at] \subseteq Monitor
  BY <1>1 DEF Rest_ok, Monitor
<1>3. f \in Frame
  BY <1>2 DEF Frame, Label
<1>4. Frame_ok(f, sets)
  BY DEF Frame_ok
<1>5. f.busy = FALSE /\ stack' = <<f>> \o stack /\ sets' = sets /\ flags' = flags
  BY DEF Dispatch, registry
<1> HIDE DEF f
<1>6. /\ Frames_ok(stack', sets') /\ Head(stack') = f /\ Len(stack') = Len(stack) + 1
  BY <1>1, <1>3, <1>4, <1>5, Push
<1>7. Up(stack) = {} /\ Up(stack') = {}
  BY <1>5, <1>6 DEF Up, Nested
<1>8. Labels_ok(flags', stack')
  BY <1>1, <1>5, <1>7 DEF Labels_ok
<1>9. Len(stack') <= MaxNest
  <2>1. Len(stack) \in Nat
    BY <1>1 DEF Frames_ok
  <2>2. Len(stack) < MaxNest
    BY <2>1
  <2> QED BY <1>6, <2>1, <2>2
<1>10. Rest_ok'
  BY <1>1 DEF Dispatch, Rest_ok, registry, dialogue
<1> QED BY <1>6, <1>8, <1>9, <1>10, SplitNext

LEMMA CallNextStep == ASSUME MonitorsAssumption, IInv, CallNext PROVE IInv'
<1> USE Constants
<1> DEFINE m == Min(Ahead(Top))
           g == [Top EXCEPT !.called = Append(@, m), !.busy = TRUE]
<1>1. Rest_ok /\ Frames_ok(stack, sets) /\ Labels_ok(flags, stack) /\ Len(stack) <= MaxNest
  BY Split
<1>2. /\ stack # <<>> /\ ~Top.busy /\ Ahead(Top) # {}
      /\ stack' = <<g>> \o Tail(stack) /\ sets' = sets
      /\ flags' = IF m = Generated /\ Top.at \in Event
                  THEN [flags EXCEPT ![Top.at] = TRUE] ELSE flags
  BY DEF CallNext, registry
<1>3. /\ Frames_ok(Tail(stack), sets)
      /\ Tail(stack) = <<>> \/ Nested(Head(Tail(stack)))
      /\ Len(Tail(stack)) = Len(stack) - 1 /\ Top \in Frame /\ Frame_ok(Top, sets)
  BY <1>1, <1>2, Pop DEF Top
<1>4. Top.at \in Point \cup Event /\ Top.owed \subseteq sets[Top.at]
  BY <1>2, <1>3 DEF Frame_ok
<1>5. Ahead(Top) \subseteq Monitor
  BY <1>1, <1>4 DEF Ahead, Rest_ok, Monitor
<1>6. m \in Ahead(Top) /\ \A y \in Ahead(Top) : m <= y
  BY <1>2, <1>5, Smallest
<1>7. /\ m \in sets[Top.at] /\ m \in Monitor
      /\ \A i \in 1..Len(Top.called) : Top.called[i] < m
  BY <1>5, <1>6 DEF Ahead
<1>8. \A y \in sets[Top.at] : (\A i \in 1..Len(Top.called) : Top.called[i] < y) => m <= y
  BY <1>6 DEF Ahead
<1> HIDE DEF m
<1>9. Top.called \in Seq(Monitor) /\ Len(Top.called) \in Nat
  BY <1>3 DEF Frame
<1>10. /\ g.at = Top.at /\ g.owed = Top.owed /\ g.busy = TRUE
       /\ g.called = Append(Top.called, m) /\ g \in Frame
  <2>1. Append(Top.called, m) \in Seq(Monitor)
    BY <1>7, <1>9
  <2>2. g = [Top EXCEPT !.called = Append(Top.called, m), !.busy = TRUE]
    BY <1>3 DEF Frame
  <2> HIDE DEF g
  <2> QED BY <1>3, <2>1, <2>2 DEF Frame
<1> HIDE DEF g
<1>11. /\ Len(g.called) = Len(Top.called) + 1 /\ g.called[Len(Top.called) + 1] = m
       /\ \A i \in 1..Len(Top.called) : g.called[i] = Top.called[i]
       /\ g.called # <<>>
  <2>1. /\ Len(Append(Top.called, m)) = Len(Top.called) + 1
        /\ Append(Top.called, m)[Len(Top.called) + 1] = m
        /\ \A i \in 1..Len(Top.called) : Append(Top.called, m)[i] = Top.called[i]
        /\ Append(Top.called, m) # <<>>
    BY <1>7, <1>9, AppendProperties
  <2> QED BY <1>10, <2>1
<1>12. \A i \in 1..Len(g.called) :
          \/ i \in 1..Len(Top.called) /\ g.called[i] = Top.called[i] /\ g.called[i] \in Monitor
          \/ i = Len(Top.called) + 1 /\ g.called[i] = m
  BY <1>9, <1>11
<1>13. Frame_ok(g, sets)
  <2>1. \A i, j \in 1..Len(g.called) : i < j => g.called[i] < g.called[j]
    <3> SUFFICES ASSUME NEW i \in 1..Len(g.called), NEW j \in 1..Len(g.called), i < j
                 PROVE  g.called[i] < g.called[j]
      OBVIOUS
    <3>1. i \in 1..Len(Top.called) /\ g.called[i] = Top.called[i]
      BY <1>9, <1>11, <1>12
    <3>2. CASE j \in 1..Len(Top.called)
      BY <1>3, <1>11, <3>1, <3>2 DEF Frame_ok
    <3>3. CASE j = Len(Top.called) + 1
      BY <1>7, <1>11, <3>1, <3>3
    <3> QED BY <1>12, <3>2, <3>3
  <2>2. \A y \in g.owed : \/ \E i \in 1..Len(g.called) : g.called[i] = y
                          \/ \A i \in 1..Len(g.called) : g.called[i] < y
    <3> SUFFICES ASSUME NEW y \in Top.owed
                 PROVE  \/ \E i \in 1..Len(g.called) : g.called[i] = y
                        \/ \A i \in 1..Len(g.called) : g.called[i] < y
      BY <1>10
    <3>0. y \in sets[Top.at] /\ y \in Nat /\ m \in Nat
      BY <1>1, <1>4, <1>7 DEF Rest_ok
    <3>1. CASE \E i \in 1..Len(Top.called) : Top.called[i] = y
      <4>1. PICK i \in 1..Len(Top.called) : Top.called[i] = y
        BY <3>1
      <4>2. i \in 1..Len(g.called) /\ g.called[i] = y
        BY <1>9, <1>11, <4>1
      <4> QED BY <4>2
    <3>2. CASE \A i \in 1..Len(Top.called) : Top.called[i] < y
      <4>1. m <= y
        BY <1>8, <3>0, <3>2
      <4>2. CASE m = y
        BY <1>9, <1>11, <4>2
      <4>3. CASE m # y
        <5>1. m < y
          BY <3>0, <4>1, <4>3
        <5> QED BY <1>12, <3>2, <5>1
      <4> QED BY <4>2, <4>3
    <3> QED BY <1>3, <3>1, <3>2 DEF Frame_ok
  <2> QED BY <1>4, <1>10, <1>11, <2>1, <2>2 DEF Frame_ok
<1>14. /\ Frames_ok(stack', sets') /\ Head(stack') = g /\ stack' # <<>>
       /\ Len(stack') = Len(stack)
  <2>1. Len(stack) \in Nat
    BY <1>1 DEF Frames_ok
  <2>2. /\ Frames_ok(<<g>> \o Tail(stack), sets) /\ Head(<<g>> \o Tail(stack)) = g
        /\ <<g>> \o Tail(stack) # <<>>
        /\ Len(<<g>> \o Tail(stack)) = Len(Tail(stack)) + 1
    BY <1>3, <1>10, <1>13, Push
  <2> QED BY <1>2, <1>3, <2>1, <2>2
<1>15. Labels_ok(flags', stack')
  <2>1. Up(stack) = {}
    BY <1>2 DEF Up, Top
  <2>2. Last(g.called) = m
    BY <1>11 DEF Last
  <2>3. Up(stack') = IF m = Generated /\ Top.at \in Event THEN {Top.at} ELSE {}
    BY <1>4, <1>10, <1>14, <2>2 DEF Up, MonitorsAssumption, Label
  <2>4. CASE m = Generated /\ Top.at \in Event
    <3>1. flags' = [flags EXCEPT ![Top.at] = TRUE] /\ Top.at \in Label
      BY <1>2, <2>4 DEF Label
    <3> QED BY <1>1, <2>1, <2>3, <2>4, <3>1 DEF Labels_ok
  <2>5. CASE ~(m = Generated /\ Top.at \in Event)
    BY <1>1, <1>2, <2>1, <2>3, <2>5 DEF Labels_ok
  <2> QED BY <2>4, <2>5
<1>16. Rest_ok'
  BY <1>1 DEF CallNext, Rest_ok, registry, dialogue
<1> QED BY <1>1, <1>14, <1>15, <1>16, SplitNext

(* The innermost dispatch is over, and no label was up.                    *)
LEMMA PopStep ==
    ASSUME MonitorsAssumption, IInv, stack # <<>>, stack' = Tail(stack), sets' = sets,
           flags' \in [Label -> BOOLEAN], \A l \in Label : ~flags'[l], Rest_ok'
    PROVE  IInv'
<1> USE Constants
<1>1. Rest_ok /\ Frames_ok(stack, sets) /\ Labels_ok(flags, stack) /\ Len(stack) <= MaxNest
  BY Split
<1>2. /\ Frames_ok(stack', sets')
      /\ stack' = <<>> \/ Nested(Head(stack'))
      /\ Len(stack') = Len(stack) - 1
  BY <1>1, Pop
<1>3. Up(stack') = {}
  BY <1>2 DEF Up, Nested
<1>4. Labels_ok(flags', stack')
  BY <1>3 DEF Labels_ok
<1>5. Len(stack') <= MaxNest
  <2>1. Len(stack) \in Nat
    BY <1>1 DEF Frames_ok
  <2> QED BY <1>1, <1>2, <2>1
<1> QED BY <1>2, <1>4, <1>5, SplitNext

(* A callback returns, and no label is up any more.                        *)
LEMMA CallbackReturns ==
    ASSUME MonitorsAssumption, IInv, stack # <<>>, Top.busy, Top.at \notin Location,
           stack' = <<[Top EXCEPT !.busy = FALSE]>> \o Tail(stack), sets' = sets,
           flags' \in [Label -> BOOLEAN], \A l \in Label : ~flags'[l], Rest_ok'
    PROVE  IInv'
<1> USE Constants
<1> DEFINE g == [Top EXCEPT !.busy = FALSE]
<1>1. Rest_ok /\ Frames_ok(stack, sets) /\ Labels_ok(flags, stack) /\ Len(stack) <= MaxNest
  BY Split
<1>2. /\ Frames_ok(Tail(stack), sets)
      /\ Tail(stack) = <<>> \/ Nested(Head(Tail(stack)))
      /\ Len(Tail(stack)) = Len(stack) - 1 /\ Top \in Frame /\ Frame_ok(Top, sets)
  BY <1>1, Pop DEF Top
<1>3. /\ g.at = Top.at /\ g.owed = Top.owed /\ g.called = Top.called
      /\ g.busy = FALSE /\ g \in Frame
  BY <1>2 DEF Frame
<1>4. stack' = <<g>> \o Tail(stack)
  OBVIOUS
<1> HIDE DEF g
<1>5. Frame_ok(g, sets)
  BY <1>2, <1>3 DEF Frame_ok
<1>6. /\ Frames_ok(stack', sets') /\ Head(stack') = g /\ Len(stack') = Len(stack)
  <2>1. Len(stack) \in Nat
    BY <1>1 DEF Frames_ok
  <2>2. /\ Frames_ok(<<g>> \o Tail(stack), sets) /\ Head(<<g>> \o Tail(stack)) = g
        /\ Len(<<g>> \o Tail(stack)) = Len(Tail(stack)) + 1
    BY <1>2, <1>3, <1>5, Push
  <2>3. Len(Tail(stack)) + 1 = Len(stack)
    BY <1>2, <2>1
  <2>4. stack' = <<g>> \o Tail(stack) /\ sets' = sets
    BY <1>4
  <2> QED BY <2>2, <2>3, <2>4, Zenon
<1>7. Up(stack') = {}
  BY <1>3, <1>6 DEF Up
<1>8. Labels_ok(flags', stack')
  BY <1>7 DEF Labels_ok
<1> QED BY <1>1, <1>6, <1>8, SplitNext

LEMMA EndDispatchStep == ASSUME MonitorsAssumption, IInv, EndDispatch PROVE IInv'
<1>1. Rest_ok /\ Labels_ok(flags, stack)
  BY Split
<1>2. /\ stack # <<>> /\ ~Top.busy /\ stack' = Tail(stack) /\ sets' = sets /\ flags' = flags
      /\ UNCHANGED <<registry, call, todo, dialogue, flags, due, over>>
  BY DEF EndDispatch, registry
<1>3. Up(stack) = {}
  BY <1>2 DEF Up, Top
<1>4. flags' \in [Label -> BOOLEAN] /\ \A l \in Label : ~flags'[l]
  BY <1>1, <1>2, <1>3 DEF Labels_ok
<1>5. Rest_ok'
  BY <1>1, <1>2 DEF Rest_ok, registry, dialogue
<1> QED BY <1>2, <1>4, <1>5, PopStep

LEMMA HandWrittenStep == ASSUME MonitorsAssumption, IInv, HandWrittenReturns PROVE IInv'
<1>1. Rest_ok /\ Labels_ok(flags, stack) /\ Frames_ok(stack, sets)
  BY Split
<1>2. /\ stack # <<>> /\ Top.busy /\ Last(Top.called) # Generated
      /\ stack' = <<[Top EXCEPT !.busy = FALSE]>> \o Tail(stack)
      /\ sets' = sets /\ flags' = flags
      /\ UNCHANGED <<registry, call, todo, dialogue, flags, due, over>>
  BY DEF HandWrittenReturns, InHandWritten, InCallback, Reading, registry
<1>3. Up(stack) = {}
  BY <1>2 DEF Up, Top
<1>4. flags' \in [Label -> BOOLEAN] /\ \A l \in Label : ~flags'[l]
  BY <1>1, <1>2, <1>3 DEF Labels_ok
<1>5. Top.at \notin Location
  <2>1. Frame_ok(Top, sets)
    BY <1>1, <1>2, Pop DEF Top
  <2>2. Last(<<Generated>>) = Generated
    BY DEF Last
  <2>3. Location \cap (Point \cup Event) = {}
    BY DEF MonitorsAssumption, Label
  <2> QED BY <1>2, <2>1, <2>2, <2>3 DEF Frame_ok
<1>6. Rest_ok'
  BY <1>1, <1>2 DEF Rest_ok, registry, dialogue
<1> QED BY <1>2, <1>4, <1>5, <1>6, CallbackReturns

LEMMA StepStep == ASSUME MonitorsAssumption, IInv, Step PROVE IInv'
<1>1. Rest_ok /\ Labels_ok(flags, stack) /\ Frames_ok(stack, sets)
  BY Split
<1>2. /\ stack # <<>> /\ Top.busy /\ Last(Top.called) = Generated
      /\ stdin # <<>> /\ stdin' = Tail(stdin)
      /\ UNCHANGED <<registry, call, todo, plasma, over>>
      /\ sets' = sets
  BY DEF Step, Reading, InCallback, registry
<1>3. stdin' \in Seq({"newstate", "quit", "other"}) /\ Len(stdin') <= MaxQueue
  <2>1. Tail(stdin) \in Seq({"newstate", "quit", "other"}) /\ Len(Tail(stdin)) = Len(stdin) - 1
    BY <1>1, <1>2, HeadTailProperties DEF Rest_ok
  <2>2. Len(stdin) \in Nat /\ Len(stdin) <= MaxQueue /\ MaxQueue \in Nat
    BY <1>1, Constants DEF Rest_ok
  <2> QED BY <1>2, <2>1, <2>2
<1>4. CASE Prints
  <2>1. /\ stack' = IF Top.at \in Location THEN Tail(stack)
                    ELSE <<[Top EXCEPT !.busy = FALSE]>> \o Tail(stack)
        /\ flags' = Lowered(Top.at) /\ due' = due - 1 /\ asked' = asked - 1
    BY <1>4 DEF Step
  <2>2. Rest_ok'
    BY <1>1, <1>2, <1>3, <2>1 DEF Rest_ok, registry
  <2>3. Up(stack) = {Top.at} \cap Label
    BY <1>2 DEF Up, Top
  <2>4. flags' \in [Label -> BOOLEAN] /\ \A l \in Label : ~flags'[l]
    BY <1>1, <2>1, <2>3 DEF Labels_ok, Lowered
  <2>5. CASE Top.at \in Location
    BY <1>2, <2>1, <2>2, <2>4, <2>5, PopStep
  <2>6. CASE Top.at \notin Location
    BY <1>2, <2>1, <2>2, <2>4, <2>6, CallbackReturns
  <2> QED BY <2>5, <2>6
<1>5. CASE ~Prints
  <2>1. UNCHANGED <<stack, flags, due, asked>>
    BY <1>5 DEF Step
  <2>2. Rest_ok'
    BY <1>1, <1>2, <1>3, <2>1 DEF Rest_ok, registry
  <2> QED BY <1>2, <2>1, <2>2, Same
<1> QED BY <1>4, <1>5

LEMMA Sampled == ASSUME NEW c \in Point PROVE Samples(c) \in Seq(Point)
<1>1. {"delta_cycle_begin", "evaluate_begin", "deltanotify_end", "delta_cycle_end"} \subseteq Point
  BY DEF Point
<1>2. Samples(c) \in {<<"delta_cycle_begin", c>>, <<c, "delta_cycle_end">>, <<c>>}
  BY DEF Samples
<1>3. \A a, b \in Point : <<a, b>> \in Seq(Point) /\ <<a>> \in Seq(Point)
  OBVIOUS
<1> QED BY <1>1, <1>2, <1>3

LEMMA SameSteps ==
    ASSUME MonitorsAssumption, IInv,
           \/ Quit \/ Return \/ Die
           \/ \E c \in Point : Observe(c)
           \/ \E line \in {"newstate", "quit", "other"} : Ask(line)
    PROVE  IInv'
<1>1. Rest_ok
  BY Split
<1>2. CASE Quit \/ Return
  <2>1. UNCHANGED <<registry, simulation, dialogue, flags, due>> /\ over' \in BOOLEAN
    BY <1>2 DEF Quit, Return
  <2>2. UNCHANGED <<sets, stack, flags>> /\ Rest_ok'
    BY <1>1, <2>1 DEF Rest_ok, registry, simulation, dialogue
  <2> QED BY <2>2, Same
<1>3. CASE Die
  <2>1. UNCHANGED <<sets, stack, flags>> /\ Rest_ok'
    BY <1>1, <1>3 DEF Die, Rest_ok, registry, simulation
  <2> QED BY <2>1, Same
<1>4. ASSUME NEW c \in Point, Observe(c) PROVE IInv'
  <2>1. todo' \in Seq(Point) /\ call' \in Point
    BY <1>4, Sampled DEF Observe
  <2>2. UNCHANGED <<sets, stack, flags>> /\ Rest_ok'
    BY <1>1, <1>4, <2>1 DEF Observe, Rest_ok, registry, dialogue
  <2> QED BY <2>2, Same
<1>5. ASSUME NEW line \in {"newstate", "quit", "other"}, Ask(line) PROVE IInv'
  <2>1. stdin' \in Seq({"newstate", "quit", "other"}) /\ Len(stdin') <= MaxQueue
    <3>1. /\ Append(stdin, line) \in Seq({"newstate", "quit", "other"})
          /\ Len(Append(stdin, line)) = Len(stdin) + 1 /\ Len(stdin) \in Nat
      BY <1>1, <1>5, AppendProperties DEF Rest_ok
    <3>2. stdin' = Append(stdin, line) /\ Len(stdin) < MaxQueue
      BY <1>5 DEF Ask
    <3> QED BY <3>1, <3>2, Constants
  <2>2. asked' \in Int /\ plasma' \in {"on", "quit", "dead"}
    BY <1>1, <1>5 DEF Ask, Rest_ok
  <2>3. UNCHANGED <<sets, stack, flags>> /\ Rest_ok'
    BY <1>1, <1>5, <2>1, <2>2 DEF Ask, Rest_ok, registry, simulation
  <2> QED BY <2>3, Same
<1> QED BY <1>2, <1>3, <1>4, <1>5

LEMMA NextPointStep == ASSUME MonitorsAssumption, IInv, NextPoint PROVE IInv'
<1>1. Rest_ok
  BY Split
<1>2. stack = <<>> /\ todo # <<>> /\ todo \in Seq(Point)
  BY <1>1 DEF NextPoint, Rest_ok
<1>3. Head(todo) \in Point /\ Tail(todo) \in Seq(Point)
  BY <1>2, HeadTailProperties
<1> QED BY <1>2, <1>3, DispatchStep DEF NextPoint

LEMMA TriggerStep ==
    ASSUME MonitorsAssumption, IInv, NEW e \in Event, Trigger(e) PROVE IInv'
<1>1. Rest_ok
  BY Split
<1>2. stack = <<>> \/ (Nested(Head(stack)) /\ Len(stack) < MaxNest)
  BY DEF Trigger, SimulationRuns, InHandWritten, InCallback, Reading, Nested, Top
<1>3. todo' \in Seq(Point)
  BY <1>1 DEF Trigger, Rest_ok
<1> QED BY <1>2, <1>3, DispatchStep DEF Trigger

LEMMA ReachStep ==
    ASSUME MonitorsAssumption, IInv, NEW l \in Location, Reach(l) PROVE IInv'
<1> USE Constants
<1> DEFINE f == [at |-> l, owed |-> {Generated}, called |-> <<Generated>>, busy |-> TRUE]
<1>1. Rest_ok /\ Frames_ok(stack, sets) /\ Labels_ok(flags, stack)
  BY Split
<1>2. /\ stack = <<>> /\ stack' = <<f>> /\ flags' = [flags EXCEPT ![l] = TRUE]
      /\ UNCHANGED <<registry, call, todo, dialogue, over>> /\ due' = due + 1
  BY DEF Reach, SimulationRuns
<1>3. l \in Label /\ <<Generated>> \in Seq(Monitor)
  OBVIOUS
<1>4. f \in Frame
  BY <1>3 DEF Frame
<1>5. /\ f.at = l /\ f.owed = {Generated} /\ f.called = <<Generated>> /\ f.busy = TRUE
      /\ Last(f.called) = Generated
  BY DEF Last
<1> HIDE DEF f
<1>6. Frame_ok(f, sets)
  <2>1. Len(f.called) = 1 /\ f.called[1] = Generated /\ f.called # <<>>
    BY <1>5
  <2>2. \A m \in f.owed : \E i \in 1..Len(f.called) : f.called[i] = m
    BY <1>5, <2>1
  <2>3. \A i, j \in 1..Len(f.called) : ~(i < j)
    BY <2>1
  <2> QED BY <1>5, <2>1, <2>2, <2>3 DEF Frame_ok
<1>7. /\ stack' \in Seq(Frame) /\ Len(stack') = 1 /\ stack'[1] = f
      /\ Head(stack') = f /\ stack' # <<>>
  BY <1>2, <1>4
<1>8. Frames_ok(stack', sets')
  BY <1>2, <1>6, <1>7 DEF Frames_ok, registry
<1>9. Up(stack) = {} /\ Up(stack') = {l}
  BY <1>2, <1>3, <1>5, <1>7 DEF Up
<1>10. Labels_ok(flags', stack')
  BY <1>1, <1>2, <1>3, <1>9 DEF Labels_ok
<1>11. Rest_ok'
  BY <1>1, <1>2 DEF Rest_ok, registry, dialogue
<1>12. Len(stack') <= MaxNest
  BY <1>7
<1> QED BY <1>8, <1>10, <1>11, <1>12, SplitNext

LEMMA Wider ==
    ASSUME NEW a \in Int, NEW b \in Int, a <= b PROVE 0..(a - 1) \subseteq 0..(b - 1)
OBVIOUS

(* A monitor registers; what is owed was registered before.                *)
LEMMA RegisterStep ==
    ASSUME MonitorsAssumption, IInv, NEW m \in 0..(num' - 1), NEW ats,
           sets' = Registered(sets, m, ats), num' \in num..MaxMonitors,
           UNCHANGED <<simulation, dialogue, flags, due, over>>
    PROVE  IInv'
<1>1. /\ Rest_ok /\ Frames_ok(stack, sets) /\ Labels_ok(flags, stack)
      /\ Len(stack) <= MaxNest
  BY Split
<1>0. num \in Int /\ num' \in Int /\ num <= num' /\ num' <= MaxMonitors /\ 0 <= num
  BY <1>1, Constants DEF Rest_ok
<1>2. /\ num' \in 0..MaxMonitors
      /\ sets \in [Point \cup Event -> SUBSET (0..(num - 1))]
  BY <1>0, <1>1, Constants DEF Rest_ok
<1>3. 0..(num - 1) \subseteq 0..(num' - 1)
  BY <1>0, Wider
<1>4. /\ sets' \in [Point \cup Event -> SUBSET (0..(num' - 1))]
      /\ \A at \in Point \cup Event : sets[at] \subseteq sets'[at]
  BY <1>2, <1>3 DEF Registered
<1>5. Rest_ok' /\ stack' = stack /\ flags' = flags
  BY <1>1, <1>2, <1>4 DEF Rest_ok, simulation, dialogue
<1>6. Frames_ok(stack', sets')
  BY <1>1, <1>4, <1>5, Grow
<1> QED BY <1>1, <1>5, <1>6, SplitNext

LEMMA RegisterSteps ==
    ASSUME MonitorsAssumption, IInv, Create \/ \E r \in Late : RegisterMonitor(r[1], r[2])
    PROVE  IInv'
<1>1. num \in 0..MaxMonitors /\ MaxMonitors \in Nat
  BY Split, Constants DEF Rest_ok
<1>2. CASE Create
  <2>1. num \in 0..(num' - 1) /\ num' \in num..MaxMonitors
    BY <1>1, <1>2 DEF Create
  <2> QED BY <1>2, <2>1, RegisterStep DEF Create
<1>3. ASSUME NEW r \in Late, RegisterMonitor(r[1], r[2]) PROVE IInv'
  <2>1. r[1] \in Nat
    BY Constants DEF MonitorsAssumption
  <2>2. /\ r[1] < num /\ num' = num /\ sets' = Registered(sets, r[1], {r[2]})
        /\ UNCHANGED <<simulation, dialogue, flags, due, over>>
    BY <1>3 DEF RegisterMonitor
  <2>3. r[1] \in 0..(num' - 1) /\ num' \in num..MaxMonitors
    BY <1>1, <2>1, <2>2
  <2> QED BY <2>2, <2>3, RegisterStep
<1> QED BY <1>2, <1>3
-------------------------------------------------------------------------------
(* The inductive invariant: types, the frames of the dispatches in         *)
(* progress, and the labels that are up.                                   *)
THEOREM Inductive == Spec => []IInv
<1> USE MonitorsAssumption
<1>1. Init => IInv
  <2> SUFFICES ASSUME Init PROVE IInv
    OBVIOUS
  <2>1. Generated + 1 \in 0..MaxMonitors /\ 0..Generated = 0..((Generated + 1) - 1)
    BY Constants DEF Monitor
  <2>2. sets \in [Point \cup Event -> SUBSET (0..(num - 1))]
    BY <2>1 DEF Init
  <2>3. Rest_ok
    <3>1. <<>> \in Seq(Point) /\ <<>> \in Seq({"newstate", "quit", "other"}) /\ Len(<<>>) = 0
      OBVIOUS
    <3>2. num \in 0..MaxMonitors
      BY <2>1 DEF Init
    <3>3. stdin \in Seq({"newstate", "quit", "other"}) /\ Len(stdin) <= MaxQueue
      BY <3>1, Constants DEF Init
    <3>4. /\ call \in Point \cup {"main"} /\ todo \in Seq(Point)
          /\ plasma \in {"on", "quit", "dead"}
          /\ asked \in Int /\ due \in Int /\ over \in BOOLEAN
      <4>1. /\ call = "main" /\ todo = <<>> /\ plasma = "on" /\ asked = 0 /\ due = 0
            /\ over = FALSE
        BY DEF Init
      <4>2. call \in Point \cup {"main"} /\ plasma \in {"on", "quit", "dead"}
        BY <4>1
      <4>3. asked \in Int /\ due \in Int
        BY <4>1
      <4>5. over \in BOOLEAN
        BY <4>1, Zenon
      <4> QED BY <3>1, <4>1, <4>2, <4>3, <4>5
    <3> QED BY <2>2, <3>2, <3>3, <3>4 DEF Rest_ok
  <2>4. Frames_ok(stack, sets) /\ Up(stack) = {} /\ Len(stack) <= MaxNest
    BY Constants DEF Init, Frames_ok, Up
  <2>5. Labels_ok(flags, stack)
    BY <2>4 DEF Init, Labels_ok
  <2> QED BY <2>3, <2>4, <2>5, Split
<1>2. IInv /\ [Next]_vars => IInv'
  <2> SUFFICES ASSUME IInv, [Next]_vars PROVE IInv'
    OBVIOUS
  <2>1. CASE Callback
    BY <2>1, CallNextStep, EndDispatchStep, NextPointStep, HandWrittenStep DEF Callback
  <2>2. CASE Command
    BY <2>2, StepStep, SameSteps DEF Command
  <2>3. CASE Code
    BY <2>3, TriggerStep, ReachStep, RegisterSteps DEF Code
  <2>4. CASE Kernel \/ Return \/ Plasma
    BY <2>4, SameSteps DEF Kernel, Plasma
  <2>5. CASE UNCHANGED vars
    <3>1. UNCHANGED <<num, sets, call, todo, stack, flags, stdin, plasma, asked, due, over>>
      BY <2>5 DEF vars, registry, simulation, dialogue
    <3>2. Rest_ok'
      BY <3>1, Split DEF Rest_ok
    <3> QED BY <3>1, <3>2, Same
  <2> QED BY <2>1, <2>2, <2>3, <2>4, <2>5 DEF Next
<1> QED BY <1>1, <1>2, PTL DEF Spec

(* Every variable keeps the type the code gives it.                        *)
THEOREM TypeCorrect == Spec => []TypeOK
<1>1. IInv => TypeOK
  BY DEF IInv
<1> QED BY <1>1, Inductive, PTL

(* A dispatch passes over no monitor that was registered when it began,    *)
(* and calls none back twice, however the sets grow under its iterator.    *)
THEOREM EachOnceCorrect == Spec => []EachOnce
<1>1. IInv => EachOnce
  <2> SUFFICES ASSUME IInv, NEW n \in 1..Len(stack)
               PROVE  /\ IsInjective(stack[n].called)
                      /\ stack[n].owed \subseteq ToSet(stack[n].called)
                           \cup {m \in Monitor : \A k \in ToSet(stack[n].called) : k < m}
    BY DEF EachOnce
  <2> DEFINE d == stack[n]
  <2>1. d \in Frame /\ Frame_ok(d, sets)
    BY Split DEF Frames_ok
  <2> HIDE DEF d
  <2>2. /\ d.called \in Seq(Monitor) /\ DOMAIN d.called = 1..Len(d.called)
        /\ d.owed \subseteq Monitor
        /\ \A i \in 1..Len(d.called) : d.called[i] \in Nat
    <3>1. d.called \in Seq(Monitor) /\ d.owed \subseteq Monitor
      BY <2>1 DEF Frame
    <3>2. Monitor \subseteq Nat
      BY DEF Monitor
    <3>3. DOMAIN d.called = 1..Len(d.called)
      BY <3>1, LenProperties
    <3>4. \A i \in 1..Len(d.called) : d.called[i] \in Monitor
      BY <3>1, ElementOfSeq
    <3> QED BY <3>1, <3>2, <3>3, <3>4
  <2>3. IsInjective(d.called)
    <3> SUFFICES ASSUME NEW i \in 1..Len(d.called), NEW j \in 1..Len(d.called),
                        d.called[i] = d.called[j], i # j
                 PROVE  FALSE
      BY <2>2 DEF IsInjective
    <3>1. i < j \/ j < i
      OBVIOUS
    <3>2. d.called[i] < d.called[j] \/ d.called[j] < d.called[i]
      BY <2>1, <3>1 DEF Frame_ok
    <3> QED BY <2>2, <3>2
  <2>4. \A m \in d.owed : m \in ToSet(d.called)
                            \cup {y \in Monitor : \A k \in ToSet(d.called) : k < y}
    <3> SUFFICES ASSUME NEW m \in d.owed, m \notin ToSet(d.called)
                 PROVE  m \in Monitor /\ \A k \in ToSet(d.called) : k < m
      OBVIOUS
    <3>1. \A i \in 1..Len(d.called) : d.called[i] # m
      BY <2>2 DEF ToSet
    <3>2. \A i \in 1..Len(d.called) : d.called[i] < m
      BY <2>1, <3>1 DEF Frame_ok
    <3> QED BY <2>2, <3>2 DEF ToSet
  <2> QED BY <2>3, <2>4 DEF d
<1> QED BY <1>1, Inductive, PTL

(* A label is up in the step of its sample and in no other.                *)
THEOREM LabelsCorrect == Spec => []LabelsMomentary
<1>1. IInv => LabelsMomentary
  BY Split DEF Labels_ok, Up, LabelsMomentary, Reading, InCallback, Top
<1> QED BY <1>1, Inductive, PTL
-------------------------------------------------------------------------------
(* Counting in sequences *)

LEMMA Shifted ==
    ASSUME NEW n \in Nat, NEW S \in SUBSET (1..n)
    PROVE  /\ IsFiniteSet(S) /\ IsFiniteSet({i + 1 : i \in S})
           /\ Cardinality({i + 1 : i \in S}) = Cardinality(S) /\ Cardinality(S) \in Nat
<1> DEFINE T == {i + 1 : i \in S}
           f == [i \in S |-> i + 1]
<1>1. IsFiniteSet(S)
  <2>1. IsFiniteSet(1..n)
    BY FS_Interval
  <2> QED BY <2>1, FS_Subset
<1>2. f \in Bijection(S, T)
  BY DEF Bijection, Injection, Surjection, IsInjective
<1>3. ExistsBijection(S, T)
  BY <1>2 DEF ExistsBijection
<1> QED BY <1>1, <1>3, FS_Bijection, FS_CardinalityType

(* S are the places of a property in a sequence, T those in the sequence   *)
(* with one more element in front, which has it or not.                    *)
LEMMA InFront ==
    ASSUME NEW n \in Nat, NEW S \in SUBSET (1..n), NEW T, NEW b \in BOOLEAN,
           T = {i + 1 : i \in S} \cup (IF b THEN {1} ELSE {})
    PROVE  /\ Cardinality(T) = Cardinality(S) + (IF b THEN 1 ELSE 0)
           /\ Cardinality(S) \in Nat
<1> DEFINE U == {i + 1 : i \in S}
<1>1. IsFiniteSet(U) /\ Cardinality(U) = Cardinality(S) /\ Cardinality(S) \in Nat
  BY Shifted
<1>2. 1 \notin U
  OBVIOUS
<1> HIDE DEF U
<1>3. CASE b
  <2>1. Cardinality(U \cup {1}) = Cardinality(U) + 1
    BY <1>1, <1>2, FS_AddElement
  <2> QED BY <1>1, <1>3, <2>1 DEF U
<1>4. CASE ~b
  BY <1>1, <1>4 DEF U
<1> QED BY <1>3, <1>4

Requests(s) == {i \in 1..Len(s) : s[i] = "newstate"}

Lines == {"newstate", "quit", "other"}

LEMMA RequestsAppend ==
    ASSUME NEW s \in Seq(Lines), NEW x \in Lines
    PROVE  /\ Cardinality(Requests(Append(s, x)))
                  = Cardinality(Requests(s)) + (IF x = "newstate" THEN 1 ELSE 0)
           /\ Cardinality(Requests(s)) \in Int
<1> DEFINE n == Len(s)
           z == Append(s, x)
<1>1. /\ n \in Nat /\ Len(z) = n + 1 /\ z[n + 1] = x
      /\ \A i \in 1..n : z[i] = s[i]
  BY AppendProperties
<1> HIDE DEF z
<1>2. Requests(s) \in SUBSET (1..n)
  BY DEF Requests
<1>3. IsFiniteSet(Requests(s)) /\ Cardinality(Requests(s)) \in Nat
  BY <1>1, <1>2, Shifted
<1>4. n + 1 \notin Requests(s)
  BY <1>1, <1>2
<1>5. Requests(z) = Requests(s) \cup (IF x = "newstate" THEN {n + 1} ELSE {})
  <2>1. \A i \in 1..(n + 1) : i \in 1..n \/ i = n + 1
    BY <1>1
  <2>2. n + 1 \in 1..(n + 1) /\ 1..n \subseteq 1..(n + 1)
    BY <1>1
  <2> QED BY <1>1, <2>1, <2>2 DEF Requests
<1>6. CASE x = "newstate"
  <2>1. Cardinality(Requests(s) \cup {n + 1}) = Cardinality(Requests(s)) + 1
    BY <1>3, <1>4, FS_AddElement
  <2> QED BY <1>3, <1>5, <1>6, <2>1 DEF z
<1>7. CASE x # "newstate"
  BY <1>3, <1>5, <1>7 DEF z
<1> QED BY <1>6, <1>7

LEMMA RequestsTail ==
    ASSUME NEW s \in Seq(Lines), s # <<>>
    PROVE  /\ Cardinality(Requests(Tail(s)))
                  = Cardinality(Requests(s)) - (IF Head(s) = "newstate" THEN 1 ELSE 0)
           /\ Cardinality(Requests(s)) \in Int
<1> DEFINE z == Tail(s)
           n == Len(z)
           b == s[1] = "newstate"
<1>1. /\ n \in Nat /\ Len(s) = n + 1 /\ Head(s) = s[1]
      /\ \A i \in 1..n : z[i] = s[i + 1]
  <2>1. Len(s) \in Nat /\ Len(s) >= 1 /\ Head(s) = s[1]
    BY EmptySeq
  <2>2. z \in Seq(Lines) /\ Len(z) = Len(s) - 1 /\ \A i \in 1..Len(z) : z[i] = s[i + 1]
    BY HeadTailProperties
  <2> QED BY <2>1, <2>2
<1> HIDE DEF z
<1>2. Requests(z) \in SUBSET (1..n)
  BY DEF Requests
<1>3. Requests(s) = {i + 1 : i \in Requests(z)} \cup (IF b THEN {1} ELSE {})
  <2>1. \A i \in 1..(n + 1) : i = 1 \/ (i - 1 \in 1..n /\ i = (i - 1) + 1)
    BY <1>1
  <2>2. 1 \in 1..(n + 1) /\ \A i \in 1..n : i + 1 \in 1..(n + 1)
    BY <1>1
  <2>3. ASSUME NEW i \in Requests(s)
        PROVE  i \in {k + 1 : k \in Requests(z)} \cup (IF b THEN {1} ELSE {})
    <3>1. i \in 1..(n + 1) /\ s[i] = "newstate"
      BY <1>1 DEF Requests
    <3>2. CASE i = 1
      BY <3>1, <3>2
    <3>3. CASE i # 1
      <4>1. i - 1 \in 1..n /\ i = (i - 1) + 1
        BY <2>1, <3>1, <3>3
      <4>2. z[i - 1] = s[i]
        BY <1>1, <4>1
      <4>3. i - 1 \in Requests(z)
        BY <3>1, <4>1, <4>2 DEF Requests
      <4> QED BY <4>1, <4>3
    <3> QED BY <3>2, <3>3
  <2>4. \A k \in Requests(z) : k + 1 \in Requests(s)
    BY <1>1, <2>2 DEF Requests
  <2>5. b => 1 \in Requests(s)
    BY <1>1, <2>2 DEF Requests
  <2> QED BY <2>3, <2>4, <2>5
<1> HIDE DEF n
<1>4. b \in BOOLEAN
  OBVIOUS
<1>5. /\ Cardinality(Requests(s)) = Cardinality(Requests(z)) + (IF b THEN 1 ELSE 0)
      /\ Cardinality(Requests(z)) \in Nat
  BY <1>1, <1>2, <1>3, <1>4, InFront
<1> QED BY <1>1, <1>5 DEF z

(* A state of the trace answers a request: PLASMA never waits for a state  *)
(* while the simulator waits for a line.                                   *)
THEOREM DialogueCorrect == Spec => []OneStatePerRequest
<1> DEFINE Inv == asked = Cardinality(Requests(stdin))
<1>1. Init => Inv
  <2> SUFFICES ASSUME Init PROVE Inv
    OBVIOUS
  <2>1. Requests(<<>>) = {}
    BY DEF Requests
  <2> QED BY <2>1, FS_EmptySet DEF Init
<1>2. TypeOK /\ Inv /\ [Next]_vars => Inv'
  <2> SUFFICES ASSUME TypeOK, Inv, [Next]_vars PROVE Inv'
    OBVIOUS
  <2>0. stdin \in Seq(Lines) /\ asked \in Int
    BY DEF TypeOK, Lines
  <2>1. CASE Step
    <3>1. stdin # <<>> /\ stdin' = Tail(stdin)
          /\ asked' = IF Head(stdin) = "newstate" THEN asked - 1 ELSE asked
      BY <2>1 DEF Step, Prints
    <3>2. /\ Cardinality(Requests(Tail(stdin)))
                = Cardinality(Requests(stdin)) - (IF Head(stdin) = "newstate" THEN 1 ELSE 0)
          /\ Cardinality(Requests(stdin)) \in Int
      BY <2>0, <3>1, RequestsTail
    <3> QED BY <2>0, <3>1, <3>2
  <2>2. ASSUME NEW line \in Lines, Ask(line) PROVE Inv'
    <3>1. stdin' = Append(stdin, line)
          /\ asked' = IF line = "newstate" THEN asked + 1 ELSE asked
      BY <2>2 DEF Ask
    <3>2. /\ Cardinality(Requests(Append(stdin, line)))
                = Cardinality(Requests(stdin)) + (IF line = "newstate" THEN 1 ELSE 0)
          /\ Cardinality(Requests(stdin)) \in Int
      BY <2>0, RequestsAppend
    <3> QED BY <2>0, <3>1, <3>2
  <2>3. CASE Callback \/ Quit \/ Code \/ Kernel \/ Return \/ Die \/ UNCHANGED vars
    <3>1. UNCHANGED <<stdin, asked>>
      BY <2>3 DEF Callback, CallNext, EndDispatch, NextPoint, HandWrittenReturns, Quit, Code,
             Trigger, Reach, Create, RegisterMonitor, Kernel, Observe, Return, Die,
             vars, dialogue
    <3> QED BY <3>1
  <2> QED BY <2>1, <2>2, <2>3 DEF Next, Command, Plasma, Lines
<1>3. Inv => OneStatePerRequest
  BY DEF Requests, OneStatePerRequest
<1> QED BY <1>1, <1>2, <1>3, TypeCorrect, PTL DEF Spec
-------------------------------------------------------------------------------
(* The generated monitor is registered when it is created, and not again.  *)
RegisteredOnce == \A r \in Late : r[1] # Generated

Reported(d) ==
    (\E i \in 1..Len(d.called) : d.called[i] = Generated)
        => d.busy /\ Last(d.called) = Generated

Owes(d) == Generated \in d.owed /\ Reported(d)

Owing(st) == {i \in 1..Len(st) : Owes(st[i])}

(* Where the generated monitor is called back.                             *)
ClockOnly(d) ==
    /\ Generated \in d.owed <=> d.at \in Clocks[Generated]
    /\ \A i \in 1..Len(d.called) : d.called[i] = Generated => Generated \in d.owed

SampleInv ==
    /\ due = Cardinality(Owing(stack))
    /\ num > Generated
    /\ \A at \in Point \cup Event : Generated \in sets[at] <=> at \in Clocks[Generated]
    /\ \A i \in 1..Len(stack) : ClockOnly(stack[i])

LEMMA OwingPush ==
    ASSUME NEW st \in Seq(Frame), NEW f \in Frame
    PROVE  /\ Cardinality(Owing(<<f>> \o st))
                  = Cardinality(Owing(st)) + (IF Owes(f) THEN 1 ELSE 0)
           /\ Cardinality(Owing(st)) \in Nat
<1> DEFINE z == <<f>> \o st
           n == Len(st)
           b == Owes(f)
<1>1. /\ n \in Nat /\ Len(z) = n + 1 /\ z[1] = f
      /\ \A i \in 2..(n + 1) : z[i] = st[i - 1]
  <2>1. <<f>> \in Seq(Frame) /\ Len(<<f>>) = 1 /\ <<f>>[1] = f
    OBVIOUS
  <2>2. z \in Seq(Frame) /\ Len(z) = n + 1 /\ n \in Nat
    BY <2>1, ConcatProperties
  <2>3. z[1] = f /\ \A i \in 2..(n + 1) : z[i] = st[i - 1]
    BY <2>1, <2>2, ConcatProperties
  <2> QED BY <2>2, <2>3
<1> HIDE DEF z
<1>2. Owing(st) \in SUBSET (1..n)
  BY DEF Owing
<1>3. Owing(z) = {i + 1 : i \in Owing(st)} \cup (IF b THEN {1} ELSE {})
  <2>1. \A i \in 1..(n + 1) : i = 1 \/ (i - 1 \in 1..n /\ i = (i - 1) + 1 /\ i \in 2..(n + 1))
    BY <1>1
  <2>2. /\ 1 \in 1..(n + 1)
        /\ \A i \in 1..n : i + 1 \in 1..(n + 1) /\ i + 1 \in 2..(n + 1) /\ (i + 1) - 1 = i
    BY <1>1
  <2>3. ASSUME NEW i \in Owing(z)
        PROVE  i \in {k + 1 : k \in Owing(st)} \cup (IF b THEN {1} ELSE {})
    <3>1. i \in 1..(n + 1) /\ Owes(z[i])
      BY <1>1 DEF Owing
    <3>2. CASE i = 1
      BY <1>1, <3>1, <3>2
    <3>3. CASE i # 1
      <4>1. i - 1 \in 1..n /\ i = (i - 1) + 1 /\ z[i] = st[i - 1]
        BY <1>1, <2>1, <3>1, <3>3
      <4>3. i - 1 \in Owing(st)
        BY <3>1, <4>1 DEF Owing
      <4> QED BY <4>1, <4>3
    <3> QED BY <3>2, <3>3
  <2>4. \A k \in Owing(st) : k + 1 \in Owing(z)
    <3> SUFFICES ASSUME NEW k \in 1..n, Owes(st[k]) PROVE k + 1 \in Owing(z)
      BY DEF Owing
    <3>1. z[k + 1] = st[k]
      BY <1>1, <2>2
    <3> QED BY <1>1, <2>2, <3>1 DEF Owing
  <2>5. b => 1 \in Owing(z)
    BY <1>1, <2>2 DEF Owing
  <2> QED BY <2>3, <2>4, <2>5
<1> HIDE DEF n
<1>4. b \in BOOLEAN
  BY DEF Owes, Reported
<1>5. /\ Cardinality(Owing(z)) = Cardinality(Owing(st)) + (IF b THEN 1 ELSE 0)
      /\ Cardinality(Owing(st)) \in Nat
  BY <1>1, <1>2, <1>3, <1>4, InFront
<1> QED BY <1>5 DEF z

LEMMA OwingPop ==
    ASSUME NEW st \in Seq(Frame), st # <<>>
    PROVE  /\ Cardinality(Owing(Tail(st)))
                  = Cardinality(Owing(st)) - (IF Owes(Head(st)) THEN 1 ELSE 0)
           /\ Cardinality(Owing(st)) \in Int
<1>1. Head(st) \in Frame /\ Tail(st) \in Seq(Frame) /\ <<Head(st)>> \o Tail(st) = st
  <2>1. Head(st) \in Frame /\ Tail(st) \in Seq(Frame)
    BY HeadTailProperties
  <2>2. <<Head(st)>> \o Tail(st) = st
    BY <2>1, ConcatProperties, HeadTailProperties
  <2> QED BY <2>1, <2>2
<1>2. /\ Cardinality(Owing(st)) = Cardinality(Owing(Tail(st)))
                                      + (IF Owes(Head(st)) THEN 1 ELSE 0)
      /\ Cardinality(Owing(Tail(st))) \in Nat
  BY <1>1, OwingPush
<1> QED BY <1>2

(* The frame on top is replaced by one that owes as much, or owes less.    *)
LEMMA OwingReplace ==
    ASSUME NEW st \in Seq(Frame), st # <<>>, NEW g \in Frame
    PROVE  /\ Cardinality(Owing(<<g>> \o Tail(st)))
                  = Cardinality(Owing(st)) - (IF Owes(Head(st)) THEN 1 ELSE 0)
                                           + (IF Owes(g) THEN 1 ELSE 0)
           /\ Cardinality(Owing(st)) \in Int
<1>1. Tail(st) \in Seq(Frame)
  BY HeadTailProperties
<1>2. /\ Cardinality(Owing(Tail(st)))
             = Cardinality(Owing(st)) - (IF Owes(Head(st)) THEN 1 ELSE 0)
      /\ Cardinality(Owing(st)) \in Int
  BY OwingPop
<1>3. Cardinality(Owing(<<g>> \o Tail(st)))
          = Cardinality(Owing(Tail(st))) + (IF Owes(g) THEN 1 ELSE 0)
  BY <1>1, OwingPush
<1> QED BY <1>2, <1>3

(* ClockOnly of all frames, after a change on top.                         *)
AllClocks(st) == \A i \in 1..Len(st) : ClockOnly(st[i])

LEMMA ClocksPush ==
    ASSUME NEW st \in Seq(Frame), NEW f \in Frame, AllClocks(st), ClockOnly(f)
    PROVE  AllClocks(<<f>> \o st)
<1> DEFINE z == <<f>> \o st
<1>1. <<f>> \in Seq(Frame) /\ Len(<<f>>) = 1 /\ <<f>>[1] = f
  OBVIOUS
<1>2. z \in Seq(Frame) /\ Len(z) = Len(st) + 1 /\ Len(st) \in Nat
  BY <1>1, ConcatProperties
<1>3. z[1] = f /\ \A i \in 2..(Len(st) + 1) : z[i] = st[i - 1]
  BY <1>1, <1>2, ConcatProperties
<1> HIDE DEF z
<1> SUFFICES ASSUME NEW i \in 1..Len(z) PROVE ClockOnly(z[i])
  BY DEF AllClocks, z
<1>4. CASE i = 1
  BY <1>3, <1>4
<1>5. CASE i # 1
  <2>1. i \in 2..(Len(st) + 1) /\ i - 1 \in 1..Len(st)
    BY <1>2, <1>5
  <2> QED BY <1>3, <2>1 DEF AllClocks
<1> QED BY <1>4, <1>5

LEMMA ClocksPop ==
    ASSUME NEW st \in Seq(Frame), st # <<>>, AllClocks(st)
    PROVE  AllClocks(Tail(st)) /\ ClockOnly(Head(st)) /\ Tail(st) \in Seq(Frame)
<1>1. /\ Len(st) \in Nat /\ Len(st) >= 1 /\ Head(st) = st[1]
  BY EmptySeq
<1>2. /\ Tail(st) \in Seq(Frame) /\ Len(Tail(st)) = Len(st) - 1
      /\ \A i \in 1..Len(Tail(st)) : Tail(st)[i] = st[i + 1]
  BY <1>1, HeadTailProperties
<1>3. \A i \in 1..Len(Tail(st)) : i + 1 \in 1..Len(st)
  BY <1>1, <1>2
<1>4. AllClocks(Tail(st))
  BY <1>2, <1>3 DEF AllClocks
<1>5. ClockOnly(Head(st))
  BY <1>1 DEF AllClocks
<1> QED BY <1>2, <1>4, <1>5

LEMMA SampleInit == ASSUME MonitorsAssumption, Init PROVE SampleInv
<1>1. stack = <<>> /\ Owing(<<>>) = {}
  BY DEF Init, Owing
<1>2. due = Cardinality(Owing(stack))
  BY <1>1, FS_EmptySet DEF Init
<1>3. num > Generated /\ Generated \in 0..Generated
  BY Constants DEF Init
<1>4. \A at \in Point \cup Event : Generated \in sets[at] <=> at \in Clocks[Generated]
  BY <1>3 DEF Init
<1> QED BY <1>1, <1>2, <1>3, <1>4 DEF SampleInv

(* A new dispatch owes the generated monitor a call if it is registered.   *)
LEMMA SampleDispatch ==
    ASSUME MonitorsAssumption, IInv, SampleInv, NEW at \in Point \cup Event, Dispatch(at),
           UNCHANGED registry
    PROVE  SampleInv'
<1> DEFINE f == [at |-> at, owed |-> sets[at], called |-> <<>>, busy |-> FALSE]
<1>1. Rest_ok /\ stack \in Seq(Frame)
  BY Split DEF Frames_ok
<1>2. f \in Frame
  <2>1. sets[at] \subseteq Monitor
    BY <1>1, Constants DEF Rest_ok, Monitor
  <2> QED BY <2>1 DEF Frame, Label
<1>3. /\ f.at = at /\ f.owed = sets[at] /\ f.called = <<>> /\ f.busy = FALSE
      /\ stack' = <<f>> \o stack
      /\ due' = IF Generated \in sets[at] THEN due + 1 ELSE due
  BY DEF Dispatch
<1> HIDE DEF f
<1>4. Owes(f) <=> Generated \in sets[at]
  BY <1>3 DEF Owes, Reported
<1>5. ClockOnly(f)
  BY <1>3 DEF SampleInv, ClockOnly
<1>6. AllClocks(stack')
  BY <1>1, <1>2, <1>3, <1>5, ClocksPush DEF SampleInv, AllClocks
<1>7. /\ Cardinality(Owing(<<f>> \o stack))
             = Cardinality(Owing(stack)) + (IF Owes(f) THEN 1 ELSE 0)
      /\ Cardinality(Owing(stack)) \in Nat
  BY <1>1, <1>2, OwingPush
<1>8. due' = Cardinality(Owing(stack'))
  BY <1>3, <1>4, <1>7 DEF SampleInv
<1> QED BY <1>6, <1>8 DEF SampleInv, AllClocks, registry

LEMMA SampleReach ==
    ASSUME MonitorsAssumption, IInv, SampleInv, NEW l \in Location, Reach(l)
    PROVE  SampleInv'
<1> USE Constants
<1> DEFINE f == [at |-> l, owed |-> {Generated}, called |-> <<Generated>>, busy |-> TRUE]
<1>1. <<Generated>> \in Seq(Monitor) /\ Last(<<Generated>>) = Generated
  BY DEF Last
<1>2. f \in Frame
  BY <1>1 DEF Frame
<1>3. /\ f.at = l /\ f.owed = {Generated} /\ f.called = <<Generated>> /\ f.busy = TRUE
      /\ stack' = <<f>> /\ stack = <<>> /\ due' = due + 1 /\ UNCHANGED registry
      /\ l \in Clocks[Generated]
  BY DEF Reach, SimulationRuns
<1> HIDE DEF f
<1>4. Owes(f) /\ ClockOnly(f)
  BY <1>1, <1>3 DEF Owes, Reported, ClockOnly
<1>5. <<>> \in Seq(Frame) /\ <<f>> \o <<>> = <<f>> /\ AllClocks(<<>>)
  BY <1>2, ConcatEmptySeq DEF AllClocks
<1>6. AllClocks(<<f>>)
  BY <1>2, <1>4, <1>5, ClocksPush
<1>7. Cardinality(Owing(<<f>>)) = Cardinality(Owing(<<>>)) + 1
  BY <1>2, <1>4, <1>5, OwingPush
<1> QED BY <1>3, <1>6, <1>7 DEF SampleInv, AllClocks, registry

(* The callback of the generated monitor pays what its dispatch owes.      *)
LEMMA SampleCall == ASSUME MonitorsAssumption, IInv, SampleInv, CallNext PROVE SampleInv'
<1> USE Constants
<1> DEFINE m == Min(Ahead(Top))
           g == [Top EXCEPT !.called = Append(@, m), !.busy = TRUE]
<1>1. Rest_ok /\ Frames_ok(stack, sets) /\ stack \in Seq(Frame)
  BY Split DEF Frames_ok
<1>2. /\ stack # <<>> /\ ~Top.busy /\ Ahead(Top) # {}
      /\ stack' = <<g>> \o Tail(stack) /\ UNCHANGED registry /\ due' = due
  BY DEF CallNext
<1>3. Top \in Frame /\ Frame_ok(Top, sets) /\ Top = Head(stack)
  BY <1>1, <1>2, Pop DEF Top
<1>4. Top.at \in Point \cup Event
  BY <1>2, <1>3 DEF Frame_ok
<1>5. Ahead(Top) \subseteq Monitor
  BY <1>1, <1>4 DEF Ahead, Rest_ok, Monitor
<1>6. m \in Ahead(Top)
  BY <1>2, <1>5, Smallest
<1>7. m \in sets[Top.at] /\ m \in Monitor /\ \A i \in 1..Len(Top.called) : Top.called[i] < m
  BY <1>5, <1>6 DEF Ahead
<1> HIDE DEF m
<1>8. Top.called \in Seq(Monitor) /\ Len(Top.called) \in Nat
  BY <1>3 DEF Frame
<1>9. /\ g.at = Top.at /\ g.owed = Top.owed /\ g.busy = TRUE
      /\ g.called = Append(Top.called, m) /\ g \in Frame
  <2>1. Append(Top.called, m) \in Seq(Monitor)
    BY <1>7, <1>8
  <2>2. g = [Top EXCEPT !.called = Append(Top.called, m), !.busy = TRUE]
    BY <1>3 DEF Frame
  <2> HIDE DEF g
  <2> QED BY <1>3, <2>1, <2>2 DEF Frame
<1> HIDE DEF g
<1>10. /\ Len(g.called) = Len(Top.called) + 1 /\ g.called[Len(g.called)] = m
       /\ \A i \in 1..Len(Top.called) : g.called[i] = Top.called[i]
       /\ Last(g.called) = m
  <2>1. /\ Len(Append(Top.called, m)) = Len(Top.called) + 1
        /\ Append(Top.called, m)[Len(Top.called) + 1] = m
        /\ \A i \in 1..Len(Top.called) : Append(Top.called, m)[i] = Top.called[i]
    BY <1>7, <1>8, AppendProperties
  <2> QED BY <1>9, <2>1 DEF Last
<1>11. \A i \in 1..Len(g.called) :
          \/ i \in 1..Len(Top.called) /\ g.called[i] = Top.called[i]
          \/ i = Len(g.called) /\ g.called[i] = m
  BY <1>8, <1>10
<1>12. ClockOnly(Top) /\ AllClocks(Tail(stack)) /\ Tail(stack) \in Seq(Frame)
  BY <1>1, <1>2, <1>3, ClocksPop DEF SampleInv, AllClocks
<1>13. ClockOnly(g)
  <2>1. m = Generated => Generated \in Top.owed
    BY <1>4, <1>7, <1>12 DEF SampleInv, ClockOnly
  <2> QED BY <1>9, <1>11, <1>12, <2>1 DEF ClockOnly
<1>14. Owes(g) <=> Owes(Top)
  <2>1. CASE m = Generated
    <3>1. \A i \in 1..Len(Top.called) : Top.called[i] # Generated
      BY <1>7, <2>1 DEF Monitor
    <3> QED BY <1>9, <1>10, <2>1, <3>1 DEF Owes, Reported
  <2>2. CASE m # Generated
    <3>1. (\E i \in 1..Len(g.called) : g.called[i] = Generated)
             <=> \E i \in 1..Len(Top.called) : Top.called[i] = Generated
      <4>1. \A i \in 1..Len(g.called) : g.called[i] = Generated =>
               i \in 1..Len(Top.called) /\ Top.called[i] = Generated
        BY <1>11, <2>2
      <4>2. \A i \in 1..Len(Top.called) : i \in 1..Len(g.called) /\ g.called[i] = Top.called[i]
        BY <1>8, <1>10
      <4> QED BY <4>1, <4>2
    <3> QED BY <1>2, <1>9, <1>10, <2>2, <3>1 DEF Owes, Reported
  <2> QED BY <2>1, <2>2
<1>15. due' = Cardinality(Owing(stack'))
  <2>1. /\ Cardinality(Owing(<<g>> \o Tail(stack)))
               = Cardinality(Owing(stack)) - (IF Owes(Head(stack)) THEN 1 ELSE 0)
                                           + (IF Owes(g) THEN 1 ELSE 0)
        /\ Cardinality(Owing(stack)) \in Int
    BY <1>1, <1>2, <1>9, OwingReplace
  <2> QED BY <1>2, <1>3, <1>14, <2>1 DEF SampleInv
<1>16. AllClocks(stack')
  BY <1>2, <1>9, <1>12, <1>13, ClocksPush
<1> QED BY <1>2, <1>15, <1>16 DEF SampleInv, AllClocks, registry

(* A callback returns or a dispatch ends: what is paid is due no more.     *)
LEMMA SamplePop ==
    ASSUME MonitorsAssumption, IInv, SampleInv, stack # <<>>, stack' = Tail(stack),
           UNCHANGED registry, due' = due - (IF Owes(Top) THEN 1 ELSE 0)
    PROVE  SampleInv'
<1>1. stack \in Seq(Frame) /\ Top = Head(stack)
  BY Split DEF Frames_ok, Top
<1>2. AllClocks(stack')
  BY <1>1, ClocksPop DEF SampleInv, AllClocks
<1>3. due' = Cardinality(Owing(stack'))
  BY <1>1, OwingPop DEF SampleInv
<1> QED BY <1>2, <1>3 DEF SampleInv, AllClocks, registry

LEMMA SampleReturn ==
    ASSUME MonitorsAssumption, IInv, SampleInv, InCallback,
           stack' = <<[Top EXCEPT !.busy = FALSE]>> \o Tail(stack), UNCHANGED registry,
           due' = due - (IF Last(Top.called) = Generated THEN 1 ELSE 0)
    PROVE  SampleInv'
<1> USE Constants
<1> DEFINE g == [Top EXCEPT !.busy = FALSE]
<1>1. stack \in Seq(Frame) /\ Top = Head(stack) /\ stack # <<>> /\ Frames_ok(stack, sets)
  BY Split DEF Frames_ok, Top, InCallback
<1>2. Top \in Frame /\ Frame_ok(Top, sets) /\ Top.busy
  BY <1>1, Pop DEF InCallback
<1>3. /\ g.at = Top.at /\ g.owed = Top.owed /\ g.called = Top.called
      /\ g.busy = FALSE /\ g \in Frame /\ stack' = <<g>> \o Tail(stack)
  BY <1>2 DEF Frame
<1> HIDE DEF g
<1>4. ClockOnly(Top) /\ AllClocks(Tail(stack)) /\ Tail(stack) \in Seq(Frame)
  BY <1>1, ClocksPop DEF SampleInv, AllClocks
<1>5. ClockOnly(g)
  BY <1>3, <1>4 DEF ClockOnly
<1>6. AllClocks(stack')
  BY <1>3, <1>4, <1>5, ClocksPush
<1>7. Len(Top.called) \in 1..Len(Top.called) /\ Last(Top.called) = Top.called[Len(Top.called)]
  <2>1. Top.called \in Seq(Monitor) /\ Top.called # <<>>
    BY <1>2 DEF Frame, Frame_ok
  <2>2. Len(Top.called) \in Nat /\ Len(Top.called) # 0
    BY <2>1, EmptySeq
  <2> QED BY <2>2 DEF Last
<1>8. CASE Last(Top.called) = Generated
  <2>1. Owes(Top) /\ ~Owes(g)
    BY <1>2, <1>3, <1>4, <1>7, <1>8 DEF Owes, Reported, ClockOnly
  <2>2. /\ Cardinality(Owing(<<g>> \o Tail(stack)))
               = Cardinality(Owing(stack)) - (IF Owes(Head(stack)) THEN 1 ELSE 0)
                                           + (IF Owes(g) THEN 1 ELSE 0)
        /\ Cardinality(Owing(stack)) \in Int
    BY <1>1, <1>3, OwingReplace
  <2>3. due' = Cardinality(Owing(stack'))
    <3>1. due = Cardinality(Owing(stack)) /\ due \in Int
      BY <2>2 DEF SampleInv
    <3>2. Cardinality(Owing(stack')) = Cardinality(Owing(stack)) - 1
      <4>1. Owes(Head(stack)) <=> Owes(Top)
        BY <1>1, Zenon
      <4>2. Owing(stack') = Owing(<<g>> \o Tail(stack))
        BY <1>3, Zenon
      <4> HIDE DEF Owing, Owes
      <4> QED BY <2>1, <2>2, <4>1, <4>2
    <3>3. due' = due - 1
      BY <1>8
    <3> QED BY <3>1, <3>2, <3>3
  <2> QED BY <1>6, <2>3 DEF SampleInv, AllClocks, registry
<1>9. CASE Last(Top.called) # Generated
  <2>1. Owes(Top) <=> Owes(g)
    BY <1>3, <1>9 DEF Owes, Reported
  <2>2. /\ Cardinality(Owing(<<g>> \o Tail(stack)))
               = Cardinality(Owing(stack)) - (IF Owes(Head(stack)) THEN 1 ELSE 0)
                                           + (IF Owes(g) THEN 1 ELSE 0)
        /\ Cardinality(Owing(stack)) \in Int
    BY <1>1, <1>3, OwingReplace
  <2>3. due' = Cardinality(Owing(stack'))
    <3>1. due = Cardinality(Owing(stack)) /\ due \in Int
      BY <2>2 DEF SampleInv
    <3>2. Cardinality(Owing(stack')) = Cardinality(Owing(stack)) - 0
      <4>1. Owes(Head(stack)) <=> Owes(Top)
        BY <1>1, Zenon
      <4>2. Owing(stack') = Owing(<<g>> \o Tail(stack))
        BY <1>3, Zenon
      <4> HIDE DEF Owing, Owes
      <4> QED BY <2>1, <2>2, <4>1, <4>2
    <3>3. due' = due - 0
      BY <1>9
    <3> QED BY <3>1, <3>2, <3>3
  <2> QED BY <1>6, <2>3 DEF SampleInv, AllClocks, registry
<1> QED BY <1>8, <1>9

(* A dispatch that ends has passed over nobody.                            *)
LEMMA SampleEnd == ASSUME MonitorsAssumption, IInv, SampleInv, EndDispatch PROVE SampleInv'
<1> USE Constants
<1>1. /\ stack # <<>> /\ ~Top.busy /\ Ahead(Top) = {} /\ stack' = Tail(stack)
      /\ UNCHANGED registry /\ due' = due
  BY DEF EndDispatch
<1>2. Frame_ok(Top, sets)
  BY <1>1, Split, Pop DEF Top
<1>3. ~Owes(Top)
  <2> SUFFICES ASSUME Generated \in Top.owed,
                      ~\E i \in 1..Len(Top.called) : Top.called[i] = Generated
               PROVE  FALSE
    BY <1>1 DEF Owes, Reported
  <2>1. \A i \in 1..Len(Top.called) : Top.called[i] < Generated
    BY <1>2 DEF Frame_ok
  <2>2. Generated \in sets[Top.at]
    BY <1>1, <1>2 DEF Frame_ok
  <2> QED BY <1>1, <2>1, <2>2 DEF Ahead
<1>4. due \in Int
  BY Split DEF Rest_ok
<1> QED BY <1>1, <1>3, <1>4, SamplePop

LEMMA SampleStep == ASSUME MonitorsAssumption, IInv, SampleInv, Step PROVE SampleInv'
<1> USE Constants
<1>1. /\ InCallback /\ stack # <<>> /\ Top.busy /\ Last(Top.called) = Generated
      /\ UNCHANGED registry
  BY DEF Step, Reading, InCallback
<1>2. CASE ~Prints
  BY <1>1, <1>2 DEF Step, SampleInv, registry
<1>3. CASE Prints /\ Top.at \notin Location
  BY <1>1, <1>3, SampleReturn DEF Step
<1>4. CASE Prints /\ Top.at \in Location
  <2>1. Frame_ok(Top, sets) /\ ClockOnly(Top) /\ Top \in Frame
    BY <1>1, Split, Pop, ClocksPop DEF Top, SampleInv, AllClocks, Frames_ok
  <2>2. Top.called = <<Generated>>
    BY <1>4, <2>1 DEF Frame_ok, MonitorsAssumption, Label
  <2>3. Owes(Top)
    <3>1. 1 \in 1..Len(<<Generated>>) /\ <<Generated>>[1] = Generated
      OBVIOUS
    <3>2. Generated \in Top.owed
      BY <2>1, <2>2, <3>1 DEF ClockOnly
    <3> QED BY <1>1, <3>2 DEF Owes, Reported
  <2>4. stack' = Tail(stack) /\ due' = due - 1
    BY <1>4 DEF Step
  <2> QED BY <1>1, <2>3, <2>4, SamplePop
<1> QED BY <1>2, <1>3, <1>4

(* The monitors that register on the way are others.                       *)
LEMMA SampleRegister ==
    ASSUME MonitorsAssumption, IInv, SampleInv, NEW m \in Nat, m # Generated, NEW ats,
           sets' = Registered(sets, m, ats), num' \in Nat, num' >= num,
           UNCHANGED <<simulation, due>>
    PROVE  SampleInv'
<1>1. /\ sets \in [Point \cup Event -> SUBSET (0..(num - 1))]
      /\ num \in Int /\ Generated \in Int
  BY Split, Constants DEF Rest_ok
<1>2. \A at \in Point \cup Event : Generated \in sets'[at] <=> Generated \in sets[at]
  BY <1>1 DEF Registered
<1>3. num' > Generated
  BY <1>1 DEF SampleInv
<1>4. UNCHANGED <<stack, due>>
  BY DEF simulation
<1> QED BY <1>2, <1>3, <1>4 DEF SampleInv

(* The trace that PLASMA reads misses no sample: the samples not reported  *)
(* are those of the dispatches in progress.                                *)
THEOREM SamplesCorrect == RegisteredOnce /\ Spec => []SamplesReported
<1> USE MonitorsAssumption, Constants
<1>1. RegisteredOnce /\ Init => RegisteredOnce /\ SampleInv
  BY SampleInit
<1>2. IInv /\ RegisteredOnce /\ SampleInv /\ [Next]_vars => (RegisteredOnce /\ SampleInv)'
  <2> SUFFICES ASSUME IInv, RegisteredOnce, SampleInv, [Next]_vars
               PROVE  (RegisteredOnce /\ SampleInv)'
    OBVIOUS
  <2>0. RegisteredOnce'
    BY DEF RegisteredOnce
  <2>00. Rest_ok
    BY Split
  <2>1. CASE CallNext
    BY <2>0, <2>1, SampleCall
  <2>2. CASE EndDispatch
    BY <2>0, <2>2, SampleEnd
  <2>3. CASE NextPoint
    <3>1. Head(todo) \in Point \cup Event /\ Dispatch(Head(todo)) /\ UNCHANGED registry
      BY <2>00, <2>3, HeadTailProperties DEF NextPoint, Rest_ok
    <3> QED BY <2>0, <3>1, SampleDispatch
  <2>4. CASE HandWrittenReturns
    <3>1. /\ InCallback /\ Last(Top.called) # Generated /\ UNCHANGED registry
          /\ stack' = <<[Top EXCEPT !.busy = FALSE]>> \o Tail(stack)
          /\ due' = due - 0
      BY <2>00, <2>4 DEF HandWrittenReturns, InHandWritten, Reading, Rest_ok
    <3> QED BY <2>0, <3>1, SampleReturn
  <2>5. CASE Step
    BY <2>0, <2>5, SampleStep
  <2>6. ASSUME NEW e \in Event, Trigger(e) PROVE SampleInv'
    BY <2>6, SampleDispatch DEF Trigger
  <2>7. ASSUME NEW l \in Location, Reach(l) PROVE SampleInv'
    BY <2>7, SampleReach
  <2>8. CASE Create
    <3>1. num \in Nat /\ num # Generated /\ num' = num + 1 /\ num' \in Nat /\ num' >= num
      BY <2>00, <2>8 DEF Create, Rest_ok, SampleInv
    <3> QED BY <2>0, <2>8, <3>1, SampleRegister DEF Create
  <2>9. ASSUME NEW r \in Late, RegisterMonitor(r[1], r[2]) PROVE SampleInv'
    <3>1. r[1] \in Nat /\ r[1] # Generated
      BY DEF RegisteredOnce, MonitorsAssumption
    <3>2. num \in Nat /\ num' = num /\ num' >= num
      BY <2>00, <2>9 DEF RegisterMonitor, Rest_ok
    <3> QED BY <2>9, <3>1, <3>2, SampleRegister DEF RegisterMonitor
  <2>10. CASE Quit \/ Kernel \/ Return \/ Plasma \/ UNCHANGED vars
    <3>1. UNCHANGED <<num, sets, stack, due>>
      BY <2>10 DEF Quit, Kernel, Observe, Return, Plasma, Die, Ask, vars, registry, simulation
    <3> QED BY <2>0, <3>1 DEF SampleInv
  <2> QED BY <2>0, <2>1, <2>2, <2>3, <2>4, <2>5, <2>6, <2>7, <2>8, <2>9, <2>10
          DEF Next, Callback, Command, Code
<1>3. IInv /\ SampleInv => SamplesReported
  <2> SUFFICES ASSUME IInv, SampleInv PROVE SamplesReported
    OBVIOUS
  <2>1. \A i \in 1..Len(stack) : Owes(stack[i]) <=>
           LET d == stack[i] IN
           /\ Generated \in d.owed
           /\ Generated \in ToSet(d.called) => d.busy /\ Last(d.called) = Generated
    <3> SUFFICES ASSUME NEW i \in 1..Len(stack)
                 PROVE  Reported(stack[i]) <=>
                          (Generated \in ToSet(stack[i].called) =>
                             stack[i].busy /\ Last(stack[i].called) = Generated)
      BY DEF Owes
    <3>1. stack[i] \in Frame
      BY Split DEF Frames_ok
    <3>2. DOMAIN stack[i].called = 1..Len(stack[i].called)
      BY <3>1, LenProperties DEF Frame
    <3> QED BY <3>2 DEF Reported, ToSet
  <2> QED BY <2>1 DEF SampleInv, Owing, SamplesReported
<1> QED BY <1>1, <1>2, <1>3, Inductive, PTL DEF Spec
===============================================================================
