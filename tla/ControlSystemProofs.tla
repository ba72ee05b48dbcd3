------------------------- MODULE ControlSystemProofs -------------------------
(***************************************************************************)
(* The safety of ControlSystem, proved for any number of units, any limits *)
(* and any number of tolerated cycles.                                     *)
(***************************************************************************)
EXTENDS ControlSystem, FiniteSetTheorems, TLAPS

(* Who is awake has a transition to make.                                  *)
AwakeOK ==
    /\ phase = "threads" => \A u \in Unit \cap run : unit[u] > 0
    /\ phase = "methods" => run \subseteq Side \cup {"timeout"}
    /\ \A p \in Side : armed[p] => status[p] # 0

(* The counts of the group follow its units downwards: Sa_grp counts a     *)
(* number that held when the instant began, or later.                      *)
CountsFollow ==
    \A p \in Side :
        /\ Working(p) <= group[p]
        /\ phase = "threads" => Working(p) <= was[p]
        /\ phase = "threads" /\ "sagrp" \notin run => group[p] <= was[p]

(* A processor that made a transition while its guard was false is frozen. *)
LateIsFrozen ==
    \A p \in Side : late[p] = 0 \/ (late[p] = 1 /\ ~armed[p] /\ group[p] < Need(p))

BusClaims ==
    /\ comp = 1 => procm = 1
    /\ reqo = 1 => ~Functioning("out")
    /\ Functioning("in") => reqi = 1

(* The timeout runs in every instant, and whatever runs after it in the    *)
(* second delta keeps what it has settled.                                 *)
TimeoutSettles ==
    /\ phase = "threads" => "timeout" \in run \cup wrote
    /\ phase = "methods" /\ "timeout" \notin run => BusClaims

IInv == TypeOK /\ AwakeOK /\ CountsFollow /\ LateIsFrozen /\ TimeoutSettles

-------------------------------------------------------------------------------
(* The number of working units is a number of units, and units that fail   *)
(* make it smaller.                                                        *)
LEMMA WorkingFacts ==
    ASSUME ControlAssumption, unit \in [Unit -> 0..3], unit' \in [Unit -> 0..3],
           \A u \in Unit : unit'[u] <= unit[u],
           NEW p \in Side
    PROVE  /\ Working(p) \in Nat /\ Working(p)' \in Nat
           /\ Working(p)' <= Working(p)
           /\ Working(p) <= Cardinality(Units(p))
<1> DEFINE W == {u \in Units(p) : unit[u] >= New(u) - 1}
           V == {u \in Units(p) : unit'[u] >= New(u) - 1}
<1>1. Units(p) \subseteq Unit /\ IsFiniteSet(Units(p))
  BY DEF ControlAssumption, Units, Unit
<1>2. \A u \in Unit : unit[u] \in Int /\ unit'[u] \in Int /\ New(u) \in Int
  BY DEF New
<1>3. V \subseteq W /\ W \subseteq Units(p)
  BY <1>1, <1>2
<1>4. /\ IsFiniteSet(W) /\ IsFiniteSet(V)
      /\ Cardinality(W) <= Cardinality(Units(p)) /\ Cardinality(V) <= Cardinality(W)
  BY <1>1, <1>3, FS_Subset
<1>5. Cardinality(W) \in Nat /\ Cardinality(V) \in Nat
  BY <1>4, FS_CardinalityType
<1>6. Working(p) = Cardinality(W) /\ Working(p)' = Cardinality(V)
  BY DEF Working, Units, New
<1> QED BY <1>4, <1>5, <1>6

(* The sizes that the assumption of the module gives.                      *)
LEMMA SideFacts ==
    ASSUME ControlAssumption
    PROVE  /\ \A p \in Side : Need(p) \in Nat /\ Cardinality(Units(p)) \in Nat
           /\ MAX_COUNT \in Nat
           /\ Unit \cap (Side \cup {"timeout", "procm", "sagrp"}) = {}
<1>1. Cardinality(Sensor) \in Nat /\ Cardinality(Actuator) \in Nat
  BY FS_CardinalityType DEF ControlAssumption
<1> QED BY <1>1 DEF ControlAssumption, Need, Units, Side, Unit

LEMMA InitIInv == ASSUME ControlAssumption PROVE Init => IInv
<1> SUFFICES ASSUME Init PROVE IInv OBVIOUS
<1> USE SideFacts
<1>1. \A p \in Side : {u \in Units(p) : unit[u] >= New(u) - 1} = Units(p)
  BY DEF Init, Units, Unit, New
<1>2. \A p \in Side : Working(p) = Cardinality(Units(p))
  BY <1>1 DEF Working
<1>3. TypeOK
  <2>1. unit \in [Unit -> 0..3] /\ \A u \in Unit : unit[u] <= New(u)
    BY DEF Init, New
  <2> QED BY <2>1 DEF Init, TypeOK, Side
<1>4. CountsFollow
  BY <1>2 DEF Init, CountsFollow
<1>5. \A p \in Side : group[p] >= Need(p)
  BY DEF Init, Side, Need, Units, ControlAssumption
<1>6. TimeoutSettles
  BY DEF Init, TimeoutSettles, BusClaims
<1> QED BY <1>3, <1>4, <1>6 DEF Init, IInv, AwakeOK, LateIsFrozen, Side

-------------------------------------------------------------------------------
LEMMA TickStep == ASSUME ControlAssumption, IInv, Tick PROVE IInv'
<1> USE SideFacts
<1>1. \A p \in Side : Working(p)' = Working(p) /\ was'[p] = Working(p)
  BY DEF Tick, Working
<1>2. \A p \in Side : Working(p) \in Nat /\ Working(p) <= Cardinality(Units(p))
  <2> SUFFICES ASSUME NEW p \in Side
               PROVE  Working(p) \in Nat /\ Working(p) <= Cardinality(Units(p))
    OBVIOUS
  <2>1. unit' = unit /\ unit \in [Unit -> 0..3]
    BY DEF Tick, IInv, TypeOK
  <2> QED BY <2>1, WorkingFacts
<1>3. TypeOK'
  <2>1. run' \subseteq Unit \cup Side \cup {"sagrp", "procm", "timeout"}
    BY DEF Tick
  <2>2. was' \in [Side -> Nat] /\ \A p \in Side : was'[p] <= Cardinality(Units(p))
    BY <1>2 DEF Tick
  <2> QED BY <2>1, <2>2 DEF Tick, IInv, TypeOK, main, bus
<1>4. AwakeOK'
  <2>1. \A u \in Unit \cap run' : unit[u] > 0
    BY DEF Tick
  <2> QED BY <2>1 DEF Tick, IInv, AwakeOK
<1>5. CountsFollow'
  <2>1. "sagrp" \in run' /\ group' = group /\ phase' = "threads"
    BY DEF Tick
  <2> QED BY <1>1, <1>2, <2>1 DEF IInv, CountsFollow
<1>6. LateIsFrozen'
  BY DEF Tick, IInv, LateIsFrozen
<1>7. TimeoutSettles'
  <2>1. "timeout" \in run' /\ phase' = "threads"
    BY DEF Tick
  <2> QED BY <2>1 DEF TimeoutSettles
<1> QED BY <1>3, <1>4, <1>5, <1>6, <1>7 DEF IInv

LEMMA UnitStep ==
    ASSUME ControlAssumption, IInv, NEW u \in Unit, UnitTransition(u) PROVE IInv'
<1> USE SideFacts
<1>1. unit[u] \in 0..3 /\ unit[u] > 0
  BY DEF IInv, TypeOK, AwakeOK, UnitTransition, Running
<1>2. unit \in [Unit -> 0..3] /\ \A v \in Unit : unit[v] <= New(v)
  BY DEF IInv, TypeOK
<1>3. unit' = [unit EXCEPT ![u] = unit[u] - 1]
  BY DEF UnitTransition
<1>4. /\ unit' \in [Unit -> 0..3] /\ \A v \in Unit : unit'[v] <= unit[v]
      /\ \A v \in Unit : v # u => unit'[v] = unit[v]
  BY <1>1, <1>2, <1>3
<1>5. \A v \in Unit : unit'[v] <= New(v)
  BY <1>2, <1>4 DEF New
<1>6. \A p \in Side : /\ Working(p) \in Nat /\ Working(p)' \in Nat
                      /\ Working(p)' <= Working(p)
  BY <1>2, <1>4, WorkingFacts
<1>7. TypeOK'
  BY <1>4, <1>5 DEF UnitTransition, Running, IInv, TypeOK, main, bus
<1>8. AwakeOK'
  <2>1. phase = "threads" /\ phase' = "threads" /\ run' = run \ {u}
    BY DEF UnitTransition, Running
  <2>2. \A v \in Unit \cap run' : unit'[v] > 0
    BY <1>4, <2>1 DEF IInv, AwakeOK
  <2> QED BY <2>1, <2>2 DEF UnitTransition, IInv, AwakeOK
<1>9. CountsFollow'
  <2>1. "sagrp" # u
    BY DEF ControlAssumption, Unit
  <2>2. group' = group /\ was' = was /\ phase' = phase /\ ("sagrp" \in run' <=> "sagrp" \in run)
    BY <2>1 DEF UnitTransition, Running
  <2>3. \A p \in Side : group[p] \in Nat /\ was[p] \in Nat
    BY DEF IInv, TypeOK
  <2> QED BY <1>6, <2>2, <2>3 DEF IInv, CountsFollow
<1>10. LateIsFrozen'
  BY DEF UnitTransition, IInv, LateIsFrozen
<1>11. TimeoutSettles'
  <2>1. phase = "threads" /\ phase' = "threads" /\ run' = run \ {u} /\ wrote' = wrote
    BY DEF UnitTransition, Running
  <2>2. "timeout" # u
    OBVIOUS
  <2> QED BY <2>1, <2>2 DEF IInv, TimeoutSettles
<1> QED BY <1>7, <1>8, <1>9, <1>10, <1>11 DEF IInv

LEMMA GroupStep == ASSUME ControlAssumption, IInv, Sa_grp_transition PROVE IInv'
<1> USE SideFacts
<1>1. phase = "threads" /\ phase' = "threads" /\ run' = run \ {"sagrp"} /\ unit' = unit
  BY DEF Sa_grp_transition, Running
<1>2. \A p \in Side : /\ Working(p) \in Nat /\ Working(p)' = Working(p)
                      /\ Working(p) <= Cardinality(Units(p))
  <2> SUFFICES ASSUME NEW p \in Side
               PROVE  /\ Working(p) \in Nat /\ Working(p)' = Working(p)
                      /\ Working(p) <= Cardinality(Units(p))
    OBVIOUS
  <2>1. Working(p)' = Working(p)
    BY <1>1 DEF Working
  <2>2. unit \in [Unit -> 0..3]
    BY DEF IInv, TypeOK
  <2> QED BY <1>1, <2>1, <2>2, WorkingFacts
<1>3. group' = [p \in Side |-> Working(p)]
  BY DEF Sa_grp_transition
<1>4. TypeOK'
  <2>1. group' \in [Side -> Nat] /\ \A p \in Side : group'[p] <= Cardinality(Units(p))
    BY <1>2, <1>3
  <2> QED BY <1>1, <2>1 DEF Sa_grp_transition, IInv, TypeOK, main, bus
<1>5. AwakeOK'
  BY <1>1 DEF Sa_grp_transition, IInv, AwakeOK
<1>6. CountsFollow'
  <2>1. was' = was
    BY DEF Sa_grp_transition
  <2> QED BY <1>1, <1>2, <1>3, <2>1 DEF IInv, CountsFollow
<1>7. LateIsFrozen'
  <2>1. armed' = armed /\ late' = late
    BY DEF Sa_grp_transition
  <2>2. \A p \in Side : group'[p] <= group[p] /\ group[p] \in Nat /\ group'[p] \in Nat
    BY <1>2, <1>3 DEF IInv, CountsFollow, TypeOK
  <2> QED BY <2>1, <2>2 DEF IInv, LateIsFrozen
<1>8. TimeoutSettles'
  BY <1>1 DEF Sa_grp_transition, IInv, TimeoutSettles
<1> QED BY <1>4, <1>5, <1>6, <1>7, <1>8 DEF IInv

LEMMA ProcStep ==
    ASSUME ControlAssumption, IInv, NEW p \in Side, ProcTransition(p) PROVE IInv'
<1> USE SideFacts
<1>1. PICK to \in Choices(p) :
        /\ status' = [status EXCEPT ![p] = to]
        /\ armed' = [armed EXCEPT ![p] = Guard(p, to)]
        /\ wrote' = IF status[p] = 1 /\ to = 2 THEN wrote \cup {p} ELSE wrote
        /\ late' = [late EXCEPT ![p] =
                       IF to # status[p] /\ group[p] < Need(p) THEN late[p] + 1 ELSE late[p]]
  BY DEF ProcTransition
<1>2. /\ phase = "threads" /\ phase' = "threads" /\ run' = run \ {p}
      /\ unit' = unit /\ group' = group /\ was' = was /\ UNCHANGED <<main, bus>>
  BY DEF ProcTransition, Running
<1>3. /\ status \in [Side -> 0..2] /\ armed \in [Side -> BOOLEAN] /\ late \in [Side -> Nat]
      /\ group \in [Side -> Nat]
  BY DEF IInv, TypeOK
<1>4. to \in 0..2 /\ (~armed[p] => to = status[p])
  BY <1>3 DEF Choices, IInv, AwakeOK
<1>5. Guard(p, to) \in BOOLEAN /\ (Guard(p, to) => to # 0 /\ group[p] >= Need(p))
  BY DEF Guard
<1>6. TypeOK'
  <2>1. status' \in [Side -> 0..2] /\ armed' \in [Side -> BOOLEAN] /\ late' \in [Side -> Nat]
    BY <1>1, <1>3, <1>4, <1>5
  <2>2. wrote' \subseteq Side \cup {"timeout"}
    BY <1>1 DEF IInv, TypeOK
  <2> QED BY <1>2, <2>1, <2>2 DEF IInv, TypeOK, main, bus
<1>7. AwakeOK'
  <2>1. \A q \in Side : armed'[q] => status'[q] # 0
    BY <1>1, <1>3, <1>5 DEF IInv, AwakeOK
  <2> QED BY <1>2, <2>1 DEF IInv, AwakeOK
<1>8. CountsFollow'
  <2>1. \A q \in Side : Working(q)' = Working(q)
    BY <1>2 DEF Working
  <2>2. "sagrp" # p
    BY DEF Side
  <2> QED BY <1>2, <2>1, <2>2 DEF IInv, CountsFollow
<1>9. LateIsFrozen'
  <2> SUFFICES ASSUME NEW q \in Side
               PROVE  late'[q] = 0 \/ (late'[q] = 1 /\ ~armed'[q] /\ group[q] < Need(q))
    BY <1>2 DEF LateIsFrozen, Need
  <2>1. late[q] = 0 \/ (late[q] = 1 /\ ~armed[q] /\ group[q] < Need(q))
    BY DEF IInv, LateIsFrozen
  <2>2. CASE q # p
    BY <1>1, <1>3, <2>1, <2>2
  <2>3. CASE q = p
    <3>1. late'[p] = IF to # status[p] /\ group[p] < Need(p) THEN late[p] + 1 ELSE late[p]
      BY <1>1, <1>3
    <3>2. armed'[p] = Guard(p, to)
      BY <1>1, <1>3
    <3>3. group[p] < Need(p) => ~Guard(p, to)
      BY <1>3, <1>5
    <3> QED BY <1>4, <2>1, <2>3, <3>1, <3>2, <3>3
  <2> QED BY <2>2, <2>3
<1>10. TimeoutSettles'
  <2>1. "timeout" # p
    BY DEF Side
  <2> QED BY <1>1, <1>2, <2>1 DEF IInv, TimeoutSettles
<1> QED BY <1>6, <1>7, <1>8, <1>9, <1>10 DEF IInv

LEMMA ProcmStep == ASSUME ControlAssumption, IInv, Procm_transition PROVE IInv'
<1>1. /\ phase = "threads" /\ phase' = "threads" /\ run' = run \ {"procm"} /\ procm' = 0
      /\ UNCHANGED <<unit, group, status, armed, seen, count, bus, wrote, was, late>>
  BY DEF Procm_transition, Running
<1>2. TypeOK'
  BY <1>1 DEF IInv, TypeOK, bus
<1>3. AwakeOK' /\ LateIsFrozen' /\ TimeoutSettles'
  BY <1>1 DEF IInv, AwakeOK, LateIsFrozen, TimeoutSettles
<1>4. CountsFollow'
  BY <1>1 DEF IInv, CountsFollow, Working
<1> QED BY <1>2, <1>3, <1>4 DEF IInv

LEMMA TimeoutStep == ASSUME ControlAssumption, IInv, Procm_timeout_transition PROVE IInv'
<1>1. /\ phase = "threads" /\ phase' = "threads" /\ run' = run \ {"timeout"}
      /\ wrote' = wrote \cup {"timeout"} /\ seen' = comp /\ count' = NextCount
      /\ UNCHANGED <<unit, group, status, armed, procm, bus, was, late>>
  BY DEF Procm_timeout_transition, Running
<1>2. count' \in 0..(MAX_COUNT + 1)
  BY <1>1, SideFacts DEF IInv, TypeOK, NextCount
<1>3. TypeOK'
  BY <1>1, <1>2 DEF IInv, TypeOK, bus
<1>4. AwakeOK' /\ LateIsFrozen' /\ TimeoutSettles'
  BY <1>1 DEF IInv, AwakeOK, LateIsFrozen, TimeoutSettles
<1>5. CountsFollow'
  BY <1>1 DEF IInv, CountsFollow, Working
<1> QED BY <1>3, <1>4, <1>5 DEF IInv

LEMMA NotifyStep == ASSUME ControlAssumption, IInv, Notify PROVE IInv'
<1>1. /\ phase = "threads" /\ run = {} /\ phase' = "methods" /\ run' = wrote /\ wrote' = {}
      /\ was' = [p \in Side |-> 0]
      /\ UNCHANGED <<unit, group, status, armed, main, bus, late>>
  BY DEF Notify
<1>2. TypeOK'
  BY <1>1, SideFacts DEF IInv, TypeOK, main, bus
<1>3. AwakeOK' /\ LateIsFrozen'
  BY <1>1 DEF IInv, AwakeOK, LateIsFrozen, TypeOK
<1>4. CountsFollow'
  BY <1>1 DEF IInv, CountsFollow, Working
<1>5. TimeoutSettles'
  BY <1>1 DEF IInv, TimeoutSettles
<1> QED BY <1>2, <1>3, <1>4, <1>5 DEF IInv

(* What the three methods of the bus have in common.                       *)
LEMMA MethodStep ==
    ASSUME ControlAssumption, IInv, NEW b, Running(b, "methods"),
           UNCHANGED <<unit, group, status, armed, main, wrote, was, late>>,
           {comp', reqi', reqo'} \subseteq 0..1,
           b = "timeout" \/ BusClaims => BusClaims'
    PROVE  IInv'
<1>1. phase = "methods" /\ phase' = "methods" /\ run' = run \ {b}
  BY DEF Running
<1>2. TypeOK'
  BY <1>1 DEF IInv, TypeOK, main
<1>3. AwakeOK' /\ LateIsFrozen'
  BY <1>1 DEF IInv, AwakeOK, LateIsFrozen
<1>4. CountsFollow'
  BY <1>1 DEF IInv, CountsFollow, Working
<1>5. TimeoutSettles'
  BY <1>1 DEF IInv, TimeoutSettles
<1> QED BY <1>2, <1>3, <1>4, <1>5 DEF IInv

LEMMA InputStep == ASSUME ControlAssumption, IInv, Receiving_input_reboot PROVE IInv'
<1>1. {comp', reqi', reqo'} \subseteq 0..1 /\ (BusClaims => BusClaims')
  BY DEF Receiving_input_reboot, Bit, BusClaims, Functioning, main
<1> QED BY <1>1, MethodStep DEF Receiving_input_reboot

LEMMA OutputStep == ASSUME ControlAssumption, IInv, Receiving_output_reboot PROVE IInv'
<1>1. {comp', reqi', reqo'} \subseteq 0..1 /\ (BusClaims => BusClaims')
  BY DEF Receiving_output_reboot, Bit, BusClaims, Functioning, main
<1> QED BY <1>1, MethodStep DEF Receiving_output_reboot

LEMMA BusTimeoutStep == ASSUME ControlAssumption, IInv, Receiving_timeout PROVE IInv'
<1>1. {comp', reqi', reqo'} \subseteq 0..1 /\ BusClaims'
  BY DEF Receiving_timeout, Bit, BusClaims, Functioning, main
<1> QED BY <1>1, MethodStep DEF Receiving_timeout

-------------------------------------------------------------------------------
(* The invariant is inductive, whatever order the random scheduler gives   *)
(* to the threads and to the methods of an instant.                        *)
THEOREM Inductive == Spec => []IInv
<1> USE ControlAssumption
<1>1. Init => IInv
  BY InitIInv
<1>2. IInv /\ [Next]_vars => IInv'
  <2> SUFFICES ASSUME IInv, [Next]_vars PROVE IInv'
    OBVIOUS
  <2>1. CASE Tick
    BY <2>1, TickStep
  <2>2. CASE \E u \in Unit : UnitTransition(u)
    BY <2>2, UnitStep
  <2>3. CASE Sa_grp_transition
    BY <2>3, GroupStep
  <2>4. CASE \E p \in Side : ProcTransition(p)
    BY <2>4, ProcStep
  <2>5. CASE Procm_transition
    BY <2>5, ProcmStep
  <2>6. CASE Procm_timeout_transition
    BY <2>6, TimeoutStep
  <2>7. CASE Notify
    BY <2>7, NotifyStep
  <2>8. CASE Receiving_input_reboot
    BY <2>8, InputStep
  <2>9. CASE Receiving_output_reboot
    BY <2>9, OutputStep
  <2>10. CASE Receiving_timeout
    BY <2>10, BusTimeoutStep
  <2>11. CASE UNCHANGED vars
    BY <2>11 DEF vars, main, bus, IInv, TypeOK, AwakeOK, CountsFollow, LateIsFrozen,
                 TimeoutSettles, BusClaims, Working, Functioning
  <2> QED BY <2>1, <2>2, <2>3, <2>4, <2>5, <2>6, <2>7, <2>8, <2>9, <2>10, <2>11 DEF Next
<1> QED BY <1>1, <1>2, PTL DEF Spec

(* The types of the module: a unit goes down its chain to 0 and no further *)
(* and the skipped cycles are never more than MAX_COUNT + 1.               *)
THEOREM TypeCorrect == Spec => []TypeOK
<1>1. IInv => TypeOK
  BY DEF IInv
<1> QED BY <1>1, Inductive, PTL

(* What the monitor samples is the number of units that worked at some     *)
(* time of the same instant.                                               *)
THEOREM SnapshotCorrect == Spec => []SnapshotIsRecent
<1>1. IInv => SnapshotIsRecent
  BY DEF IInv, CountsFollow, SnapshotIsRecent, Sampled
<1> QED BY <1>1, Inductive, PTL

(* A processor whose group has fallen below its limit makes at most one    *)
(* more transition, the one whose guard it read before.                    *)
THEOREM FreezeCorrect == Spec => []FreezesAfterOne
<1>1. IInv => FreezesAfterOne
  BY DEF IInv, LateIsFrozen, FreezesAfterOne
<1> QED BY <1>1, Inductive, PTL

(* The bus agrees with the processors at the end of every instant.         *)
THEOREM BusCorrect == Spec => []BusSettles
<1>1. IInv => BusSettles
  BY DEF IInv, TimeoutSettles, BusClaims, BusSettles, Settled
<1> QED BY <1>1, Inductive, PTL
===============================================================================
