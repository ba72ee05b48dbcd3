--------------------------- MODULE ControlSystem ---------------------------
(***************************************************************************)
(* The embedded control system of examples/control_system: groups of       *)
(* sensors and actuators that fail, an input and an output processor that  *)
(* reboot, a main processor whose timeout thread counts skipped cycles,    *)
(* and a bus whose methods react to the reboots and to the timeout.        *)
(*                                                                         *)
(* Time is a sequence of ticks of one time unit (SC_MS, the resolution set *)
(* in main.cc).  An instant has two deltas: the awake threads run one      *)
(* after the other in any order, then the bus methods whose sc_buffer was  *)
(* written run, again in any order.  The monitor reads the state between   *)
(* the two, when the e_tick notification of Clk_tick fires.                *)
(*                                                                         *)
(* A holding time is a rounded exponential draw of at least one unit: any  *)
(* number of ticks.  The exception is the timeout thread: lambda_cycle is  *)
(* 450, and no draw of the generator reaches one unit, so it wakes at      *)
(* every tick.                                                             *)
(*                                                                         *)
(* The two processors have the same code over their own group of units:    *)
(* "in" stands for Proci and the sensors, "out" for Proco and the          *)
(* actuators.                                                              *)
(***************************************************************************)
EXTENDS Integers, FiniteSets

CONSTANTS
    Sensor, Actuator,       \* the units of each group
    M_SENSOR, M_ACTUATOR,   \* how many must work
    MAX_COUNT               \* skipped cycles that are tolerated

ASSUME ControlAssumption ==
    /\ IsFiniteSet(Sensor) /\ IsFiniteSet(Actuator)
    /\ Sensor \cap Actuator = {}
    /\ (Sensor \cup Actuator) \cap {"in", "out", "timeout", "procm", "sagrp"} = {}
    /\ M_SENSOR \in 1..Cardinality(Sensor)
    /\ M_ACTUATOR \in 1..Cardinality(Actuator)
    /\ MAX_COUNT \in Nat

VARIABLES
    unit,       \* unit[u]: s of a Sensor (3 is new), a of an Actuator (2 is new)
    group,      \* group[p]: Sa_grp::sensors and Sa_grp::actuators, read by all others
    status,     \* status[p]: proci_status, proco_status (2 up, 1 rebooting, 0 failed)
    armed,      \* armed[p]: the guard held before the wait the thread is in
    procm,      \* procm_status
    seen,       \* comp, as the timeout thread read it before its wait
    count,      \* Procm::count
    comp, reqi, reqo,   \* the bus
    phase,      \* "threads" or "methods": the delta of the instant
    run,        \* what has yet to run in this delta
    wrote,      \* the buffers written in this delta
    was,        \* history: was[p], the units that worked when the instant began,
                \* until it is sampled
    late        \* history: late[p], status changes made while the guard was false

bus == <<comp, reqi, reqo>>
main == <<procm, seen, count>>
vars == <<unit, group, status, armed, main, bus, phase, run, wrote, was, late>>

Side == {"in", "out"}
Unit == Sensor \cup Actuator
Units(p) == IF p = "in" THEN Sensor ELSE Actuator
Need(p) == IF p = "in" THEN M_SENSOR ELSE M_ACTUATOR
New(u) == IF u \in Sensor THEN 3 ELSE 2

(* get_currentstate() >= 2 for a sensor, >= 1 for an actuator *)
Working(p) == Cardinality({u \in Units(p) : unit[u] >= New(u) - 1})

Functioning(p) == status[p] = 2 /\ group[p] >= Need(p)

(***************************************************************************)
(* The state after the first evaluation, in which each thread runs to its  *)
(* first wait: nothing has failed, and every guard has been read.          *)
(***************************************************************************)
Init ==
    /\ unit = [u \in Unit |-> New(u)]
    /\ group = [p \in Side |-> Cardinality(Units(p))]
    /\ status = [p \in Side |-> 2]
    /\ armed = [p \in Side |-> TRUE]
    /\ procm = 1 /\ seen = 1 /\ count = 0
    /\ comp = 1 /\ reqi = 1 /\ reqo = 0
    /\ phase = "methods" /\ run = {} /\ wrote = {}
    /\ was = [p \in Side |-> 0]
    /\ late = [p \in Side |-> 0]

---------------------------------------------------------------------------
(* One tick: some of the threads in a holding time wake, and those whose
   wait is one unit.  A thread in a state without transitions only waits
   again and is left out. *)
Tick ==
    /\ phase = "methods" /\ run = {}
    /\ phase' = "threads"
    /\ \E awake \in SUBSET ( {u \in Unit : unit[u] > 0} \cup {p \in Side : armed[p]}
                              \cup (IF procm = 1 THEN {"procm"} ELSE {}) ) :
          run' = awake \cup {"sagrp", "timeout"}
                       \cup {p \in Side : status[p] # 0 /\ ~armed[p]}
    /\ was' = [p \in Side |-> Working(p)]
    /\ UNCHANGED <<unit, group, status, armed, main, bus, wrote, late>>

Running(t, ph) == phase = ph /\ t \in run /\ run' = run \ {t} /\ phase' = phase

(* sensor_transition, actuator_transition: one step down the chain *)
UnitTransition(u) ==
    /\ Running(u, "threads")
    /\ unit' = [unit EXCEPT ![u] = @ - 1]
    /\ UNCHANGED <<group, status, armed, main, bus, wrote, was, late>>

\* Variant: a unit works only until its first transition.
Sa_grp_transition_new ==
    /\ Running("sagrp", "threads")
    /\ group' = [p \in Side |-> Cardinality({u \in Units(p) : unit[u] = New(u)})]
    /\ UNCHANGED <<unit, status, armed, main, bus, wrote, was, late>>

Sa_grp_transition ==
    /\ Running("sagrp", "threads")
    /\ group' = [p \in Side |-> Working(p)]
    /\ UNCHANGED <<unit, status, armed, main, bus, wrote, was, late>>

(* The states a processor whose guard held may take, the wait over *)
Choices(p) == IF armed[p] THEN {0, 3 - status[p]} ELSE {status[p]}

\* Variant: the size of the group is no part of the guard.
GuardStatus(p, to) == to # 0

(* The guards read at the head of the loop, before the next wait *)
Guard(p, to) == to # 0 /\ group[p] >= Need(p)

(* proci_transition, proco_transition: from the end of a wait to the next *)
ProcTransition(p) ==
    /\ Running(p, "threads")
    /\ \E to \in Choices(p) :
          /\ status' = [status EXCEPT ![p] = to]
          /\ armed' = [armed EXCEPT ![p] = Guard(p, to)]
          /\ wrote' = IF status[p] = 1 /\ to = 2 THEN wrote \cup {p} ELSE wrote
          /\ late' = [late EXCEPT ![p] =
                         IF to # status[p] /\ group[p] < Need(p) THEN @ + 1 ELSE @]
    /\ UNCHANGED <<unit, group, main, bus, was>>

Procm_transition ==
    /\ Running("procm", "threads")
    /\ procm' = 0
    /\ UNCHANGED <<unit, group, status, armed, seen, count, bus, wrote, was, late>>

\* Variant: the count begins anew after the shutdown.
NextCountAgain == IF seen = 1 \/ count > MAX_COUNT THEN 0 ELSE count + 1

NextCount ==
    IF seen = 1 THEN 0 ELSE IF count > MAX_COUNT THEN MAX_COUNT + 1 ELSE count + 1

(* procm_timeout_transition, with the read of comp for the next wait *)
Procm_timeout_transition ==
    /\ Running("timeout", "threads")
    /\ count' = NextCount
    /\ seen' = comp
    /\ wrote' = wrote \cup {"timeout"}
    /\ UNCHANGED <<unit, group, status, armed, procm, bus, was, late>>

(* The update and notification phases: the written buffers and e_tick fire *)
Notify ==
    /\ phase = "threads" /\ run = {}
    /\ phase' = "methods"
    /\ run' = wrote
    /\ wrote' = {}
    /\ was' = [p \in Side |-> 0]
    /\ UNCHANGED <<unit, group, status, armed, main, bus, late>>

---------------------------------------------------------------------------
Bit(b) == IF b THEN 1 ELSE 0

Receiving_input_reboot ==
    /\ Running("in", "methods")
    /\ comp' = Bit(comp = 1 \/ (procm = 1 /\ reqo = 0))
    /\ reqi' = 1
    /\ reqo' = Bit(~Functioning("out") /\ (reqo = 1 \/ procm = 1))
    /\ UNCHANGED <<unit, group, status, armed, main, wrote, was, late>>

Receiving_output_reboot ==
    /\ Running("out", "methods")
    /\ comp' = Bit(comp = 1 \/ (procm = 1 /\ reqi = 1))
    /\ reqi' = Bit(Functioning("in") \/ (reqi = 1 /\ procm = 0))
    /\ reqo' = 0
    /\ UNCHANGED <<unit, group, status, armed, main, wrote, was, late>>

\* Variant: a computation is kept, as after the reboots.
Receiving_timeout_keeps ==
    /\ Running("timeout", "methods")
    /\ comp' = Bit(comp = 1 \/ (reqi = 1 /\ reqo = 0 /\ procm = 1))
    /\ reqi' = Bit(Functioning("in") \/ (reqi = 1 /\ (procm = 0 \/ reqo = 1)))
    /\ reqo' = Bit(~Functioning("out") /\ (reqo = 1 \/ (procm = 1 /\ reqi' = 1)))
    /\ UNCHANGED <<unit, group, status, armed, main, wrote, was, late>>

(* reqo is computed from the reqi assigned just before it *)
Receiving_timeout ==
    /\ Running("timeout", "methods")
    /\ comp' = Bit(reqi = 1 /\ reqo = 0 /\ procm = 1)
    /\ reqi' = Bit(Functioning("in") \/ (reqi = 1 /\ (procm = 0 \/ reqo = 1)))
    /\ reqo' = Bit(~Functioning("out") /\ (reqo = 1 \/ (procm = 1 /\ reqi' = 1)))
    /\ UNCHANGED <<unit, group, status, armed, main, wrote, was, late>>

Next ==
    \/ Tick
    \/ \E u \in Unit : UnitTransition(u)
    \/ Sa_grp_transition
    \/ \E p \in Side : ProcTransition(p)
    \/ Procm_transition
    \/ Procm_timeout_transition
    \/ Notify
    \/ Receiving_input_reboot
    \/ Receiving_output_reboot
    \/ Receiving_timeout

Spec == Init /\ [][Next]_vars

(* sc_start() without an end: the scheduler never rests *)
FairSpec == Spec /\ WF_vars(Next)

---------------------------------------------------------------------------
TypeOK ==
    /\ unit \in [Unit -> 0..3] /\ \A u \in Unit : unit[u] <= New(u)
    /\ group \in [Side -> Nat] /\ was \in [Side -> Nat]
    /\ \A p \in Side : group[p] <= Cardinality(Units(p)) /\ was[p] <= Cardinality(Units(p))
    /\ status \in [Side -> 0..2] /\ armed \in [Side -> BOOLEAN] /\ late \in [Side -> Nat]
    /\ {procm, seen, comp, reqi, reqo} \subseteq 0..1
    /\ count \in 0..(MAX_COUNT + 1)
    /\ phase \in {"threads", "methods"}
    /\ run \subseteq Unit \cup Side \cup {"sagrp", "procm", "timeout"}
    /\ wrote \subseteq Side \cup {"timeout"}

Sampled == phase = "threads" /\ run = {}
Settled == phase = "methods" /\ run = {}

(* The number of working units the monitor samples is one that held during
   this instant, whatever the order of Sa_grp and the units in it: it raises
   no alarm early, and is late by less than a tick. *)
SnapshotIsRecent ==
    Sampled => \A p \in Side : Working(p) <= group[p] /\ group[p] <= was[p]

(* The guard of a processor is read before its wait and the transition made
   after it.  Once its group has fallen below the limit at most one such
   transition is still made, then the processor is frozen. *)
FreezesAfterOne == \A p \in Side : late[p] <= 1

(* Whatever the order of the three bus methods, when an instant is over the
   bus claims no computation of a failed main processor, no instruction waits
   for an output side that works, and an input side that works has data. *)
BusSettles ==
    Settled => /\ comp = 1 => procm = 1
               /\ reqo = 1 => ~Functioning("out")
               /\ Functioning("in") => reqi = 1

(* A main processor that fails, or an input side below its limit, ends in the
   shutdown the monitored formulas call timeout_counts > MAX_COUNT: the count
   may still fall back for some time, but from some instant on it stays there,
   whatever reboots still happen. *)
FailureTimesOut ==
    (procm = 0 \/ group["in"] < M_SENSOR) ~> [](count = MAX_COUNT + 1)
============================================================================
