------------------------------ MODULE ThreadWaits ------------------------------
(***************************************************************************)
(* What wait() promises a thread, next to what the kernel does about it.   *)
(*                                                                         *)
(* A history variable remembers what each thread asked for when it called  *)
(* wait() and has not had yet.  It is updated from the calls and from the  *)
(* firings of events, and not from the members of the process in which     *)
(* the kernel keeps m_trigger_type, m_event_count, m_wait_cycle_n, the     *)
(* dynamic lists and the ready bit: the property below compares the two.   *)
(*                                                                         *)
(* The actions are those of Kernel but for exceptions other than the kill, *)
(* resets, and disable() in the simulation, which end a wait in other      *)
(* ways.  Events are notified at once or later, channels in the next delta *)
(* cycle; threads alone are suspended and resumed.                         *)
(***************************************************************************)
EXTENDS Kernel

VARIABLE
  goal  \* what every thread still waits for: how many firings of which
        \* events, whether each counts once, and whether its timeout will do

Goal(E, n, once, timed) == [on |-> E, number |-> n, once |-> once, timed |-> timed]

(* wait() and wait(n): the n-th firing of what the thread is sensitive to. *)
CyclesGoal(p, n) == Goal(Static[p], n, FALSE, FALSE)

(* wait(e), wait(e1 | e2): one of the events; wait(e1 & e2): all of them,  *)
(* in any order; wait(t): the timeout alone.                               *)
EventsGoal(kind, E, timed) ==
  Goal(E, IF kind = "AND" THEN Cardinality(E) ELSE 1, TRUE, timed)

(* The thread has what it asked for, and runs as soon as it is let.        *)
NoGoal == Goal({}, 0, TRUE, FALSE)

Relevant(p, e) ==
  /\ p # active
  /\ IF e = p THEN goal[p].timed ELSE e \in goal[p].on /\ ~Has(proc[p], "disabled")

(* What is left of the goal of p after e has fired.                        *)
Nearer(p, e) ==
  IF e = p \/ goal[p].number = 1 THEN NoGoal
  ELSE [goal[p] EXCEPT !.number = @ - 1, !.on = IF goal[p].once THEN @ \ {e} ELSE @]

Hear(e) == goal' = [p \in Thread |-> IF Relevant(p, e) THEN Nearer(p, e) ELSE goal[p]]

Ask(g) == goal' = [goal EXCEPT ![active] = g]

-------------------------------------------------------------------------------
WaitsInit == Init /\ goal = [p \in Thread |-> CyclesGoal(p, 1)]

(* A thread that is disabled before the simulation gets a ready bit        *)
(* although no run is owed to it: such a thread is not suspended.          *)
Unmarked(p) == Has(proc[p], "suspended") \/ proc[p].state \cap {"disabled", "ready"} = {}

(* A thread that suspends itself waits for resume() alone; one that ends   *)
(* waits for nothing.                                                      *)
WaitStep ==
  \/ \E w \in WaitKinds :
       \/ WaitFor(w[1], w[2]) /\ Ask(EventsGoal(w[1], w[2], FALSE))
       \/ \E t \in Time : WaitTimed(w[1], w[2], t) /\ Ask(EventsGoal(w[1], w[2], TRUE))
  \/ \E t \in Time : WaitTimed("TIMEOUT", {}, t) /\ Ask(EventsGoal("TIMEOUT", {}, TRUE))
  \/ \E n \in 1 .. MaxCycles : WaitCycles(n) /\ Ask(CyclesGoal(active, n))
  \/ active \in Thread /\ Unmarked(active) /\ SuspendProcess(active) /\ Ask(NoGoal)
  \/ ThreadEnd /\ Ask(NoGoal)

FireStep ==
  \/ \E e \in UserEvent : NotifyNow(e) /\ Hear(e)
  \/ DeltaStep /\ Hear(delta.slot[cursor])
  \/ \E e \in TimedAt(now) : TimedStep /\ Trigger(e, pend, delta) /\ Hear(e)

(* The first sc_start() makes the threads runnable, or owes them a run.    *)
StartStep ==
  /\ Initialize
  /\ goal' = [p \in Thread |-> IF p \in Initial THEN NoGoal ELSE goal[p]]

OtherStep ==
  \/ \E e \in UserEvent, t \in Time \ {0} : NotifyAt(e, t)
  \/ \E c \in Channel : RequestUpdate(c) \/ \E changes \in BOOLEAN : Update(c, changes)
  \/ \E p \in Process :
       \/ ~Started /\ ~Has(proc[p], "suspended") /\ DisableProcess(p)
       \/ EnableProcess(p)
       \/ KillDisconnect(p)
  \/ \E p \in Thread :
       \/ p # active /\ Unmarked(p) /\ SuspendProcess(p)
       \/ Unmarked(p) /\ ResumeProcess(p)
       \/ KillThread(p)
  \/ Stop \/ Pause
  \/ SetTrigger
  \/ MethodReturn
  \/ StartCall
  \/ RunMethod \/ MethodsDone \/ RunThread \/ ReturnToCaller
  \/ AnotherRound \/ AbortEvaluation \/ EvaluateEnd \/ UpdateEnd \/ DeltaDone
  \/ CrunchReturns \/ AdvanceTime \/ NoNextTime \/ TimedDone

WaitsNext ==
  \/ WaitStep
  \/ FireStep
  \/ StartStep
  \/ OtherStep /\ UNCHANGED goal

WaitsSpec == WaitsInit /\ [][WaitsNext]_<<vars, goal>>

-------------------------------------------------------------------------------
(* A thread that waits is made runnable, or owed a run if it is suspended, *)
(* by exactly the firing that completes what it asked for: not by the one  *)
(* before it, not by the next one, and not never.  Its kill alone comes    *)
(* before.                                                                 *)
WaitsKept ==
  \A p \in Thread :
    p # active /\ proc[p].throw # "KILL" /\ ~Has(proc[p], "zombie") =>
      (WillRun(p) <=> goal[p] = NoGoal)
===============================================================================
