-------------------------------- MODULE Kernel --------------------------------
(***************************************************************************)
(* The simulation kernel: sc_start(), simulate() and crunch() of           *)
(* sc_simcontext, run on the state and with the calls of KernelCalls.      *)
(***************************************************************************)
EXTENDS KernelCalls

Scheduling == active = NoProcess /\ caller = NoProcess

(* crunch() begins, or goes round its loop of evaluations.                 *)
EvaluateBegin(intervals) ==
  /\ phase' = "methods"
  /\ methods' = Toggle(methods)
  /\ open' = intervals \cup {"evaluate"}

Suspended(p) == Has(proc[p], "suspended")

(* The processes prepare_to_simulate() makes runnable.                     *)
Initial == {p \in Process \ DontInit : ~Has(proc[p], "disabled")}

(* The first sc_start(): prepare_to_simulate() up to its updates.          *)
FirstStart(d, toTime) ==
  /\ phase = "main" /\ run.status = "elaboration" /\ ~run.forced
  /\ phase' = "initupdate"
  /\ run' = [run EXCEPT !.status = "running", !.paused = FALSE, !.once = d = 0,
                        !.until = now + d, !.toTime = toTime]
  /\ UNCHANGED <<proc, stores, queues, channels, active, cursor, now, open, caller>>

(* The rest of it, up to its notifications.                                *)
Initialize ==
  /\ phase = "initupdate"
  /\ requests = {}
  /\ \E ms \in SetToSeqs({p \in Initial \cap Method : ~Suspended(p)}),
        ts \in SetToSeqs({p \in Initial \cap Thread : ~Suspended(p)}) :
       PushBackAll(ms, ts)
  /\ proc' = [p \in Process |->
                IF p \in Initial /\ Suspended(p) THEN Set(proc[p], "ready") ELSE proc[p]]
  /\ phase' = "initnotify"
  /\ cursor' = delta.size
  /\ UNCHANGED <<stores, channels, active, now, run, open, caller>>

Start(d, toTime) ==
  /\ phase = "main" /\ Started
  /\ run' = [run EXCEPT !.paused = FALSE, !.once = d = 0, !.until = now + d,
                        !.toTime = toTime]
  /\ EvaluateBegin(open)
  /\ UNCHANGED <<proc, stores, threads, stranded, channels, active, cursor, now, caller>>

(* sc_start() reports an error.                                            *)
StartAfterStop ==
  /\ phase = "main" /\ run.status = "stopped"
  /\ UNCHANGED vars

(* pop_runnable_method() and run_process().                                *)
RunMethod ==
  /\ Scheduling /\ phase = "methods"
  /\ \E i \in PopChoices(methods, Random) :
       /\ active' = methods.pop[i]
       /\ methods' = PopAt(methods, i)
       /\ stranded' = stranded \ {methods.pop[i]}
  /\ UNCHANGED <<proc, stores, threads, channels, control>>

MethodsDone ==
  /\ Scheduling /\ phase = "methods"
  /\ methods.pop = <<>>
  /\ threads' = Toggle(threads)
  /\ phase' = "threads"
  /\ UNCHANGED <<proc, stores, methods, stranded, channels, active, cursor, now, run, open, caller>>

(* pop_runnable_thread(), by crunch() or by next_cor() of the thread that  *)
(* yields.                                                                 *)
RunThread ==
  /\ active = NoProcess
  /\ phase = "threads" \/ caller # NoProcess
  /\ \E i \in PopChoices(threads, Random) :
       LET p == threads.pop[i] IN
       /\ active' = p
       /\ threads' = PopAt(threads, i)
       /\ stranded' = stranded \ {p}
       /\ proc' = [proc EXCEPT ![p] = Resumed(@)]
  /\ UNCHANGED <<stores, methods, channels, control>>

(* A method goes on after it has preempted a thread, unless it was killed  *)
(* by then.                                                                *)
ReturnToCaller ==
  /\ active = NoProcess /\ caller # NoProcess
  /\ threads.pop = <<>>
  /\ active' = IF Has(proc[caller], "zombie") THEN NoProcess ELSE caller
  /\ caller' = NoProcess
  /\ UNCHANGED <<proc, stores, queues, channels, phase, cursor, now, run, open>>

ThreadsDone == Scheduling /\ phase = "threads" /\ threads.pop = <<>>

\* Variant: the evaluation is aborted in both modes.
AbortsAnyMode == run.forced

\* Variant: the two modes are confused.
AbortsOtherMode == run.forced /\ StopMode = "FINISH_DELTA"

Aborts == run.forced /\ StopMode = "IMMEDIATE"

AnotherRound ==
  /\ ThreadsDone /\ ~Aborts
  /\ ~Idle
  /\ EvaluateBegin(open)
  /\ UNCHANGED <<proc, stores, threads, stranded, channels, active, cursor, now, run, caller>>

AbortEvaluation ==
  /\ ThreadsDone /\ Aborts
  /\ phase' = "crunched"
  /\ UNCHANGED <<proc, stores, queues, channels, active, cursor, now, run, open, caller>>

\* Variant: the observer is not told the end of the evaluation.
EvaluateEndOpen ==
  /\ ThreadsDone /\ ~Aborts
  /\ Idle
  /\ phase' = "update"
  /\ open' = open \cup {"update"}
  /\ UNCHANGED <<proc, stores, queues, channels, active, cursor, now, run, caller>>

EvaluateEnd ==
  /\ ThreadsDone /\ ~Aborts
  /\ Idle
  /\ phase' = "update"
  /\ open' = (open \ {"evaluate"}) \cup {"update"}
  /\ UNCHANGED <<proc, stores, queues, channels, active, cursor, now, run, caller>>

(* The targets of the reset signal c that are asynchronously reset when    *)
(* its value changes.                                                      *)
ThrownBy(c) ==
  {x.process : x \in {y \in Resets : /\ y.channel = c /\ y.async /\ y.level # level[c]
                                     /\ ~Has(proc[y.process], "zombie")}}

(* update() of a channel: a new value of a reset signal resets its targets *)
(* or ends their reset, and notifies the event of the channel.  A thread   *)
(* thrown an asynchronous reset will be the next to run.                   *)
Changed(c) ==
  LET targets == {x \in Resets : x.channel = c}
      thrown  == ThrownBy(c)
      timed   == {p \in thrown : proc[p].timed}
  IN
  /\ level' = [level EXCEPT ![c] = IF targets = {} THEN @ ELSE ~@]
  /\ proc' = [p \in Process |->
                IF \E x \in targets : x.process = p
                THEN LET x == CHOOSE y \in targets : y.process = p IN
                     ResetChanged(proc[p], p, x.async, x.level # level[c], TRUE)
                ELSE proc[p]]
  /\ pend' = [e \in Event |-> IF e \in timed THEN None ELSE IF e = c THEN Delta ELSE pend[e]]
  /\ \E order \in SetToSeqs({p \in timed : pend[p] = Delta}) :
       delta' = AddDelta(RemoveAllDelta(delta, order), c)
  /\ \E order \in SetToSeqs(thrown) :
       threads' = ExecuteNextAll(threads, order)

Update(c, changes) ==
  /\ phase \in {"initupdate", "update"}
  /\ c \in requests
  /\ requests' = requests \ {c}
  /\ IF changes THEN Changed(c) ELSE UNCHANGED <<proc, stores, threads, level>>
  /\ UNCHANGED <<methods, stranded, active, control>>

LoopStart == delta.size

\* Variant: sc_start( SC_ZERO_TIME ) is over before the notifications.
SkipsNotifyOnce == run.forced \/ run.once

SkipsNotify == run.forced

UpdateEnd ==
  /\ phase = "update"
  /\ requests = {}
  /\ open' = (open \ {"update"}) \cup {"deltanotify"}
  /\ phase' = IF SkipsNotify THEN "crunched" ELSE "notify"
  /\ cursor' = IF SkipsNotify THEN cursor ELSE LoopStart
  /\ UNCHANGED <<proc, stores, queues, channels, active, now, run, caller>>

(* l_events[i]->trigger(): whatever is in the slot when the loop is there. *)
DeltaStep ==
  /\ phase \in {"initnotify", "notify"}
  /\ cursor > 0
  /\ Trigger(delta.slot[cursor], pend, delta)
  /\ cursor' = cursor - 1
  /\ UNCHANGED <<channels, active, phase, now, run, open, caller>>

DeltaDone ==
  /\ phase \in {"initnotify", "notify"}
  /\ cursor = 0
  /\ delta' = ClearDelta(delta)
  /\ LET closed == open \ {"deltanotify"}
         leaves == \/ Idle
                   \/ run.paused \/ run.once
     IN  IF phase = "notify" /\ leaves
         THEN phase' = "crunched" /\ open' = closed /\ UNCHANGED methods
         ELSE EvaluateBegin(closed)
  /\ UNCHANGED <<proc, pend, threads, stranded, channels, active, cursor, now, run, caller>>

-------------------------------------------------------------------------------
(* simulate(), after crunch() has returned.                                *)

(* Back to sc_main.  sc_start() sets the time it was asked to run to,      *)
(* unless it was paused or stopped.                                        *)
Return ==
  /\ phase' = "main"
  /\ now' = IF run.toTime /\ ~run.paused /\ ~run.forced THEN run.until ELSE now
  /\ run' = [run EXCEPT !.status = IF run.forced THEN "stopped" ELSE @]

Leaves == run.forced \/ run.paused \/ run.once

CrunchReturns ==
  /\ phase = "crunched"
  /\ IF Leaves THEN Return ELSE phase' = "advance" /\ UNCHANGED <<now, run>>
  /\ UNCHANGED <<proc, stores, queues, channels, active, cursor, open, caller>>

TimedAt(t) == {e \in Event : pend[e] = t}

NextTimes == {t \in Time : TimedAt(t) # {} /\ t <= run.until}

(* next_time() finds a notification and the time advances to it.           *)
AdvanceTime ==
  /\ phase = "advance"
  /\ \E t \in NextTimes :
       /\ \A u \in NextTimes : t <= u
       /\ now' = t
  /\ phase' = "timed"
  /\ open' = open \cup {"timednotify"}
  /\ UNCHANGED <<proc, stores, queues, channels, active, cursor, run, caller>>

NoNextTime ==
  /\ phase = "advance"
  /\ NextTimes = {}
  /\ Return
  /\ UNCHANGED <<proc, stores, queues, channels, active, cursor, open, caller>>

(* The entries of one time leave the heap in no particular order.          *)
TimedStep ==
  /\ phase = "timed"
  /\ \E e \in TimedAt(now) : Trigger(e, pend, delta)
  /\ UNCHANGED <<channels, active, control>>

(* The time advances again until something is runnable; then the next      *)
(* delta cycle, or sc_main if the time sc_start() was given is over.       *)
TimedDone ==
  /\ phase = "timed"
  /\ TimedAt(now) = {}
  /\ IF Idle
     THEN phase' = "advance" /\ UNCHANGED <<methods, now, run, open>>
     ELSE IF now < run.until
          THEN EvaluateBegin(open \ {"timednotify"}) /\ UNCHANGED <<now, run>>
          ELSE Return /\ open' = open \ {"timednotify"} /\ UNCHANGED methods
  /\ UNCHANGED <<proc, stores, threads, stranded, channels, active, cursor, caller>>

-------------------------------------------------------------------------------
(* If the time cannot advance the two forms of sc_start() do the same.     *)
StartCall ==
  \/ \E d \in 0 .. MaxTime - now, toTime \in {TRUE, MaxTime = 0} :
       Start(d, toTime) \/ FirstStart(d, toTime)
  \/ StartAfterStop

Schedule ==
  \/ Initialize
  \/ RunMethod
  \/ MethodsDone
  \/ RunThread
  \/ ReturnToCaller
  \/ AnotherRound
  \/ AbortEvaluation
  \/ EvaluateEnd
  \/ \E c \in Channel, changes \in BOOLEAN : Update(c, changes)
  \/ UpdateEnd
  \/ DeltaStep
  \/ DeltaDone
  \/ CrunchReturns
  \/ AdvanceTime
  \/ NoNextTime
  \/ TimedStep
  \/ TimedDone

Next ==
  \/ EventOperation
  \/ ProcessControl
  \/ SetTrigger
  \/ Yield
  \/ StartCall
  \/ Schedule

Spec == Init /\ [][Next]_vars

(* A process that runs yields at some time, and sc_start() does not stop   *)
(* halfway.  sc_main need not call it.                                     *)
FairSpec == Spec /\ WF_vars(Yield) /\ WF_vars(Schedule)

-------------------------------------------------------------------------------
(* The wait of a process is over, or the process is to be killed.          *)
WaitsForNothing(r) == r.throw = "KILL" \/ (r.kind = "STATIC" /\ r.lists = {})

(* A process in a run queue is there once, and waits for nothing any more  *)
(* unless it is there to be killed: push_back never meets a queued         *)
(* process, and no event can queue it again.                               *)
QueueDiscipline ==
  \A q \in {methods, threads} :
    /\ IsInjective(q.push \o q.pop)
    /\ \A p \in Queued(q) : WaitsForNothing(proc[p])

(* A process that waits is in the dynamic lists of exactly the events that *)
(* can still end its wait, one that does not wait is in none: a completed  *)
(* wait leaves nothing behind that could end the next one.  A process that *)
(* was thrown the kill may have left some of the lists.                    *)
WaitsConsistent ==
  \A p \in Process :
    LET r == proc[p]
        own == IF r.timed THEN {p} ELSE {}
    IN /\ r.lists \subseteq r.on \cup {p}
       /\ r.throw # "KILL" =>
         CASE r.kind = "STATIC" -> r.lists = {} /\ ~r.timed
           [] r.kind = "AND" -> /\ r.lists \subseteq r.on \cup own /\ own \subseteq r.lists
                                /\ r.count = Cardinality(r.lists \ own) /\ r.count > 0
           [] OTHER -> r.lists = r.on \cup own

(* The members of a process agree with each other after every wait,        *)
(* next_trigger(), trigger and end of a process.                           *)
ProcessesSound == TypeOK /\ WaitsConsistent

(* The timeout event of a process is pending exactly while the process     *)
(* waits with a timeout.  notify_internal() relies on it: it overwrites    *)
(* what is pending without a look.                                         *)
TimeoutArmed == \A p \in Process : pend[p] # None <=> proc[p].timed

(* The ready bit says of a suspended process, and of no other, that it is  *)
(* owed a run.  A thread that has it waits for nothing unless it is to be  *)
(* killed, so that resume() queues no other thread that still waits.  A    *)
(* method may have suspended itself and called next_trigger() afterwards;  *)
(* resume() then clears the trigger.                                       *)
ReadyIsSuspended ==
  \A p \in Process :
    Has(proc[p], "ready") =>
      /\ Has(proc[p], "suspended")
      /\ p \in Thread => WaitsForNothing(proc[p])

(* No process is given a run twice, or before its wait is over: whoever is *)
(* in a run queue is there once, and waits for nothing unless it is there  *)
(* to be killed; so does a thread that a later resume() will put there.    *)
RunsOwed == QueueDiscipline /\ ReadyIsSuspended

(* p is in a run queue, or resume() will put it there.                     *)
WillRun(p) ==
  \/ p \in Queued(methods) \cup Queued(threads)
  \/ {"suspended", "ready"} \subseteq proc[p].state

(* The wait of p ends with this step, other than by the timeout of a       *)
(* disabled process, which does not wake it.                               *)
WaitEnds(p) ==
  /\ proc[p].kind # "STATIC" /\ (proc[p].kind = "STATIC")'
  /\ ~(proc[p].timed /\ Has(proc[p], "disabled"))

(* No run is lost: a process whose wait ends, by whatever event, timeout   *)
(* or exception, will run, and one that will run goes on to until it is    *)
(* dispatched or dies, whatever suspends, resumes, disables or enables it. *)
RunsKept ==
  [][\A p \in Process :
       p # active /\ (WaitEnds(p) \/ WillRun(p)) =>
         WillRun(p)' \/ active' = p \/ Has(proc[p], "zombie")']_vars

(* A thread that runs has waited all the cycles of its wait(n).            *)
CyclesElapsed == active \in Thread => proc[active].cycles = 0

(* The scheduler does not dispatch a suspended process before it is        *)
(* resumed, except to take an exception.                                   *)
SuspendedStays ==
  [][\A p \in Process :
       active = NoProcess /\ active' = p /\ p # caller /\ Has(proc[p], "suspended") =>
         proc[p].throw # "NONE"]_vars

(* The simulated time only grows, and only when no process is runnable, no *)
(* delta notification is pending and no timed one lies before the new      *)
(* time: whatever sc_start() was given, nothing is skipped over.           *)
TimeAdvances ==
  [][now' # now =>
       /\ now' > now
       /\ Queued(methods) \cup Queued(threads) = {}
       /\ \A e \in Event : pend[e] \notin {Delta} \cup 0 .. now' - 1]_vars

(* Monitors see evaluation, update and delta notification one after the    *)
(* other: none begins before the one before has ended, and none is open    *)
(* when sc_start() returns without sc_stop().                              *)
IntervalsNested ==
  LET cycle == open \ {"timednotify"} IN
  /\ Cardinality(cycle) <= 1
  /\ phase = "main" /\ ~run.forced => cycle = {}

(* A kill is never lost: a thread that was thrown the kill is dying, in    *)
(* the run queue, or suspended and owed the run in which it dies.          *)
KillPending ==
  \A p \in Thread :
    proc[p].throw = "KILL" =>
      p = active \/ p \in Queued(threads) \/ {"suspended", "ready"} \subseteq proc[p].state

(* The counts of the resets of a process are the reset signals that have   *)
(* the level that resets it, and sync_reset_on(): whatever the order of    *)
(* the changes, none is counted twice or missed.                           *)
ResetsCounted ==
  \A p \in Thread :
    LET r == proc[p] IN
    Has(r, "zombie") \/ /\ r.areset = Cardinality(Sources(p, TRUE))
                        /\ r.reset = Cardinality(Sources(p, FALSE)) + (IF r.sticky THEN 1 ELSE 0)

(* A thread that has begun and is in reset begins again whenever it is     *)
(* dispatched, until the last of its resets ends.                          *)
StaysInReset ==
  \A p \in Thread :
    proc[p].stack /\ Standing(proc[p]) # "NONE" => proc[p].throw # "NONE"

(* An exception is thrown once: a thread that is in no reset and to which  *)
(* one is to be thrown is active, queued, or suspended and owed a run,     *)
(* unless it was killed before it ever ran.                                *)
ThrowPending ==
  \A p \in Thread :
    proc[p].throw # "NONE" /\ Standing(proc[p]) = "NONE" /\ ~Has(proc[p], "zombie") =>
      p = active \/ p \in Queued(threads) \/ {"suspended", "ready"} \subseteq proc[p].state

(* What kill(), throw_it() and reset() throw, and not a reset signal that  *)
(* still has the level that resets the thread.                             *)
ThrownNow(r) ==
  r.throw \in {"KILL", "USER"} \/ (r.throw = "ASYNC" /\ Standing(r) = "NONE")

(* preempt_with() "executes the supplied thread immediately": once the     *)
(* thread that threw it has yielded, nothing happens before the victim     *)
(* runs.  Neither the caller nor the method of the evaluation goes on, and *)
(* the scheduler neither dispatches another thread nor leaves the phase.   *)
ThrownFirst ==
  [][\A v \in Queued(threads) :
       active = NoProcess /\ ThrownNow(proc[v]) => active' = v]_vars

(* "finishes the current delta cycle - both execution and updates" (stop,  *)
(* SC_STOP_FINISH_DELTA).                                                  *)
DeltaFinished ==
  phase = "crunched" /\ run.forced =>
    requests = {} /\ Idle

-------------------------------------------------------------------------------
InKernel == phase # "main"

(* While sc_start() runs, every runnable process is dispatched, however    *)
(* often the others make each other runnable: what becomes runnable waits  *)
(* for the next round.                                                     *)
RunnableRuns ==
  \A p \in Process :
    InKernel /\ p \in Queued(methods) \cup Queued(threads)
      ~> p \notin Queued(methods) \cup Queued(threads) \/ ~InKernel

(* A delta notification is delivered or cancelled, even if sc_start() was  *)
(* called for no time, unless the simulation is stopped or an evaluation   *)
(* goes on for ever: two processes that notify each other immediately      *)
(* starve it.                                                              *)
DeltaDelivered ==
  []<>(phase \notin {"methods", "threads"})
    => \A e \in Event : InKernel /\ pend[e] = Delta ~> pend[e] # Delta \/ run.forced

(* sc_stop() ends the simulation: at once in the immediate mode, even if   *)
(* processes notify each other for ever.                                   *)
StopEnds == run.forced ~> run.status = "stopped"

===============================================================================
