------------------------------ MODULE KernelCalls ------------------------------
(***************************************************************************)
(* The state of the simulation kernel and what changes it while a process  *)
(* runs or sc_main has the control: the operations of events, the control  *)
(* of processes, and the ways a process yields.  Module Kernel adds the    *)
(* scheduler.                                                              *)
(*                                                                         *)
(* It is built from the three structures modelled on their own: the run    *)
(* queues (RunQueue), the vector of delta events (DeltaVector) and the     *)
(* state of a process (ProcessState).  Timed notifications are the pending *)
(* time of each event, which Notifications shows its queue to implement.   *)
(*                                                                         *)
(* One thread of control moves between sc_main, the scheduler and the      *)
(* processes.  What a process does between two calls of the kernel is left *)
(* open: the active process calls any operation, and yields at any time.   *)
(***************************************************************************)
EXTENDS RunQueue, DeltaVector, ProcessState

CONSTANTS
  Method, Thread, \* the processes
  UserEvent,      \* events of the design
  Channel,        \* primitive channels, and their value changed events
  Static,         \* m_static_events of every process
  DontInit,       \* the processes with dont_initialize
  Resets,         \* the targets of the reset signals
  Op,             \* the operations processes and sc_main call
  Random,         \* ran_enable
  StopMode,       \* stop_mode, SC_STOP_IMMEDIATE or SC_STOP_FINISH_DELTA
  Corners,        \* sc_allow_process_control_corners
  NoProcess,      \* no process is active
  MaxTime,        \* bound of the simulated time
  MaxCycles       \* bound of n in wait(n)

Process == Method \cup Thread
Event   == Process \cup UserEvent \cup Channel
Time    == 0 .. MaxTime
None    == -1
Delta   == -2

ASSUME KernelAssumption ==
  /\ Method \cap Thread = {} /\ Process \cap (UserEvent \cup Channel) = {}
  /\ UserEvent \cap Channel = {}
  /\ Static \in [Process -> SUBSET (UserEvent \cup Channel)]
  /\ DontInit \subseteq Process
  /\ Resets \subseteq [channel : Channel, process : Thread, async : BOOLEAN, level : BOOLEAN]
  /\ \A x, y \in Resets : x.channel = y.channel /\ x.process = y.process => x = y
  /\ Random \in BOOLEAN /\ Corners \in BOOLEAN
  /\ StopMode \in {"IMMEDIATE", "FINISH_DELTA"}
  /\ NoProcess \notin Process
  /\ IsFiniteSet(Event) /\ IsFiniteSet(Resets)
  /\ MaxTime \in Nat /\ MaxCycles \in Nat

VARIABLES
  proc,     \* the state of every process (ProcessState)
  pend,     \* pending notification of every event: None, Delta or its time;
            \* the timeout event of a process has the name of the process
  delta,    \* m_delta_events
  methods,  \* the run queue of methods
  threads,  \* the run queue of threads
  stranded, \* next_runnable() is not 0, but sc_runnable::init() emptied the queues
  requests, \* channels that asked for their update()
  level,    \* m_cur_val of the channels that are reset signals
  active,   \* sc_get_current_process_b()
  caller,   \* the method that waits for a thread it has preempted
  phase,    \* where the scheduler is
  cursor,   \* i of the delta notification loop
  now,      \* m_curr_time
  run,      \* status, and the arguments of sc_start()
  open      \* intervals whose begin the observer was told, and not the end

stores   == <<pend, delta>>
queues   == <<methods, threads, stranded>>
channels == <<requests, level>>
control  == <<phase, cursor, now, run, open, caller>>
vars     == <<proc, stores, queues, channels, active, control>>

Runnable == Queued(methods) \cup Queued(threads) \cup stranded

\* Variant: only methods count.
IdleMethods == IsEmpty(methods)

Idle == IsEmpty(methods) /\ IsEmpty(threads)

(* The members of a process.                                               *)
Member ==
  [state : SUBSET {"disabled", "suspended", "ready", "zombie"},
   kind : {"STATIC", "EVENT", "OR", "AND", "TIMEOUT"}, timed : BOOLEAN,
   on : SUBSET (UserEvent \cup Channel), count : Int, cycles : Nat, lists : SUBSET Event,
   throw : {"NONE", "KILL", "SYNC", "ASYNC", "USER"}, stack : BOOLEAN,
   areset : Int, reset : Int, sticky : BOOLEAN]

(* The types of the variables.  The loop over the delta notifications      *)
(* never reads past the pointers that were in the vector when it began.    *)
TypeOK ==
  /\ proc \in [Process -> Member]
  /\ pend \in [Event -> {None, Delta} \cup Time]
  /\ delta \in [slot : Seq(Event), size : Nat, index : [Event -> Nat]]
  /\ delta.size <= Len(delta.slot)
  /\ methods \in [push : Seq(Method), pop : Seq(Method)]
  /\ threads \in [push : Seq(Thread), pop : Seq(Thread)]
  /\ stranded \subseteq Process
  /\ requests \subseteq Channel
  /\ level \in [Channel -> BOOLEAN]
  /\ active \in Process \cup {NoProcess}
  /\ caller \in Method \cup {NoProcess}
  /\ phase \in {"main", "initupdate", "initnotify", "methods", "threads", "update", "notify",
                "crunched", "advance", "timed"}
  /\ cursor \in Nat
  /\ phase \in {"initnotify", "notify"} => cursor <= Len(delta.slot)
  /\ now \in Time
  /\ run \in [status : {"elaboration", "running", "stopped"}, forced : BOOLEAN,
              paused : BOOLEAN, once : BOOLEAN, until : Time, toTime : BOOLEAN]
  /\ open \subseteq {"evaluate", "update", "deltanotify", "timednotify"}

(* The targets of signals with the level that resets them: all have the    *)
(* value false at first, and reconcile_resets() tells the target.          *)
Sources(p, async) ==
  {x \in Resets : x.process = p /\ x.async = async /\ x.level = level[x.channel]}

Init ==
  /\ level = [c \in Channel |-> FALSE]
  /\ proc = [p \in Process |->
               [NewProcess EXCEPT !.areset = Cardinality(Sources(p, TRUE)),
                                  !.reset = Cardinality(Sources(p, FALSE))]]
  /\ pend = [e \in Event |-> None]
  /\ delta = EmptyDelta(Event)
  /\ methods = EmptyQueue
  /\ threads = EmptyQueue
  /\ stranded = {}
  /\ requests = {}
  /\ active = NoProcess
  /\ caller = NoProcess
  /\ phase = "main"
  /\ cursor = 0
  /\ now = 0
  /\ run = [status |-> "elaboration", forced |-> FALSE, paused |-> FALSE,
            once |-> FALSE, until |-> 0, toTime |-> FALSE]
  /\ open = {}

-------------------------------------------------------------------------------
(* Operations on the two run queues at once.                               *)

\* Variant: what becomes runnable joins the current round.
PushBackAllNow(ms, ts) ==
  /\ methods' = [methods EXCEPT !.pop = @ \o ms]
  /\ threads' = [threads EXCEPT !.pop = @ \o ts]
  /\ UNCHANGED stranded

PushBackAll(ms, ts) ==
  /\ methods' = [methods EXCEPT !.push = @ \o ms]
  /\ threads' = [threads EXCEPT !.push = @ \o ts]
  /\ UNCHANGED stranded

Push(p) == IF p \in Method THEN PushBackAll(<<p>>, <<>>) ELSE PushBackAll(<<>>, <<p>>)

RemoveRunnable(p) ==
  /\ methods' = IF p \in Queued(methods) THEN RemoveProc(methods, p) ELSE methods
  /\ threads' = IF p \in Queued(threads) THEN RemoveProc(threads, p) ELSE threads
  /\ UNCHANGED stranded

(* Pending notifications.                                                  *)

NotifyDelta(e) ==
  /\ pend' = [pend EXCEPT ![e] = Delta]
  /\ delta' = AddDelta(delta, e)

VectorWithout(e) == IF pend[e] = Delta THEN RemoveDelta(delta, e) ELSE delta

CancelPending(e) ==
  /\ pend' = [pend EXCEPT ![e] = None]
  /\ delta' = VectorWithout(e)

(* notify_internal(t) on the timeout event of p, which has no look at what *)
(* is pending on it.                                                       *)
ArmTimeout(p, t, vector) ==
  /\ pend' = [pend EXCEPT ![p] = IF t = 0 THEN Delta ELSE now + t]
  /\ delta' = IF t = 0 THEN AddDelta(vector, p) ELSE vector

-------------------------------------------------------------------------------
(* sc_event::trigger(): what the event e does to the process p, first if e *)
(* is in its static sensitivity and then if p is in the dynamic list of e. *)

\* Variant: a process that is queued is queued again.
StaticTriggerQueued(p, e) ==
  /\ e \in Static[p] /\ ~Has(proc[p], "zombie") /\ ~Has(proc[p], "disabled")
  /\ proc[p].kind = "STATIC"
  /\ p # active

StaticTrigger(p, e) ==
  /\ e \in Static[p] /\ ~Has(proc[p], "zombie") /\ ~Has(proc[p], "disabled")
  /\ p \notin Runnable
  /\ proc[p].kind = "STATIC"
  /\ p # active

DynamicTrigger(p, e) ==
  /\ e \in proc[p].lists
  /\ p \notin Runnable
  /\ ~(p \in Method /\ p = active)
  /\ ~Has(proc[p], "disabled")
  /\ proc[p].kind # "STATIC"

Ready(p, e) ==
  \/ StaticTrigger(p, e) /\ proc[p].cycles = 0
  \/ DynamicTrigger(p, e) /\ Satisfies(proc[p], p, e)

\* Variant: a suspended process is made runnable.
WakesSuspended(p, e) == Ready(p, e)

Wakes(p, e) == Ready(p, e) /\ ~Has(proc[p], "suspended")

(* A wait with a timeout is over before the timeout.                       *)
DropsTimeout(p, e) ==
  /\ proc[p].timed /\ e # p
  /\ DynamicTrigger(p, e) /\ Satisfies(proc[p], p, e)

\* Variant: a disabled process keeps its wait when it times out.
TimesOutNever(p, e) == FALSE

(* The timeout of a disabled process ends its wait, and does not wake it.  *)
TimesOutDisabled(p, e) ==
  e = p /\ e \in proc[p].lists /\ Has(proc[p], "disabled") /\ p \notin Runnable

Triggered(p, e) ==
  LET r == proc[p] IN
  CASE StaticTrigger(p, e) /\ r.cycles > 0 -> [r EXCEPT !.cycles = @ - 1]
    [] StaticTrigger(p, e) /\ r.cycles = 0 /\ Has(r, "suspended") -> Set(r, "ready")
    [] DynamicTrigger(p, e) /\ Satisfies(r, p, e) -> Completed(r, p, e)
    [] DynamicTrigger(p, e) /\ ~Satisfies(r, p, e) -> Counted(r, e)
    [] e \in r.lists /\ p \in Runnable -> [r EXCEPT !.lists = @ \ {e}]
    [] TimesOutDisabled(p, e) -> RemoveDynamicEvents(r, p)
    [] OTHER -> r

(* Runs no user code, so it is one step.  The order in which the processes *)
(* of an event become runnable is left open.  "at" and "vector" are the    *)
(* pending notifications when e fires.                                     *)
Trigger(e, at, vector) ==
  LET woken   == {p \in Process : Wakes(p, e)}
      dropped == {p \in Process : DropsTimeout(p, e)}
  IN  /\ proc' = [p \in Process |-> Triggered(p, e)]
      /\ pend' = [f \in Event |-> IF f \in dropped \cup {e} THEN None ELSE at[f]]
      /\ \E order \in SetToSeqs({p \in dropped : at[p] = Delta}) :
           delta' = Unindexed(RemoveAllDelta(vector, order), e)
      /\ \E ms \in SetToSeqs(woken \cap Method), ts \in SetToSeqs(woken \cap Thread) :
           PushBackAll(ms, ts)

-------------------------------------------------------------------------------
(* Operations of events, called by the active process or by sc_main.       *)

Started == run.status = "running"

Calls(op) ==
  /\ op \in Op
  /\ \/ active # NoProcess /\ proc[active].throw # "KILL"
     \/ phase = "main" /\ run.status # "stopped"

(* notify(); before the simulation there are no run queues yet.            *)
NotifyNow(e) ==
  /\ Calls("notify") /\ Started
  /\ Trigger(e, pend, VectorWithout(e))
  /\ UNCHANGED <<channels, active, control>>

NotifyZero(e) ==
  /\ Calls("notifyzero")
  /\ pend[e] # Delta
  /\ NotifyDelta(e)
  /\ UNCHANGED <<proc, queues, channels, active, control>>

NotifyAt(e, t) ==
  /\ Calls("notifyat")
  /\ pend[e] = None \/ pend[e] > now + t
  /\ now + t <= MaxTime
  /\ pend' = [pend EXCEPT ![e] = now + t]
  /\ UNCHANGED <<proc, delta, queues, channels, active, control>>

CancelNotify(e) ==
  /\ Calls("cancel")
  /\ pend[e] # None
  /\ CancelPending(e)
  /\ UNCHANGED <<proc, queues, channels, active, control>>

(* request_update() of a channel that has no request yet; of one that is   *)
(* an asynchronous reset before the simulation if the design does that.    *)
RequestUpdate(c) ==
  /\ Calls("update")
  /\ \/ Started \/ "resetfirst" \in Op
     \/ ~\E x \in Resets : x.channel = c /\ x.async
  /\ requests' = requests \cup {c}
  /\ UNCHANGED <<proc, stores, queues, level, active, control>>

-------------------------------------------------------------------------------
(* Process control.                                                        *)

\* Variant: a queued process is not owed a run.
HeldForgets(p) ==
  LET r == Set(proc[p], "suspended") IN IF p = active THEN Set(r, "ready") ELSE r

Held(p) ==
  LET r == Set(proc[p], "suspended") IN
  IF p \in Runnable \cup {active} THEN Set(r, "ready") ELSE r

(* suspend(): a runnable process leaves the run queue and resume() puts it *)
(* back.  A thread that suspends itself yields.  It is an error if the     *)
(* process has a reset, unless corner cases are allowed.                   *)
SuspendProcess(p) ==
  /\ Calls("suspend")
  /\ Corners \/ (~proc[p].sticky /\ \A x \in Resets : x.process # p)
  /\ proc' = [proc EXCEPT ![p] = Held(p)]
  /\ RemoveRunnable(p)
  /\ active' = IF p \in Thread /\ p = active THEN NoProcess ELSE active
  /\ UNCHANGED <<stores, channels, control>>

Released(r) == Clear(Clear(r, "suspended"), "ready")

(* resume(): an error on a disabled process, unless corner cases are       *)
(* allowed; it then clears the suspended bit alone.                        *)
ResumeProcess(p) ==
  LET r     == proc[p]
      error == ~Corners /\ {"disabled", "suspended"} \subseteq r.state
      free  == IF error THEN Clear(r, "suspended") ELSE Released(r)
      again == /\ Has(r, "ready") /\ ~error
               /\ p \in Thread \/ p \notin Runnable \cup {active}
  IN
  /\ Calls("resume")
  /\ Started \/ ~Has(r, "ready")
  /\ proc' = [proc EXCEPT ![p] = IF again THEN RemoveDynamicEvents(free, p) ELSE free]
  /\ IF again /\ p \notin Runnable THEN Push(p) ELSE UNCHANGED queues
  /\ IF again THEN CancelPending(p) ELSE UNCHANGED stores
  /\ UNCHANGED <<channels, active, control>>

(* disable(): an error while waiting with a timeout.  Before the           *)
(* simulation, if the design does that, a thread gets the ready bit too.   *)
DisableProcess(p) ==
  LET off == Set(proc[p], "disabled") IN
  /\ Calls(IF Started THEN "disable" ELSE "disablefirst")
  /\ Corners \/ ~proc[p].timed
  /\ proc' = [proc EXCEPT ![p] = IF p \in Thread /\ run.status = "elaboration"
                                 THEN Set(off, "ready") ELSE off]
  /\ UNCHANGED <<stores, queues, channels, active, control>>

EnableProcess(p) ==
  LET on    == Clear(proc[p], "disabled")
      again == on.state = {"ready"} /\ (p \in Method \/ Corners)
  IN
  /\ Calls("enable")
  /\ again => Started
  /\ proc' = [proc EXCEPT ![p] = IF again THEN Clear(on, "ready") ELSE on]
  /\ IF again /\ p \notin Runnable THEN Push(p) ELSE UNCHANGED queues
  /\ UNCHANGED <<stores, channels, active, control>>

(* kill() of a method, or of a thread that has no stack because it was     *)
(* never dispatched.  A method that kills itself returns at once.          *)
KillDisconnect(p) ==
  /\ Calls("kill") /\ Started
  /\ ~Has(proc[p], "zombie")
  /\ ~proc[p].stack
  /\ proc' = [proc EXCEPT ![p] = Disconnected(@, p)]
  /\ CancelPending(p)
  /\ IF p \in Method THEN RemoveRunnable(p) ELSE UNCHANGED queues
  /\ active' = IF p = active THEN NoProcess ELSE active
  /\ UNCHANGED <<channels, control>>

\* Variant: the caller runs again before the victim.
PreemptedAfter(p) ==
  LET rest == IF p \in Queued(threads) THEN RemoveProc(threads, p) ELSE threads IN
  IF p = active THEN ExecuteNext(rest, p) ELSE ExecuteNext(ExecuteNext(rest, p), active)

(* A thread preempts itself or another thread: the caller goes to the      *)
(* front of the run queue, the thread to be run in front of it.            *)
Preempted(p) ==
  LET rest == IF p \in Queued(threads) THEN RemoveProc(threads, p) ELSE threads IN
  ExecuteNext(IF p = active THEN rest ELSE ExecuteNext(rest, active), p)

(* preempt_with(p), r being the new state of p.  A method switches to the  *)
(* thread, and gets the control back when no thread is in the pop queue; a *)
(* thread yields.                                                          *)
PreemptWith(p, r) ==
  IF active \in Method
  THEN /\ active' = p /\ caller' = active
       /\ proc' = [proc EXCEPT ![p] = Resumed(r)]
       /\ RemoveRunnable(p)
  ELSE /\ active' = NoProcess /\ UNCHANGED caller
       /\ proc' = [proc EXCEPT ![p] = r]
       /\ threads' = Preempted(p)
       /\ UNCHANGED <<methods, stranded>>

(* kill() of a thread that has begun.                                      *)
KillThread(p) ==
  /\ Calls("kill") /\ active # NoProcess
  /\ proc[p].stack /\ ~Has(proc[p], "zombie")
  /\ PreemptWith(p, [proc[p] EXCEPT !.throw = "KILL", !.cycles = 0])
  /\ UNCHANGED <<stores, channels, phase, cursor, now, run, open>>

(* throw_it(): the thread catches the exception and goes on.  The ready    *)
(* bit stays: it is thrown at a thread that is owed a run if the design    *)
(* does that.                                                              *)
ThrowIt(p) ==
  /\ Calls("throw") /\ active # NoProcess
  /\ Has(proc[p], "ready") => "throwready" \in Op
  /\ proc[p].stack
  /\ PreemptWith(p, [RemoveDynamicEvents(proc[p], p) EXCEPT !.throw = "USER"])
  /\ CancelPending(p)
  /\ UNCHANGED <<channels, phase, cursor, now, run, open>>

(* reset(): one asynchronous reset.                                        *)
ResetProcess(p) ==
  /\ Calls("reset") /\ active # NoProcess
  /\ ~Has(proc[p], "zombie")
  /\ PreemptWith(p, Reset(proc[p], p, TRUE))
  /\ CancelPending(p)
  /\ UNCHANGED <<channels, phase, cursor, now, run, open>>

\* Variant: sync_reset_on() counts again if it is called again.
SyncResetAgain(p, asserted) ==
  LET r == [proc[p] EXCEPT !.sticky = asserted] IN
  /\ Calls("syncreset")
  /\ proc[p].sticky => r.reset < 3
  /\ proc' = [proc EXCEPT ![p] = ResetChanged(r, p, FALSE, asserted, Started)]
  /\ UNCHANGED <<stores, queues, channels, active, control>>

(* sync_reset_on() and sync_reset_off().  The flag is set first: if the    *)
(* process is suspended and that is an error, nothing is counted.          *)
SyncReset(p, asserted) ==
  LET r == [proc[p] EXCEPT !.sticky = asserted] IN
  /\ Calls("syncreset")
  /\ proc[p].sticky # asserted
  /\ proc' = [proc EXCEPT ![p] =
                IF ~Corners /\ Has(r, "suspended") THEN r
                ELSE ResetChanged(r, p, FALSE, asserted, Started)]
  /\ UNCHANGED <<stores, queues, channels, active, control>>

(* sc_stop(): the immediate mode empties the run queues, and forgets that  *)
(* the processes in them are marked as queued.  From sc_main it ends the   *)
(* simulation.                                                             *)
Stop ==
  /\ Calls("stop")
  /\ ~run.forced
  /\ run' = [run EXCEPT !.forced = TRUE,
                        !.status = IF phase = "main" THEN "stopped" ELSE @]
  /\ IF StopMode = "IMMEDIATE"
     THEN /\ stranded' = Runnable
          /\ methods' = EmptyQueue
          /\ threads' = EmptyQueue
     ELSE UNCHANGED queues
  /\ UNCHANGED <<proc, stores, channels, active, phase, cursor, now, open, caller>>

Pause ==
  /\ Calls("pause")
  /\ active # NoProcess
  /\ run' = [run EXCEPT !.paused = TRUE]
  /\ UNCHANGED <<proc, stores, queues, channels, active, phase, cursor, now, open, caller>>

-------------------------------------------------------------------------------
(* What the active process does before it yields.                          *)

Waits == active \in Thread /\ proc[active].throw # "KILL"

(* wait(e), wait(e1 | e2), wait(e1 & e2) and wait(t), with or without a    *)
(* timeout.                                                                *)
WaitKinds ==
  {<<"EVENT", {e}>> : e \in UserEvent \cup Channel}
    \cup {<<k, E>> : k \in {"OR", "AND"},
                     E \in {S \in SUBSET (UserEvent \cup Channel) : Cardinality(S) = 2}}

WaitFor(kind, E) ==
  /\ Waits /\ kind \in Op
  /\ proc' = [proc EXCEPT ![active] = WaitOn(@, active, kind, E, FALSE)]
  /\ active' = NoProcess
  /\ UNCHANGED <<stores, queues, channels, control>>

WaitTimed(kind, E, t) ==
  /\ Waits /\ kind \in Op /\ "TIMEOUT" \in Op
  /\ now + t <= MaxTime
  /\ ArmTimeout(active, t, delta)
  /\ proc' = [proc EXCEPT ![active] = WaitOn(@, active, kind, E, TRUE)]
  /\ active' = NoProcess
  /\ UNCHANGED <<queues, channels, control>>

\* Variant: one trigger too many is waited for.
WaitCyclesOneMore(n) ==
  /\ Waits
  /\ n = 1 \/ "CYCLES" \in Op
  /\ proc' = [proc EXCEPT ![active].cycles = n]
  /\ active' = NoProcess
  /\ UNCHANGED <<stores, queues, channels, control>>

(* wait(n) is satisfied by the n-th static trigger; wait() is wait(1).     *)
WaitCycles(n) ==
  /\ Waits
  /\ n = 1 \/ "CYCLES" \in Op
  /\ proc' = [proc EXCEPT ![active].cycles = n - 1]
  /\ active' = NoProcess
  /\ UNCHANGED <<stores, queues, channels, control>>

(* The body returns, or the thread was resumed to be killed and unwinds.   *)
ThreadEnd ==
  /\ active \in Thread
  /\ "exit" \in Op \/ proc[active].throw = "KILL"
  /\ proc' = [proc EXCEPT ![active] =
                [Disconnected(@, active) EXCEPT !.throw = "NONE", !.stack = FALSE]]
  /\ IF Has(proc[active], "zombie") THEN UNCHANGED stores ELSE CancelPending(active)
  /\ RemoveRunnable(active)
  /\ active' = NoProcess
  /\ UNCHANGED <<channels, control>>

Triggers == active \in Method /\ "next_trigger" \in Op

(* next_trigger(...) first clears the trigger the method had.              *)
NextTrigger(kind, E) ==
  /\ Triggers /\ kind \in Op
  /\ proc' = [proc EXCEPT ![active] =
                WaitOn(RemoveDynamicEvents(@, active), active, kind, E, FALSE)]
  /\ CancelPending(active)
  /\ UNCHANGED <<queues, channels, active, control>>

NextTriggerTimed(kind, E, t) ==
  /\ Triggers /\ kind \in Op /\ "TIMEOUT" \in Op
  /\ now + t <= MaxTime
  /\ ArmTimeout(active, t, VectorWithout(active))
  /\ proc' = [proc EXCEPT ![active] =
                WaitOn(RemoveDynamicEvents(@, active), active, kind, E, TRUE)]
  /\ UNCHANGED <<queues, channels, active, control>>

MethodReturn ==
  /\ active \in Method
  /\ active' = NoProcess
  /\ UNCHANGED <<proc, stores, queues, channels, control>>

-------------------------------------------------------------------------------
EventOperation ==
  \/ \E e \in UserEvent :
       \/ NotifyNow(e)
       \/ NotifyZero(e)
       \/ \E t \in Time \ {0} : NotifyAt(e, t)
       \/ CancelNotify(e)
  \/ \E c \in Channel : RequestUpdate(c)

ProcessControl ==
  \/ \E p \in Process :
       \/ SuspendProcess(p)
       \/ ResumeProcess(p)
       \/ DisableProcess(p)
       \/ EnableProcess(p)
       \/ KillDisconnect(p)
  \/ \E p \in Thread :
       \/ KillThread(p)
       \/ ThrowIt(p)
       \/ ResetProcess(p)
       \/ \E asserted \in BOOLEAN : SyncReset(p, asserted)
  \/ Stop
  \/ Pause

(* The active process returns the control to the scheduler.                *)
Yield ==
  \/ \E w \in WaitKinds : WaitFor(w[1], w[2]) \/ \E t \in Time : WaitTimed(w[1], w[2], t)
  \/ \E t \in Time : WaitTimed("TIMEOUT", {}, t)
  \/ \E n \in 1 .. MaxCycles : WaitCycles(n)
  \/ ThreadEnd
  \/ MethodReturn

SetTrigger ==
  \/ \E w \in WaitKinds :
       NextTrigger(w[1], w[2]) \/ \E t \in Time : NextTriggerTimed(w[1], w[2], t)
  \/ \E t \in Time : NextTriggerTimed("TIMEOUT", {}, t)
===============================================================================
