-------------------------- MODULE KernelProcessProofs --------------------------
(***************************************************************************)
(* The exceptions thrown at threads and the counts of their resets, proved *)
(* for any processes, events and reset signals.                            *)
(*                                                                         *)
(* The code keeps some of these promises only in designs that leave out a  *)
(* combination of calls.  The combinations are named first: each of them   *)
(* is a hypothesis of the theorems that need it.                           *)
(***************************************************************************)
EXTENDS KernelProofs

(* sync_reset_on() of a suspended process sets the flag, and counts        *)
(* nothing if that is an error.                                            *)
SyncCounted == Corners \/ "syncreset" \notin Op \/ "suspend" \notin Op

(* sc_stop() in the immediate mode forgets who is in the run queues.       *)
NothingStranded == StopMode = "FINISH_DELTA" \/ "stop" \notin Op

(* resume() of a suspended and disabled process, where that is an error,   *)
(* leaves it its ready bit.                                                *)
NoneForgotten ==
  \/ Corners \/ "suspend" \notin Op \/ "resume" \notin Op
  \/ Op \cap {"disable", "disablefirst"} = {}

-------------------------------------------------------------------------------
(* What the operations on a process leave alone *)

(* The exception to be thrown, the stack and the counts of the resets.     *)
Keeps(r, s) ==
  /\ s.throw = r.throw /\ s.stack = r.stack
  /\ s.areset = r.areset /\ s.reset = r.reset /\ s.sticky = r.sticky

LEMMA KeptState ==
    ASSUME NEW r \in Member, NEW b
    PROVE  /\ Keeps(r, Set(r, b)) /\ Set(r, b).state = r.state \cup {b}
           /\ Keeps(r, Clear(r, b)) /\ Clear(r, b).state = r.state \ {b}
BY DEF Member, Keeps, Set, Clear

LEMMA KeptCompleted ==
    ASSUME NEW r \in Member, NEW p, NEW e
    PROVE  /\ Keeps(r, Completed(r, p, e))
           /\ \/ Completed(r, p, e).state = r.state
              \/ Completed(r, p, e).state = r.state \cup {"ready"} /\ Has(r, "suspended")
BY DEF Member, Keeps, Completed

LEMMA KeptTrigger ==
    ASSUME NEW r \in Member, NEW p, NEW e
    PROVE  /\ Keeps(r, Counted(r, e)) /\ Counted(r, e).state = r.state
           /\ Keeps(r, RemoveDynamicEvents(r, p)) /\ RemoveDynamicEvents(r, p).state = r.state
           /\ Keeps(r, [r EXCEPT !.lists = @ \ {e}]) /\ [r EXCEPT !.lists = @ \ {e}].state = r.state
           /\ Keeps(r, [r EXCEPT !.cycles = @ - 1]) /\ [r EXCEPT !.cycles = @ - 1].state = r.state
<1>1. Keeps(r, Counted(r, e)) /\ Counted(r, e).state = r.state
  BY DEF Member, Keeps, Counted
<1>2. Keeps(r, RemoveDynamicEvents(r, p)) /\ RemoveDynamicEvents(r, p).state = r.state
  BY DEF Member, Keeps, RemoveDynamicEvents
<1>3. /\ Keeps(r, [r EXCEPT !.lists = @ \ {e}]) /\ [r EXCEPT !.lists = @ \ {e}].state = r.state
      /\ Keeps(r, [r EXCEPT !.cycles = @ - 1]) /\ [r EXCEPT !.cycles = @ - 1].state = r.state
  BY DEF Member, Keeps
<1> QED BY <1>1, <1>2, <1>3

LEMMA KeptWait ==
    ASSUME NEW r \in Member, NEW p
    PROVE  /\ \A k, E, b : Keeps(r, WaitOn(r, p, k, E, b)) /\ WaitOn(r, p, k, E, b).state = r.state
           /\ Keeps(r, RemoveDynamicEvents(r, p)) /\ RemoveDynamicEvents(r, p).state = r.state
           /\ Keeps(r, Disconnected(r, p)) /\ Has(Disconnected(r, p), "zombie")
<1>1. \A k, E, b : Keeps(r, WaitOn(r, p, k, E, b)) /\ WaitOn(r, p, k, E, b).state = r.state
  BY DEF Member, Keeps, WaitOn
<1>2. Keeps(r, RemoveDynamicEvents(r, p)) /\ RemoveDynamicEvents(r, p).state = r.state
  BY DEF Member, Keeps, RemoveDynamicEvents
<1>3. Keeps(r, Disconnected(r, p)) /\ Has(Disconnected(r, p), "zombie")
  BY DEF Member, Keeps, Disconnected, RemoveDynamicEvents, Has
<1> QED BY <1>1, <1>2, <1>3

(* A process is suspended or disabled only by these calls.                 *)
Bits ==
  \A p \in Process :
    /\ Has(proc[p], "suspended") => "suspend" \in Op
    /\ Has(proc[p], "disabled") => Op \cap {"disable", "disablefirst"} # {}

-------------------------------------------------------------------------------
(* What a step does to a thread, except for the changes of its resets      *)

(* Where a thread waits to take an exception.                              *)
Located(p) ==
  p = active \/ p \in Queued(threads) \/ {"suspended", "ready"} \subseteq proc[p].state

(* The scheduler dispatches v next.                                        *)
FirstInLine(v) ==
  /\ active = NoProcess /\ (phase = "threads" \/ caller # NoProcess)
  /\ threads.pop # <<>> /\ v = threads.pop[1]

Untouched(q) ==
  /\ Keeps(proc[q], proc'[q])
  /\ Has(proc[q], "zombie") => Has(proc'[q], "zombie")
  /\ Has(proc'[q], "zombie") => Has(proc[q], "zombie") \/ ~proc[q].stack
  /\ q = active' => q = active
  /\ NothingStranded /\ NoneForgotten /\ Located(q) =>
       \/ Located(q)'
       \/ ~proc[q].stack /\ Has(proc'[q], "zombie")
       \/ q = active /\ proc[q].throw # "KILL"

Ended(q) ==
  LET r == proc[q]
      s == proc'[q]
  IN  /\ q = active /\ active' = NoProcess
      /\ s.throw = "NONE" /\ ~s.stack /\ Has(s, "zombie")
      /\ s.areset = r.areset /\ s.reset = r.reset /\ s.sticky = r.sticky

Dispatched(q) == active = NoProcess /\ active' = q /\ proc'[q] = Resumed(proc[q])

(* The thread is thrown an exception, r being its state then.              *)
Thrown(q) ==
  \E r \in Member :
    /\ r.throw = "ASYNC" \/ (r.throw \in {"KILL", "USER"} /\ r.stack)
    /\ r.throw = "KILL" => ~Has(r, "zombie")
    /\ r.stack = proc[q].stack /\ r.areset = proc[q].areset /\ r.reset = proc[q].reset
    /\ r.sticky = proc[q].sticky /\ (Has(r, "zombie") <=> Has(proc[q], "zombie"))
    /\ \/ active' = q /\ proc'[q] = Resumed(r)
       \/ proc'[q] = r /\ q \in Queued(threads)' /\ FirstInLine(q)'

Fate(q) == Untouched(q) \/ Ended(q) \/ Dispatched(q) \/ Thrown(q)

(* A step that leaves the record of q alone and takes it from no queue.    *)
LEMMA Undisturbed ==
    ASSUME IInv, NEW q \in Thread, proc'[q] = proc[q],
           q \in Queued(threads) => q \in Queued(threads)' \/ q = active',
           q = active' => q = active, q = active => q = active' \/ q \in Queued(threads)'
    PROVE  Untouched(q)
BY DEF Untouched, Keeps, Located, Has

LEMMA TriggerUntouches ==
    ASSUME IInv, NEW q \in Thread, NEW e \in Event,
           NEW at \in [Event -> {None, Delta} \cup Time], NEW v \in Vector(Event),
           \A f \in Event \ {e} : at[f] = Delta => RemovableDelta(v, f),
           Trigger(e, at, v), active' = active
    PROVE  Untouched(q)
<1>0. /\ proc' = [p \in Process |-> Triggered(p, e)]
      /\ Queued(threads)' = Queued(threads) \cup {p \in Thread : Wakes(p, e)}
  BY Triggering DEF IInv
<1>1. proc'[q] = Triggered(q, e) /\ Queued(threads) \subseteq Queued(threads)'
  BY <1>0, Names
<1>2. proc[q] \in Member
  BY Names DEF IInv, ProcOk
<1>3. /\ Keeps(proc[q], Triggered(q, e))
      /\ Triggered(q, e).state = proc[q].state \/ Triggered(q, e).state = proc[q].state \cup {"ready"}
  <2> DEFINE r == proc[q]
             Good(s) == Keeps(r, s) /\ (s.state = r.state \/ s.state = r.state \cup {"ready"})
  <2>1. /\ Good(r) /\ Good(Set(r, "ready")) /\ Good(Completed(r, q, e)) /\ Good(Counted(r, e))
        /\ Good(RemoveDynamicEvents(r, q)) /\ Good([r EXCEPT !.lists = @ \ {e}])
        /\ Good([r EXCEPT !.cycles = @ - 1])
    <3>1. Good(r)
      BY DEF Keeps
    <3> HIDE DEF r
    <3>2. r \in Member
      BY <1>2 DEF r
    <3>3. Good(Set(r, "ready"))
      BY <3>2, KeptState
    <3>4. Good(Completed(r, q, e))
      <4>1. /\ Keeps(r, Completed(r, q, e))
            /\ \/ Completed(r, q, e).state = r.state
               \/ Completed(r, q, e).state = r.state \cup {"ready"} /\ Has(r, "suspended")
        BY <3>2, KeptCompleted
      <4> QED BY <4>1
    <3>5. Good(Counted(r, e)) /\ Good(RemoveDynamicEvents(r, q))
      BY <3>2, KeptTrigger
    <3>6. Good([r EXCEPT !.lists = @ \ {e}]) /\ Good([r EXCEPT !.cycles = @ - 1])
      BY <3>2, KeptTrigger
    <3> QED BY <3>1, <3>3, <3>4, <3>5, <3>6
  <2>2. \/ Triggered(q, e) = r \/ Triggered(q, e) = Set(r, "ready")
        \/ Triggered(q, e) = Completed(r, q, e) \/ Triggered(q, e) = Counted(r, e)
        \/ Triggered(q, e) = RemoveDynamicEvents(r, q)
        \/ Triggered(q, e) = [r EXCEPT !.lists = @ \ {e}]
        \/ Triggered(q, e) = [r EXCEPT !.cycles = @ - 1]
    BY DEF Triggered
  <2>3. Good(Triggered(q, e))
    <3> HIDE DEF r, Good
    <3> QED BY <2>1, <2>2
  <2> QED BY <2>3
<1> QED BY <1>1, <1>3 DEF Untouched, Located, Has

(* The immediate mode of sc_stop() alone marks processes as queued that    *)
(* are in no queue.                                                        *)
Tracked == NothingStranded => stranded = {}

LEMMA EventsUntouch ==
    ASSUME IInv, EventOperation, NEW q \in Thread
    PROVE  Untouched(q)
<1>1. ASSUME NEW e \in UserEvent, NotifyNow(e) PROVE Untouched(q)
  <2>1. Trigger(e, pend, VectorWithout(e)) /\ active' = active
    BY <1>1 DEF NotifyNow
  <2>2. e \in Event
    BY Names
  <2>3. /\ VectorWithout(e) \in Vector(Event) /\ pend \in [Event -> {None, Delta} \cup Time]
        /\ \A f \in Event \ {e} : pend[f] = Delta => RemovableDelta(VectorWithout(e), f)
    BY <2>2, Without DEF IInv, StoresOk
  <2> QED BY <2>1, <2>2, <2>3, TriggerUntouches
<1>2. ASSUME UNCHANGED <<proc, queues, active>> PROVE Untouched(q)
  BY <1>2, Undisturbed DEF queues
<1> QED BY <1>1, <1>2 DEF EventOperation, NotifyZero, NotifyAt, CancelNotify, RequestUpdate, queues

LEMMA SuspendUntouches ==
    ASSUME IInv, NEW p \in Process, SuspendProcess(p), NEW q \in Thread
    PROVE  Untouched(q)
<1>1. /\ proc' = [proc EXCEPT ![p] = Held(p)] /\ RemoveRunnable(p)
      /\ active' = IF p \in Thread /\ p = active THEN NoProcess ELSE active
  BY DEF SuspendProcess
<1>2. Queued(threads) \subseteq Queued(threads)' \cup {p}
  BY <1>1, RunnableRemoved DEF IInv
<1>3. proc[q] \in Member /\ q \in Process /\ q # NoProcess
  BY Names DEF IInv, ProcOk
<1>4. CASE q = p
  <2>1. proc'[q] = Held(q)
    BY <1>1, <1>3, <1>4 DEF IInv, ProcOk
  <2>2. \/ Held(q) = Set(proc[q], "suspended") /\ q \notin Runnable \cup {active}
        \/ Held(q) = Set(Set(proc[q], "suspended"), "ready")
    BY DEF Held
  <2>3. Set(proc[q], "suspended") \in Member
    BY <1>3, MemberStep
  <2>4. /\ Keeps(proc[q], proc'[q])
        /\ \/ proc'[q].state = proc[q].state \cup {"suspended"} /\ q \notin Runnable \cup {active}
           \/ proc'[q].state = proc[q].state \cup {"suspended", "ready"}
    <3>1. /\ Keeps(proc[q], Set(proc[q], "suspended"))
          /\ Set(proc[q], "suspended").state = proc[q].state \cup {"suspended"}
      BY <1>3, KeptState
    <3>2. /\ Keeps(Set(proc[q], "suspended"), Set(Set(proc[q], "suspended"), "ready"))
          /\ Set(Set(proc[q], "suspended"), "ready").state = Set(proc[q], "suspended").state \cup {"ready"}
      BY <2>3, KeptState
    <3> QED BY <2>1, <2>2, <3>1, <3>2 DEF Keeps
  <2>5. active' # q
    BY <1>1, <1>3, <1>4
  <2> QED BY <2>4, <2>5 DEF Untouched, Located, Has, Runnable
<1>5. CASE q # p
  <2>1. proc'[q] = proc[q]
    BY <1>1, <1>3, <1>5 DEF IInv, ProcOk
  <2> QED BY <1>1, <1>2, <1>3, <1>5, <2>1, Undisturbed
<1> QED BY <1>4, <1>5

LEMMA ResumeUntouches ==
    ASSUME IInv, Bits, Tracked, NEW p \in Process, ResumeProcess(p), NEW q \in Thread
    PROVE  Untouched(q)
<1> DEFINE r     == proc[p]
           error == ~Corners /\ {"disabled", "suspended"} \subseteq r.state
           free  == IF error THEN Clear(r, "suspended") ELSE Released(r)
           again == /\ Has(r, "ready") /\ ~error
                    /\ p \in Thread \/ p \notin Runnable \cup {active}
           new   == IF again THEN RemoveDynamicEvents(free, p) ELSE free
<1>1. /\ Calls("resume") /\ proc' = [proc EXCEPT ![p] = new] /\ active' = active
      /\ IF again /\ p \notin Runnable THEN Push(p) ELSE UNCHANGED queues
  BY DEF ResumeProcess
<1>2. /\ Queued(threads) \subseteq Queued(threads)'
      /\ again /\ p \in Thread => p \in Queued(threads)' \cup Queued(methods) \cup stranded
  BY <1>1, Pushed DEF IInv, queues, Runnable
<1>3. proc[q] \in Member /\ q \in Process /\ q # NoProcess
  BY Names DEF IInv, ProcOk
<1>4. CASE q = p
  <2>1. proc'[q] = new
    BY <1>1, <1>3, <1>4 DEF IInv, ProcOk
  <2>2. r \in Member /\ Clear(r, "suspended") \in Member /\ Released(r) \in Member
    BY <1>3, <1>4, MemberStep DEF Released
  <2>3. Keeps(r, free) /\ free.state = IF error THEN r.state \ {"suspended"}
                                                ELSE r.state \ {"suspended", "ready"}
    <3>1. Keeps(r, Clear(r, "suspended")) /\ Clear(r, "suspended").state = r.state \ {"suspended"}
      BY <2>2, KeptState
    <3>2. /\ Keeps(Clear(r, "suspended"), Released(r))
          /\ Released(r).state = Clear(r, "suspended").state \ {"ready"}
      BY <2>2, KeptState DEF Released
    <3> QED BY <3>1, <3>2 DEF Keeps
  <2>4. free \in Member
    BY <2>2
  <2>5. Keeps(r, new) /\ new.state = free.state
    <3> HIDE DEF free, again, r
    <3>1. Keeps(free, RemoveDynamicEvents(free, p)) /\ RemoveDynamicEvents(free, p).state = free.state
      BY <2>4, KeptTrigger
    <3> QED BY <2>3, <3>1 DEF Keeps
  <2>6. ASSUME NothingStranded, NoneForgotten, {"suspended", "ready"} \subseteq r.state
        PROVE  q \in Queued(threads)'
    <3>1. ~error
      BY <1>1, <1>3, <1>4, <2>6 DEF NoneForgotten, Bits, Has, Calls
    <3>2. again
      BY <1>4, <2>6, <3>1 DEF Has
    <3>3. stranded = {} /\ Queued(methods) \subseteq Method
      BY <2>6, QueuesDef DEF Tracked, IInv
    <3> QED BY <1>2, <1>4, <3>2, <3>3, Names
  <2>7. Has(proc'[q], "zombie") <=> Has(proc[q], "zombie")
    BY <1>4, <2>1, <2>3, <2>5 DEF Has
  <2> QED BY <1>1, <1>2, <1>4, <2>1, <2>5, <2>6, <2>7 DEF Untouched, Located
<1>5. CASE q # p
  <2>1. proc'[q] = proc[q]
    BY <1>1, <1>3, <1>5 DEF IInv, ProcOk
  <2> QED BY <1>1, <1>2, <1>3, <1>5, <2>1, Undisturbed
<1> QED BY <1>4, <1>5

LEMMA ControlUntouches ==
    ASSUME IInv, Tracked, NEW q \in Thread,
           \/ \E p \in Process : DisableProcess(p) \/ EnableProcess(p) \/ KillDisconnect(p)
           \/ Stop \/ Pause
    PROVE  Untouched(q)
<1>0. proc[q] \in Member /\ q \in Process /\ q # NoProcess
  BY Names DEF IInv, ProcOk
<1>1. ASSUME NEW p \in Process, DisableProcess(p) PROVE Untouched(q)
  <2> DEFINE off == Set(proc[p], "disabled")
             new == IF p \in Thread /\ run.status = "elaboration" THEN Set(off, "ready") ELSE off
  <2>1. proc' = [proc EXCEPT ![p] = new] /\ UNCHANGED <<queues, active>>
    BY <1>1 DEF DisableProcess
  <2>2. /\ Keeps(proc[p], off) /\ off.state = proc[p].state \cup {"disabled"} /\ off \in Member
        /\ Keeps(off, Set(off, "ready")) /\ Set(off, "ready").state = off.state \cup {"ready"}
    <3>1. proc[p] \in Member
      BY DEF IInv, ProcOk
    <3>2. off \in Member
      BY <3>1, MemberStep
    <3>3. Keeps(proc[p], off) /\ off.state = proc[p].state \cup {"disabled"}
      BY <3>1, KeptState
    <3>4. Keeps(off, Set(off, "ready")) /\ Set(off, "ready").state = off.state \cup {"ready"}
      BY <3>2, KeptState
    <3> QED BY <3>2, <3>3, <3>4
  <2>3. /\ Keeps(proc[p], new) /\ proc[p].state \subseteq new.state
        /\ Has(new, "zombie") => Has(proc[p], "zombie")
    BY <2>2 DEF Keeps, Has
  <2>4. proc'[q] = IF q = p THEN new ELSE proc[q]
    BY <1>0, <2>1 DEF IInv, ProcOk
  <2> HIDE DEF new
  <2>5. CASE q = p
    BY <2>1, <2>3, <2>4, <2>5 DEF Untouched, Located, Has, queues
  <2>6. CASE q # p
    BY <2>1, <2>4, <2>6, Undisturbed DEF queues
  <2> QED BY <2>5, <2>6
<1>2. ASSUME NEW p \in Process, EnableProcess(p) PROVE Untouched(q)
  <2> DEFINE on    == Clear(proc[p], "disabled")
             again == on.state = {"ready"} /\ (p \in Method \/ Corners)
             new   == IF again THEN Clear(on, "ready") ELSE on
  <2>1. /\ proc' = [proc EXCEPT ![p] = new] /\ active' = active
        /\ IF again /\ p \notin Runnable THEN Push(p) ELSE UNCHANGED queues
    BY <1>2 DEF EnableProcess
  <2>2. Queued(threads) \subseteq Queued(threads)'
    BY <2>1, Pushed DEF IInv, queues
  <2>3. /\ Keeps(proc[p], on) /\ on.state = proc[p].state \ {"disabled"}
        /\ Keeps(on, Clear(on, "ready")) /\ Clear(on, "ready").state = on.state \ {"ready"}
    <3>1. proc[p] \in Member
      BY DEF IInv, ProcOk
    <3>2. on \in Member
      BY <3>1, MemberStep
    <3>3. Keeps(proc[p], on) /\ on.state = proc[p].state \ {"disabled"}
      BY <3>1, KeptState
    <3>4. Keeps(on, Clear(on, "ready")) /\ Clear(on, "ready").state = on.state \ {"ready"}
      BY <3>2, KeptState
    <3> QED BY <3>3, <3>4
  <2>4. /\ Keeps(proc[p], new) /\ (Has(new, "zombie") <=> Has(proc[p], "zombie"))
        /\ {"suspended", "ready"} \subseteq proc[p].state => {"suspended", "ready"} \subseteq new.state
    BY <2>3 DEF Keeps, Has
  <2>5. proc'[q] = IF q = p THEN new ELSE proc[q]
    BY <1>0, <2>1 DEF IInv, ProcOk
  <2> HIDE DEF new
  <2>6. CASE q = p
    <3>1. proc'[q] = new /\ Keeps(proc[q], proc'[q])
      BY <2>4, <2>5, <2>6
    <3>2. Has(proc'[q], "zombie") <=> Has(proc[q], "zombie")
      BY <2>4, <2>6, <3>1
    <3>3. Located(q) => Located(q)'
      BY <2>1, <2>2, <2>4, <2>6, <3>1 DEF Located
    <3> QED BY <2>1, <3>1, <3>2, <3>3 DEF Untouched
  <2>7. CASE q # p
    BY <2>1, <2>2, <2>5, <2>7, Undisturbed
  <2> QED BY <2>6, <2>7
<1>3. ASSUME NEW p \in Process, KillDisconnect(p) PROVE Untouched(q)
  <2>1. /\ ~proc[p].stack /\ proc' = [proc EXCEPT ![p] = Disconnected(@, p)]
        /\ IF p \in Method THEN RemoveRunnable(p) ELSE UNCHANGED queues
        /\ active' = IF p = active THEN NoProcess ELSE active
    BY <1>3 DEF KillDisconnect
  <2>2. Queued(threads) \subseteq Queued(threads)' \cup {p}
    BY <2>1, RunnableRemoved DEF IInv, queues
  <2>3. CASE q = p
    <3>1. Keeps(proc[q], proc'[q]) /\ Has(proc'[q], "zombie")
      <4>1. proc'[q] = Disconnected(proc[q], q)
        BY <1>0, <2>1, <2>3 DEF IInv, ProcOk
      <4> QED BY <1>0, <4>1, KeptWait
    <3>2. ~proc[q].stack /\ active' # q
      BY <1>0, <2>1, <2>3
    <3> QED BY <3>1, <3>2 DEF Untouched
  <2>4. CASE q # p
    <3>1. proc'[q] = proc[q]
      BY <1>0, <2>1, <2>4 DEF IInv, ProcOk
    <3> QED BY <1>0, <2>1, <2>2, <2>4, <3>1, Undisturbed
  <2> QED BY <2>3, <2>4
<1>4. ASSUME Stop PROVE Untouched(q)
  <2>1. Calls("stop") /\ proc' = proc /\ active' = active /\ (StopMode = "FINISH_DELTA" => UNCHANGED queues)
    BY <1>4 DEF Stop
  <2> QED BY <2>1 DEF Untouched, Keeps, Located, NothingStranded, Calls, queues, Has
<1>5. ASSUME Pause PROVE Untouched(q)
  BY <1>5, Undisturbed DEF Pause, queues
<1> QED BY <1>1, <1>2, <1>3, <1>4, <1>5

(* preempt_with() of a thread that is thrown an exception, r being its     *)
(* state then.                                                             *)
(* preempt_with() puts its victim in front of all others.                  *)
LEMMA PreemptedFirst ==
    ASSUME QueuesOk, NEW p \in Thread, active \in Thread
    PROVE  Preempted(p).pop # <<>> /\ Preempted(p).pop[1] = p
<1> DEFINE rest == IF p \in Queued(threads) THEN RemoveProc(threads, p) ELSE threads
<1>1. rest \in Queue(Thread)
  BY Removed DEF QueuesOk
<1> HIDE DEF rest
<1>2. PICK q : q = IF p = active THEN rest ELSE ExecuteNext(rest, active)
  OBVIOUS
<1>3. q \in Queue(Thread)
  BY <1>1, <1>2, PutNext
<1>4. Preempted(p) = ExecuteNext(q, p)
  BY <1>2 DEF Preempted, rest
<1>5. PICK s : s = q.pop
  OBVIOUS
<1>6. s \in Seq(Thread)
  BY <1>3, <1>5 DEF Queue
<1>7. ExecuteNext(q, p).pop = <<p>> \o s
  BY <1>3, <1>5 DEF ExecuteNext, Queue
<1>8. (<<p>> \o s)[1] = p /\ <<p>> \o s # <<>>
  BY <1>6
<1> QED BY <1>4, <1>7, <1>8

LEMMA PreemptThrows ==
    ASSUME IInv, NEW p \in Thread, NEW r \in Member, PreemptWith(p, r), active # NoProcess,
           phase' = phase,
           r.throw = "ASYNC" \/ (r.throw \in {"KILL", "USER"} /\ r.stack),
           r.throw = "KILL" => ~Has(r, "zombie"),
           r.stack = proc[p].stack, r.areset = proc[p].areset, r.reset = proc[p].reset,
           r.sticky = proc[p].sticky, Has(r, "zombie") <=> Has(proc[p], "zombie"),
           NEW q \in Thread
    PROVE  Fate(q)
<1>0. proc[q] \in Member /\ q \in Process /\ q # NoProcess /\ p \in Process
  BY Names DEF IInv, ProcOk
<1>1. CASE active \in Method
  <2>1. active' = p /\ proc' = [proc EXCEPT ![p] = Resumed(r)] /\ RemoveRunnable(p)
    BY <1>1 DEF PreemptWith
  <2>2. CASE q = p
    <3>1. proc'[q] = Resumed(r) /\ active' = q
      BY <1>0, <2>1, <2>2 DEF IInv, ProcOk
    <3> QED BY <2>2, <3>1 DEF Fate, Thrown
  <2>3. CASE q # p
    <3>1. proc'[q] = proc[q] /\ active' # q /\ q # active
      BY <1>0, <1>1, <2>1, <2>3, Names DEF IInv, ProcOk
    <3>2. Queued(threads) \subseteq Queued(threads)' \cup {p}
      BY <2>1, RunnableRemoved DEF IInv
    <3> QED BY <2>3, <3>1, <3>2, Undisturbed DEF Fate
  <2> QED BY <2>2, <2>3
<1>2. CASE active \notin Method
  <2>1. /\ active' = NoProcess /\ caller' = caller
        /\ proc' = [proc EXCEPT ![p] = r] /\ threads' = Preempted(p)
    BY <1>2 DEF PreemptWith
  <2>2. active \in Thread
    BY <1>2, Names DEF IInv, RunOk
  <2>3. Queued(threads)' = Queued(threads) \cup {p, active}
    BY <2>1, <2>2, PreemptedQueue DEF IInv
  <2>4. CASE q = p
    <3>1. proc'[q] = r /\ active' = NoProcess /\ q \in Queued(threads)'
      BY <1>0, <2>1, <2>3, <2>4 DEF IInv, ProcOk
    <3>2. threads'.pop # <<>> /\ threads'.pop[1] = q
      BY <2>1, <2>2, <2>4, PreemptedFirst DEF IInv
    <3>3. phase = "threads" \/ caller # NoProcess
      BY <2>2, Names DEF IInv, Control
    <3>4. FirstInLine(q)'
      BY <2>1, <3>2, <3>3 DEF FirstInLine
    <3> QED BY <2>4, <3>1, <3>4 DEF Fate, Thrown
  <2>5. CASE q # p
    <3>1. proc'[q] = proc[q] /\ active' # q
      BY <1>0, <2>1, <2>5 DEF IInv, ProcOk
    <3> QED BY <2>3, <3>1, Undisturbed DEF Fate
  <2> QED BY <2>4, <2>5
<1> QED BY <1>1, <1>2

LEMMA ThrowsFate ==
    ASSUME IInv, NEW p \in Thread, KillThread(p) \/ ThrowIt(p) \/ ResetProcess(p), NEW q \in Thread
    PROVE  Fate(q)
<1>0. proc[p] \in Member /\ p \in Process
  BY Names DEF IInv, ProcOk
<1>1. CASE KillThread(p)
  <2> DEFINE r == [proc[p] EXCEPT !.throw = "KILL", !.cycles = 0]
  <2>1. active # NoProcess /\ PreemptWith(p, r) /\ proc[p].stack /\ ~Has(proc[p], "zombie")
        /\ phase' = phase
    BY <1>1 DEF KillThread
  <2>2. /\ r \in Member /\ r.throw = "KILL" /\ r.stack = proc[p].stack
        /\ r.areset = proc[p].areset /\ r.reset = proc[p].reset /\ r.sticky = proc[p].sticky
        /\ Has(r, "zombie") <=> Has(proc[p], "zombie")
    BY <1>0 DEF Member, Has
  <2> HIDE DEF r
  <2> QED BY <2>1, <2>2, PreemptThrows
<1>2. CASE ThrowIt(p)
  <2> DEFINE d == RemoveDynamicEvents(proc[p], p)
             r == [d EXCEPT !.throw = "USER"]
  <2>1. active # NoProcess /\ PreemptWith(p, r) /\ proc[p].stack /\ phase' = phase
    BY <1>2 DEF ThrowIt
  <2>2. d \in Member /\ Keeps(proc[p], d) /\ d.state = proc[p].state
    BY <1>0, MemberStep, KeptTrigger
  <2> HIDE DEF d
  <2>3. /\ r \in Member /\ r.throw = "USER" /\ r.stack = proc[p].stack
        /\ r.areset = proc[p].areset /\ r.reset = proc[p].reset /\ r.sticky = proc[p].sticky
        /\ Has(r, "zombie") <=> Has(proc[p], "zombie")
    BY <2>2 DEF Member, Has, Keeps
  <2> HIDE DEF r
  <2> QED BY <2>1, <2>3, PreemptThrows
<1>3. CASE ResetProcess(p)
  <2> DEFINE c == Clear(proc[p], "ready")
             d == RemoveDynamicEvents(c, p)
             r == [d EXCEPT !.throw = "ASYNC", !.cycles = 0]
  <2>1. active # NoProcess /\ PreemptWith(p, r) /\ phase' = phase
    BY <1>3 DEF ResetProcess, Reset
  <2>2. c \in Member /\ Keeps(proc[p], c) /\ c.state = proc[p].state \ {"ready"}
    BY <1>0, MemberStep, KeptState
  <2> HIDE DEF c
  <2>3. d \in Member /\ Keeps(c, d) /\ d.state = c.state
    BY <1>0, <2>2, MemberStep, KeptTrigger
  <2> HIDE DEF d
  <2>4. /\ r \in Member /\ r.throw = "ASYNC" /\ r.stack = proc[p].stack
        /\ r.areset = proc[p].areset /\ r.reset = proc[p].reset /\ r.sticky = proc[p].sticky
        /\ Has(r, "zombie") <=> Has(proc[p], "zombie")
    BY <2>2, <2>3 DEF Member, Has, Keeps
  <2> HIDE DEF r
  <2>5. /\ r.throw = "ASYNC" \/ (r.throw \in {"KILL", "USER"} /\ r.stack)
        /\ r.throw = "KILL" => ~Has(r, "zombie")
    BY <2>4
  <2> QED BY <2>1, <2>4, <2>5, PreemptThrows
<1> QED BY <1>1, <1>2, <1>3

LEMMA SetTriggerUntouches ==
    ASSUME IInv, SetTrigger, NEW q \in Thread
    PROVE  Untouched(q)
<1>1. active \in Method /\ active' = active /\ UNCHANGED queues
  BY DEF SetTrigger, NextTrigger, NextTriggerTimed, Triggers
<1>2. \E s : proc' = [proc EXCEPT ![active] = s]
  BY DEF SetTrigger, NextTrigger, NextTriggerTimed
<1>3. proc'[q] = proc[q]
  BY <1>1, <1>2, Names DEF IInv, ProcOk
<1> QED BY <1>1, <1>3, Undisturbed DEF queues

LEMMA YieldFate ==
    ASSUME IInv, Yield, NEW q \in Thread, proc[q].throw = "KILL" => proc[q].stack
    PROVE  Fate(q)
<1>0. proc[q] \in Member /\ q \in Process /\ q # NoProcess /\ NoProcess \notin Method
  BY Names DEF IInv, ProcOk
<1>1. active' = NoProcess /\ active \in Process
  BY Names DEF Yield, WaitFor, WaitTimed, WaitCycles, ThreadEnd, MethodReturn, Waits
<1>2. ASSUME Waits, UNCHANGED queues, NEW s, Keeps(proc[active], s), s.state = proc[active].state,
             proc' = [proc EXCEPT ![active] = s]
      PROVE  Fate(q)
  <2>1. CASE q = active
    <3>1. proc'[q] = s
      BY <1>0, <1>2, <2>1 DEF IInv, ProcOk
    <3> QED BY <1>0, <1>1, <1>2, <2>1, <3>1 DEF Fate, Untouched, Has, Waits
  <2>2. CASE q # active
    <3>1. proc'[q] = proc[q]
      BY <1>0, <1>2, <2>2 DEF IInv, ProcOk
    <3> QED BY <1>0, <1>1, <1>2, <2>2, <3>1, Undisturbed DEF Fate, queues
  <2> QED BY <2>1, <2>2
<1>3. active \in Process => proc[active] \in Member
  BY DEF IInv, ProcOk
<1>4. ASSUME NEW k, NEW E, WaitFor(k, E) \/ \E t : WaitTimed(k, E, t) PROVE Fate(q)
  <2>1. Waits /\ UNCHANGED queues /\ \E b : proc' = [proc EXCEPT ![active] = WaitOn(@, active, k, E, b)]
    BY <1>4 DEF WaitFor, WaitTimed
  <2>2. PICK b : proc' = [proc EXCEPT ![active] = WaitOn(proc[active], active, k, E, b)]
    BY <2>1
  <2>3. /\ Keeps(proc[active], WaitOn(proc[active], active, k, E, b))
        /\ WaitOn(proc[active], active, k, E, b).state = proc[active].state
    BY <1>1, <1>3, KeptWait
  <2> QED BY <1>2, <2>1, <2>2, <2>3
<1>5. ASSUME NEW n, WaitCycles(n) PROVE Fate(q)
  <2>1. Waits /\ UNCHANGED queues /\ proc' = [proc EXCEPT ![active] = [proc[active] EXCEPT !.cycles = n - 1]]
    BY <1>5 DEF WaitCycles
  <2>2. /\ Keeps(proc[active], [proc[active] EXCEPT !.cycles = n - 1])
        /\ [proc[active] EXCEPT !.cycles = n - 1].state = proc[active].state
    BY <1>1, <1>3 DEF Member, Keeps
  <2> QED BY <1>2, <2>1, <2>2
<1>6. ASSUME ThreadEnd PROVE Fate(q)
  <2> DEFINE d == Disconnected(proc[active], active)
  <2>1. /\ proc' = [proc EXCEPT ![active] = [d EXCEPT !.throw = "NONE", !.stack = FALSE]]
        /\ RemoveRunnable(active)
    BY <1>6 DEF ThreadEnd
  <2>2. d \in Member /\ Keeps(proc[active], d) /\ Has(d, "zombie")
    BY <1>1, <1>3, KeptWait, MemberStep
  <2> HIDE DEF d
  <2>3. CASE q = active
    <3>1. proc'[q] = [d EXCEPT !.throw = "NONE", !.stack = FALSE]
      BY <1>0, <2>1, <2>3 DEF IInv, ProcOk
    <3>2. /\ proc'[q].throw = "NONE" /\ ~proc'[q].stack /\ Has(proc'[q], "zombie")
          /\ proc'[q].areset = d.areset /\ proc'[q].reset = d.reset /\ proc'[q].sticky = d.sticky
      BY <2>2, <3>1 DEF Member, Has
    <3> QED BY <1>1, <2>2, <2>3, <3>2 DEF Fate, Ended, Keeps
  <2>4. CASE q # active
    <3>1. proc'[q] = proc[q]
      BY <1>0, <2>1, <2>4 DEF IInv, ProcOk
    <3>2. Queued(threads) \subseteq Queued(threads)' \cup {active}
      BY <2>1, RunnableRemoved DEF IInv
    <3> QED BY <1>0, <1>1, <2>4, <3>1, <3>2, Undisturbed DEF Fate
  <2> QED BY <2>3, <2>4
<1>7. ASSUME MethodReturn PROVE Fate(q)
  <2>1. active \in Method /\ proc' = proc /\ UNCHANGED queues
    BY <1>7 DEF MethodReturn
  <2> QED BY <1>0, <1>1, <2>1, Names, Undisturbed DEF Fate, queues
<1> QED BY <1>4, <1>5, <1>6, <1>7 DEF Yield

LEMMA InitializeUntouches ==
    ASSUME IInv, Initialize, NEW q \in Thread
    PROVE  Untouched(q)
<1> DEFINE M == {p \in Initial \cap Method : ~Suspended(p)}
           T == {p \in Initial \cap Thread : ~Suspended(p)}
<1>1. PICK ms \in SetToSeqs(M), ts \in SetToSeqs(T) : PushBackAll(ms, ts)
  BY DEF Initialize
<1>2. /\ active' = active
      /\ proc' = [p \in Process |->
                    IF p \in Initial /\ Suspended(p) THEN Set(proc[p], "ready") ELSE proc[p]]
  BY DEF Initialize
<1>3. M \subseteq Method /\ T \subseteq Thread
  OBVIOUS
<1> HIDE DEF M, T
<1>4. IsFiniteSet(M) /\ IsFiniteSet(T)
  BY <1>3, Names, FS_Subset
<1>5. ms \in Seq(M) /\ ts \in Seq(T)
  BY <1>1, <1>4, Orders
<1>6. ms \in Seq(Method) /\ ts \in Seq(Thread)
  BY <1>3, <1>5, SeqMonotonic
<1>7. Queued(threads) \subseteq Queued(threads)'
  BY <1>1, <1>6, PushedBack DEF IInv
<1>8. proc[q] \in Member /\ q \in Process
  BY Names DEF IInv, ProcOk
<1>9. CASE proc'[q] = proc[q]
  BY <1>2, <1>7, <1>9, Undisturbed
<1>10. CASE proc'[q] = Set(proc[q], "ready")
  <2>1. Keeps(proc[q], proc'[q]) /\ proc'[q].state = proc[q].state \cup {"ready"}
    BY <1>8, <1>10, KeptState
  <2> QED BY <1>2, <1>7, <2>1 DEF Untouched, Located, Has
<1> QED BY <1>2, <1>8, <1>9, <1>10

LEMMA RunThreadFate ==
    ASSUME IInv, RunThread, NEW q \in Thread
    PROVE  Fate(q)
<1>1. PICK i \in PopChoices(threads, Random) :
        /\ active' = threads.pop[i] /\ threads' = PopAt(threads, i)
        /\ proc' = [proc EXCEPT ![threads.pop[i]] = Resumed(@)]
  BY DEF RunThread
<1>2. active = NoProcess /\ i \in DOMAIN threads.pop
  BY <1>1 DEF RunThread, PopChoices
<1> DEFINE p == threads.pop[i]
<1>3. p \in Thread /\ Queued(threads) \subseteq Queued(threads)' \cup {p}
  BY <1>1, <1>2, Popped DEF IInv, QueuesOk
<1>4. p \in Process /\ q \in Process /\ q # NoProcess
  BY <1>3, Names
<1>5. CASE q = p
  <2>1. proc'[q] = Resumed(proc[q]) /\ active' = q
    BY <1>1, <1>4, <1>5 DEF IInv, ProcOk
  <2> QED BY <1>2, <2>1 DEF Fate, Dispatched
<1>6. CASE q # p
  <2>1. proc'[q] = proc[q] /\ active' # q
    BY <1>1, <1>4, <1>6 DEF IInv, ProcOk
  <2> QED BY <1>2, <1>3, <1>4, <1>6, <2>1, Undisturbed DEF Fate
<1> QED BY <1>5, <1>6

LEMMA ScheduleFate ==
    ASSUME IInv, StartCall \/ Schedule, \A c \in Channel : ~Update(c, TRUE), NEW q \in Thread
    PROVE  Fate(q)
<1>0. q # NoProcess /\ q \notin Method
  BY Names
<1>1. ASSUME UNCHANGED <<proc, threads, active>> PROVE Fate(q)
  BY <1>1, Undisturbed DEF Fate
<1>2. ASSUME StartCall PROVE Fate(q)
  <2>1. UNCHANGED <<proc, threads, active>>
    BY <1>2 DEF StartCall, Start, FirstStart, StartAfterStop, vars, queues
  <2> QED BY <1>1, <2>1
<1>3. ASSUME Initialize PROVE Fate(q)
  BY <1>3, InitializeUntouches DEF Fate
<1>4. ASSUME RunMethod PROVE Fate(q)
  <2>1. PICK i \in PopChoices(methods, Random) : active' = methods.pop[i]
    BY <1>4 DEF RunMethod
  <2>2. active = NoProcess /\ UNCHANGED <<proc, threads>> /\ i \in DOMAIN methods.pop
    BY <1>4, <2>1 DEF RunMethod, Scheduling, PopChoices
  <2>3. active' \in Method
    BY <2>1, <2>2, Popped DEF IInv, QueuesOk
  <2> QED BY <1>0, <2>2, <2>3, Undisturbed DEF Fate
<1>5. ASSUME MethodsDone PROVE Fate(q)
  <2>1. threads' = Toggle(threads) /\ UNCHANGED <<proc, active>>
    BY <1>5 DEF MethodsDone
  <2>2. Queued(threads)' = Queued(threads)
    BY <2>1, Toggled DEF IInv, QueuesOk
  <2> QED BY <2>1, <2>2, Undisturbed DEF Fate
<1>6. ASSUME ReturnToCaller PROVE Fate(q)
  <2>1. active = NoProcess /\ active' \in {NoProcess, caller} /\ UNCHANGED <<proc, queues>>
    BY <1>6 DEF ReturnToCaller
  <2> QED BY <1>0, <2>1, Undisturbed DEF Fate, IInv, RunOk, queues
<1>7. ASSUME DeltaStep PROVE Fate(q)
  <2>1. /\ phase \in {"initnotify", "notify"} /\ cursor > 0
        /\ Trigger(delta.slot[cursor], pend, delta) /\ active' = active
    BY <1>7 DEF DeltaStep
  <2>2. cursor \in 1..Len(delta.slot)
    BY <2>1, VectorParts DEF IInv, LoopOk, RunOk, StoresOk
  <2>3. delta.slot[cursor] \in Event
    BY <2>2, VectorParts DEF IInv, StoresOk
  <2>4. Untouched(q)
    <3> DEFINE e == delta.slot[cursor]
    <3> HIDE DEF e
    <3>1. e \in Event /\ Trigger(e, pend, delta) /\ active' = active
      BY <2>1, <2>3 DEF e
    <3>2. /\ pend \in [Event -> {None, Delta} \cup Time] /\ delta \in Vector(Event)
          /\ \A f \in Event \ {e} : pend[f] = Delta => RemovableDelta(delta, f)
      BY DEF IInv, StoresOk
    <3> QED BY <3>1, <3>2, TriggerUntouches
  <2> QED BY <2>4 DEF Fate
<1>8. ASSUME TimedStep PROVE Fate(q)
  <2>1. PICK e \in TimedAt(now) : Trigger(e, pend, delta)
    BY <1>8 DEF TimedStep
  <2>2. e \in Event /\ active' = active
    BY <1>8, <2>1 DEF TimedStep, TimedAt
  <2>3. /\ pend \in [Event -> {None, Delta} \cup Time] /\ delta \in Vector(Event)
        /\ \A f \in Event \ {e} : pend[f] = Delta => RemovableDelta(delta, f)
    BY DEF IInv, StoresOk
  <2> QED BY <2>1, <2>2, <2>3, TriggerUntouches DEF Fate
<1>9. ASSUME NEW c \in Channel, NEW changes \in BOOLEAN, Update(c, changes) PROVE Fate(q)
  <2>1. ~changes
    BY <1>9
  <2> QED BY <1>1, <1>9, <2>1 DEF Update
<1>10. ASSUME \/ AnotherRound \/ AbortEvaluation \/ EvaluateEnd \/ UpdateEnd \/ DeltaDone
              \/ CrunchReturns \/ AdvanceTime \/ NoNextTime \/ TimedDone
       PROVE  Fate(q)
  <2>1. UNCHANGED <<proc, threads, active>>
    BY <1>10 DEF AnotherRound, AbortEvaluation, EvaluateEnd, UpdateEnd, DeltaDone, CrunchReturns,
                 AdvanceTime, NoNextTime, TimedDone, queues
  <2> QED BY <1>1, <2>1
<1> QED BY <1>2, <1>3, <1>4, <1>5, <1>6, <1>7, <1>8, <1>9, <1>10, RunThreadFate DEF Schedule

-------------------------------------------------------------------------------
(* What the change of a reset does to a thread *)

CountedOk(p) ==
  LET r == proc[p] IN
  Has(r, "zombie") \/ /\ r.areset = Cardinality(Sources(p, TRUE))
                      /\ r.reset = Cardinality(Sources(p, FALSE)) + (IF r.sticky THEN 1 ELSE 0)

InReset(p) == proc[p].stack /\ Standing(proc[p]) # "NONE" => proc[p].throw # "NONE"

Signalled(q) ==
  LET r == proc[q]
      s == proc'[q]
  IN /\ active' = active
     /\ s.stack = r.stack /\ (Has(s, "zombie") <=> Has(r, "zombie"))
     /\ s.throw \in {r.throw, "NONE", "SYNC", "ASYNC"}
     /\ Located(q) /\ s.throw \in {"KILL", "USER"} => Located(q)'
     /\ Has(r, "zombie") =>
          s.throw = r.throw /\ s.areset = r.areset /\ s.reset = r.reset
     /\ (SyncCounted /\ CountedOk(q)) =>
          /\ CountedOk(q)'
          /\ InReset(q) => InReset(q)'
          /\ ~Has(s, "zombie") /\ Standing(s) = "NONE" => s.throw \notin {"SYNC", "ASYNC"}

LEMMA SourcesFinite ==
    ASSUME NEW p, NEW b
    PROVE  IsFiniteSet(Sources(p, b)) /\ Cardinality(Sources(p, b)) \in Nat
<1>1. IsFiniteSet(Sources(p, b))
  BY KernelAssumption, FS_Subset DEF Sources
<1> QED BY <1>1, FS_CardinalityType

(* One more or one less reset of either kind.                              *)
LEMMA RecountedOk ==
    ASSUME IInv, NEW q \in Thread, active' = active, Queued(threads) \subseteq Queued(threads)',
           NEW async \in BOOLEAN, NEW asserted \in BOOLEAN, NEW running \in BOOLEAN,
           NEW r \in Member, ~Has(r, "zombie"), r.throw = proc[q].throw, r.stack = proc[q].stack,
           r.areset = proc[q].areset, r.reset = proc[q].reset, r.state = proc[q].state,
           proc'[q] = ResetChanged(r, q, async, asserted, running),
           ~running => ~r.stack,
           SyncCounted /\ CountedOk(q) =>
             /\ proc'[q].areset = Cardinality(Sources(q, TRUE)')
             /\ proc'[q].reset = Cardinality(Sources(q, FALSE)') + (IF r.sticky THEN 1 ELSE 0)
    PROVE  Signalled(q)
<1> DEFINE s == proc'[q]
<1>1. q \in Process
  BY Names
<1>2. /\ s.stack = r.stack /\ s.sticky = r.sticky
      /\ s.areset = IF ~async THEN r.areset ELSE IF asserted THEN r.areset + 1 ELSE r.areset - 1
      /\ s.reset = IF async THEN r.reset ELSE IF asserted THEN r.reset + 1 ELSE r.reset - 1
      /\ s.state = IF async /\ asserted /\ running THEN r.state \ {"ready"} ELSE r.state
      /\ \/ s.throw = "NONE" /\ ~r.sticky /\ Standing(s) = "NONE"
         \/ /\ s.throw = IF ~(asserted /\ running) THEN r.throw
                         ELSE IF async THEN "ASYNC" ELSE "SYNC"
            /\ s.throw \in {"SYNC", "ASYNC"} => Standing(s) # "NONE" \/ r.sticky
  <2> HIDE DEF s
  <2>1. s = ResetChanged(r, q, async, asserted, running)
    BY DEF s
  <2>2. ResetTo(r, s, async, asserted, running)
    BY <1>1, <2>1, ResetEffect
  <2> QED BY <2>2 DEF ResetTo
<1> HIDE DEF s
<1>3. s.throw \in {proc[q].throw, "NONE", "SYNC", "ASYNC"}
  BY <1>2
<1>4. Has(s, "zombie") <=> Has(proc[q], "zombie")
  BY <1>2 DEF Has
<1>5. ASSUME Located(q), s.throw \in {"KILL", "USER"} PROVE Located(q)'
  <2>1. s.state = proc[q].state
    BY <1>2, <1>5
  <2> QED BY <1>5, <2>1 DEF Located, s
<1>6. ASSUME SyncCounted, CountedOk(q)
      PROVE  /\ CountedOk(q)'
             /\ InReset(q) => InReset(q)'
             /\ ~Has(s, "zombie") /\ Standing(s) = "NONE" => s.throw \notin {"SYNC", "ASYNC"}
  <2>1. /\ s.areset = Cardinality(Sources(q, TRUE)')
        /\ s.reset = Cardinality(Sources(q, FALSE)') + (IF r.sticky THEN 1 ELSE 0)
    BY <1>6 DEF s
  <2>2. CountedOk(q)'
    BY <1>2, <2>1 DEF CountedOk, s
  <2>3. Cardinality(Sources(q, TRUE)') \in Nat /\ Cardinality(Sources(q, FALSE)') \in Nat
    <3>1. Sources(q, TRUE)' \subseteq Resets /\ Sources(q, FALSE)' \subseteq Resets
      BY DEF Sources
    <3>2. IsFiniteSet(Sources(q, TRUE)') /\ IsFiniteSet(Sources(q, FALSE)')
      BY <3>1, KernelAssumption, FS_Subset
    <3> QED BY <3>2, FS_CardinalityType
  <2>4. s.areset \in Nat /\ s.reset \in Nat /\ (r.sticky => s.reset # 0)
    <3> DEFINE a == Cardinality(Sources(q, TRUE)')
               n == Cardinality(Sources(q, FALSE)')
    <3>0. a \in Nat /\ n \in Nat /\ s.areset = a /\ s.reset = n + (IF r.sticky THEN 1 ELSE 0)
      BY <2>1, <2>3
    <3> HIDE DEF a, n
    <3>1. CASE r.sticky
      <4>1. s.reset = n + 1
        BY <3>0, <3>1
      <4> QED BY <3>0, <4>1
    <3>2. CASE ~r.sticky
      <4>1. s.reset = n + 0
        BY <3>0, <3>2
      <4> QED BY <3>0, <3>2, <4>1
    <3> QED BY <3>1, <3>2
  <2>5. r.sticky => Standing(s) # "NONE"
    BY <2>4 DEF Standing
  <2>6. ASSUME InReset(q) PROVE InReset(q)'
    <3> SUFFICES ASSUME s.stack, Standing(s) # "NONE" PROVE s.throw # "NONE"
      BY DEF InReset, s
    <3>1. running /\ s.throw = IF ~asserted THEN r.throw ELSE IF async THEN "ASYNC" ELSE "SYNC"
      BY <1>2
    <3>2. CASE asserted
      BY <3>1, <3>2
    <3>3. CASE ~asserted
      <4>1. Standing(proc[q]) # "NONE"
        <5>1. r.areset \in Int /\ r.reset \in Int
          BY MemberFields
        <5>2. s.areset # 0 \/ s.reset # 0
          BY DEF Standing
        <5>3. r.areset # 0 \/ r.reset # 0
          BY <1>2, <2>4, <3>3, <5>1, <5>2
        <5> QED BY <5>3 DEF Standing
      <4> QED BY <1>2, <2>6, <3>1, <3>3, <4>1 DEF InReset
    <3> QED BY <3>2, <3>3
  <2> QED BY <1>2, <2>2, <2>5, <2>6
<1> QED BY <1>2, <1>3, <1>4, <1>5, <1>6 DEF Signalled, s, Has

LEMMA ZombieSignalled ==
    ASSUME NEW q \in Thread, Has(proc[q], "zombie"), Keeps([proc[q] EXCEPT !.sticky = proc'[q].sticky], proc'[q]),
           proc[q] \in Member, proc'[q].state = proc[q].state,
           active' = active, Queued(threads) \subseteq Queued(threads)'
    PROVE  Signalled(q)
<1>1. /\ proc'[q].throw = proc[q].throw /\ proc'[q].stack = proc[q].stack
      /\ proc'[q].areset = proc[q].areset /\ proc'[q].reset = proc[q].reset
  BY DEF Keeps, Member
<1>2. (Has(proc'[q], "zombie") <=> Has(proc[q], "zombie")) /\ (Located(q) => Located(q)')
  BY DEF Has, Located
<1>3. CountedOk(q)' /\ (InReset(q) => InReset(q)')
  BY <1>1, <1>2 DEF CountedOk, InReset, Standing
<1> QED BY <1>1, <1>2, <1>3 DEF Signalled

LEMMA SyncResetSignals ==
    ASSUME IInv, Bits, NEW p \in Thread, NEW asserted \in BOOLEAN, SyncReset(p, asserted),
           run.status = "elaboration" => ~proc[p].stack
    PROVE  Signalled(p)
<1> DEFINE r == [proc[p] EXCEPT !.sticky = asserted]
<1>1. /\ Calls("syncreset") /\ proc[p].sticky # asserted
      /\ proc' = [proc EXCEPT ![p] = IF ~Corners /\ Has(r, "suspended") THEN r
                                     ELSE ResetChanged(r, p, FALSE, asserted, Started)]
      /\ UNCHANGED <<stores, queues, channels, active, control>>
  BY DEF SyncReset
<1>2. proc[p] \in Member /\ p \in Process
  BY Names DEF IInv, ProcOk
<1>3. /\ r \in Member /\ r.throw = proc[p].throw /\ r.stack = proc[p].stack
      /\ r.areset = proc[p].areset /\ r.reset = proc[p].reset /\ r.state = proc[p].state
      /\ r.sticky = asserted
  BY <1>2 DEF Member
<1>4. proc'[p] = IF ~Corners /\ Has(r, "suspended") THEN r
                 ELSE ResetChanged(r, p, FALSE, asserted, Started)
  BY <1>1, <1>2 DEF IInv, ProcOk
<1> HIDE DEF r
<1>5. active' = active /\ Queued(threads)' = Queued(threads) /\ Sources(p, TRUE)' = Sources(p, TRUE)
      /\ Sources(p, FALSE)' = Sources(p, FALSE)
  BY <1>1 DEF queues, channels, Sources
<1>6. CASE Has(r, "zombie")
  <2>1. proc'[p] = r
    BY <1>4, <1>6 DEF ResetChanged
  <2>2. /\ Has(proc[p], "zombie") /\ proc'[p].state = proc[p].state
        /\ Keeps([proc[p] EXCEPT !.sticky = proc'[p].sticky], proc'[p])
    <3>1. Keeps([proc[p] EXCEPT !.sticky = r.sticky], r)
      BY <1>2, <1>3 DEF Keeps, Member
    <3> QED BY <1>3, <1>6, <2>1, <3>1 DEF Has
  <2> QED BY <1>2, <1>5, <2>2, ZombieSignalled
<1>7. CASE ~Has(r, "zombie") /\ ~Corners /\ Has(r, "suspended")
  <2>1. proc'[p] = r
    BY <1>4, <1>7
  <2>2. ~SyncCounted
    BY <1>1, <1>2, <1>3, <1>7 DEF SyncCounted, Bits, Has, Calls
  <2> QED BY <1>3, <1>5, <1>7, <2>1, <2>2 DEF Signalled, Located, Has
<1>8. CASE ~Has(r, "zombie") /\ ~(~Corners /\ Has(r, "suspended"))
  <2>1. proc'[p] = ResetChanged(r, p, FALSE, asserted, Started)
    BY <1>4, <1>8
  <2>2. ~Started => ~r.stack
    BY <1>1, <1>3 DEF Calls, Started, IInv, RunOk, Control
  <2>3. ASSUME SyncCounted, CountedOk(p)
        PROVE  /\ proc'[p].areset = Cardinality(Sources(p, TRUE)')
               /\ proc'[p].reset = Cardinality(Sources(p, FALSE)') + (IF r.sticky THEN 1 ELSE 0)
    <3> DEFINE n == Cardinality(Sources(p, FALSE))
               s == proc'[p]
    <3>1. s.areset = r.areset /\ s.reset = IF asserted THEN r.reset + 1 ELSE r.reset - 1
      <4> HIDE DEF s
      <4> DEFINE b == Started
      <4>1. s = ResetChanged(r, p, FALSE, asserted, b) /\ b \in BOOLEAN /\ FALSE \in BOOLEAN
        BY <2>1 DEF s, Started
      <4> HIDE DEF b
      <4>2. ResetTo(r, s, FALSE, asserted, b)
        BY <1>2, <1>3, <1>8, <4>1, ResetEffect
      <4> QED BY <4>2 DEF ResetTo
    <3>2. /\ r.areset = Cardinality(Sources(p, TRUE))
          /\ r.reset = n + (IF proc[p].sticky THEN 1 ELSE 0)
      BY <1>3, <1>8, <2>3 DEF CountedOk, Has
    <3>3. n \in Nat
      BY SourcesFinite
    <3>4. s.reset = n + (IF r.sticky THEN 1 ELSE 0)
      <4> HIDE DEF n, s
      <4>1. proc[p].sticky \in BOOLEAN
        BY <1>2, MemberFields
      <4>2. CASE asserted
        <5>1. r.reset = n + 0 /\ s.reset = r.reset + 1
          BY <1>1, <3>1, <3>2, <4>1, <4>2
        <5> QED BY <1>3, <3>3, <4>2, <5>1
      <4>3. CASE ~asserted
        <5>1. r.reset = n + 1 /\ s.reset = r.reset - 1
          BY <1>1, <3>1, <3>2, <4>1, <4>3
        <5> QED BY <1>3, <3>3, <4>3, <5>1
      <4> QED BY <4>2, <4>3
    <3> QED BY <1>5, <3>1, <3>2, <3>4
  <2> QED BY <1>3, <1>5, <1>8, <2>1, <2>2, <2>3, RecountedOk DEF Started
<1> QED BY <1>6, <1>7, <1>8

(* The signal x changes its value: it becomes a source of resets or is one *)
(* no more.                                                                *)
LEMMA SourcesChanged ==
    ASSUME NEW c \in Channel, NEW q \in Thread, NEW x \in Resets, x.channel = c, x.process = q,
           level \in [Channel -> BOOLEAN], level' = [level EXCEPT ![c] = ~@]
    PROVE  /\ Sources(q, ~x.async)' = Sources(q, ~x.async)
           /\ x.level # level[c] =>
                Cardinality(Sources(q, x.async)') = Cardinality(Sources(q, x.async)) + 1
           /\ x.level = level[c] =>
                Cardinality(Sources(q, x.async)') = Cardinality(Sources(q, x.async)) - 1
<1>1. x.level \in BOOLEAN /\ x.async \in BOOLEAN
  BY KernelAssumption
<1>2. \A y \in Resets : y.process = q /\ y.channel = c => y = x
  BY KernelAssumption
<1>3. \A d \in Channel : level'[d] = IF d = c THEN ~level[c] ELSE level[d]
  OBVIOUS
<1>4. \A y \in Resets : y.channel \in Channel
  BY KernelAssumption
<1>5. \A y \in Resets \ {x} : y.process = q => level'[y.channel] = level[y.channel]
  BY <1>2, <1>3, <1>4
<1>6. Sources(q, ~x.async)' = Sources(q, ~x.async)
  BY <1>1, <1>5 DEF Sources
<1> DEFINE S == Sources(q, x.async)
           T == Sources(q, x.async)'
<1>7. S \ {x} = T \ {x}
  BY <1>5 DEF Sources
<1>8. (x \in S <=> x.level = level[c]) /\ (x \in T <=> x.level # level[c])
  BY <1>1, <1>3 DEF Sources
<1>9. IsFiniteSet(S) /\ IsFiniteSet(T) /\ Cardinality(S) \in Nat /\ Cardinality(T) \in Nat
  <2>1. S \subseteq Resets /\ T \subseteq Resets
    BY DEF Sources
  <2>2. IsFiniteSet(S) /\ IsFiniteSet(T)
    BY <2>1, KernelAssumption, FS_Subset
  <2> QED BY <2>2, FS_CardinalityType
<1> HIDE DEF S, T
<1>10. CASE x.level # level[c]
  <2>1. T = S \cup {x} /\ x \notin S
    BY <1>7, <1>8, <1>10
  <2>2. Cardinality(S \cup {x}) = Cardinality(S) + 1
    BY <1>9, <2>1, FS_AddElement
  <2> QED BY <1>6, <1>10, <2>1, <2>2 DEF S, T
<1>11. CASE x.level = level[c]
  <2>1. T = S \ {x} /\ x \in S
    BY <1>7, <1>8, <1>11
  <2>2. Cardinality(S \ {x}) = Cardinality(S) - 1
    BY <1>9, <2>1, FS_RemoveElement
  <2> QED BY <1>6, <1>11, <2>1, <2>2 DEF S, T
<1> QED BY <1>10, <1>11

LEMMA ChangedSignals ==
    ASSUME IInv, NEW c \in Channel, Changed(c), active' = active, NEW q \in Thread
    PROVE  \/ Signalled(q)
           \/ Untouched(q) /\ \A b : Sources(q, b)' = Sources(q, b)
<1> DEFINE targets == {x \in Resets : x.channel = c}
           new(p)  == LET x == CHOOSE y \in targets : y.process = p IN
                      ResetChanged(proc[p], p, x.async, x.level # level[c], TRUE)
<1>1. /\ level' = [level EXCEPT ![c] = IF targets = {} THEN @ ELSE ~@]
      /\ proc' = [p \in Process |-> IF \E x \in targets : x.process = p THEN new(p) ELSE proc[p]]
  BY DEF Changed
<1>2. Queued(threads) \subseteq Queued(threads)'
  BY Changing DEF IInv, ChannelsOk
<1>3. q \in Process /\ proc[q] \in Member
  BY Names DEF IInv, ProcOk
<1>4. CASE \A x \in targets : x.process # q
  <2>1. proc'[q] = proc[q]
    BY <1>1, <1>3, <1>4
  <2>2. Untouched(q)
    BY <1>2, <2>1, Undisturbed
  <2>3. \A y \in Resets : y.process = q => level'[y.channel] = level[y.channel]
    <3>1. \A y \in Resets : y.channel \in Channel
      BY KernelAssumption
    <3>2. \A d \in Channel : d # c => level'[d] = level[d]
      BY <1>1 DEF IInv, ChannelsOk
    <3> QED BY <1>4, <3>1, <3>2
  <2> QED BY <2>2, <2>3 DEF Sources
<1>5. CASE \E x \in targets : x.process = q
  <2>1. PICK x \in targets : x.process = q
    BY <1>5
  <2>2. x \in Resets /\ x.channel = c /\ \A y \in targets : y.process = q => y = x
    BY <2>1, KernelAssumption
  <2>3. (CHOOSE y \in targets : y.process = q) = x
    BY <2>1, <2>2
  <2>4. proc'[q] = ResetChanged(proc[q], q, x.async, x.level # level[c], TRUE)
    BY <1>1, <1>3, <1>5, <2>3
  <2>5. level' = [level EXCEPT ![c] = ~@]
    BY <1>1, <2>1
  <2>6. x.async \in BOOLEAN /\ (x.level # level[c]) \in BOOLEAN /\ TRUE \in BOOLEAN
    BY <2>2, KernelAssumption
  <2> HIDE DEF targets
  <2>7. CASE Has(proc[q], "zombie")
    <3>1. proc'[q] = proc[q]
      BY <2>4, <2>7 DEF ResetChanged
    <3>2. Keeps([proc[q] EXCEPT !.sticky = proc'[q].sticky], proc'[q])
      BY <1>3, <3>1 DEF Keeps, Member
    <3> QED BY <1>2, <1>3, <2>7, <3>1, <3>2, ZombieSignalled
  <2>8. CASE ~Has(proc[q], "zombie")
    <3> DEFINE s == proc'[q]
               a == x.level # level[c]
               m == Cardinality(Sources(q, TRUE))
               n == Cardinality(Sources(q, FALSE))
               k == IF proc[q].sticky THEN 1 ELSE 0
    <3>1. ASSUME SyncCounted, CountedOk(q)
          PROVE  /\ s.areset = Cardinality(Sources(q, TRUE)')
                 /\ s.reset = Cardinality(Sources(q, FALSE)') + k
      <4>1. ResetTo(proc[q], s, x.async, a, TRUE)
        BY <1>3, <2>4, <2>6, <2>8, ResetEffect
      <4>2. proc[q].areset = m /\ proc[q].reset = n + k /\ m \in Nat /\ n \in Nat /\ k \in Nat
        BY <2>8, <3>1, SourcesFinite DEF CountedOk
      <4>3. /\ Sources(q, ~x.async)' = Sources(q, ~x.async)
            /\ a => Cardinality(Sources(q, x.async)') = Cardinality(Sources(q, x.async)) + 1
            /\ ~a => Cardinality(Sources(q, x.async)') = Cardinality(Sources(q, x.async)) - 1
        <5>1. level \in [Channel -> BOOLEAN]
          BY DEF IInv, ChannelsOk
        <5> HIDE DEF s, m, n, k
        <5> QED BY <2>1, <2>2, <2>5, <5>1, SourcesChanged
      <4>4. /\ s.areset = IF ~x.async THEN m ELSE IF a THEN m + 1 ELSE m - 1
            /\ s.reset = IF x.async THEN n + k ELSE IF a THEN (n + k) + 1 ELSE (n + k) - 1
        BY <4>1, <4>2 DEF ResetTo
      <4>5. CASE x.async = TRUE
        <5>1. /\ s.areset = IF a THEN m + 1 ELSE m - 1
              /\ s.reset = n + k
          BY <4>4, <4>5
        <5>2. /\ Sources(q, FALSE)' = Sources(q, FALSE)
              /\ a => Cardinality(Sources(q, TRUE)') = m + 1
              /\ ~a => Cardinality(Sources(q, TRUE)') = m - 1
          BY <4>3, <4>5
        <5>3. n = Cardinality(Sources(q, FALSE))
          OBVIOUS
        <5> HIDE DEF n, m, k, a, s
        <5> QED BY <5>1, <5>2, <5>3
      <4>6. CASE x.async = FALSE
        <5>1. /\ s.reset = IF a THEN (n + k) + 1 ELSE (n + k) - 1
              /\ s.areset = m
          BY <4>4, <4>6
        <5>2. /\ Sources(q, TRUE)' = Sources(q, TRUE)
              /\ a => Cardinality(Sources(q, FALSE)') = n + 1
              /\ ~a => Cardinality(Sources(q, FALSE)') = n - 1
          BY <4>3, <4>6
        <5>3. m = Cardinality(Sources(q, TRUE))
          OBVIOUS
        <5> HIDE DEF n, m, k, a, s
        <5>4. (a => s.reset = (n + 1) + k) /\ (~a => s.reset = (n - 1) + k)
          BY <4>2, <5>1
        <5> QED BY <5>1, <5>2, <5>3, <5>4
      <4> QED BY <2>6, <4>5, <4>6
    <3> HIDE DEF s, a, m, n
    <3>2. Signalled(q)
      BY <1>2, <1>3, <2>4, <2>6, <2>8, <3>1, RecountedOk DEF s, a
    <3> QED BY <3>2
  <2> QED BY <2>7, <2>8
<1> QED BY <1>4, <1>5

-------------------------------------------------------------------------------
(* The bits of a process, the run queues and the status *)

(* The state s after r has no bit that only suspend() and disable() set.   *)
Marks(r, s) == s.state \subseteq r.state \cup {"ready", "zombie"}

LEMMA MarksOf ==
    ASSUME NEW r \in Member, NEW p \in Process
    PROVE  /\ \A b \in {"ready", "zombie"} : Marks(r, Set(r, b))
           /\ \A b : Marks(r, Clear(r, b))
           /\ \A e : Marks(r, Completed(r, p, e)) /\ Marks(r, Counted(r, e))
           /\ Marks(r, RemoveDynamicEvents(r, p)) /\ Marks(r, Disconnected(r, p))
           /\ \A k, E, b : Marks(r, WaitOn(r, p, k, E, b))
           /\ Marks(r, Resumed(r))
<1>1. \A b : /\ b \in {"ready", "zombie"} => Marks(r, Set(r, b))
             /\ Marks(r, Clear(r, b))
  BY KeptState DEF Marks
<1>2. ASSUME NEW e PROVE Marks(r, Completed(r, p, e)) /\ Marks(r, Counted(r, e))
  <2>1. Completed(r, p, e).state \subseteq r.state \cup {"ready"}
    BY KeptCompleted
  <2> QED BY <2>1, KeptTrigger DEF Marks
<1>3. Marks(r, RemoveDynamicEvents(r, p)) /\ Marks(r, Disconnected(r, p))
  BY DEF Marks, Disconnected, RemoveDynamicEvents, Member
<1>4. \A k, E, b : Marks(r, WaitOn(r, p, k, E, b))
  BY KeptWait DEF Marks
<1>5. Marks(r, Resumed(r))
  BY DEF Marks, Resumed, Member
<1> QED BY <1>1, <1>2, <1>3, <1>4, <1>5

LEMMA MarksReset ==
    ASSUME NEW r \in Member, NEW p \in Process, NEW async \in BOOLEAN,
           NEW asserted \in BOOLEAN, NEW running \in BOOLEAN
    PROVE  Marks(r, ResetChanged(r, p, async, asserted, running))
<1>1. CASE Has(r, "zombie")
  BY <1>1 DEF ResetChanged, Marks
<1>2. CASE ~Has(r, "zombie")
  <2>1. ResetTo(r, ResetChanged(r, p, async, asserted, running), async, asserted, running)
    BY <1>2, ResetEffect
  <2> QED BY <2>1 DEF ResetTo, Marks
<1> QED BY <1>1, <1>2

LEMMA MarksTriggered ==
    ASSUME IInv, NEW p \in Process, NEW e
    PROVE  Marks(proc[p], Triggered(p, e))
<1> DEFINE r == proc[p]
<1>1. \/ Triggered(p, e) = r \/ Triggered(p, e) = Set(r, "ready")
      \/ Triggered(p, e) = Completed(r, p, e) \/ Triggered(p, e) = Counted(r, e)
      \/ Triggered(p, e) = RemoveDynamicEvents(r, p)
      \/ Triggered(p, e) = [r EXCEPT !.lists = @ \ {e}]
      \/ Triggered(p, e) = [r EXCEPT !.cycles = @ - 1]
  BY DEF Triggered
<1>2. r \in Member
  BY DEF IInv, ProcOk
<1> HIDE DEF r
<1>3. Marks(r, r) /\ Marks(r, [r EXCEPT !.lists = @ \ {e}]) /\ Marks(r, [r EXCEPT !.cycles = @ - 1])
  BY <1>2, KeptTrigger DEF Marks
<1>4. /\ Marks(r, Set(r, "ready")) /\ Marks(r, Completed(r, p, e)) /\ Marks(r, Counted(r, e))
      /\ Marks(r, RemoveDynamicEvents(r, p))
  BY <1>2, MarksOf
<1> QED BY <1>1, <1>3, <1>4 DEF r

NewMarks(p) ==
  \/ Marks(proc[p], proc'[p])
  \/ "suspend" \in Op /\ proc'[p].state \subseteq proc[p].state \cup {"suspended", "ready"}
  \/ /\ Op \cap {"disable", "disablefirst"} # {}
     /\ proc'[p].state \subseteq proc[p].state \cup {"disabled", "ready"}

LEMMA MarksCalled ==
    ASSUME IInv, EventOperation \/ SetTrigger \/ Yield, NEW q \in Process
    PROVE  Marks(proc[q], proc'[q])
<1>0. proc[q] \in Member /\ Marks(proc[q], proc[q])
  BY DEF IInv, ProcOk, Marks
<1>1. ASSUME NEW e \in UserEvent, NotifyNow(e) PROVE Marks(proc[q], proc'[q])
  <2>1. proc'[q] = Triggered(q, e)
    BY <1>1 DEF NotifyNow, Trigger
  <2> QED BY <2>1, MarksTriggered
<1>2. ASSUME proc' = proc PROVE Marks(proc[q], proc'[q])
  BY <1>0, <1>2
<1>3. ASSUME active \in Process, NEW s, Marks(proc[active], s), proc' = [proc EXCEPT ![active] = s]
      PROVE  Marks(proc[q], proc'[q])
  BY <1>0, <1>3 DEF IInv, ProcOk
<1>4. CASE EventOperation
  BY <1>1, <1>2, <1>4 DEF EventOperation, NotifyZero, NotifyAt, CancelNotify, RequestUpdate
<1>5. ASSUME active \in Process
      PROVE  /\ proc[active] \in Member
             /\ \A k, E, b : Marks(proc[active], WaitOn(proc[active], active, k, E, b))
             /\ Marks(proc[active], RemoveDynamicEvents(proc[active], active))
             /\ RemoveDynamicEvents(proc[active], active) \in Member
  BY <1>5, MarksOf, MemberStep DEF IInv, ProcOk
<1>6. ASSUME NEW k, NEW E, WaitFor(k, E) \/ \E t : WaitTimed(k, E, t) PROVE Marks(proc[q], proc'[q])
  <2>1. PICK b : proc' = [proc EXCEPT ![active] = WaitOn(proc[active], active, k, E, b)]
    BY <1>6 DEF WaitFor, WaitTimed
  <2>2. active \in Process
    BY <1>6, Names DEF WaitFor, WaitTimed, Waits
  <2> QED BY <1>3, <1>5, <2>1, <2>2
<1>7. ASSUME NEW n, WaitCycles(n) PROVE Marks(proc[q], proc'[q])
  <2>1. active \in Process /\ proc' = [proc EXCEPT ![active] = [proc[active] EXCEPT !.cycles = n - 1]]
    BY <1>7, Names DEF WaitCycles, Waits
  <2>2. Marks(proc[active], [proc[active] EXCEPT !.cycles = n - 1])
    BY <1>5, <2>1 DEF Marks, Member
  <2> QED BY <1>3, <2>1, <2>2
<1>8. ASSUME ThreadEnd PROVE Marks(proc[q], proc'[q])
  <2> DEFINE d == Disconnected(proc[active], active)
  <2>1. active \in Process /\ proc' = [proc EXCEPT ![active] = [d EXCEPT !.throw = "NONE", !.stack = FALSE]]
    BY <1>8, Names DEF ThreadEnd
  <2>2. d \in Member /\ Marks(proc[active], d)
    BY <1>5, <2>1, MarksOf, MemberStep
  <2> HIDE DEF d
  <2>3. Marks(proc[active], [d EXCEPT !.throw = "NONE", !.stack = FALSE])
    BY <2>2 DEF Marks, Member
  <2> QED BY <1>3, <2>1, <2>3
<1>9. CASE Yield
  BY <1>2, <1>6, <1>7, <1>8, <1>9 DEF Yield, MethodReturn
<1>10. CASE SetTrigger
  <2> DEFINE d == RemoveDynamicEvents(proc[active], active)
  <2>1. PICK k, E, b : proc' = [proc EXCEPT ![active] = WaitOn(d, active, k, E, b)]
    BY <1>10 DEF SetTrigger, NextTrigger, NextTriggerTimed
  <2>2. active \in Process
    BY <1>10, Names DEF SetTrigger, NextTrigger, NextTriggerTimed, Triggers
  <2>3. d \in Member /\ Marks(proc[active], d)
    BY <1>5, <2>2
  <2> HIDE DEF d
  <2>4. Marks(d, WaitOn(d, active, k, E, b))
    BY <2>2, <2>3, MarksOf
  <2>5. Marks(proc[active], WaitOn(d, active, k, E, b))
    BY <2>3, <2>4 DEF Marks
  <2> QED BY <1>3, <2>1, <2>2, <2>5
<1> QED BY <1>4, <1>9, <1>10

LEMMA MarksControl ==
    ASSUME IInv, ProcessControl, NEW q \in Process
    PROVE  NewMarks(q)
<1>0. \A p \in Process : proc[p] \in Member /\ Marks(proc[p], proc[p])
  BY DEF IInv, ProcOk, Marks
<1>1. ASSUME NEW p \in Process, NEW s, Marks(proc[p], s), proc' = [proc EXCEPT ![p] = s]
      PROVE  NewMarks(q)
  BY <1>0, <1>1 DEF IInv, ProcOk, NewMarks
<1>2. ASSUME NEW p \in Process, SuspendProcess(p) PROVE NewMarks(q)
  <2>1. "suspend" \in Op /\ proc' = [proc EXCEPT ![p] = Held(p)]
    BY <1>2 DEF SuspendProcess, Calls
  <2>2. Held(p).state \subseteq proc[p].state \cup {"suspended", "ready"}
    BY <1>0 DEF Held, Set, Member
  <2>3. proc'[q] = IF q = p THEN Held(p) ELSE proc[q]
    BY <2>1 DEF IInv, ProcOk
  <2>4. CASE q = p
    BY <2>1, <2>2, <2>3, <2>4 DEF NewMarks
  <2>5. CASE q # p
    BY <1>0, <2>3, <2>5 DEF NewMarks
  <2> QED BY <2>4, <2>5
<1>3. ASSUME NEW p \in Process, ResumeProcess(p) PROVE NewMarks(q)
  <2>1. \/ proc' = [proc EXCEPT ![p] = Clear(proc[p], "suspended")]
        \/ proc' = [proc EXCEPT ![p] = Released(proc[p])]
        \/ proc' = [proc EXCEPT ![p] = RemoveDynamicEvents(Released(proc[p]), p)]
    BY <1>3 DEF ResumeProcess
  <2>2. Clear(proc[p], "suspended") \in Member /\ Released(proc[p]) \in Member
    BY <1>0, MemberStep DEF Released
  <2>3. /\ Marks(proc[p], Clear(proc[p], "suspended"))
        /\ Marks(proc[p], Released(proc[p]))
    BY <1>0, <2>2, MarksOf DEF Marks, Released
  <2>4. Marks(Released(proc[p]), RemoveDynamicEvents(Released(proc[p]), p))
    BY <2>2, MarksOf
  <2>5. Marks(proc[p], RemoveDynamicEvents(Released(proc[p]), p))
    BY <2>3, <2>4 DEF Marks
  <2> QED BY <1>1, <2>1, <2>3, <2>5
<1>4. ASSUME NEW p \in Process, DisableProcess(p) PROVE NewMarks(q)
  <2> DEFINE off == Set(proc[p], "disabled")
             new == IF p \in Thread /\ run.status = "elaboration" THEN Set(off, "ready") ELSE off
  <2>1. Op \cap {"disable", "disablefirst"} # {} /\ proc' = [proc EXCEPT ![p] = new]
    BY <1>4 DEF DisableProcess, Calls
  <2>2. new.state \subseteq proc[p].state \cup {"disabled", "ready"}
    BY <1>0 DEF Set, Member
  <2>3. proc'[q] = IF q = p THEN new ELSE proc[q]
    BY <2>1 DEF IInv, ProcOk
  <2> HIDE DEF new
  <2>4. CASE q = p
    BY <2>1, <2>2, <2>3, <2>4 DEF NewMarks
  <2>5. CASE q # p
    BY <1>0, <2>3, <2>5 DEF NewMarks
  <2> QED BY <2>4, <2>5
<1>5. ASSUME NEW p \in Process, EnableProcess(p) PROVE NewMarks(q)
  <2> DEFINE on == Clear(proc[p], "disabled")
  <2>1. proc' = [proc EXCEPT ![p] = on] \/ proc' = [proc EXCEPT ![p] = Clear(on, "ready")]
    BY <1>5 DEF EnableProcess
  <2>2. on \in Member /\ Marks(proc[p], on)
    BY <1>0, MemberStep, MarksOf
  <2> HIDE DEF on
  <2>3. Marks(proc[p], Clear(on, "ready"))
    BY <2>2, MarksOf DEF Marks
  <2> QED BY <1>1, <2>1, <2>2, <2>3
<1>6. ASSUME NEW p \in Process, KillDisconnect(p) PROVE NewMarks(q)
  <2>1. proc' = [proc EXCEPT ![p] = Disconnected(proc[p], p)]
    BY <1>6 DEF KillDisconnect
  <2> QED BY <1>0, <1>1, <2>1, MarksOf
<1>7. ASSUME NEW p \in Process, NEW r \in Member, Marks(proc[p], r), PreemptWith(p, r)
      PROVE  NewMarks(q)
  <2>1. proc' = [proc EXCEPT ![p] = Resumed(r)] \/ proc' = [proc EXCEPT ![p] = r]
    BY <1>7 DEF PreemptWith
  <2>2. Marks(proc[p], Resumed(r))
    BY <1>7, MarksOf DEF Marks
  <2> QED BY <1>1, <1>7, <2>1, <2>2
<1>8. ASSUME NEW p \in Thread, KillThread(p) \/ ThrowIt(p) \/ ResetProcess(p) PROVE NewMarks(q)
  <2> DEFINE d(r) == RemoveDynamicEvents(r, p)
             c    == Clear(proc[p], "ready")
  <2>1. p \in Process /\ proc[p] \in Member
    BY <1>0, Names
  <2>2. /\ c \in Member /\ Marks(proc[p], c)
        /\ d(c) \in Member /\ d(proc[p]) \in Member /\ Marks(proc[p], d(proc[p]))
        /\ Marks(proc[p], d(c))
    <3>1. c \in Member /\ Marks(proc[p], c) /\ d(proc[p]) \in Member /\ Marks(proc[p], d(proc[p]))
      BY <2>1, MemberStep, MarksOf
    <3> HIDE DEF c
    <3>2. d(c) \in Member /\ Marks(c, d(c))
      BY <2>1, <3>1, MemberStep, MarksOf
    <3> QED BY <3>1, <3>2 DEF Marks
  <2>3. ASSUME NEW r \in Member, Marks(proc[p], r), NEW t \in {"KILL", "USER", "ASYNC"}
        PROVE  /\ [r EXCEPT !.throw = t] \in Member /\ Marks(proc[p], [r EXCEPT !.throw = t])
               /\ [r EXCEPT !.throw = t, !.cycles = 0] \in Member
               /\ Marks(proc[p], [r EXCEPT !.throw = t, !.cycles = 0])
    BY <2>3 DEF Member, Marks
  <2>4. \/ PreemptWith(p, [proc[p] EXCEPT !.throw = "KILL", !.cycles = 0])
        \/ PreemptWith(p, [d(proc[p]) EXCEPT !.throw = "USER"])
        \/ PreemptWith(p, [d(c) EXCEPT !.throw = "ASYNC", !.cycles = 0])
    BY <1>8 DEF KillThread, ThrowIt, ResetProcess, Reset
  <2> HIDE DEF d, c
  <2>5. CASE PreemptWith(p, [proc[p] EXCEPT !.throw = "KILL", !.cycles = 0])
    BY <1>0, <1>7, <2>1, <2>3, <2>5
  <2>6. CASE PreemptWith(p, [d(proc[p]) EXCEPT !.throw = "USER"])
    BY <1>7, <2>1, <2>2, <2>3, <2>6
  <2>7. CASE PreemptWith(p, [d(c) EXCEPT !.throw = "ASYNC", !.cycles = 0])
    BY <1>7, <2>1, <2>2, <2>3, <2>7
  <2> QED BY <2>4, <2>5, <2>6, <2>7
<1>9. ASSUME NEW p \in Thread, NEW asserted \in BOOLEAN, SyncReset(p, asserted) PROVE NewMarks(q)
  <2> DEFINE r == [proc[p] EXCEPT !.sticky = asserted]
             b == Started
  <2>1. \/ proc' = [proc EXCEPT ![p] = r]
        \/ proc' = [proc EXCEPT ![p] = ResetChanged(r, p, FALSE, asserted, b)]
    BY <1>9 DEF SyncReset
  <2>2. p \in Process /\ r \in Member /\ Marks(proc[p], r) /\ b \in BOOLEAN
    BY <1>0, Names DEF Member, Marks, Started
  <2> HIDE DEF r, b
  <2>3. Marks(r, ResetChanged(r, p, FALSE, asserted, b))
    BY <2>2, MarksReset
  <2>4. Marks(proc[p], ResetChanged(r, p, FALSE, asserted, b))
    BY <2>2, <2>3 DEF Marks
  <2> QED BY <1>1, <2>1, <2>2, <2>4
<1>10. ASSUME Stop \/ Pause PROVE NewMarks(q)
  <2>1. proc' = proc
    BY <1>10 DEF Stop, Pause
  <2> QED BY <1>0, <2>1 DEF NewMarks
<1> QED BY <1>2, <1>3, <1>4, <1>5, <1>6, <1>8, <1>9, <1>10 DEF ProcessControl

LEMMA MarksSchedule ==
    ASSUME IInv, StartCall \/ Schedule, NEW q \in Process
    PROVE  Marks(proc[q], proc'[q])
<1>0. proc[q] \in Member /\ Marks(proc[q], proc[q])
  BY DEF IInv, ProcOk, Marks
<1>1. ASSUME NEW e, Trigger(e, pend, delta) PROVE Marks(proc[q], proc'[q])
  <2>1. proc'[q] = Triggered(q, e)
    BY <1>1 DEF Trigger
  <2> QED BY <2>1, MarksTriggered
<1>2. ASSUME proc' = proc PROVE Marks(proc[q], proc'[q])
  BY <1>0, <1>2
<1>3. ASSUME Initialize PROVE Marks(proc[q], proc'[q])
  <2>1. proc'[q] = proc[q] \/ proc'[q] = Set(proc[q], "ready")
    BY <1>3 DEF Initialize
  <2> QED BY <1>0, <2>1, MarksOf
<1>4. ASSUME RunThread PROVE Marks(proc[q], proc'[q])
  <2>1. proc'[q] = proc[q] \/ proc'[q] = Resumed(proc[q])
    BY <1>4 DEF RunThread, IInv, ProcOk
  <2> QED BY <1>0, <2>1, MarksOf
<1>5. ASSUME NEW c \in Channel, NEW changes \in BOOLEAN, Update(c, changes)
      PROVE  Marks(proc[q], proc'[q])
  <2>1. CASE changes
    <3> DEFINE targets == {x \in Resets : x.channel = c}
               x == CHOOSE y \in targets : y.process = q
    <3>1. proc'[q] = IF \E y \in targets : y.process = q
                     THEN ResetChanged(proc[q], q, x.async, x.level # level[c], TRUE)
                     ELSE proc[q]
      BY <1>5, <2>1 DEF Update, Changed
    <3>2. ASSUME \E y \in targets : y.process = q
          PROVE  x.async \in BOOLEAN /\ (x.level # level[c]) \in BOOLEAN /\ TRUE \in BOOLEAN
      <4>1. x \in targets
        BY <3>2
      <4> QED BY <4>1, KernelAssumption
    <3> HIDE DEF x
    <3>3. ASSUME \E y \in targets : y.process = q
          PROVE  Marks(proc[q], ResetChanged(proc[q], q, x.async, x.level # level[c], TRUE))
      BY <1>0, <3>2, <3>3, MarksReset
    <3> QED BY <1>0, <3>1, <3>3
  <2>2. CASE ~changes
    BY <1>2, <1>5, <2>2 DEF Update
  <2> QED BY <2>1, <2>2
<1>6. ASSUME DeltaStep \/ TimedStep PROVE Marks(proc[q], proc'[q])
  BY <1>1, <1>6 DEF DeltaStep, TimedStep
<1>7. ASSUME \/ StartCall \/ RunMethod \/ MethodsDone \/ ReturnToCaller \/ AnotherRound
             \/ AbortEvaluation \/ EvaluateEnd \/ UpdateEnd \/ DeltaDone \/ CrunchReturns
             \/ AdvanceTime \/ NoNextTime \/ TimedDone
      PROVE  Marks(proc[q], proc'[q])
  <2>1. proc' = proc
    BY <1>7 DEF StartCall, Start, FirstStart, StartAfterStop, vars, RunMethod, MethodsDone,
                ReturnToCaller, AnotherRound, AbortEvaluation, EvaluateEnd, UpdateEnd, DeltaDone,
                CrunchReturns, AdvanceTime, NoNextTime, TimedDone
  <2> QED BY <1>2, <2>1
<1> QED BY <1>3, <1>4, <1>5, <1>6, <1>7 DEF Schedule

LEMMA BitsStep == IInv /\ Bits /\ [Next]_vars => Bits'
<1> SUFFICES ASSUME IInv, Bits, [Next]_vars, NEW p \in Process
             PROVE  /\ Has(proc'[p], "suspended") => "suspend" \in Op
                    /\ Has(proc'[p], "disabled") => Op \cap {"disable", "disablefirst"} # {}
  BY DEF Bits
<1>1. CASE UNCHANGED vars
  BY <1>1 DEF vars, Bits
<1>2. NewMarks(p) \/ UNCHANGED vars
  BY MarksCalled, MarksControl, MarksSchedule DEF Next, NewMarks
<1>3. CASE NewMarks(p)
  BY <1>3 DEF NewMarks, Marks, Bits, Has
<1> QED BY <1>1, <1>2, <1>3

LEMMA TrackedStep == IInv /\ Tracked /\ [Next]_vars => Tracked'
<1> SUFFICES ASSUME IInv, Tracked, [Next]_vars, NothingStranded, stranded = {}
             PROVE  stranded' = {}
  BY DEF Tracked
<1>1. \A p : Push(p) => stranded' = stranded
  BY DEF Push, PushBackAll
<1>2. \A e, at, v : Trigger(e, at, v) => stranded' = stranded
  BY DEF Trigger, PushBackAll
<1>3. \A p : RemoveRunnable(p) => stranded' = stranded
  BY DEF RemoveRunnable
<1>4. \A p, r : PreemptWith(p, r) => stranded' = stranded
  BY <1>3 DEF PreemptWith
<1>5. EventOperation \/ SetTrigger \/ Yield => stranded' = stranded
  <2>1. EventOperation => stranded' = stranded
    BY <1>2 DEF EventOperation, NotifyNow, NotifyZero, NotifyAt, CancelNotify, RequestUpdate, queues
  <2>2. SetTrigger => stranded' = stranded
    BY DEF SetTrigger, NextTrigger, NextTriggerTimed, queues
  <2>3. Yield => stranded' = stranded
    BY <1>3 DEF Yield, WaitFor, WaitTimed, WaitCycles, ThreadEnd, MethodReturn, queues
  <2> QED BY <2>1, <2>2, <2>3
<1>6. ProcessControl => stranded' = stranded
  <2>1. \A p : SuspendProcess(p) \/ ResumeProcess(p) \/ EnableProcess(p) => stranded' = stranded
    BY <1>1, <1>3 DEF SuspendProcess, ResumeProcess, EnableProcess, queues
  <2>2. \A p : DisableProcess(p) \/ KillDisconnect(p) => stranded' = stranded
    BY <1>3 DEF DisableProcess, KillDisconnect, queues
  <2>3. \A p : KillThread(p) \/ ThrowIt(p) \/ ResetProcess(p) => stranded' = stranded
    BY <1>4 DEF KillThread, ThrowIt, ResetProcess
  <2>4. \A p, b : SyncReset(p, b) => stranded' = stranded
    BY DEF SyncReset, queues
  <2>5. Stop => stranded' = stranded
    BY DEF Stop, NothingStranded, Calls, queues
  <2>6. Pause => stranded' = stranded
    BY DEF Pause, queues
  <2> QED BY <2>1, <2>2, <2>3, <2>4, <2>5, <2>6 DEF ProcessControl
<1>7. StartCall \/ UNCHANGED vars => stranded' = stranded
  BY DEF StartCall, Start, FirstStart, StartAfterStop, vars, queues
<1>8. Schedule => stranded' \subseteq stranded
  <2>1. Initialize \/ DeltaStep \/ TimedStep => stranded' = stranded
    BY <1>2 DEF Initialize, PushBackAll, DeltaStep, TimedStep
  <2>2. RunMethod \/ RunThread => stranded' \subseteq stranded
    BY DEF RunMethod, RunThread
  <2>3. MethodsDone \/ ReturnToCaller \/ AnotherRound \/ AbortEvaluation \/ EvaluateEnd \/ UpdateEnd
        \/ DeltaDone \/ CrunchReturns \/ AdvanceTime \/ NoNextTime \/ TimedDone => stranded' = stranded
    BY DEF MethodsDone, ReturnToCaller, AnotherRound, AbortEvaluation, EvaluateEnd, UpdateEnd,
           DeltaDone, CrunchReturns, AdvanceTime, NoNextTime, TimedDone, queues
  <2>4. \A c, b : Update(c, b) => stranded' = stranded
    BY DEF Update
  <2> QED BY <2>1, <2>2, <2>3, <2>4 DEF Schedule
<1> QED BY <1>5, <1>6, <1>7, <1>8 DEF Next

LEMMA ElaborationOver ==
    ASSUME IInv, [Next]_vars, run'.status = "elaboration"
    PROVE  run.status = "elaboration"
<1>1. CASE UNCHANGED vars \/ EventOperation \/ SetTrigger \/ Yield
  <2>1. run' = run
    BY <1>1 DEF vars, EventOperation, NotifyNow, NotifyZero, NotifyAt, CancelNotify, RequestUpdate,
                SetTrigger, NextTrigger, NextTriggerTimed, Yield, WaitFor, WaitTimed, WaitCycles,
                ThreadEnd, MethodReturn, control
  <2> QED BY <2>1
<1>2. CASE ProcessControl
  <2>1. run' = run \/ Stop \/ Pause
    BY <1>2 DEF ProcessControl, SuspendProcess, ResumeProcess, DisableProcess, EnableProcess,
                KillDisconnect, KillThread, ThrowIt, ResetProcess, SyncReset, control
  <2>2. Stop \/ Pause => run'.status \in {run.status, "stopped"}
    BY DEF Stop, Pause, IInv, RunOk
  <2> QED BY <2>1, <2>2
<1>3. CASE StartCall
  <2>1. run'.status \in {run.status, "running"}
    BY <1>3 DEF StartCall, Start, FirstStart, StartAfterStop, vars, control, IInv, RunOk
  <2> QED BY <2>1
<1>4. CASE Schedule
  <2>1. run' = run \/ run' = [run EXCEPT !.status = IF run.forced THEN "stopped" ELSE @]
    BY <1>4 DEF Schedule, Initialize, RunMethod, MethodsDone, RunThread, ReturnToCaller,
                AnotherRound, AbortEvaluation, EvaluateEnd, Update, UpdateEnd, DeltaStep, DeltaDone,
                CrunchReturns, AdvanceTime, NoNextTime, TimedStep, TimedDone, Return, control
  <2> QED BY <2>1 DEF IInv, RunOk
<1> QED BY <1>1, <1>2, <1>3, <1>4 DEF Next

-------------------------------------------------------------------------------
(* The exceptions thrown at threads *)

(* A thread that is thrown the kill or a user exception has begun, waits   *)
(* to take it, and takes it when it is dispatched.                         *)
ThrowsOk ==
  \A p \in Thread :
    LET r == proc[p] IN
    /\ r.throw \in {"KILL", "USER"} => r.stack
    /\ r.throw = "KILL" => ~Has(r, "zombie")
    /\ p = active => r.throw # "USER"
    /\ run.status = "elaboration" => ~r.stack
    /\ NothingStranded /\ NoneForgotten /\ r.throw \in {"KILL", "USER"} => Located(p)

(* A reset that is over waits to be taken, and is no more taken by the     *)
(* thread that runs.                                                       *)
ResetsOk ==
  SyncCounted =>
    \A p \in Thread :
      LET r == proc[p] IN
      /\ CountedOk(p)
      /\ InReset(p)
      /\ ~Has(r, "zombie") /\ Standing(r) = "NONE" =>
           /\ p = active => r.throw \in {"NONE", "KILL"}
           /\ NothingStranded /\ NoneForgotten /\ r.throw \in {"SYNC", "ASYNC"} => Located(p)

ThreadInv == Bits /\ Tracked /\ ThrowsOk /\ ResetsOk

SameSources(q) == \A b : Sources(q, b)' = Sources(q, b)

LEMMA Fates ==
    ASSUME IInv, ThreadInv, [Next]_vars, NEW q \in Thread
    PROVE  (Fate(q) /\ SameSources(q)) \/ Signalled(q)
<1>0. /\ Bits /\ Tracked
      /\ proc[q].throw = "KILL" => proc[q].stack
      /\ \A p \in Thread : run.status = "elaboration" => ~proc[p].stack
  BY DEF ThreadInv, ThrowsOk
<1>1. ASSUME level' = level PROVE SameSources(q)
  BY <1>1 DEF SameSources, Sources
<1>2. CASE UNCHANGED vars
  BY <1>1, <1>2, Undisturbed DEF vars, queues, channels, Fate
<1>3. CASE EventOperation \/ SetTrigger \/ Yield
  <2>1. level' = level
    BY <1>3, Calling DEF CallStep
  <2> QED BY <1>0, <1>1, <1>3, <2>1, EventsUntouch, SetTriggerUntouches, YieldFate DEF Fate
<1>4. CASE ProcessControl
  <2>1. level' = level
    BY <1>4, Calling DEF CallStep
  <2>2. ASSUME NEW p \in Process, SuspendProcess(p) \/ ResumeProcess(p) PROVE Fate(q)
    BY <1>0, <2>2, SuspendUntouches, ResumeUntouches DEF Fate
  <2>3. ASSUME NEW p \in Thread, KillThread(p) \/ ThrowIt(p) \/ ResetProcess(p) PROVE Fate(q)
    BY <2>3, ThrowsFate
  <2>4. ASSUME \/ \E p \in Process : DisableProcess(p) \/ EnableProcess(p) \/ KillDisconnect(p)
               \/ Stop \/ Pause
        PROVE  Fate(q)
    BY <1>0, <2>4, ControlUntouches DEF Fate
  <2>5. ASSUME NEW p \in Thread, NEW asserted \in BOOLEAN, SyncReset(p, asserted)
        PROVE  Fate(q) \/ Signalled(q)
    <3>1. CASE q = p
      BY <1>0, <2>5, <3>1, SyncResetSignals
    <3>2. CASE q # p
      <4>1. proc'[q] = proc[q] /\ active' = active /\ Queued(threads)' = Queued(threads)
        BY <2>5, <3>2 DEF SyncReset, IInv, ProcOk, queues
      <4> QED BY <4>1, Undisturbed DEF Fate
    <3> QED BY <3>1, <3>2
  <2> QED BY <1>1, <1>4, <2>1, <2>2, <2>3, <2>4, <2>5 DEF ProcessControl
<1>5. CASE StartCall \/ Schedule
  <2>1. CASE \A c \in Channel : ~Update(c, TRUE)
    <3>1. level' = level
      <4>1. StartCall => level' = level
        BY DEF StartCall, Start, FirstStart, StartAfterStop, vars, channels
      <4>2. ASSUME NEW c \in Channel, NEW b \in BOOLEAN, Update(c, b) PROVE level' = level
        BY <2>1, <4>2 DEF Update
      <4>3. Schedule => level' = level
        BY <4>2 DEF Schedule, Initialize, RunMethod, MethodsDone, RunThread, ReturnToCaller,
                 AnotherRound, AbortEvaluation, EvaluateEnd, UpdateEnd, DeltaStep, DeltaDone,
                 CrunchReturns, AdvanceTime, NoNextTime, TimedStep, TimedDone, channels
      <4> QED BY <1>5, <4>1, <4>3
    <3> QED BY <1>1, <1>5, <2>1, <3>1, ScheduleFate
  <2>2. ASSUME NEW c \in Channel, Update(c, TRUE) PROVE (Fate(q) /\ SameSources(q)) \/ Signalled(q)
    <3>1. Changed(c) /\ active' = active
      BY <2>2 DEF Update
    <3> QED BY <3>1, ChangedSignals DEF SameSources, Fate
  <2> QED BY <2>1, <2>2
<1> QED BY <1>2, <1>3, <1>4, <1>5 DEF Next

(* What the dispatch of a thread does to the exception it is to be thrown. *)
LEMMA ResumedThrow ==
    ASSUME NEW r \in Member
    PROVE  LET s == Resumed(r) IN
           /\ s.state = r.state /\ s.areset = r.areset /\ s.reset = r.reset /\ s.sticky = r.sticky
           /\ Standing(s) = Standing(r)
           /\ \/ r.throw = "KILL" /\ s = r
              \/ r.throw = "NONE" /\ r.stack /\ s = r
              \/ ~(r.throw = "NONE" /\ r.stack) /\ s.stack /\ s.throw = Standing(r)
BY DEF Resumed, Standing, Member

LEMMA ThrowsStep == IInv /\ ThreadInv /\ [Next]_vars => ThrowsOk'
<1> SUFFICES ASSUME IInv, ThreadInv, [Next]_vars, NEW q \in Thread
             PROVE  /\ proc'[q].throw \in {"KILL", "USER"} => proc'[q].stack
                    /\ proc'[q].throw = "KILL" => ~Has(proc'[q], "zombie")
                    /\ q = active' => proc'[q].throw # "USER"
                    /\ run'.status = "elaboration" => ~proc'[q].stack
                    /\ NothingStranded /\ NoneForgotten /\ proc'[q].throw \in {"KILL", "USER"} =>
                         Located(q)'
  BY DEF ThrowsOk
<1>0. proc[q] \in Member /\ q \in Process /\ q # NoProcess
  BY Names DEF IInv, ProcOk
<1>1. /\ proc[q].throw \in {"KILL", "USER"} => proc[q].stack
      /\ proc[q].throw = "KILL" => ~Has(proc[q], "zombie")
      /\ q = active => proc[q].throw # "USER"
      /\ run.status = "elaboration" => ~proc[q].stack
      /\ NothingStranded /\ NoneForgotten /\ proc[q].throw \in {"KILL", "USER"} => Located(q)
  BY DEF ThreadInv, ThrowsOk
<1>2. /\ run'.status = "elaboration" => run.status = "elaboration"
      /\ run'.status = "elaboration" => active' # q
  <2>1. active' # NoProcess => run'.status = "running"
    BY Steps DEF IInv, Control
  <2> QED BY <1>0, <2>1, ElaborationOver
<1>3. \/ Untouched(q) \/ Ended(q) \/ Dispatched(q) \/ Thrown(q) \/ Signalled(q)
  BY Fates DEF Fate
<1>4. CASE Untouched(q)
  <2>1. proc'[q].throw = proc[q].throw /\ proc'[q].stack = proc[q].stack
    BY <1>4 DEF Untouched, Keeps
  <2>2. proc[q].stack => (Has(proc'[q], "zombie") => Has(proc[q], "zombie"))
    BY <1>4 DEF Untouched
  <2>3. q = active' => q = active
    BY <1>4 DEF Untouched
  <2>4. ASSUME NothingStranded, NoneForgotten, proc'[q].throw \in {"KILL", "USER"}
        PROVE  Located(q)'
    <3>1. Located(q) /\ proc[q].stack /\ (q = active => proc[q].throw = "KILL")
      BY <1>1, <2>1, <2>4
    <3> QED BY <1>4, <2>4, <3>1 DEF Untouched
  <2> QED BY <1>1, <1>2, <2>1, <2>2, <2>3, <2>4
<1>5. CASE Ended(q)
  BY <1>0, <1>5 DEF Ended
<1>6. CASE Dispatched(q)
  <2>1. /\ proc'[q].state = proc[q].state /\ active' = q
        /\ \/ proc[q].throw = "KILL" /\ proc'[q] = proc[q]
           \/ proc[q].throw = "NONE" /\ proc[q].stack /\ proc'[q] = proc[q]
           \/ proc'[q].throw \in {"NONE", "SYNC", "ASYNC"}
    BY <1>0, <1>6, ResumedThrow DEF Dispatched, Standing
  <2> QED BY <1>1, <1>2, <2>1 DEF Located
<1>7. CASE Thrown(q)
  <2>1. PICK r \in Member :
          /\ r.throw = "ASYNC" \/ (r.throw \in {"KILL", "USER"} /\ r.stack)
          /\ r.throw = "KILL" => ~Has(r, "zombie")
          /\ r.stack = proc[q].stack
          /\ \/ active' = q /\ proc'[q] = Resumed(r)
             \/ active' = NoProcess /\ proc'[q] = r /\ q \in Queued(threads)'
    BY <1>7 DEF Thrown, FirstInLine
  <2>2. CASE active' = q /\ proc'[q] = Resumed(r)
    <3>1. /\ proc'[q].state = r.state
          /\ \/ r.throw = "KILL" /\ proc'[q] = r
             \/ proc'[q].throw \in {"NONE", "SYNC", "ASYNC"}
      BY <2>1, <2>2, ResumedThrow DEF Standing
    <3> QED BY <1>2, <2>1, <2>2, <3>1 DEF Located
  <2>3. CASE active' = NoProcess /\ proc'[q] = r /\ q \in Queued(threads)'
    BY <1>0, <1>1, <1>2, <2>1, <2>3 DEF Located
  <2> QED BY <2>1, <2>2, <2>3
<1>8. CASE Signalled(q)
  <2>1. /\ active' = active /\ proc'[q].stack = proc[q].stack
        /\ Has(proc'[q], "zombie") <=> Has(proc[q], "zombie")
        /\ proc'[q].throw \in {proc[q].throw, "NONE", "SYNC", "ASYNC"}
        /\ Located(q) /\ proc'[q].throw \in {"KILL", "USER"} => Located(q)'
    BY <1>8 DEF Signalled
  <2> QED BY <1>1, <1>2, <2>1
<1> QED BY <1>3, <1>4, <1>5, <1>6, <1>7, <1>8

LEMMA ResetsStep == IInv /\ ThreadInv /\ [Next]_vars => ResetsOk'
<1> SUFFICES ASSUME IInv, ThreadInv, [Next]_vars, SyncCounted, NEW q \in Thread
             PROVE  /\ CountedOk(q)'
                    /\ InReset(q)'
                    /\ ~Has(proc'[q], "zombie") /\ Standing(proc'[q]) = "NONE" =>
                         /\ q = active' => proc'[q].throw \in {"NONE", "KILL"}
                         /\ /\ NothingStranded /\ NoneForgotten
                            /\ proc'[q].throw \in {"SYNC", "ASYNC"}
                            => Located(q)'
  BY DEF ResetsOk
<1>0. proc[q] \in Member /\ q \in Process /\ q # NoProcess
  BY Names DEF IInv, ProcOk
<1>1. /\ CountedOk(q)
      /\ InReset(q)
      /\ ~Has(proc[q], "zombie") /\ Standing(proc[q]) = "NONE" =>
           /\ q = active => proc[q].throw \in {"NONE", "KILL"}
           /\ NothingStranded /\ NoneForgotten /\ proc[q].throw \in {"SYNC", "ASYNC"} => Located(q)
  BY DEF ThreadInv, ResetsOk
<1>2. (SameSources(q) /\ (Untouched(q) \/ Ended(q) \/ Dispatched(q) \/ Thrown(q))) \/ Signalled(q)
  BY Fates DEF Fate
<1>3. ASSUME SameSources(q), proc'[q].areset = proc[q].areset, proc'[q].reset = proc[q].reset,
             proc'[q].sticky = proc[q].sticky, Has(proc[q], "zombie") => Has(proc'[q], "zombie")
      PROVE  CountedOk(q)' /\ Standing(proc'[q]) = Standing(proc[q])
  BY <1>1, <1>3 DEF CountedOk, SameSources, Standing
<1>4. CASE SameSources(q) /\ Untouched(q)
  <2>1. /\ Keeps(proc[q], proc'[q]) /\ (Has(proc[q], "zombie") => Has(proc'[q], "zombie"))
        /\ q = active' => q = active
    BY <1>4 DEF Untouched
  <2>2. CountedOk(q)' /\ Standing(proc'[q]) = Standing(proc[q])
    BY <1>3, <1>4, <2>1 DEF Keeps
  <2>3. InReset(q)'
    BY <1>1, <2>1, <2>2 DEF InReset, Keeps
  <2>4. ASSUME ~Has(proc'[q], "zombie"), Standing(proc'[q]) = "NONE", NothingStranded, NoneForgotten,
               proc'[q].throw \in {"SYNC", "ASYNC"}
        PROVE  Located(q)'
    <3>1. proc[q].throw \in {"SYNC", "ASYNC"} /\ ~Has(proc[q], "zombie") /\ Standing(proc[q]) = "NONE"
      BY <2>1, <2>2, <2>4 DEF Keeps
    <3>2. Located(q) /\ q # active
      BY <1>1, <2>4, <3>1
    <3> QED BY <1>4, <2>4, <3>2 DEF Untouched
  <2> QED BY <1>1, <2>1, <2>2, <2>3, <2>4 DEF Keeps
<1>5. CASE SameSources(q) /\ Ended(q)
  <2>1. /\ proc'[q].throw = "NONE" /\ ~proc'[q].stack /\ Has(proc'[q], "zombie")
    BY <1>5 DEF Ended
  <2>2. CountedOk(q)'
    BY <2>1 DEF CountedOk
  <2> QED BY <2>1, <2>2 DEF InReset
<1>6. ASSUME SameSources(q), NEW r \in Member, r.areset = proc[q].areset, r.reset = proc[q].reset,
             r.sticky = proc[q].sticky, Has(r, "zombie") <=> Has(proc[q], "zombie"),
             r.throw # "NONE" \/ r = proc[q],
             active' = q, proc'[q] = Resumed(r)
      PROVE  /\ CountedOk(q)' /\ InReset(q)' /\ Located(q)'
             /\ Standing(proc'[q]) = "NONE" => proc'[q].throw \in {"NONE", "KILL"}
  <2>1. /\ proc'[q].state = r.state /\ proc'[q].areset = r.areset /\ proc'[q].reset = r.reset
        /\ proc'[q].sticky = r.sticky /\ Standing(proc'[q]) = Standing(r)
        /\ \/ r.throw = "KILL" /\ proc'[q] = r
           \/ r.throw = "NONE" /\ r.stack /\ proc'[q] = r
           \/ proc'[q].throw = Standing(r)
    BY <1>6, ResumedThrow
  <2>2. CountedOk(q)'
    BY <1>3, <1>6, <2>1 DEF Has
  <2>3. InReset(q)'
    BY <1>1, <1>6, <2>1 DEF InReset
  <2> QED BY <1>6, <2>1, <2>2, <2>3 DEF Located
<1>7. CASE SameSources(q) /\ Dispatched(q)
  <2>1. active' = q /\ proc'[q] = Resumed(proc[q])
    BY <1>7 DEF Dispatched
  <2>2. /\ CountedOk(q)' /\ InReset(q)' /\ Located(q)'
        /\ Standing(proc'[q]) = "NONE" => proc'[q].throw \in {"NONE", "KILL"}
    BY <1>0, <1>6, <1>7, <2>1
  <2> QED BY <2>2
<1>8. CASE SameSources(q) /\ Thrown(q)
  <2>1. PICK r \in Member :
          /\ r.throw = "ASYNC" \/ (r.throw \in {"KILL", "USER"} /\ r.stack)
          /\ r.stack = proc[q].stack /\ r.areset = proc[q].areset /\ r.reset = proc[q].reset
          /\ r.sticky = proc[q].sticky /\ (Has(r, "zombie") <=> Has(proc[q], "zombie"))
          /\ \/ active' = q /\ proc'[q] = Resumed(r)
             \/ active' = NoProcess /\ proc'[q] = r /\ q \in Queued(threads)'
    BY <1>8 DEF Thrown, FirstInLine
  <2>2. r.throw # "NONE"
    BY <2>1
  <2>3. CASE active' = q /\ proc'[q] = Resumed(r)
    <3>1. /\ CountedOk(q)' /\ InReset(q)' /\ Located(q)'
          /\ Standing(proc'[q]) = "NONE" => proc'[q].throw \in {"NONE", "KILL"}
      BY <1>6, <1>8, <2>1, <2>2, <2>3
    <3> QED BY <3>1
  <2>4. CASE active' = NoProcess /\ proc'[q] = r /\ q \in Queued(threads)'
    <3>1. CountedOk(q)' /\ InReset(q)' /\ Located(q)'
      BY <1>3, <1>8, <2>1, <2>2, <2>4 DEF InReset, Located
    <3> QED BY <1>0, <2>4, <3>1
  <2> QED BY <2>1, <2>3, <2>4
<1>9. CASE Signalled(q)
  <2>1. /\ active' = active /\ (Has(proc'[q], "zombie") <=> Has(proc[q], "zombie"))
        /\ proc'[q].throw \in {proc[q].throw, "NONE", "SYNC", "ASYNC"}
        /\ CountedOk(q)' /\ InReset(q)'
        /\ ~Has(proc'[q], "zombie") /\ Standing(proc'[q]) = "NONE" =>
             proc'[q].throw \notin {"SYNC", "ASYNC"}
    BY <1>1, <1>9 DEF Signalled
  <2>2. q = active => proc[q].throw # "USER"
    BY DEF ThreadInv, ThrowsOk
  <2>3. proc[q].throw \in {"NONE", "KILL", "SYNC", "ASYNC", "USER"}
    BY <1>0, MemberFields
  <2> QED BY <2>1, <2>2, <2>3
<1> QED BY <1>2, <1>4, <1>5, <1>7, <1>8, <1>9

LEMMA ThreadsInitially == Init => ThreadInv
<1> SUFFICES ASSUME Init PROVE ThreadInv
  OBVIOUS
<1>1. ASSUME NEW p \in Process
      PROVE  /\ proc[p].state = {} /\ proc[p].throw = "NONE" /\ ~proc[p].stack /\ ~proc[p].sticky
             /\ proc[p].areset = Cardinality(Sources(p, TRUE))
             /\ proc[p].reset = Cardinality(Sources(p, FALSE))
  BY DEF Init, NewProcess
<1>2. Bits /\ Tracked
  BY <1>1 DEF Bits, Tracked, Init, Has
<1>3. ASSUME NEW p \in Thread
      PROVE  /\ p # active /\ proc[p].throw = "NONE" /\ ~proc[p].stack
             /\ CountedOk(p) /\ InReset(p)
  <2> DEFINE n == Cardinality(Sources(p, FALSE))
  <2>1. n \in Nat
    BY SourcesFinite
  <2> HIDE DEF n
  <2>2. n = n + 0
    BY <2>1
  <2> USE DEF n
  <2> QED BY <1>1, <2>2, Names DEF Init, CountedOk, InReset
<1> QED BY <1>2, <1>3 DEF ThreadInv, ThrowsOk, ResetsOk

LEMMA ThreadInvariance == Spec => [](IInv /\ ThreadInv)
<1>1. Init => IInv /\ ThreadInv
  BY Initially, ThreadsInitially
<1>2. IInv /\ ThreadInv /\ [Next]_vars => (IInv /\ ThreadInv)'
  <2>1. IInv /\ ThreadInv /\ [Next]_vars => ThrowsOk' /\ ResetsOk'
    BY ThrowsStep, ResetsStep
  <2>2. IInv /\ ThreadInv /\ [Next]_vars => Bits' /\ Tracked'
    BY BitsStep, TrackedStep DEF ThreadInv
  <2> QED BY <2>1, <2>2, Steps DEF ThreadInv
<1> QED BY <1>1, <1>2, PTL DEF Spec

(* The counts m_active_areset_n and m_active_reset_n of a thread are       *)
(* exactly its reset signals that have the active level, and its           *)
(* sync_reset_on(): whatever the order in which the signals change and     *)
(* processes are reset, none is counted twice or missed (reset_changed).   *)
THEOREM ResetsAreCounted ==
    ASSUME SyncCounted PROVE Spec => []ResetsCounted
<1>1. IInv /\ ThreadInv => ResetsCounted
  BY SyncCounted DEF ThreadInv, ResetsOk, CountedOk, ResetsCounted
<1> QED BY <1>1, ThreadInvariance, PTL

(* A thread that has begun and is in reset has an exception to take: each  *)
(* dispatch unwinds it and begins it again, until its last reset ends      *)
(* (semantics() and the catch of sc_user restore m_throw_status).          *)
THEOREM ResetHolds ==
    ASSUME SyncCounted PROVE Spec => []StaysInReset
<1>1. IInv /\ ThreadInv => StaysInReset
  BY SyncCounted DEF ThreadInv, ResetsOk, InReset, StaysInReset
<1> QED BY <1>1, ThreadInvariance, PTL

(* A kill is never lost: kill_process() leaves its victim dying, queued,   *)
(* or suspended and owed the run in which it dies.                         *)
THEOREM KillsArePending ==
    ASSUME NothingStranded, NoneForgotten PROVE Spec => []KillPending
<1>1. IInv /\ ThreadInv => KillPending
  BY NothingStranded, NoneForgotten DEF ThreadInv, ThrowsOk, Located, KillPending
<1> QED BY <1>1, ThreadInvariance, PTL

(* An exception that was thrown at a thread in no reset is taken once: the *)
(* thread is the active one, queued, or suspended and owed a run           *)
(* (throw_user, throw_reset and reset_changed()).                          *)
THEOREM ThrowsArePending ==
    ASSUME SyncCounted, NothingStranded, NoneForgotten PROVE Spec => []ThrowPending
<1>1. IInv /\ ThreadInv => ThrowPending
  <2> SUFFICES ASSUME IInv, ThreadInv, NEW p \in Thread, proc[p].throw # "NONE",
                      Standing(proc[p]) = "NONE", ~Has(proc[p], "zombie")
               PROVE  Located(p)
    BY DEF ThrowPending, Located
  <2>1. proc[p].throw \in {"KILL", "USER", "SYNC", "ASYNC"}
    BY Names, MemberFields DEF IInv, ProcOk
  <2>2. CASE proc[p].throw \in {"KILL", "USER"}
    BY <2>2, NothingStranded, NoneForgotten DEF ThreadInv, ThrowsOk
  <2>3. CASE proc[p].throw \in {"SYNC", "ASYNC"}
    BY <2>3, SyncCounted, NothingStranded, NoneForgotten DEF ThreadInv, ResetsOk
  <2> QED BY <2>1, <2>2, <2>3
<1> QED BY <1>1, ThreadInvariance, PTL

-------------------------------------------------------------------------------
(* The order of what is thrown *)

(* A thread that was thrown something takes it next, or is unwinding.      *)
Prompt(v) ==
  ThrownNow(proc[v]) => FirstInLine(v) \/ (v = active /\ proc[v].throw = "KILL")

(* Nobody calls an operation unless Calls() lets him.                      *)
LEMMA OperationsCalled ==
    ASSUME EventOperation \/ ProcessControl
    PROVE  \E op : Calls(op)
<1>1. ASSUME NEW e PROVE NotifyNow(e) => Calls("notify")
  BY DEF NotifyNow
<1>2. ASSUME NEW e PROVE NotifyZero(e) => Calls("notifyzero")
  BY DEF NotifyZero
<1>3. ASSUME NEW e, NEW t PROVE NotifyAt(e, t) => Calls("notifyat")
  BY DEF NotifyAt
<1>4. ASSUME NEW e PROVE CancelNotify(e) => Calls("cancel")
  BY DEF CancelNotify
<1>5. ASSUME NEW c PROVE RequestUpdate(c) => Calls("update")
  BY DEF RequestUpdate
<1>6. ASSUME NEW p PROVE SuspendProcess(p) => Calls("suspend")
  BY DEF SuspendProcess
<1>7. ASSUME NEW p PROVE ResumeProcess(p) => Calls("resume")
  BY DEF ResumeProcess
<1>8. ASSUME NEW p PROVE DisableProcess(p) => Calls(IF Started THEN "disable" ELSE "disablefirst")
  BY DEF DisableProcess
<1>9. ASSUME NEW p PROVE EnableProcess(p) => Calls("enable")
  BY DEF EnableProcess
<1>10. ASSUME NEW p PROVE KillDisconnect(p) \/ KillThread(p) => Calls("kill")
  BY DEF KillDisconnect, KillThread
<1>11. ASSUME NEW p PROVE ThrowIt(p) => Calls("throw")
  BY DEF ThrowIt
<1>12. ASSUME NEW p PROVE ResetProcess(p) => Calls("reset")
  BY DEF ResetProcess
<1>13. ASSUME NEW p, NEW asserted PROVE SyncReset(p, asserted) => Calls("syncreset")
  BY DEF SyncReset
<1>14. (Stop => Calls("stop")) /\ (Pause => Calls("pause"))
  BY DEF Stop, Pause
<1>15. EventOperation => \E op : Calls(op)
  BY <1>1, <1>2, <1>3, <1>4, <1>5 DEF EventOperation
<1>16. ProcessControl => \E op : Calls(op)
  BY <1>6, <1>7, <1>8, <1>9, <1>10, <1>11, <1>12, <1>13, <1>14 DEF ProcessControl
<1> QED BY <1>15, <1>16

(* While a thread is next in line nothing but its dispatch can happen.     *)
LEMMA OnlyRuns ==
    ASSUME IInv, NEW v, FirstInLine(v), Next
    PROVE  RunThread \/ UNCHANGED vars
<1>1. /\ active = NoProcess /\ threads.pop # <<>> /\ phase \in {"methods", "threads"}
      /\ caller # NoProcess \/ phase = "threads"
      /\ NoProcess \notin Method /\ NoProcess \notin Thread
  BY Names DEF FirstInLine, IInv, Control
<1>2. ~\E op : Calls(op)
  BY <1>1 DEF Calls
<1>3. ~EventOperation
  BY <1>2, OperationsCalled
<1>4. ~ProcessControl
  BY <1>2, OperationsCalled
<1>5. ~SetTrigger /\ ~Yield
  <2>1. SetTrigger => active \in Method
    BY DEF SetTrigger, NextTrigger, NextTriggerTimed, Triggers
  <2>2. Yield => active \in Thread \cup Method
    BY DEF Yield, WaitFor, WaitTimed, WaitCycles, ThreadEnd, MethodReturn, Waits
  <2> QED BY <1>1, <2>1, <2>2
<1>6. ~StartCall
  BY <1>1 DEF StartCall, Start, FirstStart, StartAfterStop
<1>7. Schedule => RunThread
  BY <1>1 DEF Schedule, Initialize, RunMethod, MethodsDone, ReturnToCaller, AnotherRound,
              AbortEvaluation, EvaluateEnd, ThreadsDone, Scheduling, Update, UpdateEnd, DeltaStep,
              DeltaDone, CrunchReturns, AdvanceTime, NoNextTime, TimedStep, TimedDone
<1> QED BY <1>3, <1>4, <1>5, <1>6, <1>7 DEF Next

(* A thread that was killed and runs only unwinds.                         *)
LEMMA OnlyEnds ==
    ASSUME IInv, active \in Thread, proc[active].throw = "KILL", Next
    PROVE  ThreadEnd
<1>1. /\ active # NoProcess /\ active \notin Method /\ phase \in {"methods", "threads"}
      /\ run.status # "stopped"
  BY Names DEF IInv, Control
<1>2. ~\E op : Calls(op)
  BY <1>1 DEF Calls
<1>3. ~EventOperation
  BY <1>2, OperationsCalled
<1>4. ~ProcessControl
  BY <1>2, OperationsCalled
<1>5. ~SetTrigger
  BY <1>1 DEF SetTrigger, NextTrigger, NextTriggerTimed, Triggers
<1>6. Yield => ThreadEnd
  BY <1>1 DEF Yield, WaitFor, WaitTimed, WaitCycles, MethodReturn, Waits
<1>7. ~StartCall
  BY <1>1 DEF StartCall, Start, FirstStart, StartAfterStop
<1>8. ~Schedule
  BY <1>1 DEF Schedule, Initialize, RunMethod, MethodsDone, RunThread, ReturnToCaller, AnotherRound,
              AbortEvaluation, EvaluateEnd, ThreadsDone, Scheduling, Update, UpdateEnd, DeltaStep,
              DeltaDone, CrunchReturns, AdvanceTime, NoNextTime, TimedStep, TimedDone
<1> QED BY <1>3, <1>4, <1>5, <1>6, <1>7, <1>8 DEF Next

(* The dispatch by the first-in first-out scheduler.                       *)
LEMMA RunsFirst ==
    ASSUME IInv, ~Random, RunThread
    PROVE  /\ threads.pop # <<>> /\ active' = threads.pop[1] /\ active = NoProcess
           /\ active' \in Thread /\ proc' = [proc EXCEPT ![active'] = Resumed(@)]
<1>1. PICK i \in PopChoices(threads, Random) :
        /\ active' = threads.pop[i] /\ proc' = [proc EXCEPT ![threads.pop[i]] = Resumed(@)]
  BY DEF RunThread
<1>2. i = 1 /\ i \in DOMAIN threads.pop /\ active = NoProcess
  BY <1>1 DEF RunThread, PopChoices
<1>3. threads.pop # <<>>
  BY <1>2
<1>4. threads.pop[i] \in Thread
  BY <1>2, Popped DEF IInv, QueuesOk
<1> QED BY <1>1, <1>2, <1>3, <1>4

(* The dispatch takes what was thrown: what is left is the kill, or the    *)
(* exception of a reset that lasts.                                        *)
LEMMA TakenNow ==
    ASSUME NEW r \in Member, ThrownNow(Resumed(r))
    PROVE  Resumed(r).throw = "KILL" /\ r.throw = "KILL"
<1>1. /\ Standing(Resumed(r)) = Standing(r)
      /\ \/ r.throw = "KILL" /\ Resumed(r) = r
         \/ r.throw = "NONE" /\ r.stack /\ Resumed(r) = r
         \/ Resumed(r).throw = Standing(r)
  BY ResumedThrow
<1>2. Standing(r) \in {"NONE", "SYNC", "ASYNC"}
  BY DEF Standing
<1> QED BY <1>1, <1>2 DEF ThrownNow

(* A thread that is thrown nothing keeps the promise, unless the step      *)
(* throws at it.                                                           *)
LEMMA FatePrompt ==
    ASSUME IInv, SyncCounted, NEW q \in Thread, ~ThrownNow(proc[q]), CountedOk(q),
           Untouched(q) \/ Ended(q) \/ Dispatched(q) \/ Signalled(q)
    PROVE  ~ThrownNow(proc'[q])
<1>0. proc[q] \in Member
  BY Names DEF IInv, ProcOk
<1>1. CASE Untouched(q)
  BY <1>1 DEF Untouched, Keeps, ThrownNow, Standing
<1>2. CASE Ended(q)
  BY <1>2 DEF Ended, ThrownNow
<1>3. CASE Dispatched(q)
  <2>1. proc'[q] = Resumed(proc[q])
    BY <1>3 DEF Dispatched
  <2>2. proc[q].throw # "KILL"
    BY DEF ThrownNow
  <2> QED BY <1>0, <2>1, <2>2, TakenNow
<1>4. CASE Signalled(q)
  <2>1. /\ proc'[q].throw \in {proc[q].throw, "NONE", "SYNC", "ASYNC"}
        /\ Has(proc'[q], "zombie") <=> Has(proc[q], "zombie")
        /\ Has(proc[q], "zombie") =>
             /\ proc'[q].throw = proc[q].throw
             /\ proc'[q].areset = proc[q].areset /\ proc'[q].reset = proc[q].reset
        /\ ~Has(proc'[q], "zombie") /\ Standing(proc'[q]) = "NONE" =>
             proc'[q].throw \notin {"SYNC", "ASYNC"}
    BY <1>4, SyncCounted DEF Signalled
  <2>2. CASE Has(proc[q], "zombie")
    BY <2>1, <2>2 DEF ThrownNow, Standing
  <2>3. CASE ~Has(proc[q], "zombie")
    BY <2>1, <2>3 DEF ThrownNow
  <2> QED BY <2>2, <2>3
<1> QED BY <1>1, <1>2, <1>3, <1>4
(* A thread that takes the kill unwinds and ends.                          *)
LEMMA EndedNow ==
    ASSUME IInv, ThreadEnd
    PROVE  proc'[active].throw = "NONE"
<1> DEFINE d == Disconnected(proc[active], active)
<1>1. active \in Process /\ proc[active] \in Member
  BY Names DEF ThreadEnd, IInv, ProcOk
<1>2. d \in Member
  BY <1>1, MemberStep
<1>3. proc' = [proc EXCEPT ![active] = [d EXCEPT !.throw = "NONE", !.stack = FALSE]]
  BY DEF ThreadEnd
<1> HIDE DEF d
<1>4. proc'[active] = [d EXCEPT !.throw = "NONE", !.stack = FALSE]
  BY <1>1, <1>3 DEF IInv, ProcOk
<1>5. [d EXCEPT !.throw = "NONE", !.stack = FALSE].throw = "NONE"
  BY <1>2 DEF Member
<1> QED BY <1>4, <1>5

LEMMA PromptStep ==
    ASSUME IInv, ThreadInv, SyncCounted, ~Random, [Next]_vars, NEW q \in Thread, Prompt(q)
    PROVE  Prompt(q)'
<1>0. proc[q] \in Member /\ q \in Process /\ q # NoProcess
  BY Names DEF IInv, ProcOk
<1>1. CASE UNCHANGED vars
  BY <1>1 DEF vars, queues, control, Prompt, FirstInLine
<1>2. CASE Next /\ ThrownNow(proc[q]) /\ FirstInLine(q)
  <2>1. RunThread \/ UNCHANGED vars
    BY <1>2, OnlyRuns
  <2>2. CASE RunThread
    <3>1. active' = q /\ proc' = [proc EXCEPT ![active'] = Resumed(@)]
      BY <1>2, <2>2, RunsFirst DEF FirstInLine
    <3>2. proc'[q] = Resumed(proc[q])
      BY <1>0, <3>1 DEF IInv, ProcOk
    <3>3. ThrownNow(proc'[q]) => proc'[q].throw = "KILL"
      BY <1>0, <3>2, TakenNow
    <3> QED BY <3>1, <3>3 DEF Prompt
  <2> QED BY <1>1, <2>1, <2>2
<1>3. CASE Next /\ q = active /\ proc[q].throw = "KILL"
  <2>1. proc'[q].throw = "NONE"
    BY <1>3, OnlyEnds, EndedNow
  <2> QED BY <2>1 DEF Prompt, ThrownNow
<1>4. CASE ~ThrownNow(proc[q])
  <2>1. CountedOk(q)
    BY SyncCounted DEF ThreadInv, ResetsOk
  <2>2. Untouched(q) \/ Ended(q) \/ Dispatched(q) \/ Signalled(q) \/ Thrown(q)
    BY Fates DEF Fate
  <2>3. CASE Thrown(q)
    <3>1. PICK r \in Member :
            \/ active' = q /\ proc'[q] = Resumed(r)
            \/ FirstInLine(q)'
      BY <2>3 DEF Thrown
    <3>2. active' = q /\ proc'[q] = Resumed(r) /\ ThrownNow(proc'[q]) => proc'[q].throw = "KILL"
      BY TakenNow
    <3> QED BY <3>1, <3>2 DEF Prompt
  <2>4. CASE ~Thrown(q)
    <3>1. ~ThrownNow(proc'[q])
      BY <1>4, <2>1, <2>2, <2>4, FatePrompt
    <3> QED BY <3>1 DEF Prompt
  <2> QED BY <2>3, <2>4
<1> QED BY <1>1, <1>2, <1>3, <1>4 DEF Prompt

(* What kill(), throw_it() and reset() throw is taken before anything else *)
(* happens (preempt_with() and execute_thread_next()): nobody can suspend, *)
(* notify or kill the victim in between, and the order of the run queue    *)
(* never lets another thread through.  The random scheduler gives no such  *)
(* order.                                                                  *)
THEOREM VictimsRunFirst ==
    ASSUME SyncCounted, ~Random PROVE Spec => ThrownFirst
<1> DEFINE P == \A p \in Thread : Prompt(p)
<1>1. Init => P
  <2> SUFFICES ASSUME Init, NEW p \in Thread PROVE ~ThrownNow(proc[p])
    BY DEF Prompt
  <2>1. proc[p].throw = "NONE"
    BY Names DEF Init, NewProcess
  <2> QED BY <2>1 DEF ThrownNow
<1>2. IInv /\ ThreadInv /\ P /\ [Next]_vars => P'
  BY SyncCounted, ~Random, PromptStep
<1>3. IInv /\ P /\ [Next]_vars =>
        [\A v \in Queued(threads) :
           active = NoProcess /\ ThrownNow(proc[v]) => active' = v]_vars
  <2> SUFFICES ASSUME IInv, P, Next, NEW v \in Queued(threads), active = NoProcess,
                      ThrownNow(proc[v]), ~UNCHANGED vars
               PROVE  active' = v
    OBVIOUS
  <2>1. v \in Thread /\ v # active
    BY QueuesDef, Names DEF IInv
  <2>2. FirstInLine(v)
    BY <2>1 DEF Prompt
  <2>3. RunThread
    BY <2>2, OnlyRuns
  <2> QED BY <2>2, <2>3, RunsFirst, ~Random DEF FirstInLine
<1> HIDE DEF P
<1> QED BY <1>1, <1>2, <1>3, ThreadInvariance, PTL DEF Spec, ThrownFirst
===============================================================================
