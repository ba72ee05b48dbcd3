# A specification of PSCV

PSCV checks probabilistic SystemC models at run time. It consists of a
SystemC 2.3.0 kernel patched in two places (a scheduler that picks runnable
processes at random, and an observer that calls monitors at the sample points
of the simulation), of MAG, a generator of monitors and aspect code that speak
with the statistical model checker PLASMA, and of examples. This directory
specifies what decides the course of a simulation and what the monitors see of
it. Paths below are relative to `src/systemc-2.3.0_modified/src/sysc/kernel/`
unless they say otherwise.

## 1. The system

### Components

| component | state | operations | works with |
|---|---|---|---|
| run queues (`sc_runnable_int.h`) | two lists per kind of process, *push* and *pop*, linked through `m_runnable_p`; dummy heads, tails | push back, push front, execute next, pop (first or random), remove, toggle, init | called by the scheduler and by process control |
| event notifications (`sc_event.cpp`, `sc_event.h`, `sc_simcontext`) | per event `m_notify_type`, `m_delta_event_index`, `m_timed`; the vector `m_delta_events`; the queue `m_timed_events` | `cancel`, `notify()`, `notify(t)`, `notify_internal`, `notify_next_delta`, `trigger` | called by processes, channels and timeouts; delivered by the scheduler |
| processes (`sc_process`, `sc_method_process`, `sc_thread_process`) | `m_state` bits, `m_trigger_type`, what is waited for, `m_wait_cycle_n`, `m_throw_status` | `wait`, `next_trigger`, static and dynamic triggers, suspend, resume, disable, enable, kill | triggered by events, dispatched by the scheduler |
| resets and `throw_it` (`sc_reset`, `sc_process.cpp`) | counts of active resets, sticky reset, level of the signals | `reset_changed`, `reset`, `throw_it`, `sync_reset_on/off` | signals change them in the update phase; they interrupt processes |
| scheduler (`sc_simcontext.cpp`, `sc_simcontext_int.h`) | current process, phase, time, stop and pause flags | `sc_start`, `crunch`, `simulate`, `next_time`, `preempt_with`, `sc_stop`, `sc_pause` | everything above |
| update requests (`../communication/sc_prim_channel`) | list of requests | `request_update`, `perform_update` | the update phase; a new value notifies an event |
| primitive channels (`../communication`) | buffer and counts of `sc_fifo`, owner of `sc_mutex`, value of `sc_semaphore`, heap of `sc_event_queue` | read, write, lock, unlock, wait, post, notify, `cancel_all` | events, updates, processes that wait |
| priority queue (`../utils/sc_pq`) | binary heap | insert, top, extract | holds timed notifications, and those of `sc_event_queue` |
| monitor observer (`mon_observer`, `mon_prototype`) | sets of monitors per sample point and per event | register, a callback before and after every phase, at events and locations | called by the scheduler, by `trigger()` and by woven advice |
| monitor generator MAG (`src/mag`) | configuration tables; the generated monitor keeps labels and talks to PLASMA over two pipes | one translation; `step()`, callbacks, advice | produces code that registers with the observer |
| control system (`src/examples/control_system`) | sensors, actuators, their group, three processors, a bus | failures, reboots, timeouts | threads and methods of the kernel |
| producer and consumer (`src/examples/producer_consumer`) | a fifo of 10 characters | write, read | threads and immediate notifications |
| coroutines, elaboration, time units, tracing, data types, TLM, vendored parts | | | see "Not modelled" |

`PROJECT.json` gives the status of each with its files.

One thread of control moves between `sc_main`, the scheduler and the
processes: there is no parallelism, but the order is wide open. Processes run
until they yield; what they call acts at once on queues, events and other
processes; the random scheduler picks any runnable process; the heap delivers
entries of one time in any order. Only the dialogue of a monitor with PLASMA is
between two operating system processes.

### What is hard here

* The notification loop of `crunch()` walks a raw pointer into a vector from
  which the triggers it makes remove events.
* The same process can be waiting with a timeout, suspended, disabled, queued,
  in reset and marked for an exception, in combinations reached only by long
  sequences of legal calls. Whether it may be queued is decided in eight
  places, each with its own tests.
* Cancelled timed notifications stay in the heap.
* `sc_stop()` and `sc_pause()` act at the next of a few places where their
  flags are read.
* Self-sustaining immediate notification: rounds, fairness and starvation.
* The blocking channels wake every waiter and trust that each tests again; the
  fifo of the example does not test again.
* The observer's begin and end calls are spread over code with early exits, and
  its callbacks change the sets over which it iterates.
* The processes of the control system read shared state before a wait and use
  it after, and the monitor samples in the middle of an instant.

`PROJECT.json` lists the hazards at their lines, with the properties that cover
them, or the reason why none does.

### What makes each component correct

* **Run queues**: no process is lost, duplicated or reordered by the links.
* **Notifications**: at most one per event, the earliest; delivered in its
  delta cycle or exactly at its time; never after it was cancelled.
* **Processes**: a run for each completed wait, none for an uncompleted one;
  suspended processes do not run; no trace of a completed or abandoned wait.
* **Resets and exceptions**: a process in reset starts over until the last of
  its resets ends; nothing thrown is lost; what is thrown is taken first.
* **Scheduler**: runnable processes run before updates, updates before delta
  notifications, those before the time advances; nothing is skipped; nothing
  starves; stop and pause end where they say.
* **Channels**: no wakeup is lost; the fifos are fifos; the mutex excludes;
  each notification of an event queue is delivered once, at its time.
* **Observer and monitor**: phases are bracketed; every sample is reported
  once, with the right labels; one state answers one request.
* **Control system**: what is sampled is true; a processor without enough units
  stops; a failure ends in the shutdown the formulas are about.

## 2. Modules

| module | models |
|---|---|
| `RunQueue` | one run queue as a pair of sequences, operators only |
| `RunQueueSpec` | the queue as a state machine: an abstract specification |
| `RunQueueLinks` | the linked lists of `sc_runnable_int.h`, which implement `RunQueueSpec` |
| `DeltaVector` | `m_delta_events` with the index each event keeps, operators only |
| `Notifications` | notification members of events, delta vector, timed entries, delivery loops |
| `PendingSpec` | one pending notification per event: an abstract specification |
| `ProcessState` | the members of one process and what waits, triggers, resets and dispatches do to them |
| `KernelCalls` | the kernel's state; all calls of processes and `sc_main`; `trigger`; `preempt_with` |
| `Kernel` | the scheduler; the specification and the properties of the whole |
| `ThreadWaits` | what `wait()` promises a thread, as history beside the steps of `Kernel` |
| `KernelClaims` | an assertion of the run queue, stated of `Kernel` |
| `PriorityQueue` | the binary heap of `sc_pq` as functions on sequences |
| `EventQueueSpec`, `EventQueue` | what `sc_event_queue` promises; `sc_event_queue` on that heap and one event |
| `FifoSpec`, `Channels` | what `sc_fifo` promises; threads that share an `sc_fifo`, a mutex, a semaphore and the fifo of the example |
| `Monitors` | the observer's registration and dispatch, a generated monitor and PLASMA |
| `ControlSystem` | the embedded control system of the examples |
| `RunQueueLinksProofs`, `NotificationsProofs`, `ChannelsProofs`, `MonitorsProofs`, `ControlSystemProofs` | theorems about the modules they are named after |
| `KernelProofs`, `KernelProcessProofs`, `KernelWaitProofs` | theorems about `Kernel`: structures, types, time and observer; exceptions and resets; waits and run queues |
| `MC*` | model values |

`Kernel` EXTENDS `KernelCalls`, which EXTENDS `RunQueue`, `DeltaVector` and
`ProcessState`: the composition uses the very operators that are studied in
isolation. Two steps of abstraction connect them:

* `RunQueueLinks` implements `RunQueueSpec` (run `links`, and a theorem),
  so `Kernel` may use queues of sequences.
* `Notifications` implements `PendingSpec` (run `notifications`, and a theorem), so
  `Kernel` keeps one value `pend[e]` per event (`None`, `Delta` or a time)
  for `m_notify_type`, `m_timed` and the heap. It keeps the delta vector itself,
  because the loop over it is observable: an event can fire twice.
  `Notifications` takes for granted that `notify_internal` finds nothing
  pending; `TimeoutArmed` of `Kernel` discharges that.

`Channels`, `EventQueue`, `Monitors` and `ControlSystem` are clients of the
kernel and take from it what `Kernel` shows: a thread runs until it waits, any
runnable one may be next, updates follow the evaluation, then delta
notifications, then time. They do not EXTEND it, which keeps them small enough
to prove about.

### State and code

`Kernel`:

| variable | code |
|---|---|
| `proc[p]` | `m_state`, `m_trigger_type`, `m_event_p`/`m_event_list_p`, `m_event_count`, `m_wait_cycle_n`, the dynamic lists of the events that hold `p`, `m_throw_status` while the exception is still to be thrown, `m_has_stack`, `m_active_areset_n`, `m_active_reset_n`, `m_sticky_reset` |
| `pend`, `delta` | pending notifications; the timeout event of a process has the name of the process |
| `methods`, `threads` | `m_runnable` |
| `stranded` | processes whose `next_runnable()` is not 0 although `init()` emptied the queues (an immediate stop) |
| `requests`, `level` | update list of `sc_prim_channel_registry`; value of the signals that reset |
| `active`, `caller` | `m_curr_proc_info`; the method that waits inside `preempt_with()` |
| `phase`, `cursor` | program counter of `crunch()` and `simulate()`, loop index |
| `run` | `m_forced_stop`, `m_paused`, arguments of `sc_start()`, `sim_status` |
| `open` | phases the observer was told the begin of, and not the end |

The control of `prepare_to_simulate`, `crunch`, `simulate` and `next_cor` is in
one action per step between two points where something else can happen:
`RunMethod`, `MethodsDone`, `RunThread`, `AnotherRound`, `AbortEvaluation`,
`EvaluateEnd`, `Update`, `UpdateEnd`, `DeltaStep`, `DeltaDone`, `CrunchReturns`,
`AdvanceTime`, `NoNextTime`, `TimedStep`, `TimedDone`. `trigger()` runs no user
code, so it is one step, with the order of the processes it wakes left open.
`Op` names the calls the design makes; each configuration gives a set of them,
so that each run is about the interplay of a few. `preempt_with()` has three
callers: a thread (it is queued again, in front, and the victim before it), a
method (the victim runs, then the method goes on: `caller`), and the update
phase, in which `reset_changed()` comes from a signal.

The other modules:

| module | variables and code |
|---|---|
| `ThreadWaits` | those of `Kernel`. `goal` (what a thread asked for with its last `wait()` and has not had yet) is history: it is written from the calls and the firings alone, and compared with what the members of the process say |
| `EventQueue` | `m_ppq` the heap, `m_e` the pending notification of the event, `fireable`: `fire_event` is queued |
| `Channels` | `runnable`, `curr`, `call`, `resting`: the threads and the blocking call each is in; `fifo`: `m_buf`, `m_ri`, `m_wi`, `m_free`, `m_num_readable`, `m_num_read`, `m_num_written`; `asked`: it is in the update list; `owner`, `value`; `data`, `first`, `num` of the example. `inside` is history |
| `Monitors` | `sets`: `arr_mon_sets` and `events_to_monitor_sets`; `num`: `num_monitors`; `call`, `todo`: last call of the scheduler and the points it samples; `stack`: the dispatches in progress with the position of their iterators; `flags`: the labels; `stdin`, `plasma`, `asked`: the dialogue. `due` is history |
| `ControlSystem` | states of the units, `group` (`Sa_grp`), `status`, `procm`, `count`, the three bits of the bus, and which thread has read its guard or its input before the wait it is in (`armed`, `seen`). `was` and `late` are history |

### What is abstracted or left out

* Calls that the code answers with `report_error` are excluded by guards:
  disable of a process in a timed wait, resume of a disabled suspended process
  (both unless `Corners`, i.e. `sc_allow_process_control_corners`), immediate
  notification during update, start after a stop (a step that changes nothing).
* `notify()` and the calls that would queue a process before the first
  `sc_start()` are excluded: the queues do not exist yet. So is `kill()` of a
  thread with a stack by `sc_main`, which dereferences a null process.
* Three calls of `Kernel` are admitted by a name in `Op` of their own, because
  properties fail after them: "disablefirst" (`disable()` before the
  simulation), "throwready" (`throw_it()` at a suspended thread owed a run) and
  "resetfirst" (a reset signal changes in the initial update phase). The first
  two are under "Disagreements", the third has a run.
* Unwinding a thread that was thrown an exception is one step; a user exception
  is caught by the thread, which goes on at any wait. Descendants, resets of
  methods, terminated events, dynamic processes and preemption of a method by a
  method are left out; processes are kept alive by handles.
* `ThreadWaits` leaves out what ends a wait in other ways than it asked for
  (exceptions other than the kill, resets, `disable()` in the simulation). It
  suspends threads only, and none that was disabled before the simulation,
  which has a ready bit that means nothing ("Disagreements"). The rest of
  `Kernel` is there, so its run also carries the properties of a whole cycle.
* `EventQueue` reduces the scheduler to evaluation, delta and time. The
  capacity of the heap's array is left out: a sequence grows by itself.
* `Channels`: the non-blocking calls (`nb_read`, `trylock`) are the blocking
  ones that do not block. An `sc_fifo` takes one port for reading and one for
  writing, but several threads of a module may share a port.
* `Monitors`: attributes and values in a printed state are left out, labels are
  kept. The callbacks of monitors written by hand are any sequence of creating
  and registering monitors and notifying events.
* `ControlSystem`: an exponential holding time is any number of ticks, with one
  exception. `lambda_cycle` is `30.0/2*30` = 450 (`types.h:30`), so no
  draw of the generator reaches one time unit and the timeout thread wakes at
  every tick. Rewards and debug output are left out.
* Values, names, messages, statistics and tracing are left out. Probabilities
  become nondeterministic choice.

## 3. Model checking

| run | module | instance | shows |
|---|---|---|---|
| `links` | `RunQueueLinks` | 5 processes, both kinds of pop | types, tail and single link; refinement of `RunQueueSpec` |
| `notifications` | `Notifications` | 2 events, 2 timeout events, 3 heap entries, time 0..2 | index, link and loop invariants; refinement of `PendingSpec` |
| `cycle` | `ThreadWaits` | method, thread, event, channel, all waits, `wait(n)` up to 3, suspend and resume of the thread, disabled before the start, finish-delta stop, pause, kill, time 0..1 | a thread runs when what it asked for has happened, not before and not after; lists, brackets, order of phases and time |
| `control` | `Kernel` | method and 2 threads, random scheduler, all process control, corner cases | queue discipline, ready bit, no lost run, timeouts, kills, suspension |
| `fair` | `Kernel` | method and 2 threads, random scheduler, immediate stop, pause, timed notifications and waits, time 0..1, fair | no starvation, a stop ends, delta notifications are delivered |
| `resets` | `Kernel` | method and 2 threads, one signal that resets one asynchronously and the other synchronously at the other level; reset, throw, kill, sticky reset, suspend | reset counts, start over, exceptions |
| `channels` | `Channels` | 3 threads (2 write, 1 reads, 3 lock), sizes 2, 2 values | wakeups, exclusion, both fifos; refinement of `FifoSpec` |
| `event_queue` | `EventQueue` | 7 pending, time 0..4, no late cancel | the assertion; refinement of `EventQueueSpec` |
| `control_system` | `ControlSystem` | one sensor, one actuator, one skipped cycle tolerated, fair | samples, freezing, bus, shutdown |
| `monitors` | `Monitors` | 3 monitors (generated: number 1), 2 events, 1 location, nesting 2, 2 lines ahead, fair | dispatch, dialogue, end |
| `queue_assert` | `EventQueue` | late cancel | the assertion fails (section 4) |
| `reset_start` | `Kernel` | reset in the initial update | a process is queued twice (section 4) |

Why these bounds are enough. In the kernel, processes interact in pairs (a
caller and a target, two waiters of one event), and a third one adds only
order, which two threads, `sc_main` and the scheduler already vary; where a
third process matters (starvation, a thread that runs between a preemption and
its victim) there are three. In the run queue five processes give a first, a
middle and a last element in one list while the other is not empty. In the
vector, four events allow a removal of the first, last and middle slot with
another event moved. Three entries allow a cancelled entry before, at and after
a live one. Seven entries fill three levels of the heap, so that it is repaired
over two levels with both, one or no child. Time needs a now and a later
(`MaxTime = 1`), and two later times where entries are ordered. `wait(3)` is
the first that still waits after a decrement that leaves more to wait. In
`cycle` one thread is enough, as what `wait()` promises it is about its own
calls and what fires meanwhile; a method and `sc_main` notify, suspend and
resume it, and an event and a channel are both of a list of two. A fifo
of two places wraps, is empty, half full and full; two values tell an order.
Three monitors give one behind, at and ahead of the iterator. One unit per group
is enough for the order of a group, its units and its processor; the proofs
cover any number. Every bound is a constant (`MaxTime`, `MaxCycles`, `Entry`,
`Op`, `MaxPost`, `MaxPending`, `MaxQueue`, `MaxNest`), named as such where it
is declared, and tested in the guards.

The processes of `links`, the threads of `control` and the events and entries
of `notifications` are symmetric; all the properties of these runs, the
refinements included, are about states or single steps, for which symmetry is
sound. Deadlock is checked except in `channels` and `monitors`. In `channels`
all threads may wait (a lock that nobody gives back, a fifo nobody fills), which
is legal; that none waits in vain is `SleepersMustWait`. In `monitors` the
process ends.

### Fairness

* `Kernel`: weak fairness of `Yield` and `Schedule`: a process that runs
  eventually waits or returns, and the scheduler, once in control, goes on. The
  code justifies the second, since it is a loop with no other owner of the
  control. The first is asked of the design: a process that never yields hangs
  any SystemC simulation. `sc_main` owes nothing, and no fairness of the random
  choice is assumed: starvation is prevented by the rounds, which is what
  `RunnableRuns` shows. It does not hold with kills under the random scheduler
  (a thread that kills the same victim again and again may be picked every
  time), so `fair` has no kill. Nor is a delta notification delivered while two
  processes notify each other immediately for ever; `DeltaDelivered` says so in
  its premise.
* `ControlSystem`: weak fairness of `Next` as a whole. `main.cc` calls
  `sc_start()` without an end and the tick never stops; no single thread or
  outcome is favoured.
* `Monitors`: callbacks return, a line that is there is read, and every phase of
  the simulation ends. The first and the last are strong, since an immediate
  notification can begin another dispatch in between; a design that
  notifies for ever in one phase is excluded, as it never comes to the next
  sample. PLASMA owes nothing.

## 4. Disagreements between code and documents

Two have a run whose one property states the document, and which is violated.

| run | document | code |
|---|---|---|
| `queue_assert` | `assert( *t==sc_time_stamp() )` (`../communication/sc_event_queue.cpp:90`) | `cancel_all()` cancels `m_e`, but not a `fire_event` that is already queued; a notification made after it in the same evaluation, for a later time, is taken for the one that is due |
| `reset_start` | "Can't queue twice" (`sc_runnable_int.h:251`) | a reset signal that becomes active in the initial update queues its thread, and `prepare_to_simulate()` (`sc_simcontext.cpp:864`) queues every process without a look |

More were met while modelling. The model follows the code in each, and no
property says otherwise.

* `preempt_with()` "executes the supplied thread immediately"; under the random
  scheduler any thread may be picked first. `ThrownFirst` is checked and
  proved for the first-in first-out scheduler.
* A thread killed before its first dispatch is disconnected but stays in the
  run queue, and its body runs; a disconnected process "will be removed from any
  data structures it resides" (`sc_process.cpp:99`).
* An event removed under the notification loop can make another fire twice, so
  a thread in `wait(n)` counts two cycles for one notification.
* The goto at `sc_simcontext.cpp:1014` skips the sample point after the timed
  notification phase.
* An immediate stop "performs whatever updates are pending"
  (`sc_simcontext.cpp:1077`); `goto out` (line 576) skips `perform_update()`.
  It "aborts the execution phase" (the same comment); a process that becomes
  runnable after it, in the same evaluation, is still dispatched.
* `enable()` of a thread that was "disabled and ready to run" puts "it on the
  run queue" (`sc_thread_process.cpp:200`); only with corner cases allowed.
* `resume()` of a thread that was not suspended does nothing
  (`sc_thread_process.cpp:293`); after a `disable()` before the simulation the
  ready bit is left over and makes it queue the thread, even if it waits.
* `throw_it()` leaves the ready bit of a suspended thread, so that a later
  `resume()` gives it a second run; `reset()` clears it.
* `sync_reset_on()` on a suspended process sets `m_sticky_reset` before it
  reports that this is an error.
* Registering a monitor for the same event twice fails an assertion
  (`mon_observer.cpp:790`), for sample points it does nothing. A generated
  monitor with one event twice among its clocks runs into it.
* `step()` of a generated monitor does not test its input stream: when PLASMA
  ends without a word it spins. `QuitEnds` is about a PLASMA that says `quit`.
* The generated `aspect.cc` calls only the monitor of its own index.
* "1 minute" is the comment at `types.h:30` of the control system, where
  `lambda_cycle` is 450: dividing by `2*30` was meant.
* `fifo_write()` of the example tests for space once: with two producers a
  woken one can overwrite. The example has one.

## 5. Proofs

The theorems hold for every value of the constants, from the ASSUME of the
module alone unless they say more. In the modules about one component
`Inductive` is `Spec => []IInv`, and the theorems about properties follow.

**`Kernel`** is proved about in three modules, each of which EXTENDS the one
before: any sets of methods, threads, events, channels and reset signals, any
sensitivity, any set of calls `Op`, both schedulers and both stop modes.

* `KernelProofs` first says what the structures do, one lemma per operation: a run
  queue that holds each process once still does after a push, a removal, a pop,
  `ExecuteNext` and `Toggle`; the delta vector keeps every event at the index it
  remembers through additions and removals; the record of a process stays one.
* It then proves `TypeCorrect`, `IntervalsAreNested`, `TimeOnlyAdvances`,
  `StopFinishesDelta`. `IInv` adds to the types the control (`Control`: who may
  be active in which phase, when a stop is pending), that an event with a delta
  notification can be removed from the vector, and the bound of the loop
  (`Within`: everything removable lies at or below the cursor), without which
  the loop of `crunch()` could read a slot that was never written. `Timing`
  says that nothing is pending before now, `Finishing` that no process is
  runnable after the evaluation of a finish-delta stop.
* `KernelProcessProofs`: `ResetsAreCounted`, `ResetHolds`, `KillsArePending`,
  `ThrowsArePending`, `VictimsRunFirst`. Every step leaves a thread and its exception alone, ends
  it, dispatches it, throws something at it, or changes one of its resets
  (`Untouched`, `Ended`, `Dispatched`, `Thrown`, `Signalled`); each of the five
  keeps `ThreadInv`, so the proof has one lemma per operation and one per case
  instead of one per pair. `VictimsRunFirst` has an invariant of its own,
  `Prompt`: a thread to which something was thrown and that has not taken it is
  the one that unwinds, or nobody runs and it is the first of the pop queue
  (`FirstInLine`). A step that throws ends with the victim in that place, and
  from there only `RunThread` can happen (`OnlyRuns`), which takes the head of
  the queue.
* `KernelWaitProofs`: `RunsAreOwed`, `ProcessesAreSound`, `TimeoutsAreArmed`,
  `CyclesAreWaited`, `SuspendedStay`, `RunsAreKept`. The first five properties
  are not inductive one by one: that a completed wait leaves nothing behind
  needs that the process was on the right lists, which needs that it was not
  queued a second time, which needs that whoever is queued waits for nothing,
  unless it is there to be killed, and so does a thread with the ready bit. (A
  method may suspend itself and call `next_trigger()` afterwards: it has the
  ready bit and waits, and `resume()` clears the trigger before it queues it.)
  `WaitInv` has them together. `Sound(p)` says of one process on which lists it
  is, when its timeout is pending (`Listed`), and what being queued, active,
  ready or thrown the kill means for its wait and its cycles (`Owed`); `Early`
  that nothing is queued and nothing waits before the first evaluation; `Kept`
  that a method that calls `next_trigger()` is not queued, which rests on what
  may run while it waits for a thread it has preempted. There is one lemma per
  operation that every process is still sound, and one for an event that fires
  (`Outcomes` lists the six things that can happen to a process then).
  `RunsAreKept` takes the same cases once more: each step either leaves the
  wait and the place of a process alone (`Unmoved`), or queues it, dispatches
  it, suspends it with the ready bit, or kills it. `NoneForgotten` is needed
  for `resume()`, `NothingStranded` for `sc_stop()`, and `Sound` for what
  fires.

The code does not keep these promises in every design. Each hypothesis names a
combination of calls after which a promise is broken by what the code does, and
TLC finds the behaviour when the hypothesis is dropped and the calls are given:

| hypothesis | excludes | because |
|---|---|---|
| `SyncCounted` | `sync_reset_on()` of a suspended process, if that is an error | the flag is set, the reset is not counted |
| `NothingStranded` | `sc_stop()` in the immediate mode | it empties the queues |
| `NoneForgotten` | `resume()` of a disabled process, if that is an error | the suspended bit goes, the ready bit stays |
| `Tidy` | `disable()` before the simulation | a thread gets a ready bit although no run is owed to it |
| `~Random` | the random scheduler | it picks any thread of the queue, not the victim |
| `Orderly` | `throw_it()` at a thread that is owed a run; a reset asserted in the initial update | section 4 |
| | kills together with synchronous resets | `throw_reset()` writes `m_throw_status`, where the kill was |
| | `next_trigger()` together with `reset()`, `throw_it()` or asynchronous resets | a method that has preempted a thread can be triggered while it waits, and then calls `next_trigger()` although it is queued |
| `Firm` | resets and user exceptions | they make a suspended thread run, as documented |

`Orderly` includes `NothingStranded`, `NoneForgotten`, and either `Tidy` or
neither `resume()` nor corner cases. The constants of the run `control` satisfy
it, and those of `cycle` do but for `disable()` before the simulation, where
`ThreadWaits` keeps such threads from being suspended. Without that call, the
properties of the two runs for which there is a theorem are proved for all.

**`NotificationsProofs`** (any set of events and entries, any `MaxTime`):
`TypeCorrect`, `DeltaIndexCorrect`, `TimedLinkCorrect`, `DeltaDelivered`,
`TimedOnTime`, `Refinement`. `DeltaIndexed` alone says that an event with a delta
notification is in its slot, but `RemoveDelta` moves the *last* event of the
vector and writes its index, so one must know who is there. `IInv` adds
`DeltaUnique` (an event with a delta notification lies in no slot but its own),
`VectorExact` (outside the loop the vector holds only events with a delta
notification; during the loop no slot that can still be read holds an event
with a timed one, which is what keeps a second firing from destroying it) and
`FiringOK` (what is pending on the event whose `trigger()` runs). Lemmas on the
vector operators carry the argument: an event that is moved is never moved out
of the part still to be triggered. `Refinement` is that the module implements
`PendingSpec`. What an event stands for is read from `m_notify_type` and its
entry (`Pend`), except while it triggers: the entry is gone by then, and the
notification counts as pending at the current time until `trigger()` resets the
members, which is the step `Deliver`. One lemma per action (`CancelPend` to
`TimedStepPend`) gives the abstract step; `TimedLinked` is what lets a step that
drops, orphans or extracts entries leave every other event's time alone, and
`NoLostDelta` and `TimedInFuture` are the guards of `EndDelta`, `Advance` and
`EndTimed`.

**`RunQueueLinksProofs`** (any finite set of processes): `LinksStaySound` and
`Refinement`, that is, `LinksSound` and that the pointers implement
`RunQueueSpec`. The properties speak of traversals, which are recursive; what is
inductive is that there are two lists (`Lists`): injective, disjoint, each
linked in its order and ended by the sentinel (`Chain`), the tail at the end of
the first. `WalkChain` says that the traversal of a chain meets exactly its
processes; it is an induction over the number of links, done with the least
number at which it would fail (`Upwards`). Then each operation only has to name
the two lists it leaves (`PushBackLists` to `ToggleLists`), and these are the
sequences `RunQueue` computes (`PushStep`, `PopStep`, `RemoveStep`). Stale
pointers of the processes an immediate stop forgets need no invariant: nobody
follows them.

**`ChannelsProofs`** (any threads with any calls, sizes and values):
`TypeCorrect`, `SleepersCorrect`, `MutexCorrect` and `Refinement`, that is, that
`sc_fifo` implements `FifoSpec`. `write()` tests counts as of the last update
and `buf_write()` tests `m_free`, and drops the value silently if there is
none: `CountsAgree` relates them, `IndicesAgree` relates the two indices, and
`SleepersSound` says of every sleeping thread that its call cannot go on.
The refinement needs that a circular window grows at its end and shrinks at its
front (`Entries` and its lemmas), a fact about `%`. Under one more assumption,
`OneOfEach` (one producer and one consumer, as the example has),
`WokenServed` and `ExampleCorrect`: the invariant `Served` says that who was
woken finds what it waited for, because nobody else can take it.

**`MonitorsProofs`** (any monitors, clocks, events, locations, nesting):
`EachOnceCorrect`, `LabelsCorrect`, `DialogueCorrect`, and `SamplesCorrect`
under `RegisteredOnce` (the generated monitor is registered by its constructor
only, as MAG generates it). `Frames_ok` describes each dispatch (called in the
order of the numbers, each monitor owed a call was called or is ahead) and the
stack (a dispatch under another one belongs to a monitor written by hand, so at
most one step of the generated monitor is in progress). `SampleInv` counts the
dispatches that owe a sample; its lemmas follow the cardinality through a push,
a pop and the two ways a step ends.

**`ControlSystemProofs`** (any finite groups, limits and tolerated cycles):
`SnapshotCorrect`, `FreezeCorrect`, `BusCorrect`. `CountsFollow` relates the
count of the group to the units now and at the beginning of the instant;
`LateIsFrozen` says why a second late transition cannot come; `TimeoutSettles`
says that the timeout method, which runs in every instant, establishes the
claims about the bus and that whatever runs after it keeps them. The input
methods alone do not: before the timeout method has run the claims may be false.

Proved, and not a property of a run: `CyclesElapsed`, which on the instance of
`cycle` follows from `WaitsKept`, and `LabelsMomentary`.

Only model-checked: `WaitsKept`, of which `RunsAreOwed`, `CyclesAreWaited` and
`RunsAreKept` are the proved parts; the refinement by `EventQueue` and
`AssertionHolds`, which rest on what the heap computes; and everything the
prover does not reach: liveness under fairness (`RunnableRuns`, `StopEnds`,
`DeltaDelivered`, `FailureTimesOut`, `QuitEnds`), ENABLED, and what the
recursive functions of the heap compute.

## 6. Not modelled

* **Data types, tracing, TLM, reports, time units** (most lines of the
  repository): values, text and files without influence on what is scheduled.
  The models take simulated time as small numbers and values as members of
  small sets.
* **Coroutine packages**: stacks and assembler; a switch is a change of `active`.
* **Elaboration**: names, hierarchy, ports and sensitivity are built once,
  before the simulation; `Kernel` takes the result as the constant `Static`.
* **The generator in MAG**: a translator of a configuration to C++ text with no
  state that lives on. What it generates is modelled as it runs.
* **Signals beyond resets, `sc_clock`**: writer checks are errors, and a clock is
  a signal with a timed event, both of which `Kernel` has.
* **`async_request_update`**: the one entry from other operating system threads,
  behind a mutex; nothing in the repository calls it.
* **Dynamic processes, descendants, destructors, error propagation** out of the
  scheduler: nothing in the examples uses them.
* **tinyxml2, AspectC++**: third-party.

## 7. Plan

To model next: resets of methods and descendants in `ProcessState` and `Kernel`;
`sc_signal` with its writer policies and `sc_clock` as a client.
