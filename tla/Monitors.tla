------------------------------- MODULE Monitors -------------------------------
(***************************************************************************)
(* The observer of the simulation (kernel/mon_observer), the monitors that *)
(* it calls back, and the dialogue of the generated monitor with the model *)
(* checker PLASMA, which asks for one state of the trace after another.    *)
(*                                                                         *)
(* The scheduler calls the observer at its sample points (variable call is *)
(* the last such call), sc_event::trigger() at each notification of an     *)
(* observed event, and the advice woven into the design at each location.  *)
(* The observer calls back the monitors of the point in the order of their *)
(* numbers, as an iterator over an std::set goes, so a monitor registered  *)
(* on the way is met when its number is still ahead.  A monitor written by *)
(* hand may create and register monitors and notify events, which nests    *)
(* one dispatch in another.  The generated monitor makes a step: it reads  *)
(* lines until PLASMA asks for a state or quits, and prints a state.       *)
(* Attributes and values in the state are left out, the labels are kept.   *)
(***************************************************************************)
EXTENDS Integers, SequencesExt, FiniteSetsExt

CONSTANTS
    Event, Location,    \* observed events and instrumented locations
    MaxMonitors,        \* monitors that are ever created, numbered from 0
    Generated,          \* the number of the generated monitor
    Clocks,             \* Clocks[m]: where the constructor of m registers m
    Late,               \* pairs <<m, at>>: m may be registered at `at' later
    MaxQueue,           \* bound: lines that PLASMA is ahead
    MaxNest             \* bound: dispatches nested in each other

Monitor == 0..(MaxMonitors - 1)

\* The sample points; the names are those of the functions of mon_observer.
Suspensions == {"method_suspend", "thread_suspend"}
Point == Suspensions \cup
    {"init_begin", "init_update_begin", "init_update_end",
     "init_delta_notification_begin", "init_delta_notification_end", "init_end",
     "delta_cycle_begin", "delta_cycle_end", "evaluate_begin", "evaluate_end",
     "update_begin", "update_end", "deltanotify_begin", "deltanotify_end",
     "timednotify_begin", "timednotify_end"}
Label == Event \cup Location        \* the variables of the generated monitor

ASSUME MonitorsAssumption ==
    /\ MaxMonitors \in Nat /\ Generated \in Monitor
    /\ Clocks \in [Monitor -> SUBSET (Point \cup Label)]
    /\ \A m \in Monitor \ {Generated} : Clocks[m] \cap Location = {}
    /\ Late \subseteq Monitor \X (Point \cup Event)
    /\ Label \cap Point = {} /\ Event \cap Location = {}
    /\ MaxQueue \in Nat /\ MaxNest \in Nat \ {0}

VARIABLES
    num,            \* mon_prototype::num_monitors
    sets,           \* arr_mon_sets and events_to_monitor_sets
    call, todo,     \* last call of the scheduler, points it has yet to sample
    stack,          \* the dispatches in progress, the innermost first
    flags,          \* the labels of the generated monitor
    stdin, plasma,  \* lines written and not read; "on", "quit" or "dead"
    asked,          \* states PLASMA has asked for and not received
    due,            \* history: samples of the generated monitor not reported
    over            \* the process has ended

registry == <<num, sets>>
simulation == <<call, todo, stack>>
dialogue == <<stdin, plasma, asked>>
vars == <<registry, simulation, dialogue, flags, due, over>>

Registered(s, m, ats) ==
    [at \in DOMAIN s |-> IF at \in ats THEN s[at] \cup {m} ELSE s[at]]

\* sc_main has created the monitors up to the generated one.
Init ==
    /\ num = Generated + 1
    /\ sets = [at \in Point \cup Event |-> {m \in 0..Generated : at \in Clocks[m]}]
    /\ call = "main" /\ todo = <<>> /\ stack = <<>>
    /\ flags = [l \in Label |-> FALSE]
    /\ stdin = <<>> /\ plasma = "on" /\ asked = 0
    /\ due = 0 /\ over = FALSE
-----------------------------------------------------------------------------
Top == Head(stack)
InCallback == stack # <<>> /\ Top.busy
Reading == InCallback /\ Last(Top.called) = Generated
InHandWritten == InCallback /\ ~Reading

\* A dispatch begins: it owes a call to every monitor registered now.
Dispatch(at) ==
    /\ stack' = <<[at |-> at, owed |-> sets[at], called |-> <<>>, busy |-> FALSE]>> \o stack
    /\ due' = IF Generated \in sets[at] THEN due + 1 ELSE due

\* Variant: by position, not by number.
AheadByIndex(f) ==
    {m \in sets[f.at] : Cardinality({k \in sets[f.at] : k < m}) = Len(f.called)}

\* it++: the successor in the set as it is now
Ahead(f) ==
    {m \in sets[f.at] : \A i \in 1..Len(f.called) : f.called[i] < m}

\* The callback of the next monitor begins; an event clock raises its label.
CallNext ==
    /\ stack # <<>> /\ ~Top.busy /\ Ahead(Top) # {}
    /\ LET m == Min(Ahead(Top)) IN
       /\ stack' = <<[Top EXCEPT !.called = Append(@, m), !.busy = TRUE]>> \o Tail(stack)
       /\ flags' = IF m = Generated /\ Top.at \in Event
                   THEN [flags EXCEPT ![Top.at] = TRUE] ELSE flags
    /\ UNCHANGED <<registry, call, todo, dialogue, due, over>>

\* Variant: one iterator for all dispatches.
EndDispatchAll ==
    /\ stack # <<>> /\ ~Top.busy /\ Ahead(Top) = {}
    /\ stack' = <<>>
    /\ UNCHANGED <<registry, call, todo, dialogue, flags, due, over>>

\* The loop ends; deltanotify_end() and evaluate_begin() go on to a second one.
EndDispatch ==
    /\ stack # <<>> /\ ~Top.busy /\ Ahead(Top) = {}
    /\ stack' = Tail(stack)
    /\ UNCHANGED <<registry, call, todo, dialogue, flags, due, over>>

NextPoint ==
    /\ stack = <<>> /\ todo # <<>>
    /\ Dispatch(Head(todo))
    /\ todo' = Tail(todo)
    /\ UNCHANGED <<registry, call, dialogue, flags, over>>

HandWrittenReturns ==
    /\ InHandWritten
    /\ stack' = <<[Top EXCEPT !.busy = FALSE]>> \o Tail(stack)
    /\ UNCHANGED <<registry, call, todo, dialogue, flags, due, over>>
-----------------------------------------------------------------------------
\* Variant: any line asks for a state.
PrintsAny == TRUE

\* What a line read by step() does.
Prints == Head(stdin) = "newstate"
Exits == Head(stdin) = "quit"

\* The label of the sample is lowered when step() has returned.
Lowered(at) == IF at \in Label THEN [flags EXCEPT ![at] = FALSE] ELSE flags

Step ==
    /\ Reading /\ stdin # <<>> /\ ~Exits
    /\ stdin' = Tail(stdin)
    /\ IF Prints
       THEN /\ stack' = IF Top.at \in Location THEN Tail(stack)
                        ELSE <<[Top EXCEPT !.busy = FALSE]>> \o Tail(stack)
            /\ flags' = Lowered(Top.at)
            /\ due' = due - 1 /\ asked' = asked - 1
       ELSE UNCHANGED <<stack, flags, due, asked>>
    /\ UNCHANGED <<registry, call, todo, plasma, over>>

\* Variant: step() goes on reading.
QuitContinues ==
    /\ Reading /\ stdin # <<>> /\ Exits
    /\ stdin' = Tail(stdin)
    /\ UNCHANGED <<registry, simulation, plasma, asked, flags, due, over>>

\* #plasma-quit#: the process exits from within the callback.
Quit ==
    /\ Reading /\ stdin # <<>> /\ Exits
    /\ over' = TRUE
    /\ UNCHANGED <<registry, simulation, dialogue, flags, due>>
-----------------------------------------------------------------------------
Evaluating == {"evaluate_begin"} \cup Suspensions
Notifying ==
    {"init_delta_notification_begin", "deltanotify_begin", "timednotify_begin"}
Updating ==
    {"init_update_begin", "init_update_end", "update_begin", "update_end"}

\* The calls that the scheduler can make of the observer after `call'.
Follows ==
    CASE call = "main" -> {"init_begin"}
      [] call = "init_begin" -> {"init_update_begin"}
      [] call = "init_update_begin" -> {"init_update_end"}
      [] call = "init_update_end" -> {"init_delta_notification_begin"}
      [] call = "init_delta_notification_begin" -> {"init_delta_notification_end"}
      [] call = "init_delta_notification_end" -> {"init_end"}
      [] call \in {"init_end", "timednotify_end"} -> {"evaluate_begin"}
      [] call \in Evaluating -> Suspensions \cup {"evaluate_end"}
      [] call = "evaluate_end" -> {"update_begin"}
      [] call = "update_begin" -> {"update_end"}
      [] call = "update_end" -> {"deltanotify_begin"}
      [] call = "deltanotify_begin" -> {"deltanotify_end"}
      [] call = "deltanotify_end" -> {"evaluate_begin", "timednotify_begin"}
      [] call = "timednotify_begin" -> {"timednotify_begin", "timednotify_end"}

Samples(c) ==
    CASE c = "evaluate_begin" -> <<"delta_cycle_begin", c>>
      [] c = "deltanotify_end" -> <<c, "delta_cycle_end">>
      [] OTHER -> <<c>>

\* No call of the observer is in progress.
SimulationRuns == stack = <<>> /\ todo = <<>>

Observe(c) ==
    /\ SimulationRuns /\ c \in Follows
    /\ call' = c /\ todo' = Samples(c)
    /\ UNCHANGED <<registry, stack, dialogue, flags, due, over>>

\* sc_start() and sc_main return: a stop, a pause, or nothing left to do.
Return ==
    /\ SimulationRuns
    /\ call \in {"deltanotify_begin", "deltanotify_end", "timednotify_begin", "timednotify_end"}
                \cup Evaluating
    /\ over' = TRUE
    /\ UNCHANGED <<registry, simulation, dialogue, flags, due>>

\* sc_event::trigger() of an observed event: by the scheduler, by a process
\* or by a callback that notifies it immediately.
Trigger(e) ==
    /\ \/ SimulationRuns /\ call \in Evaluating \cup Notifying
       \/ InHandWritten /\ call \notin Updating /\ Len(stack) < MaxNest
    /\ sets[e] # {}
    /\ Dispatch(e)
    /\ UNCHANGED <<registry, call, todo, dialogue, flags, over>>

\* The advice at a location that is a clock: callback_userloc_l().
Reach(l) ==
    /\ SimulationRuns /\ call \in Evaluating /\ l \in Clocks[Generated]
    /\ stack' = <<[at |-> l, owed |-> {Generated}, called |-> <<Generated>>, busy |-> TRUE]>>
    /\ flags' = [flags EXCEPT ![l] = TRUE]
    /\ due' = due + 1
    /\ UNCHANGED <<registry, call, todo, dialogue, over>>

\* Code of the design or of a callback creates the next monitor.
MayRegister == InHandWritten \/ (SimulationRuns /\ call \in Evaluating)

Create ==
    /\ MayRegister /\ num < MaxMonitors
    /\ num' = num + 1
    /\ sets' = Registered(sets, num, Clocks[num])
    /\ UNCHANGED <<simulation, dialogue, flags, due, over>>

\* register_monitor(); for an event it asserts that the monitor is new.
RegisterMonitor(m, at) ==
    /\ MayRegister /\ m < num /\ m \notin sets[at]
    /\ sets' = Registered(sets, m, {at})
    /\ UNCHANGED <<num, simulation, dialogue, flags, due, over>>
-----------------------------------------------------------------------------
\* PLASMA writes a line; it asks for a state, or for the end, and then no more.
Ask(line) ==
    /\ plasma = "on" /\ Len(stdin) < MaxQueue
    /\ stdin' = Append(stdin, line)
    /\ asked' = IF line = "newstate" THEN asked + 1 ELSE asked
    /\ plasma' = IF line = "quit" THEN "quit" ELSE plasma
    /\ UNCHANGED <<registry, simulation, flags, due, over>>

\* PLASMA ends without a word: the monitor reads the lines that are left, and
\* then finds the end of its input for ever.
Die ==
    /\ plasma = "on" /\ plasma' = "dead"
    /\ UNCHANGED <<registry, simulation, stdin, asked, flags, due, over>>

Callback == CallNext \/ EndDispatch \/ NextPoint \/ HandWrittenReturns
Command == Step \/ Quit
Code ==
    \/ \E e \in Event : Trigger(e)
    \/ \E l \in Location : Reach(l)
    \/ Create \/ \E r \in Late : RegisterMonitor(r[1], r[2])
Advance == \E c \in Point \ Suspensions : c # call /\ Observe(c)
Kernel == \E c \in Point : Observe(c)
Plasma == Die \/ \E line \in {"newstate", "quit", "other"} : Ask(line)

Next == ~over /\ (Callback \/ Command \/ Code \/ Kernel \/ Return \/ Plasma)

Spec == Init /\ [][Next]_vars

(* Callbacks go on, a process that waits for a line gets the one that is   *)
(* there, and the design lets every phase end: it neither notifies events  *)
(* nor wakes processes for ever in one of them.                            *)
FairSpec ==
    /\ Spec
    /\ SF_vars(~over /\ (CallNext \/ EndDispatch \/ HandWrittenReturns))
    /\ WF_vars(~over /\ NextPoint)
    /\ WF_vars(~over /\ Command)
    /\ SF_vars(~over /\ Advance)
-----------------------------------------------------------------------------
Frame == [at : Point \cup Label, owed : SUBSET Monitor,
          called : Seq(Monitor), busy : BOOLEAN]

TypeOK ==
    /\ num \in 0..MaxMonitors
    /\ sets \in [Point \cup Event -> SUBSET (0..(num - 1))]
    /\ call \in Point \cup {"main"}
    /\ todo \in Seq(Point)
    /\ stack \in Seq(Frame) /\ Len(stack) <= MaxNest
    /\ flags \in [Label -> BOOLEAN]
    /\ stdin \in Seq({"newstate", "quit", "other"}) /\ Len(stdin) <= MaxQueue
    /\ plasma \in {"on", "quit", "dead"}
    /\ asked \in Int /\ due \in Int /\ over \in BOOLEAN

(* "Each monitor needs to be triggered when the corresponding sample point *)
(* is reached" (arr_mon_sets): a dispatch passes over no monitor that was  *)
(* registered when it began, whatever is registered under its iterator,    *)
(* and calls back none twice.                                              *)
EachOnce ==
    \A i \in 1..Len(stack) : LET d == stack[i] IN
      /\ IsInjective(d.called)
      /\ d.owed \subseteq ToSet(d.called) \cup {m \in Monitor : \A k \in ToSet(d.called) : k < m}

(* A label "holds immediately when" its event is notified or its location  *)
(* is reached: it is up in the step of that sample and in no other, also   *)
(* when the notification came from within another callback.                *)
LabelsMomentary ==
    \A l \in Label : flags[l] <=> Reading /\ Top.at = l

(* The trace misses no sample: the states that the generated monitor has   *)
(* not reported are those of the dispatches in progress.                   *)
SamplesReported ==
    due = Cardinality({i \in 1..Len(stack) :
             LET d == stack[i] IN
             /\ Generated \in d.owed
             /\ Generated \in ToSet(d.called) => d.busy /\ Last(d.called) = Generated})

(* One state for one request: as long as PLASMA waits for a state, the     *)
(* request is still unread, so simulator and checker never wait for each   *)
(* other.                                                                  *)
OneStatePerRequest ==
    asked = Cardinality({i \in 1..Len(stdin) : stdin[i] = "newstate"})

(* The simulator hears the end: once PLASMA has asked for it the process   *)
(* ends, if one of its clocks is sampled in every delta cycle.             *)
QuitEnds == plasma = "quit" ~> over
=============================================================================
