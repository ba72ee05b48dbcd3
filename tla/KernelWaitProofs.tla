---------------------------- MODULE KernelWaitProofs ----------------------------
(***************************************************************************)
(* What every process waits for and who is in the run queues, proved for   *)
(* any processes, events and reset signals: a process that is queued, and  *)
(* a thread that is owed a run, waits for nothing unless it is to be       *)
(* killed; one that waits is on exactly the lists that can end its wait;   *)
(* and no run is lost.                                                     *)
(*                                                                         *)
(* The code keeps this order in designs without certain combinations of    *)
(* calls, which are named first.                                           *)
(***************************************************************************)
EXTENDS KernelProcessProofs

(* A thread is disabled before the simulation: it gets the ready bit       *)
(* although nothing is owed to it.                                         *)
Tidy == "disablefirst" \notin Op

(* The hypothesis of all theorems of this module.                          *)
(*  - No user exception is thrown at a thread that is owed a run, whose    *)
(*    ready bit throw_user() leaves, and no asynchronous reset is asserted *)
(*    before the first evaluation, which would queue the thread twice.     *)
(*  - A thread disabled before the simulation is not queued by resume(),   *)
(*    nor, which takes corner cases, by enable().                          *)
(*  - No process is forgotten by an immediate stop or by the error of      *)
(*    resume().                                                            *)
(*  - No synchronous reset takes the place of a kill that is pending.      *)
(*  - A method that waits for a thread it has preempted is not triggered,  *)
(*    or does not call next_trigger() afterwards, when it is queued.       *)
Orderly ==
  /\ Op \cap {"throwready", "resetfirst"} = {}
  /\ Tidy \/ (~Corners /\ "resume" \notin Op)
  /\ NothingStranded /\ NoneForgotten
  /\ "kill" \in Op => "syncreset" \notin Op /\ \A x \in Resets : x.async
  /\ "next_trigger" \in Op => Op \cap {"throw", "reset"} = {} /\ \A x \in Resets : ~x.async

(* No exception but the kill makes a suspended thread run.                 *)
Firm == Op \cap {"throw", "reset", "syncreset"} = {} /\ Resets = {}

-------------------------------------------------------------------------------
(* The wait of one process *)

(* A process in state r is on the lists of the events it waits for, and on *)
(* that of its timeout event if its wait has a timeout; a process that is  *)
(* to be killed may have left some.                                        *)
Waiting(r, p) ==
  /\ r.lists \subseteq r.on \cup {p}
  /\ r.timed <=> p \in r.lists
  /\ r.kind = "STATIC" => r.lists = {}
  /\ r.kind = "EVENT" => \E e \in UserEvent \cup Channel : r.on = {e}
  /\ r.kind = "TIMEOUT" => r.on = {} /\ r.timed
  /\ r.kind = "AND" => /\ r.count > 0 /\ Cardinality(r.lists \ {p}) <= r.count
                       /\ r.throw # "KILL" => Cardinality(r.lists \ {p}) = r.count
  /\ r.kind \notin {"STATIC", "AND"} /\ r.throw # "KILL" => r.on \subseteq r.lists

Free(r) == r.kind = "STATIC" /\ ~r.timed /\ r.lists = {}

(* r and s wait for the same.                                              *)
SameWait(r, s) ==
  /\ s.kind = r.kind /\ s.timed = r.timed /\ s.on = r.on /\ s.count = r.count
  /\ s.lists = r.lists

LEMMA FreeWaits ==
    ASSUME NEW r, NEW p, Free(r), r.timed \in BOOLEAN
    PROVE  Waiting(r, p)
BY DEF Free, Waiting

LEMMA WaitsOn ==
    ASSUME NEW r, NEW s, NEW p, Waiting(r, p), SameWait(r, s), r.throw = "KILL" => s.throw = "KILL"
    PROVE  Waiting(s, p)
BY DEF Waiting, SameWait

LEMMA Freed ==
    ASSUME NEW r \in Member, NEW p \in Process, Waiting(r, p)
    PROVE  LET s == RemoveDynamicEvents(r, p) IN
           Free(s) /\ s.state = r.state /\ s.throw = r.throw /\ s.cycles = r.cycles
BY DEF Waiting, Free, Member, RemoveDynamicEvents

LEMMA ListsFinite ==
    ASSUME NEW r \in Member, NEW p
    PROVE  IsFiniteSet(r.lists \ {p}) /\ Cardinality(r.lists \ {p}) \in Nat
<1>1. r.lists \ {p} \subseteq Event
  BY MemberFields
<1>2. IsFiniteSet(r.lists \ {p})
  BY <1>1, Names, FS_Subset
<1> QED BY <1>2, FS_CardinalityType

(* One event less on the lists.                                            *)
LEMMA OneLess ==
    ASSUME NEW r \in Member, NEW p, NEW e, e # p, e \in r.lists
    PROVE  /\ Cardinality((r.lists \ {e}) \ {p}) = Cardinality(r.lists \ {p}) - 1
           /\ Cardinality((r.lists \ {e}) \ {p}) \in Nat
<1>1. (r.lists \ {e}) \ {p} = (r.lists \ {p}) \ {e} /\ e \in r.lists \ {p}
  OBVIOUS
<1>2. /\ IsFiniteSet(r.lists \ {p})
      /\ Cardinality((r.lists \ {p}) \ {e}) = Cardinality(r.lists \ {p}) - 1
  BY <1>1, ListsFinite, FS_RemoveElement
<1>3. IsFiniteSet((r.lists \ {p}) \ {e})
  BY <1>2, FS_Subset
<1> QED BY <1>1, <1>2, <1>3, FS_CardinalityType

(* The wait of a process is over.                                          *)
LEMMA Completes ==
    ASSUME NEW r \in Member, NEW p \in Process, NEW e, Waiting(r, p), e \in r.lists,
           Satisfies(r, p, e)
    PROVE  LET s == Completed(r, p, e) IN
           /\ Free(s) /\ s.throw = r.throw /\ s.cycles = r.cycles
           /\ s.state = IF Has(r, "suspended") THEN r.state \cup {"ready"} ELSE r.state
<1> DEFINE l == r.lists \ ({e} \cup (IF r.timed THEN {p} ELSE {})
                              \cup (IF r.kind = "OR" \/ e = p THEN r.on ELSE {}))
<1>1. LET s == Completed(r, p, e) IN
      /\ s.kind = "STATIC" /\ s.timed = FALSE /\ s.lists = l
      /\ s.throw = r.throw /\ s.cycles = r.cycles
      /\ s.state = IF Has(r, "suspended") THEN r.state \cup {"ready"} ELSE r.state
  BY DEF Member, Completed
<1>2. l = {}
  <2>1. r.lists \subseteq r.on \cup {p} /\ (r.timed <=> p \in r.lists)
    BY DEF Waiting
  <2>2. CASE r.kind = "OR" \/ e = p
    BY <2>1, <2>2
  <2>3. CASE r.kind # "OR" /\ e # p
    <3>1. r.kind \in {"EVENT", "AND", "TIMEOUT"}
      BY <2>3, MemberFields DEF Satisfies
    <3>2. CASE r.kind = "EVENT"
      <4>1. PICK f : r.on = {f}
        BY <3>2 DEF Waiting
      <4> QED BY <2>1, <2>3, <4>1
    <3>3. CASE r.kind = "TIMEOUT"
      BY <2>1, <2>3, <3>3 DEF Waiting
    <3>4. CASE r.kind = "AND"
      <4>1. r.count = 1 /\ Cardinality(r.lists \ {p}) <= 1
        BY <2>3, <3>4 DEF Satisfies, Waiting
      <4>2. Cardinality((r.lists \ {e}) \ {p}) = 0
        <5> DEFINE m == Cardinality((r.lists \ {e}) \ {p})
                   n == Cardinality(r.lists \ {p})
        <5>1. m = n - 1 /\ m \in Nat
          BY <2>3, OneLess
        <5>2. n \in Nat /\ n <= 1
          BY <4>1, ListsFinite
        <5> HIDE DEF m, n
        <5>3. m = 0
          BY <5>1, <5>2
        <5> QED BY <5>3 DEF m
      <4>3. (r.lists \ {e}) \ {p} = {}
        <5>1. IsFiniteSet((r.lists \ {e}) \ {p})
          BY ListsFinite, FS_Subset
        <5> QED BY <4>2, <5>1, FS_EmptySet
      <4> QED BY <2>1, <4>3
    <3> QED BY <3>1, <3>2, <3>3, <3>4
  <2> QED BY <2>2, <2>3
<1> HIDE DEF l
<1> QED BY <1>1, <1>2 DEF Free

(* One more event of an AND list, which is not the last.                   *)
LEMMA Counts ==
    ASSUME NEW r \in Member, NEW p \in Process, NEW e, Waiting(r, p), e \in r.lists,
           r.kind # "STATIC", ~Satisfies(r, p, e)
    PROVE  LET s == Counted(r, e) IN
           /\ Waiting(s, p) /\ e # p /\ s.kind = r.kind /\ s.timed = r.timed
           /\ s.state = r.state /\ s.throw = r.throw /\ s.cycles = r.cycles
<1> DEFINE s == Counted(r, e)
<1>1. r.kind = "AND" /\ e # p /\ r.count # 1
  BY DEF Satisfies
<1>2. /\ s.kind = r.kind /\ s.timed = r.timed /\ s.on = r.on /\ s.count = r.count - 1
      /\ s.lists = r.lists \ {e} /\ s.state = r.state /\ s.throw = r.throw /\ s.cycles = r.cycles
  BY DEF Member, Counted
<1> HIDE DEF s
<1>3. /\ r.count > 0 /\ r.count \in Int /\ Cardinality(r.lists \ {p}) <= r.count
      /\ r.throw # "KILL" => Cardinality(r.lists \ {p}) = r.count
  BY <1>1, MemberFields DEF Waiting
<1>4. /\ Cardinality(s.lists \ {p}) = Cardinality(r.lists \ {p}) - 1
      /\ Cardinality(r.lists \ {p}) \in Nat
  BY <1>1, <1>2, OneLess, ListsFinite
<1>5. /\ s.count > 0 /\ Cardinality(s.lists \ {p}) <= s.count
      /\ s.throw # "KILL" => Cardinality(s.lists \ {p}) = s.count
  <2> DEFINE m == Cardinality(s.lists \ {p})
             n == Cardinality(r.lists \ {p})
  <2>1. m = n - 1 /\ n \in Nat /\ n <= r.count /\ (r.throw # "KILL" => n = r.count)
    BY <1>3, <1>4
  <2> HIDE DEF m, n
  <2>2. s.count > 0 /\ m <= s.count /\ (s.throw # "KILL" => m = s.count)
    BY <1>1, <1>2, <1>3, <2>1
  <2> QED BY <2>2 DEF m
<1>6. s.lists \subseteq s.on \cup {p} /\ (s.timed <=> p \in s.lists)
  BY <1>1, <1>2 DEF Waiting
<1>7. Waiting(s, p)
  BY <1>1, <1>2, <1>5, <1>6 DEF Waiting
<1> QED BY <1>1, <1>2, <1>7 DEF s

(* A process that is to be killed leaves a list.                           *)
LEMMA LeavesList ==
    ASSUME NEW r \in Member, NEW p \in Process, NEW e, Waiting(r, p), e \in r.lists, e # p,
           r.throw = "KILL"
    PROVE  LET s == [r EXCEPT !.lists = @ \ {e}] IN
           /\ Waiting(s, p) /\ s.kind = r.kind /\ s.timed = r.timed
           /\ s.state = r.state /\ s.throw = r.throw /\ s.cycles = r.cycles
<1> DEFINE s == [r EXCEPT !.lists = @ \ {e}]
<1>1. /\ s.kind = r.kind /\ s.timed = r.timed /\ s.on = r.on /\ s.count = r.count
      /\ s.lists = r.lists \ {e} /\ s.state = r.state /\ s.throw = r.throw /\ s.cycles = r.cycles
  BY DEF Member
<1> HIDE DEF s
<1>2. r.kind = "AND" => /\ r.count > 0 /\ r.count \in Int /\ Cardinality(r.lists \ {p}) <= r.count
  BY MemberFields DEF Waiting
<1>3. /\ Cardinality(s.lists \ {p}) = Cardinality(r.lists \ {p}) - 1
      /\ Cardinality(r.lists \ {p}) \in Nat
  <2>1. Cardinality((r.lists \ {e}) \ {p}) = Cardinality(r.lists \ {p}) - 1
    BY OneLess
  <2>2. Cardinality(r.lists \ {p}) \in Nat
    BY ListsFinite
  <2> QED BY <1>1, <2>1, <2>2
<1>4. s.kind = "AND" => s.count > 0 /\ Cardinality(s.lists \ {p}) <= s.count
  <2> DEFINE m == Cardinality(s.lists \ {p})
             n == Cardinality(r.lists \ {p})
  <2>1. m = n - 1 /\ n \in Nat /\ (r.kind = "AND" => n <= r.count)
    BY <1>2, <1>3
  <2> HIDE DEF m, n
  <2>2. s.kind = "AND" => s.count > 0 /\ m <= s.count
    BY <1>1, <1>2, <2>1
  <2> QED BY <2>2 DEF m
<1>5. Waiting(s, p)
  BY <1>1, <1>4 DEF Waiting
<1> QED BY <1>1, <1>5 DEF s

(* A process that waits for nothing begins to wait.                        *)
LEMMA Begins ==
    ASSUME NEW r \in Member, NEW p \in Process, Free(r), NEW b \in BOOLEAN, NEW k, NEW E,
           \/ <<k, E>> \in WaitKinds
           \/ k = "TIMEOUT" /\ E = {} /\ b
    PROVE  LET s == WaitOn(r, p, k, E, b) IN
           /\ Waiting(s, p) /\ s.timed = b /\ s.kind # "STATIC"
           /\ s.state = r.state /\ s.throw = r.throw /\ s.cycles = r.cycles
<1> DEFINE s == WaitOn(r, p, k, E, b)
<1>1. /\ s.kind = k /\ s.timed = b /\ s.on = E
      /\ s.lists = E \cup (IF b THEN {p} ELSE {})
      /\ s.count = IF k = "AND" THEN Cardinality(E) ELSE 0
      /\ s.state = r.state /\ s.throw = r.throw /\ s.cycles = r.cycles
  BY DEF Member, WaitOn, Free
<1> HIDE DEF s
<1>2. /\ k = "EVENT" => \E e \in UserEvent \cup Channel : E = {e}
      /\ k = "AND" => Cardinality(E) = 2
      /\ E \subseteq UserEvent \cup Channel /\ k \in {"EVENT", "OR", "AND", "TIMEOUT"}
      /\ k = "TIMEOUT" => E = {} /\ b
  BY DEF WaitKinds
<1>3. p \notin E
  BY <1>2, Names
<1>4. k = "AND" => s.lists \ {p} = E
  BY <1>1, <1>3
<1>5. Waiting(s, p)
  <2>1. k = "AND" => Cardinality(s.lists \ {p}) = 2 /\ s.count = 2
    BY <1>1, <1>2, <1>4
  <2>2. 2 > 0 /\ 2 <= 2
    OBVIOUS
  <2>3. k = "AND" => s.count > 0 /\ Cardinality(s.lists \ {p}) <= s.count
                     /\ Cardinality(s.lists \ {p}) = s.count
    BY <2>1, <2>2
  <2> QED BY <1>1, <1>2, <1>3, <2>3 DEF Waiting
<1> QED BY <1>1, <1>2, <1>5 DEF s

-------------------------------------------------------------------------------
(* The invariant *)

InQueue(p) == p \in Queued(methods) \cup Queued(threads)

Evaluating == phase \in {"methods", "threads"}

(* A process waits as above, and its timeout event is pending exactly      *)
(* while its wait has a timeout.                                           *)
Listed(p) == Waiting(proc[p], p) /\ (pend[p] # None <=> proc[p].timed)

(* A process that is queued waits for nothing, unless it is there to be    *)
(* killed; so does a thread that runs or has the ready bit.  Who has that  *)
(* bit is suspended, and whoever is owed a run has waited all its cycles.  *)
Owed(p) ==
  LET r    == proc[p]
      runs == p \in Thread /\ p = active
  IN
  /\ r.throw = "KILL" => "kill" \in Op
  /\ InQueue(p) /\ r.kind # "STATIC" => r.throw = "KILL" /\ Evaluating
  /\ runs => ~InQueue(p) /\ (r.kind # "STATIC" => r.throw = "KILL")
  /\ Has(r, "ready") /\ (p \in Method \/ Tidy) => Has(r, "suspended")
  /\ p \in Method /\ InQueue(p) => ~Has(r, "suspended")
  /\ p \in Thread /\ Has(r, "ready") /\ Tidy => r.kind = "STATIC" \/ r.throw = "KILL"
  /\ p \in Thread /\ (runs \/ InQueue(p)) /\ r.throw # "KILL" =>
       /\ Tidy => ~Has(r, "ready")
       /\ Firm => ~Has(r, "suspended")
  /\ "CYCLES" \notin Op => r.cycles = 0
  /\ /\ "throw" \notin Op /\ p \in Thread
     /\ runs \/ InQueue(p) \/ (Tidy /\ Has(r, "ready")) \/ r.kind # "STATIC"
     => r.cycles = 0

Sound(p) == Listed(p) /\ Owed(p)

(* Before the first evaluation nothing is queued, nothing waits and no     *)
(* asynchronous reset is about to change.                                  *)
Quiet ==
  /\ Queued(methods) = {} /\ Queued(threads) = {}
  /\ \A p \in Process : proc[p].kind = "STATIC" /\ proc[p].cycles = 0
  /\ \A x \in Resets : x.async => x.channel \notin requests

Early == run.status = "elaboration" \/ phase = "initupdate" => Quiet

(* A method that calls next_trigger() is not queued: what it preempts is a *)
(* thread that is to be killed, and no other thread runs in between.       *)
Kept ==
  "next_trigger" \in Op =>
    /\ phase # "threads" => threads.pop = <<>>
    /\ active \in Method => active \notin Queued(methods)
    /\ caller # NoProcess =>
         /\ caller \notin Queued(methods)
         /\ active # NoProcess => proc[active].throw = "KILL"

Stopped == run.forced => "stop" \in Op

WaitInv ==
  /\ Once(methods) /\ Once(threads)
  /\ \A p \in Process : Sound(p)
  /\ Early /\ Kept /\ Stopped

(* What the steps start from.                                              *)
Inv == Orderly /\ IInv /\ ThreadInv /\ WaitInv

(* What holds of a process that calls the kernel.                          *)
LEMMA Caller ==
    ASSUME Inv, NEW op, Calls(op)
    PROVE  /\ op \in Op /\ stranded = {}
           /\ active \in Thread => /\ proc[active].throw # "KILL" /\ proc[active].kind = "STATIC"
                                   /\ ~InQueue(active)
           /\ active # NoProcess => /\ Evaluating /\ Started /\ proc[active].throw # "KILL"
                                    /\ "next_trigger" \in Op => caller = NoProcess
           /\ active = NoProcess => phase = "main" /\ caller = NoProcess
<1>1. op \in Op /\ stranded = {}
  BY DEF Calls, Inv, ThreadInv, Tracked, Orderly
<1>2. active # NoProcess => Evaluating /\ Started /\ proc[active].throw # "KILL"
  BY DEF Calls, Inv, IInv, Control, Evaluating, Started
<1>3. active = NoProcess => phase = "main" /\ caller = NoProcess
  BY DEF Calls, Inv, IInv, Control
<1>4. "next_trigger" \in Op /\ active # NoProcess => caller = NoProcess
  BY <1>2 DEF Inv, WaitInv, Kept
<1>5. ASSUME active \in Thread PROVE proc[active].kind = "STATIC" /\ ~InQueue(active)
  <2>1. active \in Process /\ active # NoProcess
    BY <1>5, Names
  <2>2. Owed(active)
    BY <2>1 DEF Inv, WaitInv, Sound
  <2> QED BY <1>2, <1>5, <2>1, <2>2 DEF Owed
<1>6. active \in Thread => active # NoProcess
  BY Names
<1> QED BY <1>1, <1>2, <1>3, <1>4, <1>5, <1>6

(* A step that leaves the record of q alone and puts it in no queue.       *)
LEMMA Aside ==
    ASSUME NEW q \in Process, Sound(q), proc'[q] = proc[q],
           pend'[q] # None <=> pend[q] # None,
           InQueue(q)' => InQueue(q), InQueue(q)' /\ Evaluating => Evaluating',
           q \in Thread /\ q = active' => q = active
    PROVE  Sound(q)'
<1>1. Listed(q)'
  BY DEF Sound, Listed, Waiting
<1>2. Owed(q)'
  BY DEF Sound, Owed, Has
<1> QED BY <1>1, <1>2 DEF Sound

(* A step that changes neither what q waits for nor its exceptions.        *)
LEMMA Aligned ==
    ASSUME NEW q \in Process, Sound(q), SameWait(proc[q], proc'[q]),
           proc'[q].throw = proc[q].throw,
           pend'[q] # None <=> pend[q] # None
    PROVE  Listed(q)'
<1>1. Waiting(proc'[q], q)
  BY WaitsOn DEF Sound, Listed
<1>2. (pend'[q] # None <=> proc'[q].timed) /\ Waiting(proc[q], q)' = Waiting(proc'[q], q)
  BY DEF Sound, Listed, SameWait, Waiting
<1> QED BY <1>1, <1>2 DEF Listed

(* A process that waits for nothing after the step.                        *)
LEMMA Unlisted ==
    ASSUME NEW q \in Process, Free(proc'[q]), pend'[q] = None
    PROVE  Listed(q)'
BY DEF Free, Listed, Waiting

(* A process that waits for nothing, says its invariant.                   *)
LEMMA StaticFree ==
    ASSUME NEW r \in Member, NEW p, Waiting(r, p), r.kind = "STATIC"
    PROVE  Free(r)
BY MemberFields DEF Waiting, Free

LEMMA ResumedWait ==
    ASSUME NEW r \in Member
    PROVE  LET s == Resumed(r) IN
           /\ SameWait(r, s) /\ s.state = r.state /\ s.cycles = r.cycles
           /\ s.throw = "KILL" <=> r.throw = "KILL"
<1>1. CASE r.throw = "KILL" \/ (r.throw = "NONE" /\ r.stack)
  BY <1>1 DEF Resumed, SameWait
<1>2. CASE ~(r.throw = "KILL" \/ (r.throw = "NONE" /\ r.stack))
  <2> DEFINE s == [r EXCEPT !.stack = TRUE, !.throw = Standing(r)]
  <2>1. Resumed(r) = s /\ Standing(r) # "KILL"
    BY <1>2 DEF Resumed, Standing
  <2>2. /\ s.kind = r.kind /\ s.timed = r.timed /\ s.on = r.on /\ s.count = r.count
        /\ s.lists = r.lists /\ s.state = r.state /\ s.cycles = r.cycles /\ s.throw = Standing(r)
    BY DEF Member
  <2> HIDE DEF s
  <2> QED BY <1>2, <2>1, <2>2 DEF SameWait
<1> QED BY <1>1, <1>2

(* A reset that does not make a thread run.                                *)
LEMMA ResetWaits ==
    ASSUME NEW r \in Member, NEW p \in Process, NEW async \in BOOLEAN,
           NEW asserted \in BOOLEAN, NEW running \in BOOLEAN, ~(async /\ asserted /\ running)
    PROVE  LET s == ResetChanged(r, p, async, asserted, running) IN
           /\ SameWait(r, s) /\ s.state = r.state /\ s.cycles \in {r.cycles, 0}
           /\ s.throw \in {r.throw, "NONE", "SYNC"}
           /\ s.throw = "KILL" => r.throw = "KILL"
           /\ r.throw = "KILL" /\ s.throw # "KILL" => ~async /\ asserted
<1> DEFINE n == IF asserted THEN 1 ELSE -1
           counted == IF async THEN [r EXCEPT !.areset = @ + n] ELSE [r EXCEPT !.reset = @ + n]
           reset   == [counted EXCEPT !.throw = "SYNC", !.cycles = 0]
           thrown  == IF asserted /\ running THEN reset ELSE counted
           s       == ResetChanged(r, p, async, asserted, running)
<1>1. /\ SameWait(r, counted) /\ counted.state = r.state /\ counted.cycles = r.cycles
      /\ counted.throw = r.throw
  BY DEF Member, SameWait
<1>2. counted \in [state : SUBSET {"disabled", "suspended", "ready", "zombie"},
        kind : {"STATIC", "EVENT", "OR", "AND", "TIMEOUT"}, timed : BOOLEAN,
        on : SUBSET (UserEvent \cup Channel), count : Int, cycles : Nat, lists : SUBSET Event,
        throw : {"NONE", "KILL", "SYNC", "ASYNC", "USER"}, stack : BOOLEAN,
        areset : Int, reset : Int, sticky : BOOLEAN]
  BY DEF Member
<1>3. /\ SameWait(r, reset) /\ reset.state = r.state /\ reset.cycles = 0 /\ reset.throw = "SYNC"
  BY <1>1, <1>2 DEF SameWait
<1>4. thrown \in Member
  <2> HIDE DEF counted
  <2>1. counted \in Member
    BY <1>2 DEF Member
  <2>2. reset \in Member
    BY <2>1 DEF Member
  <2> QED BY <2>1, <2>2
<1>5. /\ SameWait(r, thrown) /\ thrown.state = r.state /\ thrown.cycles \in {r.cycles, 0}
      /\ thrown.throw = IF asserted /\ running THEN "SYNC" ELSE r.throw
  BY <1>1, <1>3
<1>6. s = r \/ s = thrown \/ (s = [thrown EXCEPT !.throw = "NONE"] /\ thrown.throw # "KILL")
  BY DEF ResetChanged, Reset
<1>7. LET t == [thrown EXCEPT !.throw = "NONE"] IN
      /\ SameWait(r, t) /\ t.state = r.state /\ t.cycles \in {r.cycles, 0} /\ t.throw = "NONE"
  <2> HIDE DEF thrown
  <2> QED BY <1>4, <1>5 DEF Member, SameWait
<1>8. SameWait(r, r)
  BY DEF SameWait
<1> HIDE DEF thrown, s
<1>9. thrown.throw # "KILL" => r.throw # "KILL" \/ (asserted /\ running)
  BY <1>5
<1>10. CASE s = r
  BY <1>8, <1>10 DEF s
<1>11. CASE s = thrown
  BY <1>5, <1>9, <1>11 DEF s
<1>12. CASE s = [thrown EXCEPT !.throw = "NONE"] /\ thrown.throw # "KILL"
  BY <1>7, <1>9, <1>12 DEF s
<1> QED BY <1>6, <1>10, <1>11, <1>12

(* A reset that does: the thread waits for nothing and is owed nothing.    *)
LEMMA ResetFrees ==
    ASSUME NEW r \in Member, NEW p \in Process, Waiting(r, p)
    PROVE  LET s == Reset(r, p, TRUE) IN
           /\ Free(s) /\ s.state = r.state \ {"ready"} /\ s.cycles = 0 /\ s.throw = "ASYNC"
<1> DEFINE c == Clear(r, "ready")
           f == RemoveDynamicEvents(c, p)
<1>1. c \in Member /\ SameWait(r, c) /\ c.throw = r.throw /\ c.state = r.state \ {"ready"}
  BY MemberStep DEF Member, Clear, SameWait
<1>2. f \in Member
  BY <1>1, MemberStep
<1> HIDE DEF c
<1>3. Waiting(c, p)
  BY <1>1, WaitsOn
<1>4. Free(f) /\ f.state = c.state
  BY <1>1, <1>3, Freed
<1>5. Reset(r, p, TRUE) = [f EXCEPT !.throw = "ASYNC", !.cycles = 0]
  BY DEF Reset, c
<1> HIDE DEF f
<1>6. LET s == [f EXCEPT !.throw = "ASYNC", !.cycles = 0] IN
      /\ Free(s) /\ s.state = f.state /\ s.cycles = 0 /\ s.throw = "ASYNC"
  BY <1>2, <1>4 DEF Member, Free
<1> QED BY <1>1, <1>4, <1>5, <1>6

(* What the invariant says of one process.                                 *)
LEMMA Facts ==
    ASSUME Inv, NEW q \in Process
    PROVE  /\ proc[q] \in Member /\ q # NoProcess /\ Sound(q)
           /\ Waiting(proc[q], q) /\ (pend[q] # None <=> proc[q].timed) /\ Owed(q)
           /\ proc[q].kind = "STATIC" => Free(proc[q])
           /\ q \in Runnable <=> InQueue(q)
           /\ stranded = {} /\ Once(methods) /\ Once(threads)
           /\ active # NoProcess => Evaluating
<1>1. proc[q] \in Member /\ q # NoProcess /\ Sound(q) /\ (active # NoProcess => Evaluating)
  BY Names DEF Inv, IInv, ProcOk, WaitInv, Control, Evaluating
<1>2. stranded = {} /\ Once(methods) /\ Once(threads)
  BY DEF Inv, ThreadInv, Tracked, Orderly, WaitInv
<1>3. Waiting(proc[q], q) /\ (pend[q] # None <=> proc[q].timed) /\ Owed(q)
  BY <1>1 DEF Sound, Listed
<1>4. proc[q].kind = "STATIC" => Free(proc[q])
  BY <1>1, <1>3, StaticFree
<1> QED BY <1>1, <1>2, <1>3, <1>4 DEF Runnable, InQueue

(* An event fires.                                                         *)
Fires(e, v) ==
  /\ e \in Event /\ v \in Vector(Event)
  /\ \A f \in Event \ {e} : pend[f] = Delta => RemovableDelta(v, f)
  /\ Trigger(e, pend, v)
  /\ e \in Process => ~Evaluating
  /\ active # NoProcess => proc[active].throw # "KILL"
  /\ UNCHANGED <<active, phase>>

(* What the event does to the process q: nothing, one static trigger, the  *)
(* end of its wait, one event less of an AND list, one list less of a      *)
(* process that is to be killed, the timeout of a disabled process.        *)
Passes(q, e) ==
  /\ proc'[q] = proc[q]
  /\ ~Wakes(q, e) /\ (q = e => ~proc[q].timed) /\ ~DropsTimeout(q, e)

Ticks(q, e) ==
  LET r == proc[q]
      s == proc'[q]
  IN
  /\ StaticTrigger(q, e) /\ e # q /\ ~DropsTimeout(q, e)
  /\ \/ r.cycles > 0 /\ s = [r EXCEPT !.cycles = @ - 1] /\ ~Wakes(q, e)
     \/ r.cycles = 0 /\ Has(r, "suspended") /\ s = Set(r, "ready") /\ ~Wakes(q, e)
     \/ r.cycles = 0 /\ ~Has(r, "suspended") /\ s = r /\ Wakes(q, e)

Ends(q, e) ==
  /\ DynamicTrigger(q, e) /\ q # active /\ Satisfies(proc[q], q, e)
  /\ proc'[q] = Completed(proc[q], q, e)
  /\ Wakes(q, e) <=> ~Has(proc[q], "suspended")
  /\ DropsTimeout(q, e) <=> proc[q].timed /\ e # q

OneEvent(q, e) ==
  /\ DynamicTrigger(q, e) /\ ~Satisfies(proc[q], q, e)
  /\ proc'[q] = Counted(proc[q], e)
  /\ ~Wakes(q, e) /\ ~DropsTimeout(q, e)

OneList(q, e) ==
  /\ e \in proc[q].lists /\ e # q /\ proc[q].throw = "KILL"
  /\ proc'[q] = [proc[q] EXCEPT !.lists = @ \ {e}]
  /\ ~Wakes(q, e) /\ ~DropsTimeout(q, e)

TimesOut(q, e) ==
  /\ e = q /\ ~InQueue(q) /\ q # active
  /\ proc[q].timed /\ Has(proc[q], "disabled")
  /\ proc'[q] = RemoveDynamicEvents(proc[q], q)
  /\ ~Wakes(q, e) /\ ~DropsTimeout(q, e)

LEMMA Outcomes ==
    ASSUME Inv, NEW e, NEW v, Fires(e, v), NEW q \in Process
    PROVE  \/ Passes(q, e) \/ Ticks(q, e) \/ Ends(q, e)
           \/ OneEvent(q, e) \/ OneList(q, e) \/ TimesOut(q, e)
<1> DEFINE r == proc[q]
<1>1. /\ r \in Member /\ Waiting(r, q) /\ Owed(q) /\ (q \in Runnable <=> InQueue(q))
      /\ q # NoProcess /\ (active # NoProcess => Evaluating)
  BY Facts
<1>2. proc'[q] = Triggered(q, e)
  BY DEF Fires, Trigger
<1>3. r.cycles \in Nat /\ (r.timed <=> q \in r.lists) /\ (r.kind = "STATIC" => r.lists = {})
  BY <1>1, MemberFields DEF Waiting
<1>4. e \in Static[q] => e # q
  BY Names, KernelAssumption
<1>5. e = q => active = NoProcess /\ (InQueue(q) => r.kind = "STATIC")
  BY <1>1 DEF Fires, Owed
<1>6. q = active => q \in Method \/ r.kind = "STATIC"
  BY <1>1, Names DEF Fires, Owed
<1> HIDE DEF r
<1>7. CASE StaticTrigger(q, e)
  <2>1. /\ e # q /\ r.kind = "STATIC" /\ ~DynamicTrigger(q, e) /\ ~DropsTimeout(q, e)
        /\ e \notin r.lists /\ ~TimesOutDisabled(q, e) /\ q # active
    BY <1>3, <1>4, <1>7 DEF StaticTrigger, DynamicTrigger, DropsTimeout, TimesOutDisabled, r
  <2>2. CASE r.cycles > 0
    <3>1. proc'[q] = [r EXCEPT !.cycles = @ - 1]
      BY <1>2, <1>7, <2>1, <2>2 DEF Triggered, r
    <3>2. ~Wakes(q, e)
      BY <2>1, <2>2 DEF Wakes, Ready, r
    <3> QED BY <1>7, <2>1, <2>2, <3>1, <3>2 DEF Ticks, r
  <2>3. CASE r.cycles = 0
    <3>1. Ready(q, e)
      BY <1>7, <2>3 DEF Ready, r
    <3>2. proc'[q] = IF Has(r, "suspended") THEN Set(r, "ready") ELSE r
      BY <1>2, <1>7, <2>1, <2>3 DEF Triggered, r
    <3>3. Wakes(q, e) <=> ~Has(r, "suspended")
      BY <3>1 DEF Wakes, r
    <3> QED BY <1>7, <2>1, <2>3, <3>2, <3>3 DEF Ticks, r
  <2> QED BY <1>3, <2>2, <2>3
<1>8. CASE DynamicTrigger(q, e)
  <2>1. ~StaticTrigger(q, e) /\ q # active /\ q \notin Runnable /\ ~TimesOutDisabled(q, e)
    BY <1>6, <1>8, Names DEF StaticTrigger, DynamicTrigger, TimesOutDisabled, r
  <2>2. CASE Satisfies(r, q, e)
    <3>1. proc'[q] = Completed(r, q, e)
      BY <1>2, <1>8, <2>1, <2>2 DEF Triggered, r
    <3>2. Wakes(q, e) <=> ~Has(r, "suspended")
      BY <1>8, <2>1, <2>2 DEF Wakes, Ready, r
    <3>3. DropsTimeout(q, e) <=> r.timed /\ e # q
      BY <1>8, <2>2 DEF DropsTimeout, r
    <3> QED BY <1>8, <2>1, <2>2, <3>1, <3>2, <3>3 DEF Ends, r
  <2>3. CASE ~Satisfies(r, q, e)
    <3>1. proc'[q] = Counted(r, e)
      BY <1>2, <1>8, <2>1, <2>3 DEF Triggered, r
    <3>2. ~Wakes(q, e) /\ ~DropsTimeout(q, e)
      BY <2>1, <2>3 DEF Wakes, Ready, DropsTimeout, r
    <3> QED BY <1>8, <2>3, <3>1, <3>2 DEF OneEvent, r
  <2> QED BY <2>2, <2>3
<1>9. CASE ~StaticTrigger(q, e) /\ ~DynamicTrigger(q, e)
  <2>1. ~Wakes(q, e) /\ ~DropsTimeout(q, e)
    BY <1>9 DEF Wakes, Ready, DropsTimeout
  <2>2. CASE e \in r.lists /\ q \in Runnable
    <3>1. proc'[q] = [r EXCEPT !.lists = @ \ {e}]
      BY <1>2, <1>9, <2>2 DEF Triggered, TimesOutDisabled, r
    <3>2. r.kind # "STATIC" /\ r.throw = "KILL" /\ e # q
      BY <1>1, <1>3, <1>5, <2>2 DEF Owed, r
    <3> QED BY <2>1, <2>2, <3>1, <3>2 DEF OneList, r
  <2>3. CASE TimesOutDisabled(q, e)
    <3>1. /\ proc'[q] = RemoveDynamicEvents(r, q) /\ e = q /\ q \notin Runnable
          /\ r.timed /\ Has(r, "disabled")
      BY <1>2, <1>3, <1>9, <2>3 DEF Triggered, TimesOutDisabled, r
    <3>2. q # active
      BY <1>1, <1>5, <3>1
    <3> QED BY <1>1, <2>1, <3>1, <3>2 DEF TimesOut, r
  <2>4. CASE ~(e \in r.lists /\ q \in Runnable) /\ ~TimesOutDisabled(q, e)
    <3>1. proc'[q] = r
      BY <1>2, <1>9, <2>4 DEF Triggered, r
    <3>2. q = e => ~r.timed
      <4>1. SUFFICES ASSUME q = e, r.timed PROVE FALSE
        OBVIOUS
      <4>2. e \in r.lists /\ q \notin Runnable /\ ~Has(r, "disabled") /\ r.kind # "STATIC"
        BY <1>3, <2>4, <4>1 DEF TimesOutDisabled, r
      <4>3. q # active
        BY <1>1, <1>5, <4>1
      <4> QED BY <1>9, <4>2, <4>3 DEF DynamicTrigger, r
    <3> QED BY <2>1, <3>1, <3>2 DEF Passes, r
  <2> QED BY <2>2, <2>3, <2>4
<1> QED BY <1>7, <1>8, <1>9

LEMMA FiringSound ==
    ASSUME Inv, NEW e, NEW v, Fires(e, v), NEW q \in Process
    PROVE  Sound(q)'
<1> DEFINE r == proc[q]
           s == proc'[q]
<1>1. /\ r \in Member /\ Sound(q) /\ Waiting(r, q) /\ (pend[q] # None <=> r.timed) /\ Owed(q)
      /\ r.kind = "STATIC" => Free(r)
      /\ q \in Runnable <=> InQueue(q)
  BY Facts
<1>2. /\ pend'[q] = IF q = e \/ DropsTimeout(q, e) THEN None ELSE pend[q]
      /\ InQueue(q)' <=> InQueue(q) \/ Wakes(q, e)
  <2>1. /\ pend' = [f \in Event |-> IF f = e \/ (f \in Process /\ DropsTimeout(f, e)) THEN None
                                                                               ELSE pend[f]]
        /\ Queued(methods)' = Queued(methods) \cup {p \in Method : Wakes(p, e)}
        /\ Queued(threads)' = Queued(threads) \cup {p \in Thread : Wakes(p, e)}
    BY Triggering DEF Fires, Inv, IInv, StoresOk
  <2> QED BY <2>1, Names DEF InQueue
<1>3. active' = active /\ (Evaluating' <=> Evaluating)
  BY DEF Fires, Evaluating
<1>4. r.cycles \in Nat
  BY <1>1, MemberFields
<1>5. r.lists \subseteq Event /\ (r.timed <=> q \in r.lists)
  BY <1>1, MemberFields DEF Waiting
<1>6. CASE Passes(q, e)
  BY <1>1, <1>2, <1>3, <1>6, Aside DEF Passes
<1>7. CASE Ticks(q, e)
  <2>0. /\ StaticTrigger(q, e) /\ e # q /\ ~DropsTimeout(q, e)
        /\ \/ r.cycles > 0 /\ s = [r EXCEPT !.cycles = @ - 1] /\ ~Wakes(q, e)
           \/ r.cycles = 0 /\ Has(r, "suspended") /\ s = Set(r, "ready") /\ ~Wakes(q, e)
           \/ r.cycles = 0 /\ ~Has(r, "suspended") /\ s = r /\ Wakes(q, e)
    BY <1>7 DEF Ticks
  <2>1. r.kind = "STATIC" /\ q # active /\ ~InQueue(q) /\ pend'[q] = pend[q]
    BY <1>1, <1>2, <2>0 DEF StaticTrigger
  <2>2. /\ SameWait(r, s) /\ s.throw = r.throw
        /\ s.state = IF r.cycles = 0 /\ Has(r, "suspended") THEN r.state \cup {"ready"} ELSE r.state
        /\ r.cycles = 0 => s.cycles = 0
    <3> HIDE DEF r, s
    <3>1. CASE r.cycles > 0 /\ s = [r EXCEPT !.cycles = @ - 1]
      BY <1>1, <1>4, <3>1 DEF Member, SameWait
    <3>2. CASE r.cycles = 0 /\ Has(r, "suspended") /\ s = Set(r, "ready")
      BY <1>1, <3>2 DEF Member, Set, SameWait
    <3>3. CASE r.cycles = 0 /\ ~Has(r, "suspended") /\ s = r
      BY <3>3 DEF SameWait
    <3> QED BY <2>0, <3>1, <3>2, <3>3
  <2>3. Listed(q)'
    BY <1>1, <2>1, <2>2, Aligned
  <2>4. InQueue(q)' => r.cycles = 0 /\ ~Has(r, "suspended")
    BY <1>2, <1>4, <2>0, <2>1
  <2>5. Owed(q)'
    <3>1. s.kind = "STATIC" /\ (r.cycles = 0 \/ ~InQueue(q)')
      BY <2>1, <2>2, <2>4 DEF SameWait
    <3> HIDE DEF r, s
    <3>2. Has(s, "suspended") <=> Has(r, "suspended")
      BY <2>2 DEF Has
    <3>3. Has(s, "ready") => Has(r, "ready") \/ (Has(r, "suspended") /\ r.cycles = 0)
      BY <2>2 DEF Has
    <3>4. Has(s, "ready") /\ (q \in Method \/ Tidy) => Has(s, "suspended")
      BY <1>1, <3>2, <3>3 DEF Owed, r
    <3> QED BY <1>1, <1>3, <2>1, <2>2, <2>4, <3>1, <3>2, <3>3, <3>4 DEF Owed, Has, r, s
  <2> QED BY <2>3, <2>5 DEF Sound
<1>8. CASE Ends(q, e)
  <2>0. /\ DynamicTrigger(q, e) /\ q # active /\ Satisfies(r, q, e) /\ s = Completed(r, q, e)
        /\ Wakes(q, e) <=> ~Has(r, "suspended")
        /\ DropsTimeout(q, e) <=> r.timed /\ e # q
    BY <1>8 DEF Ends
  <2>1. e \in r.lists /\ ~InQueue(q) /\ r.kind # "STATIC"
    BY <1>1, <2>0 DEF DynamicTrigger
  <2>2. /\ Free(s) /\ s.throw = r.throw /\ s.cycles = r.cycles
        /\ s.state = IF Has(r, "suspended") THEN r.state \cup {"ready"} ELSE r.state
    <3> HIDE DEF r, s
    <3>1. LET t == Completed(r, q, e) IN
          /\ Free(t) /\ t.throw = r.throw /\ t.cycles = r.cycles
          /\ t.state = IF Has(r, "suspended") THEN r.state \cup {"ready"} ELSE r.state
      BY <1>1, <2>0, <2>1, Completes
    <3> QED BY <2>0, <3>1
  <2>3. pend'[q] = None
    BY <1>1, <1>2, <2>0
  <2>4. Listed(q)'
    BY <2>2, <2>3, Unlisted
  <2>5. Owed(q)'
    <3>1. s.kind = "STATIC"
      BY <2>2 DEF Free
    <3> HIDE DEF r, s
    <3>2. Has(s, "suspended") <=> Has(r, "suspended")
      BY <2>2 DEF Has
    <3>3. Has(s, "ready") => Has(r, "ready") \/ Has(r, "suspended")
      BY <2>2 DEF Has
    <3>4. Has(s, "ready") /\ (q \in Method \/ Tidy) => Has(s, "suspended")
      BY <1>1, <3>2, <3>3 DEF Owed, r
    <3>5. "throw" \notin Op /\ q \in Thread => s.cycles = 0
      BY <1>1, <2>1, <2>2 DEF Owed, r
    <3> QED BY <1>1, <1>2, <1>3, <2>0, <2>1, <2>2, <3>1, <3>2, <3>4, <3>5 DEF Owed, Has, r, s
  <2> QED BY <2>4, <2>5 DEF Sound
<1>9. CASE OneEvent(q, e)
  <2>0. /\ DynamicTrigger(q, e) /\ ~Satisfies(r, q, e) /\ s = Counted(r, e)
        /\ ~Wakes(q, e) /\ ~DropsTimeout(q, e)
    BY <1>9 DEF OneEvent
  <2>1. /\ Waiting(s, q) /\ e # q /\ s.kind = r.kind /\ s.timed = r.timed
        /\ s.state = r.state /\ s.throw = r.throw /\ s.cycles = r.cycles
    <3>1. e \in r.lists /\ r.kind # "STATIC"
      BY <2>0 DEF DynamicTrigger
    <3> HIDE DEF r, s
    <3>2. LET t == Counted(r, e) IN
          /\ Waiting(t, q) /\ e # q /\ t.kind = r.kind /\ t.timed = r.timed
          /\ t.state = r.state /\ t.throw = r.throw /\ t.cycles = r.cycles
      BY <1>1, <2>0, <3>1, Counts
    <3> QED BY <2>0, <3>2
  <2> QED BY <1>1, <1>2, <1>3, <2>0, <2>1 DEF Sound, Listed, Waiting, Owed, Has
<1>10. CASE OneList(q, e)
  <2>0. /\ e \in r.lists /\ e # q /\ r.throw = "KILL" /\ s = [r EXCEPT !.lists = @ \ {e}]
        /\ ~Wakes(q, e) /\ ~DropsTimeout(q, e)
    BY <1>10 DEF OneList
  <2>1. /\ Waiting(s, q) /\ s.kind = r.kind /\ s.timed = r.timed
        /\ s.state = r.state /\ s.throw = r.throw /\ s.cycles = r.cycles
    <3> HIDE DEF r, s
    <3>1. LET t == [r EXCEPT !.lists = @ \ {e}] IN
          /\ Waiting(t, q) /\ t.kind = r.kind /\ t.timed = r.timed
          /\ t.state = r.state /\ t.throw = r.throw /\ t.cycles = r.cycles
      BY <1>1, <2>0, LeavesList
    <3> QED BY <2>0, <3>1
  <2> QED BY <1>1, <1>2, <1>3, <2>0, <2>1 DEF Sound, Listed, Waiting, Owed, Has
<1>11. CASE TimesOut(q, e)
  <2>0. /\ e = q /\ ~InQueue(q) /\ q # active /\ s = RemoveDynamicEvents(r, q)
        /\ ~Wakes(q, e) /\ ~DropsTimeout(q, e)
    BY <1>11 DEF TimesOut
  <2>1. Free(s) /\ s.state = r.state /\ s.throw = r.throw /\ s.cycles = r.cycles
    <3> HIDE DEF r, s
    <3>1. LET t == RemoveDynamicEvents(r, q) IN
          Free(t) /\ t.state = r.state /\ t.throw = r.throw /\ t.cycles = r.cycles
      BY <1>1, Freed
    <3> QED BY <2>0, <3>1
  <2>2. Listed(q)'
    BY <1>2, <2>0, <2>1, Unlisted
  <2>3. Owed(q)'
    BY <1>1, <1>2, <1>3, <2>0, <2>1 DEF Owed, Has, Free
  <2> QED BY <2>2, <2>3 DEF Sound
<1>12. \/ Passes(q, e) \/ Ticks(q, e) \/ Ends(q, e)
       \/ OneEvent(q, e) \/ OneList(q, e) \/ TimesOut(q, e)
  BY Outcomes
<1> QED BY <1>6, <1>7, <1>8, <1>9, <1>10, <1>11, <1>12

-------------------------------------------------------------------------------
(* The steps of a process or of sc_main *)

(* notify() fires its event.                                               *)
LEMMA NotifyFires ==
    ASSUME Inv, NEW e \in UserEvent, NotifyNow(e)
    PROVE  Fires(e, VectorWithout(e))
<1>1. Calls("notify") /\ Trigger(e, pend, VectorWithout(e)) /\ UNCHANGED <<active, phase>>
  BY DEF NotifyNow, control
<1>2. active # NoProcess => proc[active].throw # "KILL"
  BY <1>1, Caller
<1>3. e \in Event /\ e \notin Process
  BY Names
<1>4. VectorWithout(e) \in Vector(Event) /\ \A f \in Event \ {e} : pend[f] = Delta => RemovableDelta(VectorWithout(e), f)
  BY <1>3, Without DEF Inv, IInv
<1> QED BY <1>1, <1>2, <1>3, <1>4 DEF Fires

LEMMA EventsSound ==
    ASSUME Inv, EventOperation, NEW q \in Process
    PROVE  Sound(q)'
<1>1. ASSUME NEW e \in UserEvent, NotifyNow(e) PROVE Sound(q)'
  BY <1>1, NotifyFires, FiringSound
<1>2. ASSUME UNCHANGED <<proc, queues, active, phase>>, pend'[q] = pend[q] PROVE Sound(q)'
  BY <1>2, Facts, Aside DEF InQueue, Evaluating, queues
<1>3. ASSUME NEW e \in UserEvent,
             NotifyZero(e) \/ (\E t \in Time : NotifyAt(e, t)) \/ CancelNotify(e)
      PROVE  Sound(q)'
  <2>1. e # q /\ pend \in [Event -> {None, Delta} \cup Time] /\ q \in Event
    BY Names DEF Inv, IInv, StoresOk
  <2>2. UNCHANGED <<proc, queues, active, phase>> /\ pend'[q] = pend[q]
    BY <1>3, <2>1 DEF NotifyZero, NotifyAt, CancelNotify, NotifyDelta, CancelPending, control
  <2> QED BY <1>2, <2>2
<1>4. ASSUME NEW c \in Channel, RequestUpdate(c) PROVE Sound(q)'
  BY <1>2, <1>4 DEF RequestUpdate, stores, control
<1> QED BY <1>1, <1>3, <1>4 DEF EventOperation

(* A process that a step leaves alone, and its record.                     *)
LEMMA Others ==
    ASSUME Inv, NEW p \in Process, NEW r, proc' = [proc EXCEPT ![p] = r], NEW q \in Process, q # p,
           pend'[q] = pend[q],
           Queued(methods)' \subseteq Queued(methods) \cup {p},
           Queued(threads)' \subseteq Queued(threads) \cup {p},
           phase' = phase, active' \in {active, NoProcess, p}
    PROVE  Sound(q)'
<1>1. Sound(q) /\ q # NoProcess /\ proc'[q] = proc[q]
  BY Facts DEF Inv, IInv, ProcOk
<1>2. (InQueue(q)' => InQueue(q)) /\ (Evaluating' <=> Evaluating)
  BY DEF InQueue, Evaluating
<1> QED BY <1>1, <1>2, Aside

LEMMA CancelledOther ==
    ASSUME Inv, NEW p \in Process, CancelPending(p)
    PROVE  pend'[p] = None /\ \A q \in Process \ {p} : pend'[q] = pend[q]
BY Names DEF Inv, IInv, StoresOk, CancelPending

LEMMA SuspendSound ==
    ASSUME Inv, NEW p \in Process, SuspendProcess(p), NEW q \in Process
    PROVE  Sound(q)'
<1>1. /\ proc' = [proc EXCEPT ![p] = Held(p)] /\ RemoveRunnable(p)
      /\ active' = IF p \in Thread /\ p = active THEN NoProcess ELSE active
      /\ pend' = pend /\ phase' = phase
  BY DEF SuspendProcess, stores, control
<1>2. /\ Queued(methods)' = Queued(methods) \ {p} /\ Queued(threads)' = Queued(threads) \ {p}
  BY <1>1, RunnableRemoved, Facts DEF Inv, IInv
<1>3. CASE q # p
  BY <1>1, <1>2, <1>3, Others
<1>4. CASE q = p
  <2> DEFINE r == proc[q]
             s == proc'[q]
             ready == q \in Runnable \cup {active}
  <2>1. /\ r \in Member /\ Sound(q) /\ Owed(q) /\ q # NoProcess /\ (q \in Runnable <=> InQueue(q))
    BY Facts
  <2>2. s = IF ready THEN Set(Set(r, "suspended"), "ready") ELSE Set(r, "suspended")
    BY <1>1, <1>4 DEF Held, Inv, IInv, ProcOk
  <2>3. /\ SameWait(r, s) /\ s.throw = r.throw /\ s.cycles = r.cycles
        /\ s.state = r.state \cup {"suspended"} \cup (IF ready THEN {"ready"} ELSE {})
    <3> HIDE DEF r, ready, s
    <3>1. LET t == Set(r, "suspended") IN
          /\ SameWait(r, t) /\ t.throw = r.throw /\ t.cycles = r.cycles
          /\ t.state = r.state \cup {"suspended"}
      BY <2>1 DEF Member, Set, SameWait
    <3>2. LET t == Set(Set(r, "suspended"), "ready") IN
          /\ SameWait(r, t) /\ t.throw = r.throw /\ t.cycles = r.cycles
          /\ t.state = r.state \cup {"suspended"} \cup {"ready"}
      BY <2>1 DEF Member, Set, SameWait
    <3> QED BY <2>2, <3>1, <3>2
  <2>4. Listed(q)'
    BY <1>1, <2>1, <2>3, Aligned
  <2>5. ~InQueue(q)' /\ ~(q \in Thread /\ q = active')
    BY <1>1, <1>2, <1>4, <2>1 DEF InQueue
  <2>6. /\ Has(s, "suspended") /\ s.kind = r.kind
        /\ Has(s, "ready") => Has(r, "ready") \/ InQueue(q) \/ q = active
    BY <2>1, <2>3 DEF Has, SameWait
  <2> HIDE DEF r, s, ready
  <2>7. "throw" \notin Op /\ q \in Thread /\ ((Tidy /\ Has(s, "ready")) \/ s.kind # "STATIC")
          => s.cycles = 0
    BY <2>1, <2>3, <2>6 DEF Owed, r
  <2>8. Owed(q)'
    BY <2>1, <2>3, <2>5, <2>6, <2>7 DEF Owed, r, s
  <2> QED BY <2>4, <2>8 DEF Sound
<1> QED BY <1>3, <1>4

(* A process of which some bits are cleared, that stays where it is.       *)
LEMMA Cleared ==
    ASSUME Inv, NEW q \in Process, SameWait(proc[q], proc'[q]), proc'[q].throw = proc[q].throw,
           proc'[q].cycles = proc[q].cycles, proc'[q].state \subseteq proc[q].state,
           Has(proc'[q], "ready") /\ Has(proc[q], "suspended") => Has(proc'[q], "suspended"),
           InQueue(q)' => InQueue(q), pend'[q] = pend[q],
           UNCHANGED <<active, phase>>
    PROVE  Sound(q)'
<1>1. Sound(q) /\ Owed(q)
  BY Facts
<1>2. Listed(q)'
  BY <1>1, Aligned
<1>3. proc'[q].kind = proc[q].kind /\ (Evaluating' <=> Evaluating)
  BY DEF SameWait, Evaluating
<1>4. Owed(q)'
  BY <1>1, <1>3 DEF Owed, Has
<1> QED BY <1>2, <1>4 DEF Sound

(* A record of a process with other bits keeps every other field.          *)
LEMMA StateWait ==
    ASSUME NEW r \in Member, NEW b \in SUBSET {"disabled", "suspended", "ready", "zombie"}
    PROVE  LET s == [r EXCEPT !.state = b] IN
           SameWait(r, s) /\ s.throw = r.throw /\ s.cycles = r.cycles /\ s.state = b
<1> DEFINE s == [r EXCEPT !.state = b]
<1>1. s.state = b /\ s.throw = r.throw /\ s.cycles = r.cycles
  BY DEF Member
<1>2. s.kind = r.kind /\ s.timed = r.timed /\ s.on = r.on
  BY DEF Member
<1>3. s.count = r.count /\ s.lists = r.lists
  BY DEF Member
<1> HIDE DEF s
<1> QED BY <1>1, <1>2, <1>3 DEF SameWait

(* Clearing one bit.                                                       *)
LEMMA ClearWait ==
    ASSUME NEW r \in Member, NEW b \in {"disabled", "suspended", "ready", "zombie"}
    PROVE  LET s == Clear(r, b) IN
           /\ s \in Member /\ SameWait(r, s) /\ s.throw = r.throw /\ s.cycles = r.cycles
           /\ s.state = r.state \ {b}
<1>1. PICK left : left = r.state \ {b}
  OBVIOUS
<1>2. left \in SUBSET {"disabled", "suspended", "ready", "zombie"}
  BY <1>1, MemberFields
<1>3. Clear(r, b) = [r EXCEPT !.state = left]
  BY <1>1 DEF Clear
<1>4. PICK s : s = [r EXCEPT !.state = left]
  OBVIOUS
<1>5. s \in Member
  BY <1>2, <1>4, MemberState
<1>6. SameWait(r, s) /\ s.throw = r.throw /\ s.cycles = r.cycles /\ s.state = left
  BY <1>2, <1>4, StateWait
<1> QED BY <1>1, <1>3, <1>4, <1>5, <1>6

LEMMA ReleasedWait ==
    ASSUME NEW r \in Member
    PROVE  LET s == Released(r) IN
           /\ s \in Member /\ SameWait(r, s) /\ s.throw = r.throw /\ s.cycles = r.cycles
           /\ s.state = r.state \ {"suspended", "ready"}
<1>1. PICK c : c = Clear(r, "suspended")
  OBVIOUS
<1>2. c \in Member /\ SameWait(r, c) /\ c.throw = r.throw /\ c.cycles = r.cycles
      /\ c.state = r.state \ {"suspended"}
  BY <1>1, ClearWait
<1>3. PICK s : s = Clear(c, "ready")
  OBVIOUS
<1>4. s \in Member /\ SameWait(c, s) /\ s.throw = c.throw /\ s.cycles = c.cycles
      /\ s.state = c.state \ {"ready"}
  BY <1>2, <1>3, ClearWait
<1>5. SameWait(r, s)
  BY <1>2, <1>4 DEF SameWait
<1>6. s.state = r.state \ {"suspended", "ready"}
  BY <1>2, <1>4
<1>7. Released(r) = s
  BY <1>1, <1>3 DEF Released
<1> QED BY <1>2, <1>4, <1>5, <1>6, <1>7

LEMMA ResumeSound ==
    ASSUME Inv, NEW p \in Process, ResumeProcess(p), NEW q \in Process
    PROVE  Sound(q)'
<1> DEFINE r     == proc[p]
           error == ~Corners /\ {"disabled", "suspended"} \subseteq r.state
           free  == IF error THEN Clear(r, "suspended") ELSE Released(r)
           again == /\ Has(r, "ready") /\ ~error
                    /\ p \in Thread \/ p \notin Runnable \cup {active}
           new   == IF again THEN RemoveDynamicEvents(free, p) ELSE free
<1>1. /\ Calls("resume") /\ proc' = [proc EXCEPT ![p] = new] /\ UNCHANGED <<active, phase>>
      /\ IF again /\ p \notin Runnable THEN Push(p) ELSE UNCHANGED queues
      /\ IF again THEN CancelPending(p) ELSE UNCHANGED stores
  BY DEF ResumeProcess, control
<1>2. ~error /\ free = Released(r)
  BY <1>1, Names DEF Inv, Orderly, NoneForgotten, ThreadInv, Bits, Has, Calls
<1>3. Tidy
  BY <1>1 DEF Inv, Orderly, Calls
<1>4. /\ r \in Member /\ Sound(p) /\ Waiting(r, p) /\ Owed(p) /\ (p \in Runnable <=> InQueue(p))
      /\ p # NoProcess
  BY Facts
<1>5. /\ free \in Member /\ SameWait(r, free) /\ free.throw = r.throw /\ free.cycles = r.cycles
      /\ free.state = r.state \ {"suspended", "ready"}
  <2> HIDE DEF r, free, error
  <2> QED BY <1>2, <1>4, ReleasedWait
<1>6. /\ Queued(methods)' \subseteq Queued(methods) \cup {p}
      /\ Queued(threads)' \subseteq Queued(threads) \cup {p}
      /\ InQueue(p)' => InQueue(p) \/ again
  BY <1>1, Pushed DEF Inv, IInv, queues, InQueue
<1>7. \A x \in Process \ {p} : pend'[x] = pend[x]
  BY <1>1, CancelledOther DEF stores
<1> HIDE DEF r, error, free, again
<1>8. CASE q # p
  BY <1>1, <1>6, <1>7, <1>8, Others
<1>9. CASE q = p /\ ~again
  <2>1. proc'[q] = free /\ pend'[q] = pend[q]
    BY <1>1, <1>9 DEF Inv, IInv, ProcOk, stores
  <2>2. InQueue(q)' => InQueue(q)
    BY <1>6, <1>9
  <2>3. free.state \subseteq r.state /\ ~Has(free, "ready")
    BY <1>5 DEF Has
  <2> QED BY <1>1, <1>5, <1>9, <2>1, <2>2, <2>3, Cleared DEF r
<1>10. CASE q = p /\ again
  <2>1. proc'[q] = RemoveDynamicEvents(free, q) /\ pend'[q] = None
    BY <1>1, <1>10, CancelledOther DEF Inv, IInv, ProcOk
  <2>2. Waiting(free, q)
    BY <1>4, <1>5, <1>10, WaitsOn
  <2>3. /\ Free(proc'[q]) /\ proc'[q].state = free.state /\ proc'[q].throw = r.throw
        /\ proc'[q].cycles = r.cycles
    BY <1>5, <1>10, <2>1, <2>2, Freed
  <2>4. Listed(q)'
    BY <2>1, <2>3, Unlisted
  <2>5. Has(r, "ready") /\ (q \in Method \/ q # active)
    <3>1. Has(r, "ready")
      BY <1>10 DEF again
    <3>2. q \in Thread /\ q = active => ~Has(r, "ready")
      BY <1>1, <1>3, <1>4, <1>10, Caller DEF Owed, r
    <3> QED BY <1>10, <3>1, <3>2, Names
  <2>6. ~Has(proc'[q], "ready") /\ ~Has(proc'[q], "suspended") /\ proc'[q].kind = "STATIC"
    BY <1>5, <2>3 DEF Has, Free
  <2>7. "throw" \notin Op /\ q \in Thread => proc'[q].cycles = 0
    BY <1>3, <1>4, <1>10, <2>3, <2>5 DEF Owed, r
  <2>8. q = active' => q \notin Thread
    BY <1>1, <2>5, Names
  <2>9. Owed(q)'
    BY <1>4, <1>10, <2>3, <2>6, <2>7, <2>8 DEF Owed, r
  <2> QED BY <2>4, <2>9 DEF Sound
<1> QED BY <1>8, <1>9, <1>10

LEMMA DisableSound ==
    ASSUME Inv, NEW p \in Process, DisableProcess(p), NEW q \in Process
    PROVE  Sound(q)'
<1> DEFINE r == proc[p]
           off == Set(r, "disabled")
           new == IF p \in Thread /\ run.status = "elaboration" THEN Set(off, "ready") ELSE off
<1>1. /\ Calls(IF Started THEN "disable" ELSE "disablefirst")
      /\ proc' = [proc EXCEPT ![p] = new] /\ UNCHANGED <<queues, pend, active, phase>>
  BY DEF DisableProcess, stores, control
<1>2. r \in Member /\ Sound(p) /\ Owed(p)
  BY Facts
<1>3. /\ SameWait(r, off) /\ off.throw = r.throw /\ off.cycles = r.cycles /\ off \in Member
      /\ off.state = r.state \cup {"disabled"}
  <2> HIDE DEF r
  <2>1. off \in Member
    BY <1>2, MemberStep
  <2> QED BY <1>2, <2>1 DEF Set, Member, SameWait
<1>4. LET s == Set(off, "ready") IN
      /\ SameWait(off, s) /\ s.throw = off.throw /\ s.cycles = off.cycles
      /\ s.state = off.state \cup {"ready"}
  <2> HIDE DEF off
  <2> QED BY <1>3 DEF Set, Member, SameWait
<1>5. run.status = "elaboration" => ~Tidy
  BY <1>1 DEF Calls, Started, Tidy
<1>6. /\ SameWait(r, new) /\ new.throw = r.throw /\ new.cycles = r.cycles
      /\ Has(new, "suspended") <=> Has(r, "suspended")
      /\ Has(new, "ready") => Has(r, "ready") \/ (p \in Thread /\ ~Tidy)
  <2> HIDE DEF off, r
  <2> QED BY <1>3, <1>4, <1>5 DEF SameWait, Has
<1>7. Queued(methods)' = Queued(methods) /\ Queued(threads)' = Queued(threads)
  BY <1>1 DEF queues
<1> HIDE DEF r, off, new
<1>8. CASE q # p
  BY <1>1, <1>7, <1>8, Others
<1>9. CASE q = p
  <2>1. proc'[q] = new
    BY <1>1, <1>9 DEF Inv, IInv, ProcOk
  <2>2. Listed(q)'
    BY <1>1, <1>2, <1>6, <1>9, <2>1, Aligned DEF r
  <2>3. (InQueue(q)' <=> InQueue(q)) /\ (Evaluating' <=> Evaluating) /\ new.kind = r.kind
    BY <1>1, <1>6, <1>7 DEF InQueue, Evaluating, SameWait
  <2>4. Owed(q)'
    BY <1>1, <1>2, <1>6, <1>9, <2>1, <2>3, Names DEF Owed, r
  <2> QED BY <2>2, <2>4 DEF Sound
<1> QED BY <1>8, <1>9

LEMMA EnableSound ==
    ASSUME Inv, NEW p \in Process, EnableProcess(p), NEW q \in Process
    PROVE  Sound(q)' /\ UNCHANGED queues
<1> DEFINE r  == proc[p]
           on == Clear(r, "disabled")
           again == on.state = {"ready"} /\ (p \in Method \/ Corners)
<1>1. /\ proc' = [proc EXCEPT ![p] = IF again THEN Clear(on, "ready") ELSE on]
      /\ IF again /\ p \notin Runnable THEN Push(p) ELSE UNCHANGED queues
      /\ UNCHANGED <<pend, active, phase>>
  BY DEF EnableProcess, stores, control
<1>2. r \in Member /\ Owed(p)
  BY Facts
<1>3. /\ SameWait(r, on) /\ on.throw = r.throw /\ on.cycles = r.cycles
      /\ on.state = r.state \ {"disabled"}
  BY <1>2 DEF Clear, Member, SameWait
<1>4. ~again
  <2>1. SUFFICES ASSUME again PROVE FALSE
    OBVIOUS
  <2>2. Has(r, "ready") /\ ~Has(r, "suspended")
    BY <1>3, <2>1 DEF Has
  <2>3. p \in Method \/ Tidy
    BY <2>1 DEF Inv, Orderly
  <2> QED BY <1>2, <2>2, <2>3 DEF Owed
<1>5. proc' = [proc EXCEPT ![p] = on] /\ UNCHANGED queues
  BY <1>1, <1>4
<1>6. Queued(methods)' = Queued(methods) /\ Queued(threads)' = Queued(threads)
  BY <1>5 DEF queues
<1>7. Has(on, "suspended") <=> Has(r, "suspended")
  BY <1>3 DEF Has
<1> HIDE DEF on, again
<1>8. CASE q # p
  BY <1>1, <1>5, <1>6, <1>8, Others
<1>9. CASE q = p
  <2>1. proc'[q] = on
    BY <1>5, <1>9 DEF Inv, IInv, ProcOk
  <2>2. InQueue(q)' => InQueue(q)
    BY <1>6 DEF InQueue
  <2>3. on.state \subseteq r.state
    BY <1>3
  <2> QED BY <1>1, <1>3, <1>5, <1>7, <1>9, <2>1, <2>2, <2>3, Cleared
<1> QED BY <1>5, <1>8, <1>9

LEMMA DisconnectSound ==
    ASSUME Inv, NEW p \in Process, KillDisconnect(p), NEW q \in Process
    PROVE  Sound(q)'
<1>1. /\ ~Has(proc[p], "zombie") /\ proc' = [proc EXCEPT ![p] = Disconnected(@, p)]
      /\ CancelPending(p)
      /\ IF p \in Method THEN RemoveRunnable(p) ELSE UNCHANGED queues
      /\ active' = IF p = active THEN NoProcess ELSE active
      /\ phase' = phase
  BY DEF KillDisconnect, control
<1>2. /\ Queued(methods)' \subseteq Queued(methods) /\ Queued(threads)' \subseteq Queued(threads)
      /\ p \in Method => p \notin Queued(methods)'
  BY <1>1, RunnableRemoved, Facts DEF Inv, IInv, queues
<1>3. \A x \in Process \ {p} : pend'[x] = pend[x]
  BY <1>1, CancelledOther
<1>4. CASE q # p
  BY <1>1, <1>2, <1>3, <1>4, Others
<1>5. CASE q = p
  <2> DEFINE r == proc[q]
             s == proc'[q]
             d == RemoveDynamicEvents(r, q)
  <2>1. r \in Member /\ Waiting(r, q) /\ Owed(q) /\ q # NoProcess
    BY Facts
  <2>2. s = [d EXCEPT !.state = {"zombie"}] /\ pend'[q] = None
    BY <1>1, <1>5, CancelledOther DEF Disconnected, Inv, IInv, ProcOk
  <2>3. Free(d) /\ d.throw = r.throw /\ d.cycles = r.cycles /\ d \in Member
    <3> HIDE DEF r
    <3> QED BY <2>1, Freed, MemberStep
  <2>4. Free(s) /\ s.state = {"zombie"} /\ s.throw = r.throw /\ s.cycles = r.cycles
    <3> HIDE DEF d, s, r
    <3> QED BY <2>2, <2>3 DEF Member, Free
  <2>5. Listed(q)'
    BY <2>2, <2>4, Unlisted
  <2>6. q # active' /\ (InQueue(q)' => InQueue(q))
    BY <1>1, <1>2, <1>5, <2>1 DEF InQueue
  <2>7. s.kind = "STATIC" /\ ~Has(s, "ready") /\ ~Has(s, "suspended")
    BY <2>4 DEF Free, Has
  <2> HIDE DEF s, d
  <2>8. Owed(q)'
    BY <2>1, <2>4, <2>6, <2>7 DEF Owed, s
  <2> QED BY <2>5, <2>8 DEF Sound
<1> QED BY <1>4, <1>5

(* preempt_with() of a thread p whose record becomes r: p runs, or it is   *)
(* queued and so is the thread that calls.                                 *)
LEMMA PreemptOthers ==
    ASSUME Inv, NEW op, Calls(op), active # NoProcess, NEW p \in Thread, NEW r, PreemptWith(p, r),
           phase' = phase, \A x \in Process \ {p} : pend'[x] = pend[x]
    PROVE  /\ \A q \in Process \ {p} : Sound(q)'
           /\ \/ active' = p /\ ~InQueue(p)' /\ proc'[p] = Resumed(r)
              \/ active' = NoProcess /\ InQueue(p)' /\ proc'[p] = r
           /\ Evaluating'
           /\ Once(methods)' /\ Once(threads)'
<1>0. /\ p \in Process /\ p # NoProcess /\ Once(methods) /\ Once(threads) /\ QueuesOk
      /\ proc \in [Process -> Member] /\ active \in Process /\ Evaluating'
      /\ p \notin Queued(methods)
  <2>1. p \in Process /\ p # NoProcess
    BY Names
  <2>2. Once(methods) /\ Once(threads) /\ Evaluating
    BY <2>1, Facts
  <2>3. QueuesOk /\ proc \in [Process -> Member] /\ active \in Process
    BY DEF Inv, IInv, ProcOk, RunOk
  <2>4. p \notin Queued(methods)
    BY <2>3, QueuesDef, Names
  <2> QED BY <2>1, <2>2, <2>3, <2>4 DEF Evaluating
<1>1. CASE active \in Method
  <2>1. active' = p /\ proc' = [proc EXCEPT ![p] = Resumed(r)] /\ RemoveRunnable(p)
    BY <1>1 DEF PreemptWith
  <2>2. /\ Queued(methods)' = Queued(methods) \ {p} /\ Queued(threads)' = Queued(threads) \ {p}
        /\ Once(methods)' /\ Once(threads)'
    BY <1>0, <2>1, RunnableRemoved
  <2>3. \A q \in Process \ {p} : Sound(q)'
    BY <1>0, <2>1, <2>2, Others
  <2> QED BY <1>0, <2>1, <2>2, <2>3 DEF InQueue
<1>2. CASE active \in Thread
  <2>1. /\ active' = NoProcess /\ proc' = [proc EXCEPT ![p] = r] /\ threads' = Preempted(p)
        /\ methods' = methods
    BY <1>2, Names DEF PreemptWith
  <2>2. /\ proc[active].throw # "KILL" /\ proc[active].kind = "STATIC" /\ ~InQueue(active)
    BY <1>2, Caller
  <2>3. /\ Queued(threads)' = Queued(threads) \cup {p, active} /\ Queued(methods)' = Queued(methods)
        /\ Once(methods)' /\ Once(threads)'
    BY <1>0, <1>2, <2>1, <2>2, PreemptedQueue DEF InQueue
  <2>4. ASSUME NEW q \in Process \ {p}, q # active PROVE Sound(q)'
    <3>1. Sound(q) /\ q # NoProcess
      BY Facts
    <3>2. proc'[q] = proc[q] /\ (InQueue(q)' => InQueue(q)) /\ q # active'
      BY <1>0, <2>1, <2>3, <2>4, <3>1 DEF InQueue
    <3>3. pend'[q] = pend[q]
      OBVIOUS
    <3> QED BY <1>0, <3>1, <3>2, <3>3, Aside
  <2>5. ASSUME NEW q \in Process \ {p}, q = active PROVE Sound(q)'
    <3>1. Sound(q) /\ Owed(q) /\ q # NoProcess
      BY Facts
    <3>2. proc'[q] = proc[q] /\ pend'[q] = pend[q]
      BY <1>0, <2>1
    <3>3. Listed(q)'
      BY <3>1, <3>2, Aligned DEF SameWait
    <3>4. Owed(q)'
      BY <1>2, <2>1, <2>2, <2>5, <3>1, <3>2, Names DEF Owed, Has
    <3> QED BY <3>3, <3>4 DEF Sound
  <2>6. \A q \in Process \ {p} : Sound(q)'
    BY <2>4, <2>5
  <2>7. proc'[p] = r /\ InQueue(p)'
    BY <1>0, <2>1, <2>3 DEF InQueue
  <2> QED BY <1>0, <2>1, <2>3, <2>6, <2>7
<1> QED BY <1>0, <1>1, <1>2, Names

LEMMA KillSound ==
    ASSUME Inv, NEW p \in Thread, KillThread(p), NEW q \in Process
    PROVE  Sound(q)' /\ Once(methods)' /\ Once(threads)'
<1> DEFINE r == [proc[p] EXCEPT !.throw = "KILL", !.cycles = 0]
<1>1. /\ Calls("kill") /\ active # NoProcess /\ PreemptWith(p, r)
      /\ UNCHANGED <<pend, phase>>
  BY DEF KillThread, stores
<1>2. /\ p \in Process /\ proc[p] \in Member /\ Sound(p) /\ Owed(p)
  BY Names, Facts
<1>3. /\ SameWait(proc[p], r) /\ r.throw = "KILL" /\ r.cycles = 0 /\ r.state = proc[p].state
      /\ r \in Member
  BY <1>2 DEF Member, SameWait
<1> HIDE DEF r
<1>4. /\ \A x \in Process \ {p} : Sound(x)'
      /\ \/ active' = p /\ ~InQueue(p)' /\ proc'[p] = Resumed(r)
         \/ active' = NoProcess /\ InQueue(p)' /\ proc'[p] = r
      /\ Evaluating' /\ Once(methods)' /\ Once(threads)'
  BY <1>1, PreemptOthers
<1>5. Resumed(r) = r
  BY <1>3 DEF Resumed
<1>6. Listed(p)'
  <2>1. Waiting(proc'[p], p)
    BY <1>2, <1>3, <1>4, <1>5, WaitsOn DEF Sound, Listed
  <2>2. Waiting(proc[p], p)' = Waiting(proc'[p], p)
    BY DEF Waiting
  <2>3. (pend[p] # None <=> proc[p].timed) /\ pend'[p] = pend[p]
    BY <1>1, <1>2 DEF Sound, Listed
  <2> QED BY <1>3, <1>4, <1>5, <2>1, <2>2, <2>3 DEF Listed, SameWait
<1>7. Owed(p)'
  <2>1. "kill" \in Op /\ proc'[p] = r /\ p \in Thread /\ p \notin Method
    BY <1>1, <1>4, <1>5, Names DEF Calls
  <2>2. p = active' => ~InQueue(p)'
    BY <1>2, <1>4, Names
  <2> QED BY <1>2, <1>3, <1>4, <2>1, <2>2 DEF Owed, Has
<1> QED BY <1>4, <1>6, <1>7 DEF Sound

(* A thread that is preempted to take an exception that ends its wait.     *)
LEMMA ThrownSound ==
    ASSUME Inv, NEW op \in {"throw", "reset"}, Calls(op), active # NoProcess, phase' = phase,
           NEW p \in Thread, NEW r \in Member, PreemptWith(p, r), CancelPending(p),
           Free(r), ~Has(r, "ready"), r.throw # "KILL",
           r.cycles \in {proc[p].cycles, 0}, op = "throw" \/ r.cycles = 0,
           NEW q \in Process
    PROVE  Sound(q)' /\ Once(methods)' /\ Once(threads)'
<1>1. p \in Process /\ Owed(p) /\ op \in Op
  BY Names, Facts DEF Calls
<1>2. pend'[p] = None /\ \A x \in Process \ {p} : pend'[x] = pend[x]
  BY <1>1, CancelledOther
<1>3. /\ \A x \in Process \ {p} : Sound(x)'
      /\ \/ active' = p /\ ~InQueue(p)' /\ proc'[p] = Resumed(r)
         \/ active' = NoProcess /\ InQueue(p)' /\ proc'[p] = r
      /\ Once(methods)' /\ Once(threads)'
  BY <1>2, PreemptOthers
<1>4. LET s == Resumed(r) IN
      /\ SameWait(r, s) /\ s.state = r.state /\ s.cycles = r.cycles
      /\ s.throw = "KILL" <=> r.throw = "KILL"
  BY ResumedWait
<1>5. /\ Free(proc'[p]) /\ proc'[p].state = r.state /\ proc'[p].cycles = r.cycles
      /\ proc'[p].throw # "KILL"
  BY <1>3, <1>4 DEF SameWait, Free
<1>6. Listed(p)'
  BY <1>1, <1>2, <1>5, Unlisted
<1>7. p = active' => ~InQueue(p)'
  BY <1>1, <1>3, Names
<1>8. /\ proc'[p].kind = "STATIC" /\ ~Has(proc'[p], "ready") /\ ~Firm /\ p \notin Method
      /\ "throw" \notin Op => proc'[p].cycles = 0
      /\ "CYCLES" \notin Op => proc'[p].cycles = 0
  BY <1>1, <1>5, Names DEF Free, Has, Firm, Owed
<1>9. Owed(p)'
  BY <1>5, <1>7, <1>8 DEF Owed
<1> QED BY <1>3, <1>6, <1>9 DEF Sound

LEMMA ThrowSound ==
    ASSUME Inv, NEW p \in Thread, ThrowIt(p) \/ ResetProcess(p), NEW q \in Process
    PROVE  Sound(q)' /\ Once(methods)' /\ Once(threads)'
<1>1. /\ p \in Process /\ proc[p] \in Member /\ Waiting(proc[p], p)
  BY Names, Facts
<1>2. CASE ThrowIt(p)
  <2> DEFINE d == RemoveDynamicEvents(proc[p], p)
             r == [d EXCEPT !.throw = "USER"]
  <2>1. /\ Calls("throw") /\ active # NoProcess /\ (Has(proc[p], "ready") => "throwready" \in Op)
        /\ PreemptWith(p, r) /\ CancelPending(p) /\ phase' = phase
    BY <1>2 DEF ThrowIt
  <2>2. Free(d) /\ d.state = proc[p].state /\ d.cycles = proc[p].cycles /\ d \in Member
    BY <1>1, Freed, MemberStep
  <2> HIDE DEF d
  <2>3. Free(r) /\ r.state = proc[p].state /\ r.cycles = proc[p].cycles /\ r.throw = "USER" /\ r \in Member
    BY <2>2 DEF Free, Member
  <2>4. ~Has(r, "ready")
    BY <2>1, <2>3 DEF Has, Inv, Orderly
  <2> HIDE DEF r
  <2>5. "throw" \in {"throw", "reset"} /\ r.throw # "KILL" /\ r.cycles \in {proc[p].cycles, 0}
    BY <2>3
  <2> QED BY <2>1, <2>3, <2>4, <2>5, ThrownSound
<1>3. CASE ResetProcess(p)
  <2> DEFINE r == Reset(proc[p], p, TRUE)
  <2>1. /\ Calls("reset") /\ active # NoProcess /\ PreemptWith(p, r) /\ CancelPending(p)
        /\ phase' = phase
    BY <1>3 DEF ResetProcess
  <2>2. /\ Free(r) /\ r.state = proc[p].state \ {"ready"} /\ r.cycles = 0 /\ r.throw = "ASYNC"
    BY <1>1, ResetFrees
  <2>3. r \in Member
    BY <1>1, MemberStep
  <2> HIDE DEF r
  <2>4. ~Has(r, "ready") /\ r.throw # "KILL" /\ "reset" \in {"throw", "reset"}
    BY <2>2 DEF Has
  <2> QED BY <2>1, <2>2, <2>3, <2>4, ThrownSound
<1> QED BY <1>2, <1>3

LEMMA SyncResetSound ==
    ASSUME Inv, NEW p \in Thread, NEW asserted \in BOOLEAN, SyncReset(p, asserted), NEW q \in Process
    PROVE  Sound(q)'
<1> DEFINE r == [proc[p] EXCEPT !.sticky = asserted]
           s == IF ~Corners /\ Has(r, "suspended") THEN r
                ELSE ResetChanged(r, p, FALSE, asserted, Started)
<1>1. /\ Calls("syncreset") /\ proc' = [proc EXCEPT ![p] = s]
      /\ UNCHANGED <<pend, queues, active, phase>>
  BY DEF SyncReset, stores, control
<1>2. /\ p \in Process /\ proc[p] \in Member /\ Sound(p) /\ Owed(p)
  BY Names, Facts
<1>3. proc[p].throw # "KILL"
  BY <1>1, <1>2 DEF Inv, Orderly, Calls, Owed
<1>4. /\ r \in Member /\ SameWait(proc[p], r) /\ r.state = proc[p].state
      /\ r.cycles = proc[p].cycles /\ r.throw = proc[p].throw
  BY <1>2 DEF Member, SameWait
<1>5. LET t == ResetChanged(r, p, FALSE, asserted, Started) IN
      /\ SameWait(r, t) /\ t.state = r.state /\ t.cycles \in {r.cycles, 0}
      /\ t.throw = "KILL" => r.throw = "KILL"
  <2> HIDE DEF r
  <2> DEFINE f == FALSE
             b == Started
  <2>1. b \in BOOLEAN /\ f \in BOOLEAN /\ ~(f /\ asserted /\ b)
    BY DEF Started
  <2> HIDE DEF b, f
  <2>2. LET t == ResetChanged(r, p, f, asserted, b) IN
        /\ SameWait(r, t) /\ t.state = r.state /\ t.cycles \in {r.cycles, 0}
        /\ t.throw = "KILL" => r.throw = "KILL"
    BY <1>2, <1>4, <2>1, ResetWaits
  <2> QED BY <2>2 DEF b, f
<1>6. /\ SameWait(proc[p], s) /\ s.state = proc[p].state /\ s.cycles \in {proc[p].cycles, 0}
      /\ s.throw # "KILL"
  <2> HIDE DEF r
  <2> QED BY <1>3, <1>4, <1>5 DEF SameWait
<1> HIDE DEF s
<1>7. CASE q # p
  BY <1>1, <1>2, <1>7, Others DEF queues
<1>8. CASE q = p
  <2>1. proc'[q] = s /\ (InQueue(q)' <=> InQueue(q)) /\ (Evaluating' <=> Evaluating)
    BY <1>1, <1>8, <1>2 DEF Inv, IInv, ProcOk, InQueue, queues, Evaluating
  <2>2. Waiting(proc'[q], q)
    BY <1>2, <1>3, <1>6, <1>8, <2>1, WaitsOn DEF Sound, Listed
  <2>3. Waiting(proc[q], q)' = Waiting(proc'[q], q)
    BY DEF Waiting
  <2>4. Listed(q)'
    BY <1>1, <1>2, <1>6, <1>8, <2>1, <2>2, <2>3 DEF Sound, Listed, SameWait
  <2>5. Owed(q)'
    BY <1>1, <1>2, <1>3, <1>6, <1>8, <2>1 DEF Owed, SameWait, Has
  <2> QED BY <2>4, <2>5 DEF Sound
<1> QED BY <1>7, <1>8

LEMMA StopQueues ==
    ASSUME Inv, Stop \/ Pause
    PROVE  UNCHANGED <<proc, pend, queues, active, phase>>
<1>1. CASE Stop
  <2>1. Calls("stop") /\ UNCHANGED <<proc, pend, active, phase>>
        /\ (StopMode = "FINISH_DELTA" => UNCHANGED queues)
    BY <1>1 DEF Stop, stores
  <2> QED BY <2>1 DEF Inv, Orderly, NothingStranded, Calls
<1>2. CASE Pause
  BY <1>2 DEF Pause, stores
<1> QED BY <1>1, <1>2

LEMMA StopSound ==
    ASSUME Inv, Stop \/ Pause, NEW q \in Process
    PROVE  Sound(q)'
BY StopQueues, Facts, Aside DEF queues, InQueue, Evaluating

(* The notifications after next_trigger() or a wait.                       *)
LEMMA PendingAfter ==
    ASSUME Inv, active \in Process
    PROVE  /\ CancelPending(active) =>
                /\ \A x \in Process \ {active} : pend'[x] = pend[x]
                /\ pend'[active] = None
           /\ \A t \in Time : \A v : ArmTimeout(active, t, v) =>
                /\ \A x \in Process \ {active} : pend'[x] = pend[x]
                /\ pend'[active] # None
<1>1. pend \in [Event -> {None, Delta} \cup Time] /\ active \in Event /\ Process \subseteq Event
      /\ now \in Nat /\ Time \subseteq Nat
  BY Names DEF Inv, IInv, StoresOk, RunOk
<1>2. ASSUME NEW t \in Time, NEW v, ArmTimeout(active, t, v)
      PROVE  /\ \A x \in Process \ {active} : pend'[x] = pend[x]
             /\ pend'[active] # None
  <2>1. pend' = [pend EXCEPT ![active] = IF t = 0 THEN Delta ELSE now + t]
    BY <1>2 DEF ArmTimeout
  <2>2. now + t \in Nat
    BY <1>1
  <2> QED BY <1>1, <2>1, <2>2 DEF None, Delta
<1>3. ASSUME CancelPending(active)
      PROVE  /\ \A x \in Process \ {active} : pend'[x] = pend[x]
             /\ pend'[active] = None
  BY <1>1, <1>3 DEF CancelPending
<1> QED BY <1>2, <1>3

(* A method sets what triggers it next.                                    *)
LEMMA TriggerSound ==
    ASSUME Inv, active \in Method, "next_trigger" \in Op,
           NEW k, NEW E, NEW b \in BOOLEAN,
           <<k, E>> \in WaitKinds \/ (k = "TIMEOUT" /\ E = {} /\ b),
           proc' = [proc EXCEPT ![active] = WaitOn(RemoveDynamicEvents(@, active), active, k, E, b)],
           \A x \in Process \ {active} : pend'[x] = pend[x],
           pend'[active] # None <=> b,
           UNCHANGED <<queues, active, phase>>,
           NEW q \in Process
    PROVE  Sound(q)'
<1> DEFINE p == active
<1>2. p \in Process /\ p # NoProcess /\ p \in Method
  BY Names
<1> HIDE DEF p
<1>3. proc[p] \in Member /\ Waiting(proc[p], p) /\ Owed(p) /\ ~InQueue(p)
  <2>1. p \notin Queued(methods)
    BY <1>2 DEF Inv, WaitInv, Kept, p
  <2>2. p \notin Queued(threads)
    BY <1>2, Names, QueuesDef DEF Inv, IInv
  <2> QED BY <1>2, <2>1, <2>2, Facts DEF InQueue
<1>4. CASE q # p
  <2>1. Queued(methods)' = Queued(methods) /\ Queued(threads)' = Queued(threads) /\ pend'[q] = pend[q]
    BY <1>4 DEF p, queues
  <2> QED BY <1>2, <1>4, <2>1, Others DEF p
<1>5. CASE q = p
  <2> DEFINE d == RemoveDynamicEvents(proc[p], p)
             s == WaitOn(d, p, k, E, b)
  <2>1. proc'[q] = s /\ (pend'[q] # None <=> b)
    BY <1>2, <1>5 DEF Inv, IInv, ProcOk, p
  <2>2. d \in Member /\ Free(d) /\ d.state = proc[p].state /\ d.throw = proc[p].throw
        /\ d.cycles = proc[p].cycles
    BY <1>2, <1>3, Freed, MemberStep
  <2> HIDE DEF d
  <2>3. /\ Waiting(s, p) /\ s.timed = b /\ s.kind # "STATIC"
        /\ s.state = d.state /\ s.throw = d.throw /\ s.cycles = d.cycles
    BY <1>2, <2>2, Begins
  <2> HIDE DEF s
  <2>4. Waiting(proc[q], q)' = Waiting(proc'[q], q)
    BY DEF Waiting
  <2>5. Listed(q)'
    BY <1>5, <2>1, <2>3, <2>4 DEF Listed
  <2>6. (InQueue(q)' <=> InQueue(q)) /\ p \notin Thread
    BY <1>2, Names DEF InQueue, queues
  <2>7. Owed(q)'
    BY <1>2, <1>3, <1>5, <2>1, <2>2, <2>3, <2>6 DEF Owed, Has
  <2> QED BY <2>5, <2>7 DEF Sound
<1> QED BY <1>4, <1>5

LEMMA SetTriggerSound ==
    ASSUME Inv, SetTrigger, NEW q \in Process
    PROVE  Sound(q)'
<1>1. ASSUME NEW k, NEW E, <<k, E>> \in WaitKinds, NextTrigger(k, E) PROVE Sound(q)'
  <2>1. /\ active \in Method /\ "next_trigger" \in Op /\ CancelPending(active)
        /\ proc' = [proc EXCEPT ![active] =
                      WaitOn(RemoveDynamicEvents(@, active), active, k, E, FALSE)]
        /\ UNCHANGED <<queues, active, phase>>
    BY <1>1 DEF NextTrigger, Triggers, control
  <2> DEFINE b == FALSE
  <2>2. b \in BOOLEAN /\ active \in Process /\ b = FALSE
    BY <2>1, Names
  <2>3. (\A x \in Process \ {active} : pend'[x] = pend[x]) /\ (pend'[active] # None <=> b)
    BY <2>1, <2>2, PendingAfter
  <2>4. proc' = [proc EXCEPT ![active] =
                   WaitOn(RemoveDynamicEvents(@, active), active, k, E, b)]
    BY <2>1
  <2> HIDE DEF b
  <2> QED BY <1>1, <2>1, <2>2, <2>3, <2>4, TriggerSound
<1>2. ASSUME NEW k, NEW E, NEW t \in Time, <<k, E>> \in WaitKinds \/ (k = "TIMEOUT" /\ E = {}),
             NextTriggerTimed(k, E, t)
      PROVE  Sound(q)'
  <2>1. /\ active \in Method /\ "next_trigger" \in Op
        /\ ArmTimeout(active, t, VectorWithout(active))
        /\ proc' = [proc EXCEPT ![active] =
                      WaitOn(RemoveDynamicEvents(@, active), active, k, E, TRUE)]
        /\ UNCHANGED <<queues, active, phase>>
    BY <1>2 DEF NextTriggerTimed, Triggers, control
  <2> DEFINE b == TRUE
  <2>2. b \in BOOLEAN /\ active \in Process /\ b
    BY <2>1, Names
  <2>3. (\A x \in Process \ {active} : pend'[x] = pend[x]) /\ (pend'[active] # None <=> b)
    BY <2>1, <2>2, PendingAfter
  <2>4. proc' = [proc EXCEPT ![active] =
                   WaitOn(RemoveDynamicEvents(@, active), active, k, E, b)]
    BY <2>1
  <2> HIDE DEF b
  <2> QED BY <1>2, <2>1, <2>2, <2>3, <2>4, TriggerSound
<1>3. \A w \in WaitKinds : <<w[1], w[2]>> \in WaitKinds
  BY DEF WaitKinds
<1> QED BY <1>1, <1>2, <1>3 DEF SetTrigger

(* A thread waits for events or for a time.                                *)
LEMMA WaitSound ==
    ASSUME Inv, active \in Thread, proc[active].throw # "KILL",
           NEW k, NEW E, NEW b \in BOOLEAN,
           <<k, E>> \in WaitKinds \/ (k = "TIMEOUT" /\ E = {} /\ b),
           proc' = [proc EXCEPT ![active] = WaitOn(@, active, k, E, b)],
           \A x \in Process \ {active} : pend'[x] = pend[x],
           IF b THEN pend'[active] # None ELSE pend'[active] = pend[active],
           active' = NoProcess, UNCHANGED <<queues, phase>>,
           NEW q \in Process
    PROVE  Sound(q)'
<1> DEFINE p == active
<1>1. p \in Process /\ p # NoProcess /\ p \in Thread /\ p \notin Method
  BY Names
<1>2. Queued(methods)' = Queued(methods) /\ Queued(threads)' = Queued(threads)
  BY DEF queues
<1> HIDE DEF p
<1>3. CASE q # p
  BY <1>1, <1>2, <1>3, Others DEF p
<1>4. CASE q = p
  <2> DEFINE s == WaitOn(proc[p], p, k, E, b)
  <2>1. proc'[q] = s
    BY <1>1, <1>4 DEF Inv, IInv, ProcOk, p
  <2>2. /\ proc[p] \in Member /\ Owed(p) /\ (pend[p] # None <=> proc[p].timed)
        /\ proc[p].kind = "STATIC" => Free(proc[p])
    BY <1>1, Facts
  <2>3. proc[p].kind = "STATIC" /\ ~InQueue(p)
    BY <1>1, <2>2 DEF Owed, p
  <2>4. Free(proc[p]) /\ pend[p] = None
    BY <2>2, <2>3 DEF Free
  <2>5. /\ Waiting(s, p) /\ s.timed = b /\ s.kind # "STATIC"
        /\ s.state = proc[p].state /\ s.throw = proc[p].throw /\ s.cycles = proc[p].cycles
    BY <1>1, <2>2, <2>4, Begins
  <2> HIDE DEF s
  <2>6. Waiting(proc[q], q)' = Waiting(proc'[q], q)
    BY DEF Waiting
  <2>7. pend'[q] # None <=> b
    BY <1>4, <2>4 DEF p
  <2>8. Listed(q)'
    BY <1>4, <2>1, <2>5, <2>6, <2>7 DEF Listed
  <2>9. ~InQueue(q)' /\ q # active'
    BY <1>1, <1>2, <1>4, <2>3 DEF InQueue
  <2>10. "throw" \notin Op => s.cycles = 0
    BY <1>1, <2>2, <2>5 DEF Owed, p
  <2>11. Owed(q)'
    BY <1>1, <1>4, <2>1, <2>2, <2>5, <2>9, <2>10 DEF Owed, Has
  <2> QED BY <2>8, <2>11 DEF Sound
<1> QED BY <1>3, <1>4

LEMMA CyclesSound ==
    ASSUME Inv, NEW n \in 1..MaxCycles, WaitCycles(n), NEW q \in Process
    PROVE  Sound(q)'
<1> DEFINE p == active
<1>1. /\ p \in Thread /\ proc[p].throw # "KILL" /\ (n = 1 \/ "CYCLES" \in Op)
      /\ proc' = [proc EXCEPT ![p].cycles = n - 1]
      /\ active' = NoProcess /\ UNCHANGED <<pend, queues, phase>>
  BY DEF WaitCycles, Waits, stores, control
<1>2. p \in Process /\ p # NoProcess /\ p \notin Method
  BY <1>1, Names
<1>3. Queued(methods)' = Queued(methods) /\ Queued(threads)' = Queued(threads)
  BY <1>1 DEF queues
<1> DEFINE s == [proc[p] EXCEPT !.cycles = n - 1]
<1>4. proc' = [proc EXCEPT ![p] = s]
  BY <1>1
<1>5. proc[p] \in Member /\ Sound(p) /\ Owed(p) /\ MaxCycles \in Nat
  BY <1>2, Facts, KernelAssumption
<1>6. /\ SameWait(proc[p], s) /\ s.throw = proc[p].throw /\ s.state = proc[p].state
      /\ s.cycles = n - 1
  BY <1>5 DEF Member, SameWait
<1>7. proc[p].kind = "STATIC" /\ ~InQueue(p) /\ (Tidy => ~Has(proc[p], "ready"))
  BY <1>1, <1>5 DEF Owed
<1>8. "CYCLES" \notin Op => s.cycles = 0
  BY <1>1, <1>6
<1> HIDE DEF p, s
<1>9. CASE q # p
  BY <1>1, <1>2, <1>3, <1>4, <1>9, Others
<1>10. CASE q = p
  <2>1. proc'[q] = s
    BY <1>2, <1>4, <1>10 DEF Inv, IInv, ProcOk
  <2>2. Listed(q)'
    BY <1>1, <1>5, <1>6, <1>10, <2>1, Aligned
  <2>3. ~InQueue(q)' /\ q # active'
    BY <1>1, <1>2, <1>3, <1>7, <1>10 DEF InQueue
  <2>4. Owed(q)'
    BY <1>2, <1>5, <1>6, <1>7, <1>8, <1>10, <2>1, <2>3 DEF Owed, Has, SameWait
  <2> QED BY <2>2, <2>4 DEF Sound
<1> QED BY <1>9, <1>10

LEMMA EndSound ==
    ASSUME Inv, ThreadEnd, NEW q \in Process
    PROVE  Sound(q)'
<1> DEFINE p == active
           d == Disconnected(proc[p], p)
           s == [d EXCEPT !.throw = "NONE", !.stack = FALSE]
<1>1. /\ p \in Thread /\ proc' = [proc EXCEPT ![p] = s]
      /\ IF Has(proc[p], "zombie") THEN UNCHANGED stores ELSE CancelPending(p)
      /\ RemoveRunnable(p) /\ active' = NoProcess /\ phase' = phase
  BY DEF ThreadEnd, control
<1>2. p \in Process /\ p # NoProcess /\ p \notin Method
  BY <1>1, Names
<1>3. /\ proc[p] \in Member /\ Waiting(proc[p], p) /\ Owed(p) /\ (pend[p] # None <=> proc[p].timed)
      /\ proc[p].kind = "STATIC" => Free(proc[p])
  BY <1>2, Facts
<1>4. Queued(methods)' = Queued(methods) \ {p} /\ Queued(threads)' = Queued(threads) \ {p}
  BY <1>1, <1>2, RunnableRemoved, Facts DEF Inv, IInv
<1>5. \A x \in Process \ {p} : pend'[x] = pend[x]
  BY <1>1, <1>2, CancelledOther DEF stores
<1>6. /\ Free(d) /\ d.cycles = proc[p].cycles /\ d \in Member
      /\ d.state = proc[p].state \/ d.state = {"zombie"}
      /\ pend'[p] = None
  <2>1. CASE Has(proc[p], "zombie")
    <3>1. d = proc[p] /\ pend' = pend
      BY <1>1, <2>1 DEF Disconnected, stores
    <3>2. proc[p].throw # "KILL"
      BY <1>1, <2>1 DEF Inv, ThreadInv, ThrowsOk
    <3>3. proc[p].kind = "STATIC"
      BY <1>1, <1>3, <3>2 DEF Owed
    <3> QED BY <1>3, <3>1, <3>3 DEF Free
  <2>2. CASE ~Has(proc[p], "zombie")
    <3> DEFINE f == RemoveDynamicEvents(proc[p], p)
    <3>1. d = [f EXCEPT !.state = {"zombie"}] /\ pend'[p] = None
      BY <1>1, <1>2, <2>2, CancelledOther DEF Disconnected
    <3>2. Free(f) /\ f.cycles = proc[p].cycles /\ f \in Member
      BY <1>2, <1>3, Freed, MemberStep
    <3> HIDE DEF f, p
    <3>3. d \in Member
      BY <1>2, <1>3, MemberStep
    <3> HIDE DEF d
    <3> QED BY <3>1, <3>2, <3>3 DEF Member, Free
  <2> QED BY <2>1, <2>2
<1> HIDE DEF d, p
<1>7. /\ Free(s) /\ s.cycles = proc[p].cycles /\ s.state = d.state /\ s.throw = "NONE"
  BY <1>6 DEF Member, Free
<1> HIDE DEF s
<1>8. CASE q # p
  BY <1>1, <1>2, <1>4, <1>5, <1>8, Others
<1>9. CASE q = p
  <2>1. proc'[q] = s
    BY <1>1, <1>2, <1>9 DEF Inv, IInv, ProcOk
  <2>2. Listed(q)'
    BY <1>6, <1>7, <1>9, <2>1, Unlisted
  <2>3. ~InQueue(q)' /\ q # active'
    BY <1>1, <1>2, <1>4, <1>9 DEF InQueue
  <2>4. s.kind = "STATIC" /\ (Has(s, "ready") => s.state = proc[p].state)
    BY <1>6, <1>7 DEF Free, Has
  <2>5. Owed(q)'
    BY <1>2, <1>3, <1>7, <1>9, <2>1, <2>3, <2>4 DEF Owed, Has
  <2> QED BY <2>2, <2>5 DEF Sound
<1> QED BY <1>8, <1>9

LEMMA YieldSound ==
    ASSUME Inv, Yield, NEW q \in Process
    PROVE  Sound(q)'
<1>1. ASSUME NEW k, NEW E, <<k, E>> \in WaitKinds, WaitFor(k, E) PROVE Sound(q)'
  <2>1. /\ active \in Thread /\ proc[active].throw # "KILL"
        /\ proc' = [proc EXCEPT ![active] = WaitOn(@, active, k, E, FALSE)]
        /\ active' = NoProcess /\ UNCHANGED <<queues, pend, phase>>
    BY <1>1 DEF WaitFor, Waits, stores, control
  <2> DEFINE b == FALSE
  <2>2. /\ b \in BOOLEAN /\ ~b
        /\ proc' = [proc EXCEPT ![active] = WaitOn(@, active, k, E, b)]
    BY <2>1
  <2> HIDE DEF b
  <2> QED BY <1>1, <2>1, <2>2, WaitSound
<1>2. ASSUME NEW k, NEW E, NEW t \in Time, <<k, E>> \in WaitKinds \/ (k = "TIMEOUT" /\ E = {}),
             WaitTimed(k, E, t)
      PROVE  Sound(q)'
  <2>1. /\ active \in Thread /\ proc[active].throw # "KILL"
        /\ ArmTimeout(active, t, delta)
        /\ proc' = [proc EXCEPT ![active] = WaitOn(@, active, k, E, TRUE)]
        /\ active' = NoProcess /\ UNCHANGED <<queues, phase>>
    BY <1>2 DEF WaitTimed, Waits, control
  <2>2. (\A x \in Process \ {active} : pend'[x] = pend[x]) /\ pend'[active] # None
    BY <2>1, Names, PendingAfter
  <2> DEFINE b == TRUE
  <2>3. /\ b \in BOOLEAN /\ b
        /\ proc' = [proc EXCEPT ![active] = WaitOn(@, active, k, E, b)]
    BY <2>1
  <2> HIDE DEF b
  <2> QED BY <1>2, <2>1, <2>2, <2>3, WaitSound
<1>3. \A w \in WaitKinds : <<w[1], w[2]>> \in WaitKinds
  BY DEF WaitKinds
<1>4. ASSUME MethodReturn PROVE Sound(q)'
  <2>1. UNCHANGED <<proc, pend, queues, phase>> /\ active' = NoProcess
    BY <1>4 DEF MethodReturn, stores, control
  <2> QED BY <2>1, Facts, Aside DEF queues, InQueue, Evaluating
<1> QED BY <1>1, <1>2, <1>3, <1>4, CyclesSound, EndSound DEF Yield

-------------------------------------------------------------------------------
(* The steps of the scheduler *)

(* A step that changes no process and queues none, while none runs.        *)
LEMMA Idly ==
    ASSUME Inv, UNCHANGED <<proc, pend>>,
           Queued(methods)' \subseteq Queued(methods), Queued(threads)' \subseteq Queued(threads),
           active' \in {active, NoProcess} \cup Method,
           NEW q \in Process, InQueue(q)' /\ Evaluating => Evaluating'
    PROVE  Sound(q)'
<1>1. Sound(q) /\ q # NoProcess
  BY Facts
<1>2. (InQueue(q)' => InQueue(q)) /\ (q \in Thread /\ q = active' => q = active)
  BY <1>1, Names DEF InQueue
<1> QED BY <1>1, <1>2, Aside

LEMMA Toggles ==
    ASSUME Inv
    PROVE  /\ Queued(Toggle(methods)) = Queued(methods) /\ Queued(Toggle(threads)) = Queued(threads)
           /\ Once(Toggle(methods)) /\ Once(Toggle(threads))
BY Toggled DEF Inv, IInv, QueuesOk, WaitInv

(* The first round has every process that is initialized and not           *)
(* suspended.                                                              *)
LEMMA InitializeQueues ==
    ASSUME Inv, Initialize
    PROVE  /\ Once(methods)' /\ Once(threads)' /\ threads.pop' = threads.pop
           /\ Queued(methods)' = {p \in Initial \cap Method : ~Suspended(p)}
           /\ Queued(threads)' = {p \in Initial \cap Thread : ~Suspended(p)}
<1> DEFINE ms0 == {p \in Initial \cap Method : ~Suspended(p)}
           ts0 == {p \in Initial \cap Thread : ~Suspended(p)}
<1>1. PICK ms \in SetToSeqs(ms0), ts \in SetToSeqs(ts0) : PushBackAll(ms, ts)
  BY DEF Initialize
<1>2. ms0 \subseteq Method /\ ts0 \subseteq Thread
  OBVIOUS
<1> HIDE DEF ms0, ts0
<1>3. IsFiniteSet(ms0) /\ IsFiniteSet(ts0)
  BY <1>2, Names, FS_Subset
<1>4. /\ ms \in Seq(ms0) /\ IsInjective(ms) /\ ToSet(ms) = ms0
      /\ ts \in Seq(ts0) /\ IsInjective(ts) /\ ToSet(ts) = ts0
  BY <1>3, Orders
<1>5. ms \in Seq(Method) /\ ts \in Seq(Thread)
  BY <1>2, <1>4
<1>6. /\ Queued(methods) = {} /\ Queued(threads) = {} /\ Once(methods) /\ Once(threads) /\ QueuesOk
  BY DEF Initialize, Inv, IInv, WaitInv, Early, Quiet
<1>7. /\ Once(methods)' /\ Once(threads)' /\ threads.pop' = threads.pop
      /\ Queued(methods)' = ms0 /\ Queued(threads)' = ts0
  BY <1>1, <1>4, <1>5, <1>6, PushedBack
<1> QED BY <1>7 DEF ms0, ts0

LEMMA InitializeSound ==
    ASSUME Inv, Initialize, NEW q \in Process
    PROVE  Sound(q)'
<1>1. proc[q].kind = "STATIC" /\ proc[q].cycles = 0
  BY DEF Initialize, Inv, WaitInv, Early, Quiet
<1>2. InQueue(q)' <=> q \in Initial /\ ~Suspended(q)
  BY InitializeQueues, Names DEF InQueue
<1>3. /\ proc'[q] = IF q \in Initial /\ Suspended(q) THEN Set(proc[q], "ready") ELSE proc[q]
      /\ pend' = pend /\ active = NoProcess /\ active' = NoProcess
  BY DEF Initialize, Inv, IInv, Control, stores
<1>4. proc[q] \in Member /\ Sound(q) /\ Owed(q) /\ q # NoProcess
  BY Facts
<1>5. /\ SameWait(proc[q], proc'[q]) /\ proc'[q].throw = proc[q].throw
      /\ proc'[q].cycles = proc[q].cycles
      /\ proc'[q].state = IF q \in Initial /\ Suspended(q) THEN proc[q].state \cup {"ready"}
                                                           ELSE proc[q].state
  BY <1>3, <1>4 DEF Member, Set, SameWait
<1>6. Listed(q)'
  BY <1>3, <1>4, <1>5, Aligned
<1>7. /\ proc'[q].kind = "STATIC" /\ proc'[q].cycles = 0
      /\ Has(proc'[q], "suspended") <=> Suspended(q)
      /\ Has(proc'[q], "ready") => Has(proc[q], "ready") \/ Suspended(q)
  BY <1>1, <1>5 DEF SameWait, Has, Suspended
<1>8. Owed(q)'
  BY <1>2, <1>3, <1>4, <1>5, <1>7 DEF Owed, Suspended
<1> QED BY <1>6, <1>8 DEF Sound

LEMMA RunMethodQueues ==
    ASSUME Inv, RunMethod
    PROVE  /\ Once(methods)' /\ active' \in Method /\ active' \notin Queued(methods)'
           /\ Queued(methods)' \subseteq Queued(methods)
<1>1. PICK i \in PopChoices(methods, Random) :
        active' = methods.pop[i] /\ methods' = PopAt(methods, i)
  BY DEF RunMethod
<1>2. i \in DOMAIN methods.pop /\ methods \in Queue(Method) /\ Once(methods)
  BY DEF PopChoices, Inv, IInv, QueuesOk, WaitInv
<1>3. /\ active' \in Method /\ Once(methods)' /\ Queued(methods)' = Queued(methods) \ {active'}
  BY <1>1, <1>2, Popped
<1> QED BY <1>3

LEMMA RunMethodSound ==
    ASSUME Inv, RunMethod, NEW q \in Process
    PROVE  Sound(q)'
<1>1. UNCHANGED <<proc, pend, threads, phase>>
  BY DEF RunMethod, stores, control
<1> QED BY <1>1, RunMethodQueues, Idly DEF Evaluating

LEMMA RunThreadSound ==
    ASSUME Inv, RunThread, NEW q \in Process
    PROVE  Sound(q)' /\ Once(threads)'
<1>1. PICK i \in PopChoices(threads, Random) :
        /\ active' = threads.pop[i] /\ threads' = PopAt(threads, i)
        /\ proc' = [proc EXCEPT ![threads.pop[i]] = Resumed(@)]
  BY DEF RunThread
<1>2. i \in DOMAIN threads.pop /\ threads \in Queue(Thread) /\ Once(threads)
  BY DEF PopChoices, Inv, IInv, QueuesOk, WaitInv
<1> DEFINE p == threads.pop[i]
<1>3. /\ p \in Thread /\ p \in Queued(threads) /\ Once(threads)'
      /\ Queued(threads)' = Queued(threads) \ {p}
  BY <1>1, <1>2, Popped
<1>4. /\ UNCHANGED <<pend, methods, phase>> /\ p \in Process /\ p # NoProcess
      /\ p \notin Queued(methods) /\ p \notin Method
  BY <1>3, Names, QueuesDef DEF RunThread, stores, control, Inv, IInv
<1> HIDE DEF p
<1>5. active' = p /\ proc' = [proc EXCEPT ![p] = Resumed(proc[p])]
  BY <1>1 DEF p
<1>6. CASE q # p
  BY <1>3, <1>4, <1>5, <1>6, Others
<1>7. CASE q = p
  <2>1. proc[p] \in Member /\ Sound(p) /\ Owed(p)
    BY <1>4, Facts
  <2>2. LET s == Resumed(proc[p]) IN
        /\ SameWait(proc[p], s) /\ s.state = proc[p].state /\ s.cycles = proc[p].cycles
        /\ s.throw = "KILL" <=> proc[p].throw = "KILL"
    BY <2>1, ResumedWait
  <2>3. proc'[q] = Resumed(proc[p])
    BY <1>4, <1>5, <1>7 DEF Inv, IInv, ProcOk
  <2>4. Waiting(proc'[q], q) /\ Waiting(proc[q], q)' = Waiting(proc'[q], q)
    <3>1. Waiting(proc'[q], q)
      BY <1>7, <2>1, <2>2, <2>3, WaitsOn DEF Sound, Listed
    <3> QED BY <3>1 DEF Waiting
  <2>5. Listed(q)'
    BY <1>4, <1>7, <2>1, <2>2, <2>3, <2>4 DEF Sound, Listed, SameWait
  <2>6. InQueue(p) /\ ~InQueue(q)' /\ (Evaluating' <=> Evaluating)
    BY <1>3, <1>4, <1>7 DEF InQueue, Evaluating
  <2>7. /\ proc'[q].kind = proc[q].kind /\ proc'[q].state = proc[q].state
        /\ proc'[q].cycles = proc[q].cycles
        /\ proc'[q].throw = "KILL" <=> proc[q].throw = "KILL"
    BY <1>7, <2>2, <2>3 DEF SameWait
  <2>8. Owed(q)'
    BY <1>3, <1>4, <1>7, <2>1, <2>6, <2>7 DEF Owed, Has
  <2> QED BY <1>3, <2>5, <2>8 DEF Sound
<1> QED BY <1>3, <1>6, <1>7

LEMMA NoneNext ==
    ASSUME NEW S, NEW q \in Queue(S), NEW order \in Seq(S)
    PROVE  Len(order) = 0 => ExecuteNextAll(q, order) = q
<1> DEFINE F(r, p) == ExecuteNext(IF p \in Queued(r) THEN RemoveProc(r, p) ELSE r, p)
<1>1. PICK g : /\ g = [i \in 0..Len(order) |-> IF i = 0 THEN q ELSE F(g[i - 1], order[i])]
               /\ ExecuteNextAll(q, order) = g[Len(order)]
  BY PutAllNextFcn
<1>2. Len(order) = 0 => g[0] = q
  BY <1>1
<1> QED BY <1>1, <1>2

(* An update that changes no thread's place: no thread is thrown an        *)
(* asynchronous reset.                                                     *)
LEMMA NoneThrown ==
    ASSUME Inv, NEW c \in Channel, Changed(c), ThrownBy(c) = {}
    PROVE  threads' = threads
<1>1. PICK order \in SetToSeqs(ThrownBy(c)) : threads' = ExecuteNextAll(threads, order)
  BY DEF Changed
<1>2. order \in Seq({}) /\ ToSet(order) = {}
  <2> DEFINE S == ThrownBy(c)
  <2>1. IsFiniteSet(S) /\ S = {}
    BY FS_EmptySet
  <2>2. order \in SetToSeqs(S)
    BY <1>1
  <2> HIDE DEF S
  <2> QED BY <2>1, <2>2, Orders
<1>3. order = <<>>
  BY <1>2 DEF ToSet
<1>4. order \in Seq(Thread) /\ Len(order) = 0
  BY <1>3
<1>5. threads \in Queue(Thread)
  BY DEF Inv, IInv, QueuesOk
<1>6. ExecuteNextAll(threads, order) = threads
  BY <1>4, <1>5, NoneNext
<1> QED BY <1>1, <1>6

LEMMA ChangedSound ==
    ASSUME Inv, NEW c \in Channel, Changed(c), phase \in {"initupdate", "update"},
           UNCHANGED <<methods, active, phase>>, NEW q \in Process
    PROVE  Sound(q)'
<1> DEFINE targets == {x \in Resets : x.channel = c}
<1>1. /\ proc'[q] = IF \E x \in targets : x.process = q
                    THEN LET x == CHOOSE y \in targets : y.process = q IN
                         ResetChanged(proc[q], q, x.async, x.level # level[c], TRUE)
                    ELSE proc[q]
  BY DEF Changed
<1>2. /\ Queued(threads)' = Queued(threads) \cup ThrownBy(c)
      /\ \A e \in Event : pend'[e] = IF e \in ThrownBy(c) /\ proc[e].timed THEN None
                                     ELSE IF e = c THEN Delta ELSE pend[e]
  BY Changing DEF Inv, IInv, ChannelsOk
<1>3. q # c /\ q \in Event
  BY Names
<1>4. ~Evaluating /\ active = NoProcess
  BY Facts DEF Evaluating
<1>5. /\ proc[q] \in Member /\ Sound(q) /\ Waiting(proc[q], q) /\ Owed(q) /\ q # NoProcess
      /\ pend[q] # None <=> proc[q].timed
  BY Facts
<1>6. CASE q \notin ThrownBy(c) /\ proc'[q] = proc[q]
  <2>1. (InQueue(q)' => InQueue(q)) /\ pend'[q] = pend[q]
    BY <1>2, <1>3, <1>6 DEF InQueue
  <2> QED BY <1>4, <1>5, <1>6, <2>1, Aside
<1>7. ASSUME NEW x \in Resets, x.channel = c, x.process = q,
             proc'[q] = ResetChanged(proc[q], q, x.async, x.level # level[c], TRUE),
             ~Has(proc[q], "zombie")
      PROVE  Sound(q)'
  <2>1. /\ x.async \in BOOLEAN /\ q \in Thread /\ q \notin Method /\ ~Firm
        /\ q \in ThrownBy(c) <=> x.async /\ x.level # level[c]
    <3>1. x.async \in BOOLEAN /\ q \in Thread /\ ~Firm
      BY <1>7, KernelAssumption DEF Firm
    <3>2. \A y \in Resets : y.channel = c /\ y.process = q => y = x
      BY <1>7, KernelAssumption
    <3> QED BY <1>7, <3>1, <3>2, Names DEF ThrownBy
  <2> DEFINE asserted == x.level # level[c]
             s == proc'[q]
  <2>2. CASE x.async /\ asserted
    <3> DEFINE counted == [proc[q] EXCEPT !.areset = @ + 1]
               reset == Reset(counted, q, TRUE)
    <3>1. counted \in Member /\ SameWait(proc[q], counted) /\ counted.state = proc[q].state
          /\ counted.throw = proc[q].throw
      BY <1>5 DEF Member, SameWait
    <3>2. s = reset \/ s = [reset EXCEPT !.throw = "NONE"]
      BY <1>7, <2>2 DEF ResetChanged
    <3> HIDE DEF counted
    <3>3. Waiting(counted, q)
      BY <1>5, <3>1, WaitsOn
    <3>4. reset \in Member /\ Free(reset) /\ reset.state = counted.state \ {"ready"}
          /\ reset.cycles = 0 /\ reset.throw = "ASYNC"
      BY <3>1, <3>3, ResetFrees, MemberStep
    <3> HIDE DEF reset
    <3>5. LET t == [reset EXCEPT !.throw = "NONE"] IN
          /\ Free(t) /\ t.state = reset.state /\ t.cycles = 0 /\ t.throw = "NONE"
      BY <3>4 DEF Member, Free
    <3>6. /\ Free(s) /\ s.state = proc[q].state \ {"ready"} /\ s.cycles = 0 /\ s.throw # "KILL"
      BY <3>1, <3>2, <3>4, <3>5
    <3>7. pend'[q] = None
      BY <1>2, <1>3, <1>5, <2>1, <2>2
    <3>8. Listed(q)'
      BY <3>6, <3>7, Unlisted
    <3>9. s.kind = "STATIC" /\ ~Has(s, "ready")
      BY <3>6 DEF Free, Has
    <3>10. Owed(q)'
      BY <1>4, <1>5, <2>1, <3>6, <3>9 DEF Owed
    <3> QED BY <3>8, <3>10 DEF Sound
  <2>3. CASE ~(x.async /\ asserted)
    <3>1. /\ SameWait(proc[q], s) /\ s.state = proc[q].state /\ s.cycles \in {proc[q].cycles, 0}
          /\ s.throw = "KILL" => proc[q].throw = "KILL"
          /\ proc[q].throw = "KILL" /\ s.throw # "KILL" => ~x.async /\ asserted
      <4> DEFINE a == x.async
                 b == x.level # level[c]
                 d == TRUE
      <4>1. a \in BOOLEAN /\ b \in BOOLEAN /\ d \in BOOLEAN /\ ~(a /\ b /\ d)
        BY <2>1, <2>3
      <4>2. s = ResetChanged(proc[q], q, a, b, d)
        BY <1>7
      <4> HIDE DEF a, b, d, s
      <4>3. LET t == ResetChanged(proc[q], q, a, b, d) IN
            /\ SameWait(proc[q], t) /\ t.state = proc[q].state /\ t.cycles \in {proc[q].cycles, 0}
            /\ t.throw = "KILL" => proc[q].throw = "KILL"
            /\ proc[q].throw = "KILL" /\ t.throw # "KILL" => ~a /\ b
        BY <1>5, <4>1, ResetWaits
      <4>4. /\ SameWait(proc[q], s) /\ s.state = proc[q].state /\ s.cycles \in {proc[q].cycles, 0}
            /\ s.throw = "KILL" => proc[q].throw = "KILL"
            /\ proc[q].throw = "KILL" /\ s.throw # "KILL" => ~a /\ b
        BY <4>2, <4>3
      <4> QED BY <4>4 DEF a, b
    <3>2. s.throw = "KILL" <=> proc[q].throw = "KILL"
      <4>1. SUFFICES ASSUME proc[q].throw = "KILL", s.throw # "KILL" PROVE FALSE
        BY <3>1
      <4>2. "kill" \in Op /\ ~x.async
        BY <1>5, <3>1, <4>1 DEF Owed
      <4> QED BY <4>2 DEF Inv, Orderly
    <3>3. (InQueue(q)' <=> InQueue(q)) /\ pend'[q] = pend[q]
      BY <1>2, <1>3, <2>1, <2>3 DEF InQueue
    <3>4. Waiting(s, q) /\ Waiting(proc[q], q)' = Waiting(s, q)
      <4>1. Waiting(s, q)
        BY <1>5, <3>1, <3>2, WaitsOn
      <4> QED BY <4>1 DEF Waiting
    <3>5. Listed(q)'
      BY <1>5, <3>1, <3>3, <3>4 DEF Listed, SameWait
    <3>6. Owed(q)'
      BY <1>4, <1>5, <2>1, <3>1, <3>2, <3>3 DEF Owed, Has, SameWait
    <3> QED BY <3>5, <3>6 DEF Sound
  <2> QED BY <2>2, <2>3
<1>8. CASE \E x \in targets : x.process = q
  <2> DEFINE x == CHOOSE y \in targets : y.process = q
  <2>1. x \in Resets /\ x.channel = c /\ x.process = q
    BY <1>8
  <2>2. proc'[q] = ResetChanged(proc[q], q, x.async, x.level # level[c], TRUE)
    BY <1>1, <1>8
  <2> HIDE DEF x
  <2>3. CASE Has(proc[q], "zombie")
    <3>1. proc'[q] = proc[q] /\ q \notin ThrownBy(c)
      BY <2>2, <2>3 DEF ResetChanged, ThrownBy
    <3> QED BY <1>6, <3>1
  <2> QED BY <1>7, <2>1, <2>2, <2>3
<1>9. CASE ~\E x \in targets : x.process = q
  <2>1. q \notin ThrownBy(c)
    BY <1>9 DEF ThrownBy
  <2> QED BY <1>1, <1>6, <1>9, <2>1
<1> QED BY <1>8, <1>9

(* The notification loops fire what is in the slot and what is due.        *)
LEMMA LoopFires ==
    ASSUME Inv
    PROVE  /\ DeltaStep => Fires(delta.slot[cursor], delta)
           /\ \A e \in TimedAt(now) : TimedStep /\ Trigger(e, pend, delta) => Fires(e, delta)
<1>1. /\ delta \in Vector(Event) /\ (\A e \in Event : pend[e] = Delta => RemovableDelta(delta, e))
      /\ cursor \in Nat /\ (active # NoProcess => Evaluating)
  BY DEF Inv, IInv, StoresOk, RunOk, Control, Evaluating
<1>2. ASSUME DeltaStep PROVE Fires(delta.slot[cursor], delta)
  <2>1. /\ phase \in {"initnotify", "notify"} /\ cursor > 0
        /\ Trigger(delta.slot[cursor], pend, delta) /\ UNCHANGED <<active, phase>>
    BY <1>2 DEF DeltaStep
  <2>2. cursor \in 1..Len(delta.slot)
    BY <1>1, <2>1, VectorParts DEF Inv, IInv, LoopOk
  <2>3. delta.slot[cursor] \in Event /\ ~Evaluating
    BY <1>1, <2>1, <2>2, VectorParts DEF Evaluating
  <2> QED BY <1>1, <2>1, <2>3 DEF Fires
<1>3. ASSUME NEW e \in TimedAt(now), TimedStep, Trigger(e, pend, delta) PROVE Fires(e, delta)
  BY <1>1, <1>3 DEF TimedStep, TimedAt, Fires, Evaluating, control
<1> QED BY <1>2, <1>3

LEMMA ScheduleSound ==
    ASSUME Inv, StartCall \/ Schedule, NEW q \in Process
    PROVE  Sound(q)'
<1> USE DEF stores, control
<1>0. /\ Queued(Toggle(methods)) = Queued(methods) /\ Queued(Toggle(threads)) = Queued(threads)
      /\ active # NoProcess => Evaluating
  BY Toggles, Facts
<1>1. ASSUME NEW d \in 0..MaxTime - now, NEW toTime, Start(d, toTime) \/ FirstStart(d, toTime) PROVE Sound(q)'
  BY <1>0, <1>1, Idly DEF Start, FirstStart, EvaluateBegin, Evaluating, queues
<1>2. ASSUME StartAfterStop PROVE Sound(q)'
  BY <1>2, Idly DEF StartAfterStop, vars, Evaluating, queues
<1>3. ASSUME Initialize PROVE Sound(q)'
  BY <1>3, InitializeSound
<1>4. ASSUME RunMethod PROVE Sound(q)'
  BY <1>4, RunMethodSound
<1>5. ASSUME MethodsDone PROVE Sound(q)'
  BY <1>0, <1>5, Idly DEF MethodsDone, Evaluating
<1>6. ASSUME RunThread PROVE Sound(q)'
  BY <1>6, RunThreadSound
<1>7. ASSUME ReturnToCaller PROVE Sound(q)'
  <2>1. /\ caller # NoProcess /\ active' = (IF Has(proc[caller], "zombie") THEN NoProcess ELSE caller)
        /\ UNCHANGED <<proc, stores, queues, phase>>
    BY <1>7 DEF ReturnToCaller
  <2>2. active' \in {NoProcess} \cup Method
    BY <2>1 DEF Inv, IInv, RunOk
  <2> QED BY <2>1, <2>2, Idly DEF Evaluating, queues
<1>8. ASSUME AnotherRound PROVE Sound(q)'
  BY <1>0, <1>8, Idly DEF AnotherRound, EvaluateBegin, Evaluating
<1>9. ASSUME AbortEvaluation PROVE Sound(q)'
  BY <1>9 DEF AbortEvaluation, Aborts, Inv, Orderly, NothingStranded, WaitInv, Stopped
<1>10. ASSUME EvaluateEnd PROVE Sound(q)'
  <2>1. UNCHANGED <<proc, stores, queues, active>> /\ Idle
    BY <1>10 DEF EvaluateEnd
  <2>2. ~InQueue(q)'
    BY <2>1, QueuesDef DEF Inv, IInv, Idle, InQueue, queues
  <2> QED BY <2>1, <2>2, Idly DEF queues
<1>11. ASSUME NEW c \in Channel, NEW b \in BOOLEAN, Update(c, b) PROVE Sound(q)'
  <2>1. phase \in {"initupdate", "update"} /\ UNCHANGED <<methods, active, phase>>
    BY <1>11 DEF Update
  <2>2. CASE b
    <3>1. Changed(c)
      BY <1>11, <2>2 DEF Update
    <3> QED BY <2>1, <3>1, ChangedSound
  <2>3. CASE ~b
    BY <1>11, <2>1, <2>3, Idly DEF Update, Evaluating
  <2> QED BY <2>2, <2>3
<1>12. ASSUME UpdateEnd PROVE Sound(q)'
  BY <1>12, Idly DEF UpdateEnd, Evaluating, queues
<1>13. ASSUME DeltaStep PROVE Sound(q)'
  BY <1>13, LoopFires, FiringSound
<1>14. ASSUME DeltaDone PROVE Sound(q)'
  <2>1. /\ UNCHANGED <<proc, pend, threads, active>> /\ methods' \in {methods, Toggle(methods)}
        /\ ~Evaluating
    BY <1>14 DEF DeltaDone, EvaluateBegin, Evaluating
  <2> QED BY <1>0, <2>1, Idly
<1>15. ASSUME CrunchReturns \/ AdvanceTime \/ NoNextTime PROVE Sound(q)'
  <2>1. UNCHANGED <<proc, stores, queues, active>> /\ ~Evaluating
    BY <1>15 DEF CrunchReturns, AdvanceTime, NoNextTime, Evaluating
  <2> QED BY <2>1, Idly DEF queues
<1>16. ASSUME TimedStep PROVE Sound(q)'
  <2>1. PICK e \in TimedAt(now) : Trigger(e, pend, delta)
    BY <1>16 DEF TimedStep
  <2>2. Fires(e, delta)
    BY <1>16, <2>1, LoopFires
  <2> QED BY <2>2, FiringSound
<1>17. ASSUME TimedDone PROVE Sound(q)'
  <2>1. /\ UNCHANGED <<proc, stores, threads, active>> /\ methods' \in {methods, Toggle(methods)}
        /\ ~Evaluating
    BY <1>17 DEF TimedDone, EvaluateBegin, Evaluating
  <2> QED BY <1>0, <2>1, Idly
<1> QED BY <1>1, <1>2, <1>3, <1>4, <1>5, <1>6, <1>7, <1>8, <1>9, <1>10, <1>11, <1>12, <1>13, <1>14,
           <1>15, <1>16, <1>17 DEF StartCall, Schedule

LEMMA SoundStep == Inv /\ [Next]_vars => \A q \in Process : Sound(q)'
<1> SUFFICES ASSUME Inv, [Next]_vars, NEW q \in Process PROVE Sound(q)'
  OBVIOUS
<1>1. CASE ProcessControl
  <2>1. ASSUME NEW p \in Process, SuspendProcess(p) \/ ResumeProcess(p) \/ DisableProcess(p)
                                    \/ EnableProcess(p) \/ KillDisconnect(p)
        PROVE  Sound(q)'
    BY <2>1, SuspendSound, ResumeSound, DisableSound, EnableSound, DisconnectSound
  <2>2. ASSUME NEW p \in Thread, KillThread(p) \/ ThrowIt(p) \/ ResetProcess(p) PROVE Sound(q)'
    BY <2>2, KillSound, ThrowSound
  <2>3. ASSUME NEW p \in Thread, NEW b \in BOOLEAN, SyncReset(p, b) PROVE Sound(q)'
    BY <2>3, SyncResetSound
  <2>4. ASSUME Stop \/ Pause PROVE Sound(q)'
    BY <2>4, StopSound
  <2> QED BY <1>1, <2>1, <2>2, <2>3, <2>4 DEF ProcessControl
<1>2. CASE UNCHANGED vars
  BY <1>2, Idly DEF vars, queues, stores, control, Evaluating
<1> QED BY <1>1, <1>2, EventsSound, SetTriggerSound, YieldSound, ScheduleSound DEF Next

(* What an event does to the run queues.                                   *)
LEMMA FiringQueues ==
    ASSUME Inv, NEW e, NEW v, Fires(e, v)
    PROVE  /\ Once(methods)' /\ Once(threads)'
           /\ methods.pop' = methods.pop /\ threads.pop' = threads.pop
           /\ Queued(methods)' = Queued(methods) \cup {p \in Method : Wakes(p, e)}
<1>1. /\ ProcOk /\ QueuesOk /\ e \in Event /\ v \in Vector(Event)
      /\ pend \in [Event -> {None, Delta} \cup Time]
      /\ \A f \in Event \ {e} : pend[f] = Delta => RemovableDelta(v, f)
      /\ Trigger(e, pend, v) /\ Once(methods) /\ Once(threads)
  BY DEF Inv, IInv, StoresOk, WaitInv, Fires
<1> QED BY <1>1, Triggering

(* The control of processes keeps every process in its queue once.         *)
LEMMA ControlOnce ==
    ASSUME Inv, ProcessControl
    PROVE  Once(methods)' /\ Once(threads)'
<1>1. Once(methods) /\ Once(threads) /\ QueuesOk /\ Queued(methods) \subseteq Runnable
      /\ Queued(threads) \subseteq Runnable
  BY DEF Inv, IInv, WaitInv, Runnable
<1>2. ASSUME UNCHANGED queues PROVE Once(methods)' /\ Once(threads)'
  BY <1>1, <1>2 DEF queues
<1>3. ASSUME NEW p \in Process, SuspendProcess(p) \/ KillDisconnect(p)
      PROVE  Once(methods)' /\ Once(threads)'
  <2>1. RemoveRunnable(p) \/ UNCHANGED queues
    BY <1>3 DEF SuspendProcess, KillDisconnect
  <2> QED BY <1>1, <1>2, <2>1, RunnableRemoved
<1>4. ASSUME NEW p \in Process, ResumeProcess(p) PROVE Once(methods)' /\ Once(threads)'
  <2>1. (p \notin Runnable /\ Push(p)) \/ UNCHANGED queues
    BY <1>4 DEF ResumeProcess
  <2> QED BY <1>1, <1>2, <2>1, Pushed
<1>5. ASSUME NEW p \in Process, DisableProcess(p) \/ EnableProcess(p)
      PROVE  Once(methods)' /\ Once(threads)'
  BY <1>2, <1>5, EnableSound DEF DisableProcess
<1>6. ASSUME NEW p \in Thread, KillThread(p) \/ ThrowIt(p) \/ ResetProcess(p)
      PROVE  Once(methods)' /\ Once(threads)'
  BY <1>6, Names, KillSound, ThrowSound
<1>7. ASSUME NEW p \in Thread, NEW b \in BOOLEAN, SyncReset(p, b)
      PROVE  Once(methods)' /\ Once(threads)'
  BY <1>2, <1>7 DEF SyncReset
<1>8. ASSUME Stop \/ Pause PROVE Once(methods)' /\ Once(threads)'
  BY <1>2, <1>8, StopQueues
<1> QED BY <1>3, <1>4, <1>5, <1>6, <1>7, <1>8 DEF ProcessControl

LEMMA OnceStep == Inv /\ [Next]_vars => Once(methods)' /\ Once(threads)'
<1> SUFFICES ASSUME Inv, [Next]_vars PROVE Once(methods)' /\ Once(threads)'
  OBVIOUS
<1> USE DEF stores, control
<1>1. /\ Once(methods) /\ Once(threads) /\ Once(Toggle(methods)) /\ Once(Toggle(threads))
  BY Toggles DEF Inv, WaitInv
<1>2. ASSUME methods' \in {methods, Toggle(methods)}, threads' \in {threads, Toggle(threads)}
      PROVE  Once(methods)' /\ Once(threads)'
  BY <1>1, <1>2
<1>3. ASSUME UNCHANGED queues PROVE Once(methods)' /\ Once(threads)'
  BY <1>2, <1>3 DEF queues
<1>4. CASE EventOperation
  <2>1. ASSUME NEW e \in UserEvent, NotifyNow(e) PROVE Once(methods)' /\ Once(threads)'
    BY <2>1, NotifyFires, FiringQueues
  <2>2. ASSUME NEW e \in UserEvent,
               NotifyZero(e) \/ (\E t \in Time : NotifyAt(e, t)) \/ CancelNotify(e)
        PROVE  UNCHANGED queues
    BY <2>2 DEF NotifyZero, NotifyAt, CancelNotify
  <2>3. ASSUME NEW c \in Channel, RequestUpdate(c) PROVE UNCHANGED queues
    BY <2>3 DEF RequestUpdate
  <2> QED BY <1>3, <1>4, <2>1, <2>2, <2>3 DEF EventOperation
<1>5. CASE ProcessControl
  BY <1>5, ControlOnce
<1>6. CASE SetTrigger
  BY <1>3, <1>6 DEF SetTrigger, NextTrigger, NextTriggerTimed
<1>7. CASE Yield
  <2>1. CASE ThreadEnd
    <3>1. RemoveRunnable(active) /\ QueuesOk
      BY <2>1 DEF ThreadEnd, Inv, IInv
    <3> QED BY <1>1, <3>1, RunnableRemoved
  <2>2. CASE ~ThreadEnd
    BY <1>3, <1>7, <2>2 DEF Yield, WaitFor, WaitTimed, WaitCycles, MethodReturn
  <2> QED BY <2>1, <2>2
<1>8. CASE StartCall
  <2>1. ASSUME NEW d, NEW b, Start(d, b) PROVE methods' = Toggle(methods) /\ threads' = threads
    BY <2>1 DEF Start, EvaluateBegin
  <2>2. ASSUME NEW d, NEW b, FirstStart(d, b) PROVE UNCHANGED queues
    BY <2>2 DEF FirstStart
  <2>3. StartAfterStop => UNCHANGED queues
    BY DEF StartAfterStop, vars
  <2> QED BY <1>2, <1>3, <1>8, <2>1, <2>2, <2>3 DEF StartCall
<1>9. ASSUME Initialize PROVE Once(methods)' /\ Once(threads)'
  BY <1>9, InitializeQueues
<1>10. ASSUME RunMethod PROVE Once(methods)' /\ Once(threads)'
  <2>1. UNCHANGED threads
    BY <1>10 DEF RunMethod
  <2> QED BY <1>1, <1>10, <2>1, RunMethodQueues
<1>11. ASSUME RunThread PROVE Once(methods)' /\ Once(threads)'
  <2>1. PICK i \in PopChoices(threads, Random) : threads' = PopAt(threads, i)
    BY <1>11 DEF RunThread
  <2>2. i \in DOMAIN threads.pop /\ threads \in Queue(Thread)
    BY DEF PopChoices, Inv, IInv, QueuesOk
  <2>3. Once(PopAt(threads, i)) /\ UNCHANGED methods
    BY <1>1, <1>11, <2>2, Popped DEF RunThread
  <2> QED BY <1>1, <2>1, <2>3
<1>12. ASSUME NEW c \in Channel, NEW b \in BOOLEAN, Update(c, b) PROVE Once(methods)' /\ Once(threads)'
  <2>1. CASE b
    <3>1. Changed(c) /\ methods' = methods
      BY <1>12, <2>1 DEF Update
    <3>2. Once(threads)'
      BY <1>1, <3>1, Changing DEF Inv, IInv, ChannelsOk
    <3> QED BY <1>1, <3>1, <3>2
  <2>2. CASE ~b
    BY <1>2, <1>12, <2>2 DEF Update
  <2> QED BY <2>1, <2>2
<1>13. ASSUME DeltaStep \/ TimedStep PROVE Once(methods)' /\ Once(threads)'
  <2>1. CASE DeltaStep
    BY <2>1, LoopFires, FiringQueues
  <2>2. CASE TimedStep
    <3>1. PICK e \in TimedAt(now) : Trigger(e, pend, delta)
      BY <2>2 DEF TimedStep
    <3>2. Fires(e, delta)
      BY <2>2, <3>1, LoopFires
    <3> QED BY <3>2, FiringQueues
  <2> QED BY <1>13, <2>1, <2>2
<1>14. ASSUME MethodsDone \/ AnotherRound \/ DeltaDone \/ TimedDone
       PROVE  Once(methods)' /\ Once(threads)'
  <2>1. methods' \in {methods, Toggle(methods)} /\ threads' \in {threads, Toggle(threads)}
    BY <1>14 DEF MethodsDone, AnotherRound, DeltaDone, TimedDone, EvaluateBegin
  <2> QED BY <1>2, <2>1
<1>15. ASSUME ReturnToCaller \/ AbortEvaluation \/ EvaluateEnd \/ UpdateEnd \/ CrunchReturns
              \/ AdvanceTime \/ NoNextTime
       PROVE  UNCHANGED queues
  BY <1>15 DEF ReturnToCaller, AbortEvaluation, EvaluateEnd, UpdateEnd, CrunchReturns, AdvanceTime,
               NoNextTime
<1>16. CASE Schedule
  BY <1>3, <1>9, <1>10, <1>11, <1>12, <1>13, <1>14, <1>15, <1>16 DEF Schedule
<1>17. CASE UNCHANGED vars
  BY <1>3, <1>17 DEF vars
<1> QED BY <1>4, <1>5, <1>6, <1>7, <1>8, <1>16, <1>17 DEF Next

(* Only sc_stop() stops the simulation.                                    *)
LEMMA StoppedStep == Inv /\ [Next]_vars => Stopped'
<1> SUFFICES ASSUME Inv, [Next]_vars PROVE Stopped'
  OBVIOUS
<1> USE DEF stores, control
<1>1. /\ Stopped /\ run \in [status : {"elaboration", "running", "stopped"}, forced : BOOLEAN,
                             paused : BOOLEAN, once : BOOLEAN, until : Time, toTime : BOOLEAN]
  BY DEF Inv, WaitInv, IInv, RunOk
<1>2. ASSUME run'.forced = run.forced PROVE Stopped'
  BY <1>1, <1>2 DEF Stopped
<1>3. CASE UNCHANGED run
  BY <1>2, <1>3
<1>4. CASE Stop
  BY <1>4 DEF Stop, Calls, Stopped
<1>5. CASE Pause
  BY <1>1, <1>2, <1>5 DEF Pause
<1>6. CASE Return
  BY <1>1, <1>2, <1>6 DEF Return
<1>7. ASSUME NEW d, NEW b, Start(d, b) \/ FirstStart(d, b) PROVE Stopped'
  BY <1>1, <1>2, <1>7 DEF Start, FirstStart
<1>8. CASE EventOperation \/ SetTrigger \/ Yield
  <2>1. UNCHANGED run
    BY <1>8 DEF EventOperation, NotifyNow, NotifyZero, NotifyAt, CancelNotify, RequestUpdate,
                SetTrigger, NextTrigger, NextTriggerTimed, Yield, WaitFor, WaitTimed, WaitCycles,
                ThreadEnd, MethodReturn
  <2> QED BY <1>3, <2>1
<1>9. CASE ProcessControl
  <2>1. UNCHANGED run \/ Stop \/ Pause
    BY <1>9 DEF ProcessControl, SuspendProcess, ResumeProcess, DisableProcess, EnableProcess,
                KillDisconnect, KillThread, ThrowIt, ResetProcess, SyncReset
  <2> QED BY <1>3, <1>4, <1>5, <2>1
<1>10. CASE StartCall
  BY <1>3, <1>7, <1>10 DEF StartCall, StartAfterStop, vars
<1>11. CASE Schedule
  <2>1. CrunchReturns \/ NoNextTime \/ TimedDone => UNCHANGED run \/ Return
    BY DEF CrunchReturns, NoNextTime, TimedDone
  <2>2. UNCHANGED run \/ CrunchReturns \/ NoNextTime \/ TimedDone
    BY <1>11 DEF Schedule, Initialize, RunMethod, MethodsDone, RunThread, ReturnToCaller,
                 AnotherRound, AbortEvaluation, EvaluateEnd, Update, UpdateEnd, DeltaStep,
                 DeltaDone, AdvanceTime, TimedStep
  <2> QED BY <1>3, <1>6, <2>1, <2>2
<1>12. CASE UNCHANGED vars
  BY <1>3, <1>12 DEF vars
<1> QED BY <1>8, <1>9, <1>10, <1>11, <1>12 DEF Next

-------------------------------------------------------------------------------
(* Before the first evaluation *)

LEMMA StaysQuiet ==
    ASSUME Quiet,
           Queued(methods)' \subseteq Queued(methods), Queued(threads)' \subseteq Queued(threads),
           \A p \in Process : proc'[p].kind = proc[p].kind /\ proc'[p].cycles \in {proc[p].cycles, 0},
           requests' \subseteq requests
    PROVE  Quiet'
BY DEF Quiet

(* The calls sc_main makes before its first sc_start().                    *)
LEMMA EarlyControl ==
    ASSUME Inv, Quiet, ProcessControl, active = NoProcess, run.status = "elaboration",
           run'.status = "elaboration", phase = "main"
    PROVE  Quiet'
<1>1. QueuesOk /\ proc \in [Process -> Member] /\ (Queued(methods) = {}) /\ Queued(threads) = {}
  BY DEF Inv, IInv, ProcOk, Quiet
<1>2. ASSUME NEW p \in Process, NEW r, proc' = [proc EXCEPT ![p] = r], requests' = requests,
             r.kind = proc[p].kind, r.cycles \in {proc[p].cycles, 0},
             UNCHANGED queues \/ RemoveRunnable(p)
      PROVE  Quiet'
  <2>1. Queued(methods)' \subseteq Queued(methods) /\ Queued(threads)' \subseteq Queued(threads)
    BY <1>1, <1>2, RunnableRemoved DEF queues
  <2>2. \A q \in Process : proc'[q].kind = proc[q].kind /\ proc'[q].cycles \in {proc[q].cycles, 0}
    BY <1>1, <1>2
  <2> QED BY <1>2, <2>1, <2>2, StaysQuiet
<1>3. ASSUME NEW p \in Process, SuspendProcess(p) PROVE Quiet'
  <2>1. /\ proc' = [proc EXCEPT ![p] = Held(p)] /\ RemoveRunnable(p) /\ requests' = requests
    BY <1>3 DEF SuspendProcess, channels
  <2>2. Held(p).kind = proc[p].kind /\ Held(p).cycles = proc[p].cycles
    BY <1>1 DEF Held, Set, Member
  <2> QED BY <1>2, <2>1, <2>2
<1>4. ASSUME NEW p \in Process, ResumeProcess(p) PROVE Quiet'
  <2> DEFINE r == proc[p]
             error == ~Corners /\ {"disabled", "suspended"} \subseteq r.state
             free == IF error THEN Clear(r, "suspended") ELSE Released(r)
  <2>1. ~Has(proc[p], "ready")
    BY <1>4 DEF ResumeProcess, Started
  <2>2. proc' = [proc EXCEPT ![p] = free] /\ UNCHANGED queues /\ requests' = requests
    BY <1>4, <2>1 DEF ResumeProcess, channels
  <2>3. free.kind = r.kind /\ free.cycles = r.cycles
    <3>1. r \in Member
      BY <1>1
    <3>2. LET c == Clear(r, "suspended") IN c.kind = r.kind /\ c.cycles = r.cycles
      BY <3>1 DEF Clear, Member
    <3>3. LET c == Released(r) IN c.kind = r.kind /\ c.cycles = r.cycles
      BY <3>1, ReleasedWait DEF SameWait
    <3> QED BY <3>2, <3>3
  <2> HIDE DEF free
  <2> QED BY <1>2, <2>2, <2>3
<1>5. ASSUME NEW p \in Process, DisableProcess(p) PROVE Quiet'
  <2> DEFINE off == Set(proc[p], "disabled")
             new == IF p \in Thread /\ run.status = "elaboration" THEN Set(off, "ready") ELSE off
  <2>1. proc' = [proc EXCEPT ![p] = new] /\ UNCHANGED queues /\ requests' = requests
    BY <1>5 DEF DisableProcess, channels
  <2>2. new.kind = proc[p].kind /\ new.cycles = proc[p].cycles
    BY <1>1 DEF Set, Member
  <2> HIDE DEF new
  <2> QED BY <1>2, <2>1, <2>2
<1>6. ASSUME NEW p \in Process, EnableProcess(p) PROVE Quiet'
  <2> DEFINE on == Clear(proc[p], "disabled")
             again == on.state = {"ready"} /\ (p \in Method \/ Corners)
             new == IF again THEN Clear(on, "ready") ELSE on
  <2>1. proc' = [proc EXCEPT ![p] = new] /\ requests' = requests /\ UNCHANGED queues
    BY <1>6, EnableSound DEF EnableProcess, channels
  <2>2. new.kind = proc[p].kind /\ new.cycles = proc[p].cycles
    BY <1>1 DEF Clear, Member
  <2> HIDE DEF new
  <2> QED BY <1>2, <2>1, <2>2
<1>7. ASSUME NEW p \in Thread, NEW b \in BOOLEAN, SyncReset(p, b) PROVE Quiet'
  <2> DEFINE r == [proc[p] EXCEPT !.sticky = b]
             s == ResetChanged(r, p, FALSE, b, Started)
             new == IF ~Corners /\ Has(r, "suspended") THEN r ELSE s
  <2>1. proc' = [proc EXCEPT ![p] = new] /\ requests' = requests /\ UNCHANGED queues
    BY <1>7 DEF SyncReset, channels
  <2>2. p \in Process /\ r \in Member /\ r.kind = proc[p].kind /\ r.cycles = proc[p].cycles
    BY <1>1, Names DEF Member
  <2>3. Started \in BOOLEAN
    BY DEF Started
  <2> HIDE DEF r
  <2>4. SameWait(r, s) /\ s.cycles \in {r.cycles, 0}
    <3> DEFINE a == FALSE
               d == Started
    <3>1. a \in BOOLEAN /\ d \in BOOLEAN /\ ~(a /\ b /\ d)
      BY <2>3
    <3>2. s = ResetChanged(r, p, a, b, d)
      OBVIOUS
    <3> HIDE DEF a, d, s
    <3>3. LET t == ResetChanged(r, p, a, b, d) IN SameWait(r, t) /\ t.cycles \in {r.cycles, 0}
      BY <2>2, <3>1, ResetWaits
    <3> QED BY <3>2, <3>3
  <2> HIDE DEF s
  <2>5. new.kind = proc[p].kind /\ new.cycles \in {proc[p].cycles, 0}
    BY <2>2, <2>4 DEF SameWait
  <2> HIDE DEF new
  <2> QED BY <1>2, <2>1, <2>2, <2>5
<1>8. ~Stop
  BY DEF Stop, Inv, IInv, RunOk
<1> QED BY <1>3, <1>4, <1>5, <1>6, <1>7, <1>8
        DEF ProcessControl, KillDisconnect, KillThread, ThrowIt, ResetProcess, Pause, Started

(* The updates before the first evaluation.                                *)
LEMMA EarlyUpdate ==
    ASSUME Inv, Quiet, phase = "initupdate", NEW c \in Channel, NEW b \in BOOLEAN, Update(c, b)
    PROVE  Quiet'
<1>1. c \in requests /\ methods' = methods /\ requests' = requests \ {c}
      /\ (\A x \in Resets : x.channel = c => ~x.async)
  BY DEF Update, Quiet
<1>2. CASE ~b
  BY <1>1, <1>2, StaysQuiet DEF Update
<1>3. CASE b
  <2>1. Changed(c)
    BY <1>3 DEF Update
  <2>2. ThrownBy(c) = {}
    BY <1>1 DEF ThrownBy
  <2>3. threads' = threads
    BY <2>1, <2>2, NoneThrown
  <2>4. ASSUME NEW p \in Process
        PROVE  proc'[p].kind = proc[p].kind /\ proc'[p].cycles \in {proc[p].cycles, 0}
    <3> DEFINE targets == {x \in Resets : x.channel = c}
               x == CHOOSE y \in targets : y.process = p
    <3>1. proc'[p] = IF \E y \in targets : y.process = p
                     THEN ResetChanged(proc[p], p, x.async, x.level # level[c], TRUE)
                     ELSE proc[p]
      BY <2>1 DEF Changed
    <3>2. CASE \E y \in targets : y.process = p
      <4>1. x \in Resets /\ x.channel = c
        BY <3>2
      <4> DEFINE a == x.async
                 e == x.level # level[c]
                 d == TRUE
      <4>2. a \in BOOLEAN /\ ~a
        BY <1>1, <4>1, KernelAssumption
      <4>3. e \in BOOLEAN /\ d \in BOOLEAN
        OBVIOUS
      <4>4. proc'[p] = ResetChanged(proc[p], p, a, e, d) /\ proc[p] \in Member
        BY <3>1, <3>2, Facts
      <4> HIDE DEF a, d, e
      <4>5. LET t == ResetChanged(proc[p], p, a, e, d) IN
            SameWait(proc[p], t) /\ t.cycles \in {proc[p].cycles, 0}
        BY <4>2, <4>3, <4>4, ResetWaits
      <4> QED BY <4>4, <4>5 DEF SameWait
    <3>3. CASE ~\E y \in targets : y.process = p
      BY <3>1, <3>3
    <3> QED BY <3>2, <3>3
  <2> QED BY <1>1, <2>3, <2>4, StaysQuiet
<1> QED BY <1>2, <1>3

LEMMA EarlyStep == Inv /\ [Next]_vars => Early'
<1> SUFFICES ASSUME Inv, [Next]_vars, run'.status = "elaboration" \/ phase' = "initupdate"
             PROVE  Quiet'
  BY DEF Early
<1> USE DEF stores, control, channels
<1>1. IInv /\ Early /\ (active # NoProcess => Evaluating) /\ (Scheduling => caller = NoProcess)
      /\ run \in [status : {"elaboration", "running", "stopped"}, forced : BOOLEAN,
                  paused : BOOLEAN, once : BOOLEAN, until : Time, toTime : BOOLEAN]
  BY DEF Inv, WaitInv, IInv, Control, Evaluating, RunOk, Scheduling
<1>2. CASE run'.status = "elaboration"
  <2>1. /\ run.status = "elaboration" /\ phase = "main" /\ active = NoProcess /\ caller = NoProcess
        /\ Quiet
    <3>1. run.status = "elaboration"
      BY <1>1, <1>2, ElaborationOver
    <3> QED BY <1>1, <3>1 DEF IInv, Control, Early, Evaluating
  <2>2. ASSUME UNCHANGED <<proc, queues>>, requests' = requests PROVE Quiet'
    BY <2>1, <2>2, StaysQuiet DEF queues
  <2>3. CASE EventOperation
    <3>1. ASSUME NEW e \in UserEvent,
                 NotifyZero(e) \/ (\E t \in Time : NotifyAt(e, t)) \/ CancelNotify(e)
          PROVE  Quiet'
      BY <2>2, <3>1 DEF NotifyZero, NotifyAt, CancelNotify
    <3>2. ASSUME NEW c \in Channel, RequestUpdate(c) PROVE Quiet'
      <4>1. ~\E x \in Resets : x.channel = c /\ x.async
        BY <2>1, <3>2 DEF RequestUpdate, Started, Inv, Orderly
      <4>2. UNCHANGED <<proc, queues>> /\ requests' = requests \cup {c}
        BY <3>2 DEF RequestUpdate
      <4> QED BY <2>1, <4>1, <4>2 DEF Quiet, queues
    <3> QED BY <2>1, <2>3, <3>1, <3>2 DEF EventOperation, NotifyNow, Started
  <2>4. CASE ProcessControl
    BY <1>2, <2>1, <2>4, EarlyControl
  <2>5. ~SetTrigger /\ ~Yield
    BY <2>1, Names DEF SetTrigger, NextTrigger, NextTriggerTimed, Triggers, Yield, WaitFor,
                       WaitTimed, WaitCycles, Waits, ThreadEnd, MethodReturn
  <2>6. CASE StartCall
    BY <1>1, <1>2, <2>1, <2>2, <2>6 DEF StartCall, Start, FirstStart, StartAfterStop, Started, vars
  <2>7. ~Schedule
    BY <2>1 DEF Schedule, Initialize, RunMethod, MethodsDone, RunThread, ReturnToCaller,
                AnotherRound, AbortEvaluation, EvaluateEnd, ThreadsDone, Update, UpdateEnd,
                DeltaStep, DeltaDone, CrunchReturns, AdvanceTime, NoNextTime, TimedStep, TimedDone
  <2>8. CASE UNCHANGED vars
    BY <2>2, <2>8 DEF vars
  <2> QED BY <2>3, <2>4, <2>5, <2>6, <2>7, <2>8 DEF Next
<1>3. CASE phase' = "initupdate" /\ run'.status # "elaboration"
  <2>1. ASSUME NEW d, NEW b, FirstStart(d, b) PROVE Quiet'
    <3>1. Quiet /\ UNCHANGED <<proc, queues, requests>>
      BY <1>1, <2>1 DEF FirstStart, Early
    <3> QED BY <3>1, StaysQuiet DEF queues
  <2>2. ASSUME phase = "initupdate", NEW c \in Channel, NEW b \in BOOLEAN, Update(c, b) PROVE Quiet'
    BY <1>1, <2>2, EarlyUpdate DEF Early
  <2>3. ASSUME UNCHANGED vars PROVE Quiet'
    <3>1. Quiet /\ UNCHANGED <<proc, queues, requests>>
      BY <1>1, <1>3, <2>3 DEF vars, Early
    <3> QED BY <3>1, StaysQuiet DEF queues
  <2>4. ASSUME CallStep PROVE FALSE
    <3>1. phase' = phase /\ phase \in {"main", "methods", "threads"}
      BY <1>1, <2>4, Calling
    <3> QED BY <1>3, <3>1
  <2>5. CASE StartCall
    BY <1>3, <2>1, <2>3, <2>5 DEF StartCall, Start, EvaluateBegin, StartAfterStop
  <2>6. CASE Schedule
    <3>1. \/ phase' \in {"main", "methods", "threads", "initnotify", "update", "crunched", "notify",
                         "advance", "timed"}
          \/ phase' = phase /\ \E c \in Channel, b \in BOOLEAN : Update(c, b)
          \/ phase' = phase /\ phase # "initupdate"
      BY <1>1, <2>6
         DEF Schedule, Initialize, RunMethod, MethodsDone, RunThread, ReturnToCaller,
             AnotherRound, AbortEvaluation, EvaluateEnd, ThreadsDone, Update, UpdateEnd,
             DeltaStep, DeltaDone, CrunchReturns, AdvanceTime, NoNextTime, TimedStep, TimedDone,
             EvaluateBegin, Return, IInv, Control, Scheduling
    <3> QED BY <1>3, <2>2, <3>1
  <2> QED BY <2>1, <2>3, <2>4, <2>5, <2>6 DEF Next, CallStep
<1> QED BY <1>2, <1>3

-------------------------------------------------------------------------------
(* Methods that call next_trigger() *)

LEMMA PopRemoved ==
    ASSUME QueuesOk, NEW p, RemoveRunnable(p), threads.pop = <<>>
    PROVE  threads'.pop = <<>>
<1>1. threads \in Queue(Thread)
  BY DEF QueuesOk
<1>2. threads' = IF p \in Queued(threads) THEN RemoveProc(threads, p) ELSE threads
  BY DEF RemoveRunnable
<1>3. RemoveFirst(threads.pop, p) = <<>>
  <2> DEFINE S == {}
             e == RemoveFirst(<<>>, p)
  <2>1. <<>> \in Seq(S)
    OBVIOUS
  <2> HIDE DEF e
  <2>2. e \in Seq(S)
    BY <2>1, RemoveSet DEF e
  <2>3. e = <<>>
    BY <2>2
  <2> QED BY <2>3 DEF e
<1>4. RemoveProc(threads, p).pop = <<>>
  BY <1>1, <1>3 DEF RemoveProc, Queue
<1> QED BY <1>2, <1>4

(* A step while no method has preempted a thread.                          *)
LEMMA KeptAlone ==
    ASSUME caller' = NoProcess,
           "next_trigger" \in Op =>
             /\ phase' # "threads" => threads'.pop = <<>>
             /\ active' \in Method => active' \notin Queued(methods)'
    PROVE  Kept'
BY DEF Kept

(* A step of the active process, or of sc_main, that adds no method but    *)
(* others to the queue.                                                    *)
LEMMA KeptCall ==
    ASSUME Inv, NEW op, Calls(op), UNCHANGED <<phase, caller>>, active' \in {active, NoProcess},
           threads.pop = <<>> => threads'.pop = <<>>,
           active \in Method /\ active \notin Queued(methods) => active \notin Queued(methods)'
    PROVE  Kept'
<1>1. "next_trigger" \in Op => caller = NoProcess
  BY Caller
<1>2. NoProcess \notin Method
  BY Names
<1> QED BY <1>1, <1>2 DEF Kept, Inv, WaitInv

LEMMA ControlKept ==
    ASSUME Inv, ProcessControl
    PROVE  Kept'
<1> USE DEF control
<1>1. QueuesOk
  BY DEF Inv, IInv
<1>2. ASSUME NEW op, Calls(op), UNCHANGED <<phase, caller, queues>>, active' \in {active, NoProcess}
      PROVE  Kept'
  BY <1>2, KeptCall DEF queues
<1>3. ASSUME NEW p \in Process, SuspendProcess(p) \/ KillDisconnect(p) PROVE Kept'
  <2>1. /\ UNCHANGED <<phase, caller>> /\ active' \in {active, NoProcess}
        /\ Calls("suspend") \/ Calls("kill")
        /\ RemoveRunnable(p) \/ UNCHANGED queues
    BY <1>3 DEF SuspendProcess, KillDisconnect
  <2>2. CASE RemoveRunnable(p)
    <3>1. (threads.pop = <<>> => threads'.pop = <<>>) /\ Queued(methods)' \subseteq Queued(methods)
      BY <1>1, <2>2, PopRemoved, RunnableRemoved
    <3> QED BY <2>1, <3>1, KeptCall
  <2> QED BY <1>2, <2>1, <2>2
<1>4. ASSUME NEW p \in Process, ResumeProcess(p) PROVE Kept'
  <2>1. /\ UNCHANGED <<phase, caller, active>> /\ Calls("resume")
        /\ \/ Push(p) /\ (p \in Method => p # active)
           \/ UNCHANGED queues
    BY <1>4, Names DEF ResumeProcess
  <2>2. CASE Push(p) /\ (p \in Method => p # active)
    <3>1. threads'.pop = threads.pop /\ Queued(methods)' = Queued(methods) \cup ({p} \cap Method)
      BY <1>1, <2>2, Pushed
    <3> QED BY <2>1, <2>2, <3>1, KeptCall
  <2> QED BY <1>2, <2>1, <2>2
<1>5. ASSUME NEW p \in Process, EnableProcess(p) PROVE Kept'
  BY <1>2, <1>5, EnableSound DEF EnableProcess
<1>6. ASSUME NEW p \in Process, DisableProcess(p) PROVE Kept'
  BY <1>2, <1>6 DEF DisableProcess
<1>7. ASSUME NEW p \in Thread, NEW b \in BOOLEAN, SyncReset(p, b) PROVE Kept'
  BY <1>2, <1>7 DEF SyncReset
<1>8. ASSUME NEW p \in Thread, ThrowIt(p) \/ ResetProcess(p) PROVE Kept'
  BY <1>8 DEF ThrowIt, ResetProcess, Calls, Inv, Orderly, Kept
<1>9. ASSUME NEW p \in Thread, KillThread(p) PROVE Kept'
  <2> DEFINE r == [proc[p] EXCEPT !.throw = "KILL", !.cycles = 0]
  <2>1. SUFFICES ASSUME "next_trigger" \in Op PROVE Kept'
    BY DEF Kept
  <2>2. /\ Calls("kill") /\ active # NoProcess /\ PreemptWith(p, r) /\ phase' = phase
        /\ p \in Process /\ p \notin Method /\ p # NoProcess
    BY <1>9, Names DEF KillThread
  <2>3. caller = NoProcess /\ active \in Process
    BY <2>1, <2>2, Caller DEF Inv, IInv, RunOk
  <2>4. CASE active \in Method
    <3>1. active' = p /\ caller' = active /\ proc' = [proc EXCEPT ![p] = Resumed(r)] /\ RemoveRunnable(p)
      BY <2>2, <2>4 DEF PreemptWith
    <3>2. proc'[p].throw = "KILL"
      <4>1. proc[p] \in Member /\ proc \in [Process -> Member]
        BY <2>2 DEF Inv, IInv, ProcOk
      <4>2. r.throw = "KILL"
        BY <4>1 DEF Member
      <4>3. Resumed(r) = r
        BY <4>2 DEF Resumed
      <4> HIDE DEF r
      <4>4. proc'[p] = r
        BY <2>2, <3>1, <4>1, <4>3
      <4> QED BY <4>2, <4>4
    <3>3. phase' = "methods" /\ threads.pop = <<>> /\ active \notin Queued(methods)
      BY <2>1, <2>2, <2>4 DEF Inv, IInv, Control, WaitInv, Kept
    <3>4. Queued(methods)' \subseteq Queued(methods) /\ threads'.pop = <<>>
      BY <1>1, <3>1, <3>3, PopRemoved, RunnableRemoved
    <3> QED BY <2>2, <3>1, <3>2, <3>3, <3>4 DEF Kept
  <2>5. CASE active \notin Method
    <3>1. active' = NoProcess /\ caller' = caller
      BY <2>2, <2>5 DEF PreemptWith
    <3>2. phase = "threads"
      BY <2>2, <2>3, <2>5 DEF Inv, IInv, Control, Process
    <3> QED BY <2>2, <2>3, <3>1, <3>2, KeptAlone, Names
  <2> QED BY <2>4, <2>5
<1>10. ASSUME Stop \/ Pause PROVE Kept'
  <2>1. UNCHANGED <<phase, caller, active>> /\ (Calls("stop") \/ Calls("pause"))
    BY <1>10 DEF Stop, Pause
  <2> QED BY <1>2, <1>10, <2>1, StopQueues
<1> QED BY <1>3, <1>4, <1>5, <1>6, <1>7, <1>8, <1>9, <1>10 DEF ProcessControl

LEMMA ScheduleKept ==
    ASSUME Inv, StartCall \/ Schedule
    PROVE  Kept'
<1> USE DEF stores, control
<1>1. /\ NoProcess \notin Method /\ Kept /\ (Scheduling => active = NoProcess /\ caller = NoProcess)
      /\ caller # NoProcess => phase = "methods"
      /\ active # NoProcess => Evaluating
  BY Names, Facts DEF Scheduling, Inv, IInv, WaitInv, Control, Evaluating
<1>2. ASSUME active = NoProcess, caller = NoProcess, UNCHANGED <<active, caller>>,
             phase' # "threads" => phase # "threads" \/ threads.pop = <<>>,
             threads.pop = <<>> => threads'.pop = <<>>
      PROVE  Kept'
  BY <1>1, <1>2, KeptAlone DEF Kept
<1>3. CASE StartCall
  <2>1. ASSUME NEW d, NEW b, Start(d, b) \/ FirstStart(d, b) PROVE Kept'
    <3>1. /\ phase = "main" /\ UNCHANGED <<active, caller, threads>> /\ phase' # "threads"
      BY <2>1 DEF Start, FirstStart, EvaluateBegin, queues
    <3> QED BY <1>1, <1>2, <3>1 DEF Evaluating
  <2>2. ASSUME StartAfterStop PROVE Kept'
    <3>1. /\ phase = "main" /\ UNCHANGED <<active, caller, threads, phase>>
      BY <2>2 DEF StartAfterStop, vars, queues
    <3> QED BY <1>1, <1>2, <3>1 DEF Evaluating
  <2> QED BY <1>3, <2>1, <2>2 DEF StartCall
<1>4. ASSUME Initialize PROVE Kept'
  <2>1. phase = "initupdate" /\ UNCHANGED <<active, caller>> /\ phase' # "threads"
    BY <1>4 DEF Initialize
  <2> QED BY <1>1, <1>2, <1>4, <2>1, InitializeQueues DEF Evaluating
<1>5. ASSUME RunMethod PROVE Kept'
  <2>1. Scheduling /\ phase = "methods" /\ UNCHANGED <<threads, caller, phase>>
    BY <1>5 DEF RunMethod
  <2> QED BY <1>1, <1>5, <2>1, RunMethodQueues, KeptAlone DEF Kept
<1>6. ASSUME RunThread PROVE Kept'
  <2>1. SUFFICES ASSUME "next_trigger" \in Op PROVE Kept'
    BY DEF Kept
  <2>2. PICK i \in PopChoices(threads, Random) : active' = threads.pop[i]
    BY <1>6 DEF RunThread
  <2>3. i \in DOMAIN threads.pop /\ threads \in Queue(Thread)
    BY DEF PopChoices, Inv, IInv, QueuesOk
  <2>4. threads.pop # <<>> /\ active' \in Thread
    BY <2>2, <2>3, Popped
  <2>5. phase = "threads" /\ UNCHANGED <<phase, caller>> /\ caller = NoProcess
    BY <1>1, <1>6, <2>1, <2>4 DEF RunThread, Kept
  <2> QED BY <2>4, <2>5, KeptAlone, Names
<1>7. ASSUME ReturnToCaller PROVE Kept'
  <2>1. /\ caller # NoProcess /\ caller' = NoProcess /\ active' \in {caller, NoProcess}
        /\ threads.pop = <<>> /\ UNCHANGED <<methods, threads>>
    BY <1>7 DEF ReturnToCaller, queues
  <2> QED BY <1>1, <2>1, KeptAlone DEF Kept
<1>8. ASSUME MethodsDone \/ AnotherRound \/ AbortEvaluation \/ EvaluateEnd PROVE Kept'
  <2>1. /\ Scheduling /\ UNCHANGED <<active, caller>>
        /\ phase' # "threads" => threads.pop = <<>> /\ UNCHANGED threads
    BY <1>8 DEF MethodsDone, AnotherRound, AbortEvaluation, EvaluateEnd, ThreadsDone, EvaluateBegin,
                queues
  <2> QED BY <1>1, <2>1, KeptAlone
<1>9. ASSUME NEW c \in Channel, NEW b \in BOOLEAN, Update(c, b) PROVE Kept'
  <2>1. phase \in {"initupdate", "update"} /\ UNCHANGED <<phase, active, caller>>
    BY <1>9 DEF Update
  <2>2. SUFFICES ASSUME "next_trigger" \in Op PROVE Kept'
    BY DEF Kept
  <2>3. threads' = threads
    <3>1. CASE b
      <4>1. ThrownBy(c) = {}
        BY <2>2 DEF ThrownBy, Inv, Orderly
      <4> QED BY <1>9, <3>1, <4>1, NoneThrown DEF Update
    <3>2. CASE ~b
      BY <1>9, <3>2 DEF Update
    <3> QED BY <3>1, <3>2
  <2> QED BY <1>1, <1>2, <2>1, <2>3 DEF Evaluating
<1>10. ASSUME NEW e, Fires(e, delta), UNCHANGED caller, phase \in {"initnotify", "notify", "timed"}
       PROVE  Kept'
  <2>1. threads'.pop = threads.pop /\ UNCHANGED <<active, phase>>
    BY <1>10, FiringQueues DEF Fires
  <2> QED BY <1>1, <1>2, <1>10, <2>1 DEF Evaluating
<1>11. ASSUME DeltaStep PROVE Kept'
  <2>1. UNCHANGED caller /\ phase \in {"initnotify", "notify", "timed"}
    BY <1>11 DEF DeltaStep
  <2> QED BY <1>10, <1>11, <2>1, LoopFires
<1>12. ASSUME TimedStep PROVE Kept'
  <2>1. PICK e \in TimedAt(now) : Trigger(e, pend, delta)
    BY <1>12 DEF TimedStep
  <2>2. Fires(e, delta)
    BY <1>12, <2>1, LoopFires
  <2>3. UNCHANGED caller /\ phase \in {"initnotify", "notify", "timed"}
    BY <1>12 DEF TimedStep
  <2> QED BY <1>10, <2>2, <2>3
<1>13. ASSUME UpdateEnd \/ DeltaDone \/ CrunchReturns \/ AdvanceTime \/ NoNextTime \/ TimedDone
       PROVE  Kept'
  <2>1. /\ phase \in {"update", "initnotify", "notify", "crunched", "advance", "timed"}
        /\ UNCHANGED <<active, caller, threads>>
    BY <1>13 DEF UpdateEnd, DeltaDone, CrunchReturns, AdvanceTime, NoNextTime, TimedDone, queues
  <2> QED BY <1>1, <1>2, <2>1 DEF Evaluating
<1> QED BY <1>3, <1>4, <1>5, <1>6, <1>7, <1>8, <1>9, <1>11, <1>12, <1>13 DEF Schedule

LEMMA KeptStep == Inv /\ [Next]_vars => Kept'
<1> SUFFICES ASSUME Inv, [Next]_vars PROVE Kept'
  OBVIOUS
<1> USE DEF stores, control
<1>1. /\ NoProcess \notin Method /\ Kept /\ QueuesOk
      /\ active \in Method => caller = NoProcess
  BY Names DEF Inv, IInv, WaitInv, Control
<1>2. ASSUME UNCHANGED <<phase, caller, active, queues, proc>> PROVE Kept'
  BY <1>1, <1>2 DEF Kept, queues
<1>3. CASE EventOperation
  <2>1. ASSUME NEW e \in UserEvent, NotifyNow(e) PROVE Kept'
    <3>1. Fires(e, VectorWithout(e)) /\ Calls("notify") /\ UNCHANGED <<phase, caller, active>>
      BY <2>1, NotifyFires DEF NotifyNow
    <3>2. /\ threads'.pop = threads.pop
          /\ Queued(methods)' = Queued(methods) \cup {p \in Method : Wakes(p, e)}
      BY <3>1, FiringQueues
    <3>3. active \in Method => ~Wakes(active, e)
      BY DEF Wakes, Ready, StaticTrigger, DynamicTrigger
    <3> QED BY <3>1, <3>2, <3>3, KeptCall
  <2>2. ASSUME NEW e \in UserEvent,
               NotifyZero(e) \/ (\E t \in Time : NotifyAt(e, t)) \/ CancelNotify(e)
        PROVE  Kept'
    BY <1>2, <2>2 DEF NotifyZero, NotifyAt, CancelNotify
  <2>3. ASSUME NEW c \in Channel, RequestUpdate(c) PROVE Kept'
    BY <1>2, <2>3 DEF RequestUpdate
  <2> QED BY <1>3, <2>1, <2>2, <2>3 DEF EventOperation
<1>4. CASE SetTrigger
  <2>1. UNCHANGED <<phase, caller, active, queues>> /\ active \in Method
    BY <1>4 DEF SetTrigger, NextTrigger, NextTriggerTimed, Triggers
  <2> QED BY <1>1, <2>1 DEF Kept, queues
<1>5. CASE Yield
  <2>1. /\ active' = NoProcess /\ UNCHANGED <<phase, caller>>
        /\ UNCHANGED queues \/ RemoveRunnable(active)
    BY <1>5 DEF Yield, WaitFor, WaitTimed, WaitCycles, ThreadEnd, MethodReturn
  <2>2. (threads.pop = <<>> => threads'.pop = <<>>) /\ Queued(methods)' \subseteq Queued(methods)
    BY <1>1, <2>1, PopRemoved, RunnableRemoved DEF queues
  <2> QED BY <1>1, <2>1, <2>2 DEF Kept
<1>6. CASE UNCHANGED vars
  BY <1>2, <1>6 DEF vars
<1> QED BY <1>3, <1>4, <1>5, <1>6, ControlKept, ScheduleKept DEF Next

-------------------------------------------------------------------------------
(* The invariant and what it says *)

LEMMA WaitsInitially == Init => WaitInv
<1> SUFFICES ASSUME Init PROVE WaitInv
  OBVIOUS
<1>1. /\ methods = EmptyQueue /\ threads = EmptyQueue /\ active = NoProcess /\ caller = NoProcess
      /\ phase = "main" /\ run.forced = FALSE /\ requests = {}
  BY DEF Init
<1>2. /\ Once(EmptyQueue) /\ Queued(EmptyQueue) = {} /\ EmptyQueue.pop = <<>>
  BY EmptyQueued DEF EmptyQueue
<1>3. ASSUME NEW p \in Process PROVE Sound(p) /\ proc[p].kind = "STATIC" /\ proc[p].cycles = 0
  <2>1. /\ proc[p].state = {} /\ proc[p].throw = "NONE" /\ proc[p].kind = "STATIC"
        /\ proc[p].timed = FALSE /\ proc[p].lists = {} /\ proc[p].cycles = 0
    BY DEF Init, NewProcess
  <2>2. pend[p] = None /\ p # NoProcess
    BY Names DEF Init
  <2>3. Listed(p)
    BY <2>1, <2>2 DEF Listed, Waiting
  <2>4. Owed(p)
    BY <1>1, <1>2, <2>1, <2>2 DEF Owed, InQueue, Has
  <2> QED BY <2>1, <2>3, <2>4 DEF Sound
<1>4. Early /\ Kept /\ Stopped
  BY <1>1, <1>2, <1>3, Names DEF Early, Quiet, Kept, Stopped
<1> QED BY <1>1, <1>2, <1>3, <1>4 DEF WaitInv

LEMMA WaitInvariance ==
    ASSUME Orderly PROVE Spec => []Inv
<1>1. Init => Inv
  BY Orderly, Initially, ThreadsInitially, WaitsInitially DEF Inv
<1>2. Inv /\ [Next]_vars => Inv'
  <2> SUFFICES ASSUME Inv, [Next]_vars PROVE Inv'
    OBVIOUS
  <2>1. IInv' /\ ThreadInv'
    <3>1. ThrowsOk' /\ ResetsOk' /\ Bits' /\ Tracked'
      BY ThrowsStep, ResetsStep, BitsStep, TrackedStep DEF Inv, ThreadInv
    <3> QED BY <3>1, Steps DEF Inv, ThreadInv
  <2>2. WaitInv'
    BY OnceStep, SoundStep, EarlyStep, KeptStep, StoppedStep DEF WaitInv
  <2>3. Orderly'
    BY Orderly
  <2> QED BY <2>1, <2>2, <2>3 DEF Inv
<1> QED BY <1>1, <1>2, PTL DEF Spec

(* Whoever is in a run queue is there once and waits for nothing, unless   *)
(* it is there to be killed; whoever has the ready bit is suspended, and a *)
(* thread that has it waits for nothing either, with the same exception:   *)
(* push_back_method() and push_back_thread() never meet a queued process,  *)
(* and resume() queues no thread that still waits.                         *)
THEOREM RunsAreOwed ==
    ASSUME Orderly, Tidy PROVE Spec => []RunsOwed
<1>1. Inv => RunsOwed
  <2> SUFFICES ASSUME Inv PROVE RunsOwed
    OBVIOUS
  <2>1. ASSUME NEW p \in Process
        PROVE  /\ InQueue(p) => WaitsForNothing(proc[p])
               /\ Has(proc[p], "ready") => Has(proc[p], "suspended")
               /\ p \in Thread /\ Has(proc[p], "ready") => WaitsForNothing(proc[p])
    <3>1. Owed(p) /\ (proc[p].kind = "STATIC" => Free(proc[p]))
      BY Facts
    <3> QED BY <3>1, Tidy, Names DEF Owed, Free, WaitsForNothing
  <2>2. /\ IsInjective(methods.push \o methods.pop) /\ IsInjective(threads.push \o threads.pop)
        /\ Queued(methods) \subseteq Process /\ Queued(threads) \subseteq Process
    BY QueuesDef, Names DEF Inv, IInv, WaitInv, Once
  <2> QED BY <2>1, <2>2 DEF RunsOwed, QueueDiscipline, ReadyIsSuspended, InQueue
<1> QED BY <1>1, WaitInvariance, PTL

(* A process is in the dynamic lists of exactly the events that can end    *)
(* its wait: wait(), next_trigger(), the triggers, the timeout and the end *)
(* of a process keep m_trigger_type, m_event_count and the lists of the    *)
(* events in step.                                                         *)
THEOREM ProcessesAreSound ==
    ASSUME Orderly PROVE Spec => []ProcessesSound
<1>1. Inv => WaitsConsistent
  <2> SUFFICES ASSUME Inv, NEW p \in Process
               PROVE  LET r == proc[p]
                          own == IF r.timed THEN {p} ELSE {}
                      IN /\ r.lists \subseteq r.on \cup {p}
                         /\ r.throw # "KILL" =>
                           CASE r.kind = "STATIC" -> r.lists = {} /\ ~r.timed
                             [] r.kind = "AND" -> /\ r.lists \subseteq r.on \cup own
                                                  /\ own \subseteq r.lists
                                                  /\ r.count = Cardinality(r.lists \ own)
                                                  /\ r.count > 0
                             [] OTHER -> r.lists = r.on \cup own
    BY DEF WaitsConsistent
  <2> DEFINE r == proc[p]
             own == IF r.timed THEN {p} ELSE {}
  <2>1. r \in Member /\ Waiting(r, p) /\ (r.kind = "STATIC" => Free(r))
    BY Facts
  <2>2. r.timed \in BOOLEAN /\ r.on \subseteq UserEvent \cup Channel /\ p \notin r.on
    BY <2>1, MemberFields, Names
  <2> HIDE DEF r
  <2>3. r.lists \subseteq r.on \cup own /\ own \subseteq r.lists /\ r.lists \ own = r.lists \ {p}
    BY <2>1, <2>2 DEF Waiting
  <2>4. r.lists \subseteq r.on \cup {p}
    BY <2>1 DEF Waiting
  <2>5. r.kind = "STATIC" => r.lists = {} /\ ~r.timed
    BY <2>1 DEF Free
  <2>6. r.throw # "KILL" /\ r.kind = "AND" =>
          r.count = Cardinality(r.lists \ own) /\ r.count > 0
    BY <2>1, <2>3 DEF Waiting
  <2>7. r.throw # "KILL" /\ r.kind \notin {"STATIC", "AND"} => r.lists = r.on \cup own
    BY <2>1, <2>3 DEF Waiting
  <2> QED BY <2>3, <2>4, <2>5, <2>6, <2>7 DEF r
<1> QED BY <1>1, WaitInvariance, TypeCorrect, PTL DEF ProcessesSound

(* The timeout event of a process is pending exactly while the process     *)
(* waits with a timeout, so that notify_internal() of wait(t) never        *)
(* overwrites a notification.                                              *)
THEOREM TimeoutsAreArmed ==
    ASSUME Orderly PROVE Spec => []TimeoutArmed
<1>1. Inv => TimeoutArmed
  BY Facts DEF TimeoutArmed
<1> QED BY <1>1, WaitInvariance, PTL

(* A thread that runs has waited all the cycles of its wait(n): no other   *)
(* way out of the wait leaves m_wait_cycle_n behind, in a design that does *)
(* not throw exceptions at threads that wait for cycles.                   *)
THEOREM CyclesAreWaited ==
    ASSUME Orderly, "throw" \notin Op \/ "CYCLES" \notin Op PROVE Spec => []CyclesElapsed
<1>1. Inv => CyclesElapsed
  <2> SUFFICES ASSUME Inv, active \in Thread PROVE proc[active].cycles = 0
    BY DEF CyclesElapsed
  <2>1. active \in Process
    BY Names
  <2> QED BY <2>1, Facts DEF Owed
<1> QED BY <1>1, WaitInvariance, PTL

(* Nobody else is dispatched than by crunch(), next_cor() and the return   *)
(* to a method that has preempted a thread.                                *)
LEMMA Dispatches ==
    ASSUME Inv, [Next]_vars, active = NoProcess, active' # NoProcess
    PROVE  RunMethod \/ RunThread \/ ReturnToCaller
<1> USE DEF stores, control
<1>1. NoProcess \notin Process /\ Process = Method \cup Thread
  BY Names
<1>2. ~EventOperation
  BY DEF EventOperation, NotifyNow, NotifyZero, NotifyAt, CancelNotify, RequestUpdate
<1>3. ~ProcessControl
  BY DEF ProcessControl, SuspendProcess, ResumeProcess, DisableProcess, EnableProcess,
         KillDisconnect, KillThread, ThrowIt, ResetProcess, SyncReset, Stop, Pause
<1>4. ~SetTrigger /\ ~Yield
  BY <1>1 DEF SetTrigger, NextTrigger, NextTriggerTimed, Triggers, Yield, WaitFor, WaitTimed,
              WaitCycles, ThreadEnd, MethodReturn
<1>5. ~StartCall
  BY DEF StartCall, Start, FirstStart, StartAfterStop, vars
<1>6. Schedule => RunMethod \/ RunThread \/ ReturnToCaller
  BY DEF Schedule, Initialize, MethodsDone, AnotherRound, AbortEvaluation, EvaluateEnd, Update,
         UpdateEnd, DeltaStep, DeltaDone, CrunchReturns, AdvanceTime, NoNextTime, TimedStep,
         TimedDone
<1> QED BY <1>2, <1>3, <1>4, <1>5, <1>6 DEF Next, vars

(* suspend() holds: a suspended process is not dispatched before it is     *)
(* resumed, except to be killed, in a design with no other exceptions.     *)
THEOREM SuspendedStay ==
    ASSUME Orderly, Firm PROVE Spec => SuspendedStays
<1> DEFINE Stays ==
      \A p \in Process :
        active = NoProcess /\ active' = p /\ p # caller /\ Has(proc[p], "suspended") =>
          proc[p].throw # "NONE"
<1>1. Inv /\ [Next]_vars => Stays
  <2> SUFFICES ASSUME Inv, [Next]_vars, NEW p \in Process, active = NoProcess, active' = p,
                      p # caller, Has(proc[p], "suspended")
               PROVE  proc[p].throw # "NONE"
    OBVIOUS
  <2>1. Owed(p) /\ p # NoProcess /\ p \in Method \cup Thread /\ Method \cap Thread = {}
    BY Facts, Names
  <2>2. ~ReturnToCaller
    BY <2>1 DEF ReturnToCaller
  <2>3. CASE RunMethod
    <3>1. PICK i \in PopChoices(methods, Random) : active' = methods.pop[i]
      BY <2>3 DEF RunMethod
    <3>2. i \in DOMAIN methods.pop /\ methods \in Queue(Method)
      BY DEF PopChoices, Inv, IInv, QueuesOk
    <3>3. p \in Method /\ InQueue(p)
      BY <3>1, <3>2, Popped DEF InQueue
    <3> QED BY <2>1, <3>3 DEF Owed
  <2>4. CASE RunThread
    <3>1. PICK i \in PopChoices(threads, Random) : active' = threads.pop[i]
      BY <2>4 DEF RunThread
    <3>2. i \in DOMAIN threads.pop /\ threads \in Queue(Thread)
      BY DEF PopChoices, Inv, IInv, QueuesOk
    <3>3. p \in Thread /\ InQueue(p)
      BY <3>1, <3>2, Popped DEF InQueue
    <3> QED BY <2>1, <3>3, Firm DEF Owed
  <2> QED BY <2>1, <2>2, <2>3, <2>4, Dispatches
<1>2. Stays => [Stays]_vars
  OBVIOUS
<1> QED BY <1>1, WaitInvariance, PTL DEF Spec, SuspendedStays

-------------------------------------------------------------------------------
(* No run is lost *)

(* q runs if its wait ends in this step, and goes on to if it was to run.  *)
RunKept(q) ==
  q # active /\ (WaitEnds(q) \/ WillRun(q)) =>
    WillRun(q)' \/ active' = q \/ Has(proc[q], "zombie")'

(* A step that ends no wait of q and takes it out of no queue.             *)
LEMMA Unmoved ==
    ASSUME NEW q \in Process, proc'[q].kind # "STATIC" \/ proc[q].kind = "STATIC",
           {"suspended", "ready"} \subseteq proc[q].state =>
             {"suspended", "ready"} \subseteq proc'[q].state,
           InQueue(q) => InQueue(q)' \/ active' = q
    PROVE  RunKept(q)
BY DEF RunKept, WaitEnds, WillRun, InQueue

(* A step that changes the record of p and takes nobody but p from a queue. *)
LEMMA Bystander ==
    ASSUME Inv, NEW p, NEW r, proc' = [proc EXCEPT ![p] = r], NEW q \in Process, q # p,
           Queued(methods) \subseteq Queued(methods)' \cup {p},
           Queued(threads) \subseteq Queued(threads)' \cup {p}
    PROVE  RunKept(q)
<1>1. proc'[q] = proc[q]
  BY DEF Inv, IInv, ProcOk
<1>2. InQueue(q) => InQueue(q)'
  BY DEF InQueue
<1> QED BY <1>1, <1>2, Unmoved

(* One more bit.                                                           *)
LEMMA SetWait ==
    ASSUME NEW r \in Member, NEW b \in {"disabled", "suspended", "ready", "zombie"}
    PROVE  LET s == Set(r, b) IN
           s \in Member /\ s.kind = r.kind /\ s.state = r.state \cup {b}
<1>1. PICK bits : bits = r.state \cup {b}
  OBVIOUS
<1>2. bits \in SUBSET {"disabled", "suspended", "ready", "zombie"}
  BY <1>1, MemberFields
<1>3. Set(r, b) = [r EXCEPT !.state = bits]
  BY <1>1 DEF Set
<1>4. LET s == [r EXCEPT !.state = bits] IN s \in Member /\ s.kind = r.kind /\ s.state = bits
  BY <1>2, MemberState, StateWait DEF SameWait
<1> QED BY <1>1, <1>3, <1>4

LEMMA FiringKeeps ==
    ASSUME Inv, NEW e, NEW v, Fires(e, v), NEW q \in Process
    PROVE  RunKept(q)
<1> DEFINE r == proc[q]
           s == proc'[q]
<1>1. r \in Member /\ Waiting(r, q)
  BY Facts
<1>2. InQueue(q)' <=> InQueue(q) \/ Wakes(q, e)
  <2>1. /\ Queued(methods)' = Queued(methods) \cup {p \in Method : Wakes(p, e)}
        /\ Queued(threads)' = Queued(threads) \cup {p \in Thread : Wakes(p, e)}
    BY Triggering DEF Fires, Inv, IInv, StoresOk
  <2> QED BY <2>1, Names DEF InQueue
<1>3. ASSUME s.kind = r.kind, r.state \subseteq s.state PROVE RunKept(q)
  BY <1>2, <1>3, Unmoved
<1>4. CASE Passes(q, e)
  BY <1>3, <1>4 DEF Passes
<1>5. CASE Ticks(q, e)
  <2>1. \/ s = [r EXCEPT !.cycles = @ - 1]
        \/ s = Set(r, "ready")
        \/ s = r
    BY <1>5 DEF Ticks
  <2>2. s.kind = r.kind /\ r.state \subseteq s.state
    <3> HIDE DEF r, s
    <3> QED BY <1>1, <2>1 DEF Member, Set
  <2> QED BY <1>3, <2>2
<1>6. CASE Ends(q, e)
  <2>1. /\ e \in r.lists /\ Satisfies(r, q, e) /\ s = Completed(r, q, e)
        /\ Wakes(q, e) <=> ~Has(r, "suspended")
    BY <1>6 DEF Ends, DynamicTrigger
  <2>2. s.state = IF Has(r, "suspended") THEN r.state \cup {"ready"} ELSE r.state
    <3> HIDE DEF r, s
    <3>1. LET t == Completed(r, q, e) IN
          t.state = IF Has(r, "suspended") THEN r.state \cup {"ready"} ELSE r.state
      BY <1>1, <2>1, Completes
    <3> QED BY <2>1, <3>1
  <2>3. WillRun(q)'
    BY <1>2, <2>1, <2>2 DEF WillRun, InQueue, Has
  <2> QED BY <2>3 DEF RunKept
<1>7. CASE OneEvent(q, e)
  <2>1. s = Counted(r, e)
    BY <1>7 DEF OneEvent
  <2>2. s.kind = r.kind /\ s.state = r.state
    <3> HIDE DEF r, s
    <3> QED BY <1>1, <2>1 DEF Member, Counted
  <2> QED BY <1>3, <2>2
<1>8. CASE OneList(q, e)
  <2>1. s = [r EXCEPT !.lists = @ \ {e}]
    BY <1>8 DEF OneList
  <2>2. s.kind = r.kind /\ s.state = r.state
    <3> HIDE DEF r, s
    <3> QED BY <1>1, <2>1 DEF Member
  <2> QED BY <1>3, <2>2
<1>9. CASE TimesOut(q, e)
  <2>1. r.timed /\ Has(r, "disabled") /\ s = RemoveDynamicEvents(r, q)
    BY <1>9 DEF TimesOut
  <2>2. s.state = r.state
    <3> HIDE DEF r, s
    <3>1. RemoveDynamicEvents(r, q).state = r.state
      BY <1>1, Freed
    <3> QED BY <2>1, <3>1
  <2>3. ~WaitEnds(q)
    BY <2>1 DEF WaitEnds
  <2> QED BY <1>2, <2>2, <2>3 DEF RunKept, WillRun, InQueue
<1> QED BY <1>4, <1>5, <1>6, <1>7, <1>8, <1>9, Outcomes

LEMMA EventsKeep ==
    ASSUME Inv, EventOperation, NEW q \in Process
    PROVE  RunKept(q)
<1>1. ASSUME NEW e \in UserEvent, NotifyNow(e) PROVE RunKept(q)
  BY <1>1, NotifyFires, FiringKeeps
<1>2. ASSUME UNCHANGED <<proc, queues>> PROVE RunKept(q)
  BY <1>2, Unmoved DEF InQueue, queues
<1>3. ASSUME NEW e \in UserEvent,
             NotifyZero(e) \/ (\E t \in Time : NotifyAt(e, t)) \/ CancelNotify(e)
      PROVE  RunKept(q)
  BY <1>2, <1>3 DEF NotifyZero, NotifyAt, CancelNotify
<1>4. ASSUME NEW c \in Channel, RequestUpdate(c) PROVE RunKept(q)
  BY <1>2, <1>4 DEF RequestUpdate
<1> QED BY <1>1, <1>3, <1>4 DEF EventOperation

(* suspend() takes a process from its queue and remembers that it was to   *)
(* run.                                                                    *)
LEMMA SuspendKeeps ==
    ASSUME Inv, NEW p \in Process, SuspendProcess(p), NEW q \in Process
    PROVE  RunKept(q)
<1>1. proc' = [proc EXCEPT ![p] = Held(p)] /\ RemoveRunnable(p)
  BY DEF SuspendProcess
<1>2. /\ Queued(methods) \subseteq Queued(methods)' \cup {p}
      /\ Queued(threads) \subseteq Queued(threads)' \cup {p}
  BY <1>1, RunnableRemoved DEF Inv, IInv
<1>3. CASE q # p
  BY <1>1, <1>2, <1>3, Bystander
<1>4. CASE q = p
  <2> DEFINE r == proc[q]
  <2>1. r \in Member /\ proc'[q] = Held(q) /\ (q \in Runnable <=> InQueue(q))
    BY <1>1, <1>4, Facts DEF Inv, IInv, ProcOk
  <2>2. /\ Held(q).kind = r.kind /\ r.state \cup {"suspended"} \subseteq Held(q).state
        /\ q \in Runnable => "ready" \in Held(q).state
    <3>1. \/ Held(q) = Set(Set(r, "suspended"), "ready")
          \/ q \notin Runnable /\ Held(q) = Set(r, "suspended")
      BY DEF Held
    <3>2. PICK t : t = Set(r, "suspended")
      OBVIOUS
    <3>3. t \in Member /\ t.kind = r.kind /\ t.state = r.state \cup {"suspended"}
      BY <2>1, <3>2, SetWait
    <3>4. LET u == Set(t, "ready") IN u.kind = t.kind /\ u.state = t.state \cup {"ready"}
      BY <3>3, SetWait
    <3> HIDE DEF r
    <3> QED BY <3>1, <3>2, <3>3, <3>4
  <2>3. WillRun(q) => WillRun(q)'
    BY <2>1, <2>2 DEF WillRun, InQueue
  <2> QED BY <2>1, <2>2, <2>3 DEF RunKept, WaitEnds
<1> QED BY <1>3, <1>4

(* resume() queues who was to run.                                         *)
LEMMA ResumeKeeps ==
    ASSUME Inv, NEW p \in Process, ResumeProcess(p), NEW q \in Process
    PROVE  RunKept(q)
<1> DEFINE r     == proc[p]
           error == ~Corners /\ {"disabled", "suspended"} \subseteq r.state
           free  == IF error THEN Clear(r, "suspended") ELSE Released(r)
           again == /\ Has(r, "ready") /\ ~error
                    /\ p \in Thread \/ p \notin Runnable \cup {active}
           new   == IF again THEN RemoveDynamicEvents(free, p) ELSE free
<1>1. /\ Calls("resume") /\ proc' = [proc EXCEPT ![p] = new] /\ UNCHANGED active
      /\ IF again /\ p \notin Runnable THEN Push(p) ELSE UNCHANGED queues
  BY DEF ResumeProcess
<1>2. ~error /\ free = Released(r)
  BY <1>1, Names DEF Inv, Orderly, NoneForgotten, ThreadInv, Bits, Has, Calls
<1>3. r \in Member /\ (p \in Runnable <=> InQueue(p))
  BY Facts
<1>4. free.kind = r.kind
  <2> HIDE DEF r, free, error
  <2> QED BY <1>2, <1>3, ReleasedWait DEF SameWait
<1>5. /\ Queued(methods) \subseteq Queued(methods)' /\ Queued(threads) \subseteq Queued(threads)'
      /\ again => InQueue(p)'
  <2>1. ASSUME UNCHANGED queues, again => p \in Runnable
        PROVE  /\ Queued(methods)' = Queued(methods) /\ Queued(threads)' = Queued(threads)
               /\ again => InQueue(p)'
    BY <1>3, <2>1 DEF queues, InQueue
  <2>2. ASSUME Push(p)
        PROVE  /\ Queued(methods) \subseteq Queued(methods)'
               /\ Queued(threads) \subseteq Queued(threads)' /\ InQueue(p)'
    BY <2>2, Pushed, Names DEF Inv, IInv, InQueue
  <2> QED BY <1>1, <2>1, <2>2
<1>6. ~again => (Has(r, "ready") => InQueue(p) \/ p = active)
  BY <1>2, <1>3, Names
<1> HIDE DEF r, error, free, again
<1>7. CASE q # p
  BY <1>1, <1>5, <1>7, Bystander
<1>8. CASE q = p /\ again
  BY <1>5, <1>8 DEF RunKept, WillRun, InQueue
<1>9. CASE q = p /\ ~again
  <2>1. proc'[q] = free
    BY <1>1, <1>9 DEF Inv, IInv, ProcOk
  <2>2. InQueue(q) => InQueue(q)'
    BY <1>5 DEF InQueue
  <2>3. ~WaitEnds(q)
    BY <1>4, <1>9, <2>1 DEF WaitEnds, r
  <2>4. q # active /\ WillRun(q) => InQueue(q)
    BY <1>6, <1>9 DEF WillRun, InQueue, Has, r
  <2> QED BY <2>2, <2>3, <2>4 DEF RunKept, WillRun, InQueue
<1> QED BY <1>7, <1>8, <1>9

LEMMA DisableKeeps ==
    ASSUME Inv, NEW p \in Process, DisableProcess(p) \/ EnableProcess(p), NEW q \in Process
    PROVE  RunKept(q)
<1>1. /\ Queued(methods)' = Queued(methods) /\ Queued(threads)' = Queued(threads)
  <2>1. UNCHANGED queues
    BY EnableSound DEF DisableProcess
  <2> QED BY <2>1 DEF queues
<1>2. PICK r : proc' = [proc EXCEPT ![p] = r]
  BY DEF DisableProcess, EnableProcess
<1>3. CASE q # p
  BY <1>1, <1>2, <1>3, Bystander
<1>4. CASE q = p
  <2>1. proc[q] \in Member /\ proc \in [Process -> Member]
    BY Facts DEF Inv, IInv, ProcOk
  <2>2. InQueue(q) => InQueue(q)'
    BY <1>1 DEF InQueue
  <2>3. CASE DisableProcess(p)
    <3>1. \/ proc'[q] = Set(Set(proc[q], "disabled"), "ready")
          \/ proc'[q] = Set(proc[q], "disabled")
      BY <1>4, <2>1, <2>3 DEF DisableProcess
    <3>2. PICK t : t = Set(proc[q], "disabled")
      OBVIOUS
    <3>3. t \in Member /\ t.kind = proc[q].kind /\ t.state = proc[q].state \cup {"disabled"}
      BY <2>1, <3>2, SetWait
    <3>4. LET u == Set(t, "ready") IN u.kind = t.kind /\ u.state = t.state \cup {"ready"}
      BY <3>3, SetWait
    <3>5. proc'[q].kind = proc[q].kind /\ proc[q].state \subseteq proc'[q].state
      BY <3>1, <3>2, <3>3, <3>4
    <3> QED BY <2>2, <3>5, Unmoved
  <2>4. CASE EnableProcess(p)
    <3> DEFINE on == Clear(proc[q], "disabled")
    <3>1. proc'[q] = on \/ (proc'[q] = Clear(on, "ready") /\ on.state = {"ready"})
      BY <1>4, <2>1, <2>4 DEF EnableProcess
    <3>2. /\ on \in Member /\ on.kind = proc[q].kind /\ on.state = proc[q].state \ {"disabled"}
      BY <2>1, ClearWait DEF SameWait
    <3> HIDE DEF on
    <3>3. Clear(on, "ready").kind = on.kind
      BY <3>2, ClearWait DEF SameWait
    <3> QED BY <2>2, <3>1, <3>2, <3>3, Unmoved
  <2> QED BY <2>3, <2>4
<1> QED BY <1>3, <1>4

(* Who was to run and is killed has no run any more.                       *)
LEMMA DisconnectKeeps ==
    ASSUME Inv, NEW p \in Process, KillDisconnect(p), NEW q \in Process
    PROVE  RunKept(q)
<1>1. /\ ~Has(proc[p], "zombie") /\ proc' = [proc EXCEPT ![p] = Disconnected(@, p)]
      /\ IF p \in Method THEN RemoveRunnable(p) ELSE UNCHANGED queues
  BY DEF KillDisconnect
<1>2. /\ Queued(methods) \subseteq Queued(methods)' \cup {p}
      /\ Queued(threads) \subseteq Queued(threads)' \cup {p}
  BY <1>1, RunnableRemoved DEF Inv, IInv, queues
<1>3. CASE q # p
  BY <1>1, <1>2, <1>3, Bystander
<1>4. CASE q = p
  <2>1. proc'[q] = [RemoveDynamicEvents(proc[q], q) EXCEPT !.state = {"zombie"}]
    BY <1>1, <1>4 DEF Disconnected, Inv, IInv, ProcOk
  <2>2. RemoveDynamicEvents(proc[q], q) \in Member
    BY Facts, MemberStep
  <2>3. Has(proc'[q], "zombie")
    BY <2>1, <2>2 DEF Has, Member
  <2> QED BY <2>3 DEF RunKept, Has
<1> QED BY <1>3, <1>4

(* A thread that is preempted runs, and nobody loses a run by it.          *)
LEMMA PreemptKeeps ==
    ASSUME Inv, active # NoProcess, NEW p \in Thread, NEW r, PreemptWith(p, r), NEW q \in Process
    PROVE  RunKept(q)
<1>1. p \in Process /\ QueuesOk /\ active \in Process
  BY Names DEF Inv, IInv, RunOk
<1>2. CASE active \in Method
  <2>1. active' = p /\ proc' = [proc EXCEPT ![p] = Resumed(r)] /\ RemoveRunnable(p)
    BY <1>2 DEF PreemptWith
  <2>2. /\ Queued(methods) \subseteq Queued(methods)' \cup {p}
        /\ Queued(threads) \subseteq Queued(threads)' \cup {p}
    BY <1>1, <2>1, RunnableRemoved
  <2>3. q # p => RunKept(q)
    BY <2>1, <2>2, Bystander
  <2> QED BY <2>1, <2>3 DEF RunKept
<1>3. CASE active \notin Method
  <2>1. /\ active \in Thread /\ proc' = [proc EXCEPT ![p] = r] /\ threads' = Preempted(p)
        /\ methods' = methods
    BY <1>1, <1>3, Names DEF PreemptWith
  <2>2. Queued(threads)' = Queued(threads) \cup {p, active} /\ Queued(methods)' = Queued(methods)
    BY <1>1, <2>1, PreemptedQueue
  <2>3. q # p => RunKept(q)
    BY <2>1, <2>2, Bystander
  <2> QED BY <2>2, <2>3 DEF RunKept, WillRun
<1> QED BY <1>2, <1>3

LEMMA SyncResetKeeps ==
    ASSUME Inv, NEW p \in Thread, NEW asserted \in BOOLEAN, SyncReset(p, asserted), NEW q \in Process
    PROVE  RunKept(q)
<1> DEFINE r == [proc[p] EXCEPT !.sticky = asserted]
           s == IF ~Corners /\ Has(r, "suspended") THEN r
                ELSE ResetChanged(r, p, FALSE, asserted, Started)
<1>1. proc' = [proc EXCEPT ![p] = s] /\ UNCHANGED queues
  BY DEF SyncReset
<1>2. Queued(methods)' = Queued(methods) /\ Queued(threads)' = Queued(threads)
  BY <1>1 DEF queues
<1>3. p \in Process /\ proc[p] \in Member
  BY Names, Facts
<1>4. r \in Member /\ r.kind = proc[p].kind /\ r.state = proc[p].state
  BY <1>3 DEF Member
<1>5. s.kind = r.kind /\ s.state = r.state
  <2> HIDE DEF r
  <2> DEFINE f == FALSE
             b == Started
  <2>1. b \in BOOLEAN /\ f \in BOOLEAN /\ ~(f /\ asserted /\ b)
    BY DEF Started
  <2>2. s = r \/ s = ResetChanged(r, p, f, asserted, b)
    OBVIOUS
  <2> HIDE DEF b, f, s
  <2>3. LET t == ResetChanged(r, p, f, asserted, b) IN t.kind = r.kind /\ t.state = r.state
    BY <1>3, <1>4, <2>1, ResetWaits DEF SameWait
  <2> QED BY <2>2, <2>3
<1> HIDE DEF r, s
<1>6. CASE q # p
  BY <1>1, <1>2, <1>6, Bystander
<1>7. CASE q = p
  <2>1. proc'[q] = s
    BY <1>1, <1>3, <1>7 DEF Inv, IInv, ProcOk
  <2>2. InQueue(q) => InQueue(q)'
    BY <1>2 DEF InQueue
  <2> QED BY <1>4, <1>5, <1>7, <2>1, <2>2, Unmoved
<1> QED BY <1>6, <1>7

LEMMA ControlKeeps ==
    ASSUME Inv, ProcessControl, NEW q \in Process
    PROVE  RunKept(q)
<1>1. ASSUME NEW p \in Process, SuspendProcess(p) \/ ResumeProcess(p) \/ DisableProcess(p)
                                  \/ EnableProcess(p) \/ KillDisconnect(p)
      PROVE  RunKept(q)
  BY <1>1, SuspendKeeps, ResumeKeeps, DisableKeeps, DisconnectKeeps
<1>2. ASSUME NEW p \in Thread, KillThread(p) \/ ThrowIt(p) \/ ResetProcess(p) PROVE RunKept(q)
  BY <1>2, PreemptKeeps DEF KillThread, ThrowIt, ResetProcess
<1>3. ASSUME NEW p \in Thread, NEW b \in BOOLEAN, SyncReset(p, b) PROVE RunKept(q)
  BY <1>3, SyncResetKeeps
<1>4. ASSUME Stop \/ Pause PROVE RunKept(q)
  BY <1>4, StopQueues, Unmoved DEF queues, InQueue
<1> QED BY <1>1, <1>2, <1>3, <1>4 DEF ProcessControl

(* The active process sets its trigger, or yields.                         *)
LEMMA ActiveKeeps ==
    ASSUME Inv, SetTrigger \/ Yield, NEW q \in Process
    PROVE  RunKept(q)
<1>1. ASSUME NEW r, proc' = [proc EXCEPT ![active] = r] \/ UNCHANGED proc,
             UNCHANGED queues \/ RemoveRunnable(active)
      PROVE  RunKept(q)
  <2>1. SUFFICES ASSUME q # active PROVE RunKept(q)
    BY DEF RunKept
  <2>2. /\ Queued(methods) \subseteq Queued(methods)' \cup {active}
        /\ Queued(threads) \subseteq Queued(threads)' \cup {active}
    BY <1>1, RunnableRemoved DEF Inv, IInv, queues
  <2>3. proc'[q] = proc[q] /\ (InQueue(q) => InQueue(q)')
    BY <1>1, <2>1, <2>2 DEF Inv, IInv, ProcOk, InQueue
  <2> QED BY <2>3, Unmoved
<1>2. ASSUME NEW k, NEW E, NextTrigger(k, E) \/ \E t \in Time : NextTriggerTimed(k, E, t)
      PROVE  RunKept(q)
  <2>1. UNCHANGED queues /\ \E r : proc' = [proc EXCEPT ![active] = r]
    BY <1>2 DEF NextTrigger, NextTriggerTimed
  <2> QED BY <1>1, <2>1
<1>3. ASSUME NEW k, NEW E, WaitFor(k, E) \/ \E t \in Time : WaitTimed(k, E, t) PROVE RunKept(q)
  <2>1. UNCHANGED queues /\ \E r : proc' = [proc EXCEPT ![active] = r]
    BY <1>3 DEF WaitFor, WaitTimed
  <2> QED BY <1>1, <2>1
<1>4. ASSUME NEW n, WaitCycles(n) PROVE RunKept(q)
  <2>1. UNCHANGED queues /\ proc' = [proc EXCEPT ![active] = [proc[active] EXCEPT !.cycles = n - 1]]
    BY <1>4 DEF WaitCycles
  <2> QED BY <1>1, <2>1
<1>5. ASSUME ThreadEnd PROVE RunKept(q)
  <2>1. RemoveRunnable(active) /\ \E r : proc' = [proc EXCEPT ![active] = r]
    BY <1>5 DEF ThreadEnd
  <2> QED BY <1>1, <2>1
<1>6. ASSUME MethodReturn PROVE RunKept(q)
  BY <1>1, <1>6 DEF MethodReturn
<1> QED BY <1>2, <1>3, <1>4, <1>5, <1>6 DEF SetTrigger, Yield

(* An update: who is thrown an asynchronous reset is queued, and a         *)
(* synchronous one ends no wait.                                           *)
LEMMA ChangedKeeps ==
    ASSUME Inv, NEW c \in Channel, Changed(c), UNCHANGED methods, NEW q \in Process
    PROVE  RunKept(q)
<1> DEFINE targets == {x \in Resets : x.channel = c}
<1>1. /\ proc'[q] = IF \E x \in targets : x.process = q
                    THEN LET x == CHOOSE y \in targets : y.process = q IN
                         ResetChanged(proc[q], q, x.async, x.level # level[c], TRUE)
                    ELSE proc[q]
  BY DEF Changed
<1>2. InQueue(q)' <=> InQueue(q) \/ q \in ThrownBy(c)
  <2>1. Queued(threads)' = Queued(threads) \cup ThrownBy(c)
    BY Changing DEF Inv, IInv, ChannelsOk
  <2> QED BY <2>1 DEF InQueue
<1>3. proc[q] \in Member
  BY Facts
<1>4. CASE q \in ThrownBy(c)
  BY <1>2, <1>4 DEF RunKept, WillRun, InQueue
<1>5. CASE q \notin ThrownBy(c) /\ \E x \in targets : x.process = q
  <2> DEFINE x == CHOOSE y \in targets : y.process = q
             a == x.async
             b == x.level # level[c]
             d == TRUE
  <2>1. x \in Resets /\ x.channel = c /\ x.process = q
    BY <1>5
  <2>2. a \in BOOLEAN /\ b \in BOOLEAN /\ d \in BOOLEAN
    BY <2>1, KernelAssumption
  <2>3. proc'[q] = ResetChanged(proc[q], q, a, b, d)
    BY <1>1, <1>5
  <2>4. CASE Has(proc[q], "zombie")
    <3>1. proc'[q] = proc[q]
      BY <2>3, <2>4 DEF ResetChanged
    <3> QED BY <1>2, <3>1, Unmoved
  <2>5. CASE ~Has(proc[q], "zombie")
    <3>1. ~(a /\ b /\ d)
      BY <1>5, <2>1, <2>5 DEF ThrownBy
    <3> HIDE DEF a, b, d
    <3>2. LET t == ResetChanged(proc[q], q, a, b, d) IN
          t.kind = proc[q].kind /\ t.state = proc[q].state
      BY <1>3, <2>2, <3>1, ResetWaits DEF SameWait
    <3> QED BY <1>2, <2>3, <3>2, Unmoved
  <2> QED BY <2>4, <2>5
<1>6. CASE ~\E x \in targets : x.process = q
  BY <1>1, <1>2, <1>6, Unmoved
<1> QED BY <1>4, <1>5, <1>6

LEMMA ScheduleKeeps ==
    ASSUME Inv, StartCall \/ Schedule, NEW q \in Process
    PROVE  RunKept(q)
<1>0. Queued(Toggle(methods)) = Queued(methods) /\ Queued(Toggle(threads)) = Queued(threads)
  BY Toggles
<1>1. ASSUME UNCHANGED proc, methods' \in {methods, Toggle(methods)},
             threads' \in {threads, Toggle(threads)}
      PROVE  RunKept(q)
  <2>1. Queued(methods)' = Queued(methods) /\ Queued(threads)' = Queued(threads)
    BY <1>0, <1>1
  <2> QED BY <1>1, <2>1, Unmoved DEF InQueue
<1>2. ASSUME StartCall PROVE RunKept(q)
  BY <1>1, <1>2 DEF StartCall, Start, FirstStart, StartAfterStop, EvaluateBegin, queues, vars
<1>3. ASSUME Initialize PROVE RunKept(q)
  <2>1. Queued(methods) = {} /\ Queued(threads) = {} /\ proc[q].kind = "STATIC"
    BY <1>3 DEF Initialize, Inv, WaitInv, Early, Quiet
  <2>2. proc'[q] = Set(proc[q], "ready") \/ proc'[q] = proc[q]
    BY <1>3 DEF Initialize
  <2>3. LET s == Set(proc[q], "ready") IN proc[q].state \subseteq s.state
    BY Facts, SetWait
  <2> QED BY <2>1, <2>2, <2>3, Unmoved DEF InQueue
<1>4. ASSUME RunMethod PROVE RunKept(q)
  <2>1. PICK i \in PopChoices(methods, Random) :
          active' = methods.pop[i] /\ methods' = PopAt(methods, i)
    BY <1>4 DEF RunMethod
  <2>2. i \in DOMAIN methods.pop /\ methods \in Queue(Method) /\ Once(methods)
    BY DEF PopChoices, Inv, IInv, QueuesOk, WaitInv
  <2>3. Queued(methods)' = Queued(methods) \ {active'}
    BY <2>1, <2>2, Popped
  <2>4. UNCHANGED <<proc, threads>>
    BY <1>4 DEF RunMethod
  <2> QED BY <2>3, <2>4, Unmoved DEF InQueue
<1>5. ASSUME RunThread PROVE RunKept(q)
  <2>1. PICK i \in PopChoices(threads, Random) :
          /\ active' = threads.pop[i] /\ threads' = PopAt(threads, i)
          /\ proc' = [proc EXCEPT ![threads.pop[i]] = Resumed(@)]
    BY <1>5 DEF RunThread
  <2>2. i \in DOMAIN threads.pop /\ threads \in Queue(Thread) /\ Once(threads)
    BY DEF PopChoices, Inv, IInv, QueuesOk, WaitInv
  <2>3. Queued(threads)' = Queued(threads) \ {active'}
    BY <2>1, <2>2, Popped
  <2>4. UNCHANGED methods
    BY <1>5 DEF RunThread
  <2>5. q # active' => proc'[q] = proc[q]
    BY <2>1 DEF Inv, IInv, ProcOk
  <2>6. q # active' => RunKept(q)
    BY <2>3, <2>4, <2>5, Unmoved DEF InQueue
  <2> QED BY <2>6 DEF RunKept
<1>6. ASSUME MethodsDone \/ ReturnToCaller \/ AnotherRound \/ AbortEvaluation \/ EvaluateEnd
               \/ UpdateEnd \/ DeltaDone \/ CrunchReturns \/ AdvanceTime \/ NoNextTime \/ TimedDone
      PROVE  RunKept(q)
  BY <1>1, <1>6 DEF MethodsDone, ReturnToCaller, AnotherRound, AbortEvaluation, EvaluateEnd,
                    UpdateEnd, DeltaDone, CrunchReturns, AdvanceTime, NoNextTime, TimedDone,
                    EvaluateBegin, queues
<1>7. ASSUME NEW c \in Channel, NEW b \in BOOLEAN, Update(c, b) PROVE RunKept(q)
  BY <1>1, <1>7, ChangedKeeps DEF Update
<1>8. ASSUME DeltaStep PROVE RunKept(q)
  BY <1>8, LoopFires, FiringKeeps
<1>9. ASSUME TimedStep PROVE RunKept(q)
  <2>1. PICK e \in TimedAt(now) : Trigger(e, pend, delta)
    BY <1>9 DEF TimedStep
  <2>2. Fires(e, delta)
    BY <1>9, <2>1, LoopFires
  <2> QED BY <2>2, FiringKeeps
<1> QED BY <1>2, <1>3, <1>4, <1>5, <1>6, <1>7, <1>8, <1>9 DEF Schedule

(* No run is lost: a process whose wait ends will run, by the trigger of   *)
(* sc_event, by resume() if it was suspended, by its exception or by the   *)
(* timeout, and whoever will run goes on to until the scheduler dispatches *)
(* it or it dies.                                                          *)
THEOREM RunsAreKept ==
    ASSUME Orderly PROVE Spec => RunsKept
<1> DEFINE AllKept ==
      \A p \in Process :
        p # active /\ (WaitEnds(p) \/ WillRun(p)) =>
          WillRun(p)' \/ active' = p \/ Has(proc[p], "zombie")'
<1>1. Inv /\ [Next]_vars => [AllKept]_vars
  <2>1. ASSUME Inv, Next, NEW p \in Process PROVE RunKept(p)
    BY <2>1, EventsKeep, ControlKeeps, ActiveKeeps, ScheduleKeeps DEF Next
  <2> QED BY <2>1 DEF RunKept
<1> QED BY <1>1, WaitInvariance, PTL DEF Spec, RunsKept
===============================================================================
