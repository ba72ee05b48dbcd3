------------------------------ MODULE Channels ------------------------------
(***************************************************************************)
(* Threads that share the blocking primitive channels of                   *)
(* src/.../communication: an sc_fifo, an sc_mutex and an sc_semaphore, and *)
(* the Fifo of examples/producer_consumer, which is built on immediate     *)
(* notification.                                                           *)
(*                                                                         *)
(* One thread runs at a time, and until it waits.  A blocked call is a     *)
(* thread that waits for the event of its channel; when it runs again it   *)
(* is still in the call, and tests the condition again if the call loops.  *)
(* The random scheduler picks any runnable thread.  When none is left, a   *)
(* requested update of the sc_fifo is performed and its notifications are  *)
(* delivered; when there is none either, time advances to the threads that *)
(* wait for it.                                                            *)
(***************************************************************************)
EXTENDS Integers, Sequences, FiniteSets

CONSTANTS
    Thread, None,
    Use,        \* Use[t]: the calls thread t makes
    Value,      \* what is written
    Size,       \* size of the sc_fifo
    Max,        \* capacity of the Fifo of the example
    MaxPost     \* bound: the semaphore is not posted above it

Call == {"read", "write", "lock", "unlock", "take", "post", "put", "get"}

ASSUME ChannelsAssumption ==
    /\ None \notin Thread
    /\ Use \in [Thread -> SUBSET Call]
    /\ Size \in Nat \ {0} /\ Max \in Nat \ {0} /\ MaxPost \in Nat
    /\ Value # {}

VARIABLES
    runnable, curr,     \* the run queue, the thread that runs
    call,               \* call[t]: the blocking call t is in, or "none"
    resting,            \* threads in wait(t)
    fifo,               \* sc_fifo: buf, ri, wi, free, readable, read, written, got
    asked,              \* the sc_fifo is in the update list
    owner, inside,      \* m_owner; history: the threads whose lock() has returned
    value,              \* m_value of the semaphore
    data, first, num    \* the Fifo of the example

Blank == CHOOSE v \in Value : TRUE     \* T()

threads == <<runnable, curr, call, resting>>
locks == <<owner, inside, value>>
example == <<data, first, num>>
vars == <<threads, fifo, asked, locks, example>>

Init ==
    /\ runnable = Thread /\ curr = None /\ resting = {}
    /\ call = [t \in Thread |-> "none"]
    /\ fifo = [buf |-> [i \in 0..(Size - 1) |-> Blank],
               ri |-> 0, wi |-> 0, free |-> Size,
               readable |-> 0, read |-> 0, written |-> 0,
               got |-> Blank]
    /\ asked = FALSE
    /\ owner = None /\ inside = {}
    /\ value = 0
    /\ data = [i \in 0..(Max - 1) |-> Blank]
    /\ first = 0 /\ num = 0

---------------------------------------------------------------------------
Dispatch(t) ==
    /\ curr = None /\ t \in runnable
    /\ curr' = t /\ runnable' = runnable \ {t}
    /\ UNCHANGED <<call, resting, fifo, asked, locks, example>>

(* t makes the call c, or goes on with it after a wait. *)
Calls(t, c) == curr = t /\ c \in Use[t] /\ call[t] \in {"none", c}

\* Variant: a blocked thread polls.
Blocks_polling(t, c) ==
    /\ call' = [call EXCEPT ![t] = c]
    /\ curr' = None /\ runnable' = runnable \cup {t}
    /\ UNCHANGED <<resting, fifo, asked, locks, example>>

Blocks(t, c) ==
    /\ call' = [call EXCEPT ![t] = c]
    /\ curr' = None
    /\ UNCHANGED <<runnable, resting, fifo, asked, locks, example>>

Waiters(c) == {u \in Thread : call[u] = c /\ u # curr /\ u \notin runnable}

(* The call of t is over; an event is notified immediately for those in c. *)
Returns(t, c) ==
    /\ call' = [call EXCEPT ![t] = "none"]
    /\ runnable' = runnable \cup Waiters(c)
    /\ UNCHANGED <<curr, resting>>

(* wait(t), with a time or with SC_ZERO_TIME *)
Rest(t) ==
    /\ curr = t /\ call[t] = "none"
    /\ curr' = None /\ resting' = resting \cup {t}
    /\ UNCHANGED <<runnable, call, fifo, asked, locks, example>>

---------------------------------------------------------------------------
(* sc_fifo *)
\* Variant: the values written in this delta cycle can be read in it.
Num_available_now == Size - fifo.free

Num_available == fifo.readable - fifo.read
Num_free == Size - fifo.readable - fifo.written

(* buf_write(), which does nothing in a full buffer, and the request *)
Buf_write(v) ==
    /\ fifo' = IF fifo.free = 0 THEN [fifo EXCEPT !.written = @ + 1]
               ELSE [fifo EXCEPT !.buf[fifo.wi] = v, !.wi = (@ + 1) % Size,
                                 !.free = @ - 1, !.written = @ + 1]
    /\ asked' = TRUE

Buf_read ==
    /\ fifo' = IF fifo.free = Size THEN [fifo EXCEPT !.read = @ + 1]
               ELSE [fifo EXCEPT !.got = fifo.buf[fifo.ri], !.ri = (@ + 1) % Size,
                                 !.buf[fifo.ri] = Blank,
                                 !.free = @ + 1, !.read = @ + 1]
    /\ asked' = TRUE

(* write(), and nb_write() when it succeeds *)
FifoWrite(t) ==
    /\ Calls(t, "write")
    /\ IF Num_free = 0
       THEN Blocks(t, "write")
       ELSE /\ \E v \in Value : Buf_write(v)
            /\ Returns(t, "none of them")
            /\ UNCHANGED <<locks, example>>

(* read(), and nb_read() when it succeeds *)
FifoRead(t) ==
    /\ Calls(t, "read")
    /\ IF Num_available = 0
       THEN Blocks(t, "read")
       ELSE Buf_read /\ Returns(t, "none of them") /\ UNCHANGED <<locks, example>>

\* Variant: the two events are confused.
Update_confused ==
    /\ curr = None /\ runnable = {} /\ asked
    /\ \E woken \in SUBSET resting :
          /\ runnable' = woken \cup (IF fifo.read > 0 THEN Waiters("read") ELSE {})
                               \cup (IF fifo.written > 0 THEN Waiters("write") ELSE {})
          /\ resting' = resting \ woken
    /\ fifo' = [fifo EXCEPT !.readable = Size - fifo.free, !.read = 0, !.written = 0]
    /\ asked' = FALSE
    /\ UNCHANGED <<curr, call, locks, example>>

(* update(), and the delta notifications it makes, which are delivered before
   anything else runs; other threads may come to the end of a wait of zero. *)
Update ==
    /\ curr = None /\ runnable = {} /\ asked
    /\ \E woken \in SUBSET resting :
          /\ runnable' = woken \cup (IF fifo.read > 0 THEN Waiters("write") ELSE {})
                               \cup (IF fifo.written > 0 THEN Waiters("read") ELSE {})
          /\ resting' = resting \ woken
    /\ fifo' = [fifo EXCEPT !.readable = Size - fifo.free, !.read = 0, !.written = 0]
    /\ asked' = FALSE
    /\ UNCHANGED <<curr, call, locks, example>>

AdvanceTime ==
    /\ curr = None /\ runnable = {} /\ ~asked
    /\ runnable' \in (SUBSET resting) \ {{}}
    /\ resting' = resting \ runnable'
    /\ UNCHANGED <<curr, call, fifo, asked, locks, example>>

---------------------------------------------------------------------------
\* Variant: a woken thread does not test again.
Lock_once(t) ==
    /\ Calls(t, "lock")
    /\ IF call[t] = "none" /\ owner \notin {None, t}
       THEN Blocks(t, "lock")
       ELSE /\ owner' = t
            /\ inside' = inside \cup {t}
            /\ Returns(t, "none of them")
            /\ UNCHANGED <<value, fifo, asked, example>>

(* sc_mutex: lock(), and trylock() when it succeeds *)
Lock(t) ==
    /\ Calls(t, "lock")
    /\ IF owner \notin {None, t}
       THEN Blocks(t, "lock")
       ELSE /\ owner' = t
            /\ inside' = inside \cup {t}
            /\ Returns(t, "none of them")
            /\ UNCHANGED <<value, fifo, asked, example>>

Unlock(t) ==
    /\ Calls(t, "unlock")
    /\ owner = t
    /\ owner' = None
    /\ inside' = inside \ {t}
    /\ Returns(t, "lock")
    /\ UNCHANGED <<value, fifo, asked, example>>

(* sc_semaphore: wait(), and trywait() when it succeeds *)
Take(t) ==
    /\ Calls(t, "take")
    /\ IF value <= 0
       THEN Blocks(t, "take")
       ELSE /\ value' = value - 1
            /\ Returns(t, "none of them")
            /\ UNCHANGED <<owner, inside, fifo, asked, example>>

Post(t) ==
    /\ Calls(t, "post") /\ value < MaxPost
    /\ value' = value + 1
    /\ Returns(t, "take")
    /\ UNCHANGED <<owner, inside, fifo, asked, example>>

---------------------------------------------------------------------------
(* The Fifo of the example tests its condition once. *)
Fifo_write(t) ==
    /\ Calls(t, "put")
    /\ IF call[t] = "none" /\ num = Max
       THEN Blocks(t, "put")
       ELSE /\ \E v \in Value : data' = [data EXCEPT ![(first + num) % Max] = v]
            /\ num' = num + 1
            /\ Returns(t, "get")
            /\ UNCHANGED <<first, fifo, asked, locks>>

\* Variant: the oldest value stays, the newest is dropped.
Fifo_read_stays(t) ==
    /\ Calls(t, "get")
    /\ IF call[t] = "none" /\ num = 0
       THEN Blocks(t, "get")
       ELSE /\ num' = num - 1
            /\ Returns(t, "put")
            /\ UNCHANGED <<data, first, fifo, asked, locks>>

Fifo_read(t) ==
    /\ Calls(t, "get")
    /\ IF call[t] = "none" /\ num = 0
       THEN Blocks(t, "get")
       ELSE /\ num' = num - 1
            /\ first' = (first + 1) % Max
            /\ Returns(t, "put")
            /\ UNCHANGED <<data, fifo, asked, locks>>

Next ==
    \/ \E t \in Thread :
          \/ Dispatch(t) \/ Rest(t)
          \/ FifoWrite(t) \/ FifoRead(t)
          \/ Lock(t) \/ Unlock(t)
          \/ Take(t) \/ Post(t)
          \/ Fifo_write(t) \/ Fifo_read(t)
    \/ Update
    \/ AdvanceTime

Spec == Init /\ [][Next]_vars

---------------------------------------------------------------------------
TypeOK ==
    /\ runnable \subseteq Thread /\ resting \subseteq Thread
    /\ curr \in Thread \cup {None}
    /\ call \in [Thread -> Call \cup {"none"}]
    /\ fifo \in [buf : [0..(Size - 1) -> Value], ri : 0..(Size - 1), wi : 0..(Size - 1),
                 free : 0..Size, readable : 0..Size, read : 0..Size, written : 0..Size,
                 got : Value]
    /\ asked \in BOOLEAN
    /\ owner \in Thread \cup {None} /\ inside \subseteq Thread
    /\ value \in 0..MaxPost
    /\ data \in [0..(Max - 1) -> Value] /\ first \in 0..(Max - 1) /\ num \in Int

(* The call t waits in could go on. *)
CouldGoOn(c) ==
    \/ c = "read" /\ Num_available > 0
    \/ c = "write" /\ Num_free > 0
    \/ c = "lock" /\ owner = None
    \/ c = "take" /\ value > 0
    \/ c = "get" /\ num > 0
    \/ c = "put" /\ num < Max

(* No wakeup is lost: no thread sleeps in a call that could go on. *)
SleepersMustWait ==
    \A t \in Thread : call[t] # "none" /\ t # curr /\ t \notin runnable
                        => ~CouldGoOn(call[t])

(* Two threads are never inside the mutex, although unlock() wakes all waiters
   and any thread may run, or lock, before them. *)
MutualExclusion == Cardinality(inside) <= 1 /\ (inside # {} => owner \in inside)

(* The Fifo of the example, for one producer and one consumer: a thread woken in
   a call finds what it waited for, though it does not test again. *)
WokenIsServed ==
    \A t \in Thread : (t \in runnable \/ t = curr) /\ call[t] \in {"put", "get"}
                        => CouldGoOn(call[t])

(* n places of the circular buffer d from the index r on *)
Window(d, r, n, size) == [i \in 1..n |-> d[(r + i - 1) % size]]

Stored == Window(data, first, num, Max)

ExampleStep ==
    \/ Stored' = Stored
    \/ \E v \in Value : Stored' = Append(Stored, v)
    \/ Stored # <<>> /\ Stored' = Tail(Stored)

(* It neither loses, repeats nor reorders what it holds. *)
ExampleIsFifo == [][ExampleStep]_vars

(* The sc_fifo implements its abstract specification. *)
Abstract == INSTANCE FifoSpec WITH
    queue <- Window(fifo.buf, fifo.ri, Size - fifo.free, Size),
    visible <- Num_available, space <- Num_free, got <- fifo.got

ImplementsFifo == Abstract!Spec
============================================================================
