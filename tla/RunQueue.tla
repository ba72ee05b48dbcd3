------------------------------- MODULE RunQueue -------------------------------
(***************************************************************************)
(* One of the two run queues of class sc_runnable (sc_runnable_int.h), as  *)
(* values: the queue of runnable methods and the queue of runnable threads *)
(* are two copies of the same code.                                        *)
(*                                                                         *)
(* A queue is a record of two sequences.  Processes become runnable at the *)
(* back of "push"; the scheduler takes them from "pop".  toggle moves a    *)
(* whole push queue to an empty pop queue, so a process that becomes       *)
(* runnable during a round waits for the next round.                       *)
(***************************************************************************)
EXTENDS Integers, SequencesExt

EmptyQueue == [push |-> <<>>, pop |-> <<>>]

(* The processes in a queue: those whose next_runnable() is not 0.         *)
Queued(q) == ToSet(q.push) \cup ToSet(q.pop)

IsEmpty(q) == q.push = <<>> /\ q.pop = <<>>

PushBack(q, p) == [q EXCEPT !.push = Append(@, p)]

PushFront(q, p) == [q EXCEPT !.push = <<p>> \o @]

(* Put p in front of the pop queue, where pop_thread() finds it next.      *)
ExecuteNext(q, p) == [q EXCEPT !.pop = <<p>> \o @]

(* Positions of the pop queue the scheduler may take: the first one, or,   *)
(* with the random scheduler, any index rand() % n.                        *)
PopChoices(q, random) ==
  IF random THEN DOMAIN q.pop ELSE {1} \cap DOMAIN q.pop

PopAt(q, i) == [q EXCEPT !.pop = RemoveAt(@, i)]

(* remove_method/remove_thread: from the push queue if p is there,         *)
(* otherwise from the pop queue.                                           *)
RemoveProc(q, p) ==
  IF p \in ToSet(q.push) THEN [q EXCEPT !.push = RemoveFirst(@, p)]
                         ELSE [q EXCEPT !.pop = RemoveFirst(@, p)]

(* The processes of "order" are put there one after the other, each taken  *)
(* out of the queue before.                                                *)
ExecuteNextAll(q, order) ==
  LET after[i \in 0 .. Len(order)] ==
        IF i = 0 THEN q
        ELSE LET p == order[i] IN
             ExecuteNext(IF p \in Queued(after[i - 1]) THEN RemoveProc(after[i - 1], p)
                                                       ELSE after[i - 1], p)
  IN  after[Len(order)]

Toggle(q) ==
  IF q.pop = <<>> THEN [push |-> <<>>, pop |-> q.push] ELSE q
===============================================================================
