----------------------------- MODULE RunQueueSpec -----------------------------
(***************************************************************************)
(* What a run queue of sc_runnable promises, as a state machine over the   *)
(* values of RunQueue: each operation of the class is an action, called by *)
(* the kernel in any order that respects its own guard (a process is       *)
(* queued only while its next_runnable() is 0).                            *)
(***************************************************************************)
EXTENDS RunQueue

CONSTANTS
  Process,  \* the processes of one kind (methods, or threads)
  NoProc    \* the null handle

VARIABLES
  q,        \* the queue
  popped    \* the result of the last pop, or NoProc

vars == <<q, popped>>

Init == q = EmptyQueue /\ popped = NoProc

Push(p) ==
  /\ p \notin Queued(q)
  /\ q' \in {PushBack(q, p), PushFront(q, p), ExecuteNext(q, p)}
  /\ popped' = NoProc

(* The scheduler takes the first process, or with ran_enable any of them.  *)
Pop ==
  \E random \in BOOLEAN : \E i \in PopChoices(q, random) :
    /\ popped' = q.pop[i]
    /\ q' = PopAt(q, i)

Unqueue(p) == q' = RemoveProc(q, p) /\ popped' = NoProc

StartRound == q' = Toggle(q) /\ popped' = NoProc

Clear == q' = EmptyQueue /\ popped' = NoProc

Next ==
  \/ \E p \in Process : Push(p) \/ Unqueue(p)
  \/ Pop
  \/ StartRound
  \/ Clear

Spec == Init /\ [][Next]_vars
===============================================================================
