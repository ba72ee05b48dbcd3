---------------------------- MODULE RunQueueLinks -----------------------------
(***************************************************************************)
(* The representation of a run queue in sc_runnable_int.h: processes are   *)
(* linked through their own next_runnable() pointer, the push queue has a  *)
(* dummy head and a tail pointer, the pop queue only a head.  A pointer    *)
(* that is 0 (Null) says that the process is not queued; End is the        *)
(* sentinel SC_NO_METHODS / SC_NO_THREADS.                                 *)
(***************************************************************************)
EXTENDS Integers, SequencesExt

CONSTANTS
  Process,  \* the processes of one kind (methods, or threads)
  PushHead, \* m_methods_push_head / m_threads_push_head
  End,      \* SC_NO_METHODS / SC_NO_THREADS
  Null,     \* the null pointer
  NoProc    \* the null handle a pop of an empty queue returns

ASSUME LinksAssumption ==
  /\ IsFiniteSet(Process)
  /\ Cardinality({PushHead, End, Null}) = 3
  /\ Process \cap {PushHead, End, Null, NoProc} = {}

VARIABLES
  next,     \* next_runnable() of every process and of the dummy head
  tail,     \* m_methods_push_tail / m_threads_push_tail
  popHead,  \* m_methods_pop / m_threads_pop
  popped    \* the result of the last pop

vars == <<next, tail, popHead, popped>>

(* The types of the pointers.  Only End ends a list: a queue that ended in *)
(* 0 would make its last process look unqueued.                            *)
TypeOK ==
  /\ next \in [Process \cup {PushHead} -> Process \cup {End, Null}]
  /\ tail \in Process \cup {PushHead}
  /\ popHead \in Process \cup {End}
  /\ popped \in Process \cup {NoProc}

(***************************************************************************)
(* Traversals "for (p = start; p != End; p = p->next_runnable())".         *)
(***************************************************************************)
Follow(start, k) ==
  LET at[i \in 0 .. k] ==
        IF i = 0 THEN start
        ELSE IF at[i - 1] \in Process THEN next[at[i - 1]] ELSE at[i - 1]
  IN  at[k]

(* The processes met from start on, in order; cut when a process comes     *)
(* back, so that a cyclic list is a (wrong) value and not an endless walk. *)
Walk(start) ==
  LET n == Cardinality({k \in 0 .. Cardinality(Process) :
                          \A i \in 0 .. k : Follow(start, i) \in Process})
  IN  [i \in 1 .. n |-> Follow(start, i - 1)]

PushList == Walk(next[PushHead])
PopList  == Walk(popHead)

Runnable(p) == next[p] # Null

-------------------------------------------------------------------------------
Init ==
  /\ next = [p \in Process \cup {PushHead} |-> IF p = PushHead THEN End ELSE Null]
  /\ tail = PushHead
  /\ popHead = End
  /\ popped = NoProc

(* The callers test next_runnable() first: "Can't queue twice."            *)
PushBackLink(p) ==
  /\ ~Runnable(p)
  /\ next' = [next EXCEPT ![p] = End, ![tail] = p]
  /\ tail' = p
  /\ popped' = NoProc
  /\ UNCHANGED popHead

\* Variant: the tail of an empty queue stays the dummy head.
PushFrontLinkOldTail(p) ==
  /\ ~Runnable(p)
  /\ next' = [next EXCEPT ![p] = next[PushHead], ![PushHead] = p]
  /\ popped' = NoProc
  /\ UNCHANGED <<tail, popHead>>

PushFrontLink(p) ==
  /\ ~Runnable(p)
  /\ next' = [next EXCEPT ![p] = next[PushHead], ![PushHead] = p]
  /\ tail' = IF tail = PushHead THEN p ELSE tail
  /\ popped' = NoProc
  /\ UNCHANGED popHead

ExecuteNextLink(p) ==
  /\ ~Runnable(p)
  /\ next' = [next EXCEPT ![p] = popHead]
  /\ popHead' = p
  /\ popped' = NoProc
  /\ UNCHANGED tail

(* Unlink position i of the pop queue.                                     *)
UnlinkPop(i) ==
  LET p == PopList[i] IN
  IF i = 1
  THEN /\ popHead' = next[p]
       /\ next' = [next EXCEPT ![p] = Null]
  ELSE /\ next' = [next EXCEPT ![PopList[i - 1]] = next[p], ![p] = Null]
       /\ UNCHANGED popHead

(* The scheduler asks for the first process or, with ran_enable, for a     *)
(* random one; the class serves both.                                      *)
PopFirst ==
  /\ popHead # End
  /\ popped' = popHead
  /\ popHead' = next[popHead]
  /\ next' = [next EXCEPT ![popHead] = Null]
  /\ UNCHANGED tail

PopRandom ==
  /\ popHead # End
  /\ \E i \in 1 .. Len(PopList) :
       /\ popped' = PopList[i]
       /\ UnlinkPop(i)
  /\ UNCHANGED tail

\* Variant: the tail still points to the process removed.
RemoveLinkOldTail(p) ==
  /\ popped' = NoProc
  /\ \/ \E i \in 1 .. Len(PushList) :
          LET prior == IF i = 1 THEN PushHead ELSE PushList[i - 1] IN
          /\ PushList[i] = p
          /\ next' = [next EXCEPT ![prior] = next[p], ![p] = Null]
          /\ UNCHANGED <<tail, popHead>>
     \/ \E i \in 1 .. Len(PopList) :
          /\ p \notin ToSet(PushList)
          /\ PopList[i] = p
          /\ UnlinkPop(i)
          /\ UNCHANGED tail

(* remove_method/remove_thread: the search of the push queue starts at the *)
(* dummy head, so that the first process has a predecessor too.            *)
RemoveLink(p) ==
  /\ popped' = NoProc
  /\ \/ \E i \in 1 .. Len(PushList) :
          LET prior == IF i = 1 THEN PushHead ELSE PushList[i - 1] IN
          /\ PushList[i] = p
          /\ next' = [next EXCEPT ![prior] = next[p], ![p] = Null]
          /\ tail' = IF tail = p THEN prior ELSE tail
          /\ UNCHANGED popHead
     \/ \E i \in 1 .. Len(PopList) :
          /\ p \notin ToSet(PushList)
          /\ PopList[i] = p
          /\ UnlinkPop(i)
          /\ UNCHANGED tail

ToggleLink ==
  /\ popHead = End
  /\ popHead' = next[PushHead]
  /\ next' = [next EXCEPT ![PushHead] = End]
  /\ tail' = PushHead
  /\ popped' = NoProc

(* init(), called again by stop() in mode SC_STOP_IMMEDIATE: both queues   *)
(* are emptied, the pointers of the processes that were in them stay.      *)
InitQueues ==
  /\ popHead' = End
  /\ tail' = PushHead
  /\ next' = [next EXCEPT ![PushHead] = End]
  /\ popped' = NoProc

Next ==
  \/ \E p \in Process :
       PushBackLink(p) \/ PushFrontLink(p) \/ ExecuteNextLink(p) \/ RemoveLink(p)
  \/ PopFirst
  \/ PopRandom
  \/ ToggleLink
  \/ InitQueues

Spec == Init /\ [][Next]_vars

-------------------------------------------------------------------------------
(* The tail pointer is the last process of the push queue, or the dummy    *)
(* head when it is empty: otherwise the next push_back hangs its process   *)
(* on a link nobody follows and the process never runs again.              *)
TailIsLast == tail = IF PushList = <<>> THEN PushHead ELSE Last(PushList)

(* A process is linked at most once, in one of the two queues, and a       *)
(* linked process has a non-null pointer: is_runnable() never says "not    *)
(* queued" of a queued process, the test every caller relies on.           *)
LinkedOnce ==
  LET all == PushList \o PopList IN
  /\ IsInjective(all)
  /\ \A i \in DOMAIN all : Runnable(all[i])

(* The links are sound: init(), toggle(), pops at any position and         *)
(* removals repair both the pointers they follow and the one they do not.  *)
LinksSound == TypeOK /\ TailIsLast /\ LinkedOnce

(* The linked representation implements the queue of RunQueueSpec.         *)
Abstract == INSTANCE RunQueueSpec WITH q <- [push |-> PushList, pop |-> PopList]

(* Every step of the pointer code is a step (or a stutter) of the queue of *)
(* sequences: no process is lost, duplicated or reordered by the links.    *)
ImplementsQueue == Abstract!Spec
===============================================================================
