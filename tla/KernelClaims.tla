------------------------------ MODULE KernelClaims ------------------------------
(***************************************************************************)
(* What an assertion of the run queue says of Kernel, and some behaviour   *)
(* of the code contradicts.                                                *)
(***************************************************************************)
EXTENDS Kernel

(* "Can't queue twice" (push_front_thread, push_back_thread): a process    *)
(* that becomes runnable is not in a run queue yet.                        *)
QueuedOnce ==
  \A q \in {methods, threads} : Len(q.push \o q.pop) = Cardinality(Queued(q))
===============================================================================
