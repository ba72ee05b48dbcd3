---------------------------- MODULE MCRunQueueLinks ----------------------------
(* Model values for RunQueueLinks.                                         *)
EXTENDS RunQueueLinks, TLC

(* The processes are alike; all the properties are about states or single  *)
(* steps.                                                                  *)
Symmetric == Permutations(Process)
===============================================================================
