-------------------------------- MODULE MCKernel --------------------------------
(* Model values for Kernel.                                                *)
EXTENDS KernelClaims, TLC

\* Every process is statically sensitive to every event and channel.
AllStatic == [p \in Process |-> UserEvent \cup Channel]

\* Threads are told apart by nothing but their names.
Alike == Permutations(Thread)
===============================================================================
