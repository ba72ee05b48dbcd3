----------------------------- MODULE MCThreadWaits -----------------------------
(* Model values for ThreadWaits.                                           *)
EXTENDS ThreadWaits

\* Every process is statically sensitive to every event and channel.
AllStatic == [p \in Process |-> UserEvent \cup Channel]
===============================================================================
