-------------------------------- MODULE MCResets --------------------------------
(* Model values for Kernel: one signal that resets a thread asynchronously *)
(* when it is high, and another one synchronously when it is low.          *)
EXTENDS MCKernel

CONSTANTS t, u, rst

OneSignal ==
  {[channel |-> rst, process |-> t, async |-> TRUE, level |-> TRUE],
   [channel |-> rst, process |-> u, async |-> FALSE, level |-> FALSE]}
===============================================================================
