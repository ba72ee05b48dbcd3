------------------------------ MODULE MCMonitors ------------------------------
EXTENDS Monitors, TLC

CONSTANTS e, f, l

(* Monitor 0 is written by hand, 1 is generated, 2 is created on the way.  *)
MCClocks ==
    0 :> {e} @@ 1 :> {"delta_cycle_end", e, f, l} @@ 2 :> {"delta_cycle_end", e}

(* A number behind the iterator, one ahead of it, and a second point.      *)
MCLate == {<<0, "delta_cycle_end">>, <<0, f>>, <<2, f>>, <<2, "timednotify_end">>}
============================================================================
