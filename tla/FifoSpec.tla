------------------------------ MODULE FifoSpec ------------------------------
(***************************************************************************)
(* What sc_fifo promises.  Within a delta cycle readers see the values     *)
(* that were there when it began, and writers the places that were free    *)
(* then: whether a call succeeds does not depend on the order in which the *)
(* processes of one delta cycle run.  Values come out in the order they    *)
(* went in.                                                                *)
(***************************************************************************)
EXTENDS Integers, Sequences

CONSTANTS Value, Size

VARIABLES
    queue,      \* all values in the fifo, those of this delta cycle included
    visible,    \* how many of them can be read in this delta cycle
    space,      \* how many can be written in this delta cycle
    got         \* the value the last read returned

vars == <<queue, visible, space, got>>

Init == queue = <<>> /\ visible = 0 /\ space = Size /\ got \in Value

Write == /\ space > 0 /\ space' = space - 1
         /\ \E v \in Value : queue' = Append(queue, v)
         /\ UNCHANGED <<visible, got>>

Read == /\ visible > 0 /\ visible' = visible - 1
        /\ got' = Head(queue) /\ queue' = Tail(queue)
        /\ UNCHANGED space

DeltaCycle == /\ visible' = Len(queue)
              /\ space' = Size - Len(queue)
              /\ UNCHANGED <<queue, got>>

Next == Write \/ Read \/ DeltaCycle

Spec == Init /\ [][Next]_vars
============================================================================
