--------------------------- MODULE PriorityQueue ---------------------------
(***************************************************************************)
(* The binary heap sc_ppq_base of utils/sc_pq.{h,cpp}, with the comparison *)
(* the kernel and sc_event_queue use: the earliest time is on top.  A heap *)
(* is the sequence m_heap[1..m_heap_size]; its elements are times.         *)
(***************************************************************************)
EXTENDS Integers, Sequences

Parent(i) == i \div 2
Left(i) == 2 * i
Right(i) == 2 * i + 1

HTop(h) == h[1]

(* Where elem comes to rest: the loop climbs from the new last place n. *)
Rest(h, elem) ==
    LET climb[i \in 1..(Len(h) + 1)] ==
            IF i > 1 /\ h[Parent(i)] > elem THEN climb[Parent(i)] ELSE i
    IN  climb[Len(h) + 1]

(* i is reached when climbing from n *)
OnPath(i, n) == \E k \in 0..n : n \div (2^k) = i

\* Variant: every element behind the new one moves.
Insert_shifts(h, elem) ==
    LET n == Len(h) + 1
        r == Rest(h, elem)
    IN  [i \in 1..n |-> IF i = r THEN elem ELSE IF i > r THEN h[Parent(i)] ELSE h[i]]

(* insert(): the elements on the way move down by one place *)
Insert(h, elem) ==
    LET n == Len(h) + 1
        r == Rest(h, elem)
    IN  [i \in 1..n |-> IF i = r THEN elem
                        ELSE IF i > r /\ OnPath(i, n) THEN h[Parent(i)]
                        ELSE h[i]]

(* The place heapify() swaps the element x at i with; i when it stops.  Below
   i the heap h is still as it was. *)
Sink(h, x, i) ==
    LET l == Left(i)
        r == Right(i)
        largest == IF l <= Len(h) /\ h[l] < x THEN l ELSE i
        value == IF largest = i THEN x ELSE h[l]
    IN  IF r <= Len(h) /\ h[r] < value THEN r ELSE largest

(* heapify(1) after x was put on top of h *)
Heapify(h, x) ==
    LET visit[i \in 1..Len(h)] ==
            LET j == Sink(h, x, i) IN IF j = i THEN {i} ELSE {i} \cup visit[j]
        way == visit[1]
    IN  [i \in 1..Len(h) |-> IF i \notin way THEN h[i]
                             ELSE LET j == Sink(h, x, i) IN IF j = i THEN x ELSE h[j]]

(* extract_top(): what is left after the top was taken *)
Extracted(h) ==
    IF Len(h) = 1 THEN <<>>
    ELSE Heapify(SubSeq(h, 1, Len(h) - 1), h[Len(h)])

(* The multiset of the elements: how often each of the given times occurs *)
Content(h, times) ==
    [t \in times |-> Len(SelectSeq(h, LAMBDA x : x = t))]
============================================================================
