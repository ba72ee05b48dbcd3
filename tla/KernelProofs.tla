----------------------------- MODULE KernelProofs -----------------------------
(***************************************************************************)
(* The scheduler, proved for any processes, events, reset signals, stop    *)
(* mode and set of operations: first what the structures of the kernel do  *)
(* for any values (the run queues, the vector of delta events and the      *)
(* members of a process), then the types, the control, the vector of delta *)
(* notifications and the time.                                             *)
(***************************************************************************)
EXTENDS Kernel, FiniteSetTheorems, SequenceTheorems, WellFoundedInduction, TLAPS

-------------------------------------------------------------------------------
(* Sequences *)

LEMMA ConcatSet ==
    ASSUME NEW S, NEW s \in Seq(S), NEW t \in Seq(S)
    PROVE  /\ s \o t \in Seq(S)
           /\ ToSet(s \o t) = ToSet(s) \cup ToSet(t)
           /\ IsInjective(s \o t) <=> /\ IsInjective(s) /\ IsInjective(t)
                                      /\ ToSet(s) \cap ToSet(t) = {}
<1> DEFINE x == s \o t
<1>1. /\ x \in Seq(S) /\ Len(x) = Len(s) + Len(t) /\ Len(s) \in Nat /\ Len(t) \in Nat
      /\ DOMAIN x = 1..Len(x) /\ DOMAIN s = 1..Len(s) /\ DOMAIN t = 1..Len(t)
      /\ \A i \in 1..Len(x) : x[i] = IF i <= Len(s) THEN s[i] ELSE t[i - Len(s)]
  OBVIOUS
<1> HIDE DEF x
<1>2. \A i \in 1..Len(s) : i \in 1..Len(x) /\ x[i] = s[i]
  BY <1>1
<1>3. \A i \in 1..Len(t) : i + Len(s) \in 1..Len(x) /\ x[i + Len(s)] = t[i]
  <2> SUFFICES ASSUME NEW i \in 1..Len(t)
               PROVE  i + Len(s) \in 1..Len(x) /\ x[i + Len(s)] = t[i]
    OBVIOUS
  <2>1. /\ i + Len(s) \in 1..Len(x) /\ ~(i + Len(s) <= Len(s))
        /\ (i + Len(s)) - Len(s) = i
    BY <1>1
  <2> QED BY <1>1, <2>1
<1>4. ToSet(x) = ToSet(s) \cup ToSet(t)
  <2>1. \A i \in 1..Len(x) : x[i] \in ToSet(s) \cup ToSet(t)
    <3> SUFFICES ASSUME NEW i \in 1..Len(x) PROVE x[i] \in ToSet(s) \cup ToSet(t)
      OBVIOUS
    <3>1. CASE i <= Len(s)
      BY <1>1, <3>1 DEF ToSet
    <3>2. CASE i > Len(s)
      <4>1. i - Len(s) \in 1..Len(t) /\ x[i] = t[i - Len(s)]
        BY <1>1, <3>2
      <4>2. t[i - Len(s)] \in ToSet(t)
        BY <4>1 DEF ToSet
      <4> QED BY <4>1, <4>2
    <3> QED BY <1>1, <3>1, <3>2
  <2>2. ToSet(s) \subseteq ToSet(x)
    BY <1>1, <1>2 DEF ToSet
  <2>3. ToSet(t) \subseteq ToSet(x)
    <3> SUFFICES ASSUME NEW v \in ToSet(t) PROVE v \in ToSet(x)
      OBVIOUS
    <3>1. PICK i \in 1..Len(t) : v = t[i]
      BY <1>1 DEF ToSet
    <3>2. i + Len(s) \in 1..Len(x) /\ x[i + Len(s)] = v
      BY <1>3, <3>1
    <3>3. DOMAIN x = 1..Len(x)
      BY <1>1
    <3> QED BY <3>2, <3>3 DEF ToSet
  <2>4. ToSet(x) \subseteq ToSet(s) \cup ToSet(t)
    BY <1>1, <2>1 DEF ToSet
  <2> QED BY <2>2, <2>3, <2>4
<1>5. IsInjective(x) => /\ IsInjective(s) /\ IsInjective(t) /\ ToSet(s) \cap ToSet(t) = {}
  <2> SUFFICES ASSUME IsInjective(x)
               PROVE  IsInjective(s) /\ IsInjective(t) /\ ToSet(s) \cap ToSet(t) = {}
    OBVIOUS
  <2>1. \A i, j \in 1..Len(x) : x[i] = x[j] => i = j
    BY <1>1 DEF IsInjective
  <2>2. IsInjective(s)
    BY <1>1, <1>2, <2>1 DEF IsInjective
  <2>3. IsInjective(t)
    <3> SUFFICES ASSUME NEW i \in 1..Len(t), NEW j \in 1..Len(t), t[i] = t[j] PROVE i = j
      BY <1>1 DEF IsInjective
    <3>1. i + Len(s) = j + Len(s)
      BY <1>3, <2>1
    <3> QED BY <1>1, <3>1
  <2>4. ToSet(s) \cap ToSet(t) = {}
    <3> SUFFICES ASSUME NEW i \in 1..Len(s), NEW j \in 1..Len(t), s[i] = t[j] PROVE FALSE
      BY <1>1 DEF ToSet
    <3>1. i = j + Len(s)
      BY <1>2, <1>3, <2>1
    <3> QED BY <1>1, <3>1
  <2> QED BY <2>2, <2>3, <2>4
<1>6. ASSUME IsInjective(s), IsInjective(t), ToSet(s) \cap ToSet(t) = {}
      PROVE  IsInjective(x)
  <2> SUFFICES ASSUME NEW i \in 1..Len(x), NEW j \in 1..Len(x), x[i] = x[j] PROVE i = j
    BY <1>1 DEF IsInjective
  <2>1. \A k \in 1..Len(x) : \/ k \in 1..Len(s) /\ x[k] = s[k] /\ x[k] \in ToSet(s)
                             \/ /\ k > Len(s) /\ k - Len(s) \in 1..Len(t)
                                /\ x[k] = t[k - Len(s)] /\ x[k] \in ToSet(t)
    <3> SUFFICES ASSUME NEW k \in 1..Len(x)
                 PROVE  \/ k \in 1..Len(s) /\ x[k] = s[k] /\ x[k] \in ToSet(s)
                        \/ /\ k > Len(s) /\ k - Len(s) \in 1..Len(t)
                           /\ x[k] = t[k - Len(s)] /\ x[k] \in ToSet(t)
      OBVIOUS
    <3>1. CASE k <= Len(s)
      <4>1. k \in 1..Len(s) /\ x[k] = s[k]
        BY <1>1, <3>1
      <4> QED BY <1>1, <4>1 DEF ToSet
    <3>2. CASE k > Len(s)
      <4>1. k - Len(s) \in 1..Len(t) /\ x[k] = t[k - Len(s)]
        BY <1>1, <3>2
      <4> QED BY <1>1, <3>2, <4>1 DEF ToSet
    <3> QED BY <1>1, <3>1, <3>2
  <2>2. CASE i \in 1..Len(s) /\ x[i] = s[i] /\ j \in 1..Len(s) /\ x[j] = s[j]
    BY <1>1, <1>6, <2>2 DEF IsInjective
  <2>3. CASE /\ i > Len(s) /\ i - Len(s) \in 1..Len(t) /\ x[i] = t[i - Len(s)]
             /\ j > Len(s) /\ j - Len(s) \in 1..Len(t) /\ x[j] = t[j - Len(s)]
    <3>1. i - Len(s) = j - Len(s)
      BY <1>1, <1>6, <2>3 DEF IsInjective
    <3> QED BY <1>1, <3>1
  <2> QED BY <1>6, <2>1, <2>2, <2>3
<1> QED BY <1>1, <1>4, <1>5, <1>6 DEF x

LEMMA OneElement ==
    ASSUME NEW S, NEW p \in S
    PROVE  /\ <<p>> \in Seq(S) /\ ToSet(<<p>>) = {p} /\ IsInjective(<<p>>)
           /\ <<>> \in Seq(S) /\ ToSet(<<>>) = {} /\ IsInjective(<<>>)
BY DEF ToSet, IsInjective

LEMMA RemoveAtSeq ==
    ASSUME NEW S, NEW s \in Seq(S), NEW i \in 1..Len(s)
    PROVE  /\ RemoveAt(s, i) \in Seq(S)
           /\ Len(RemoveAt(s, i)) = Len(s) - 1
           /\ \A j \in 1..Len(s) - 1 : RemoveAt(s, i)[j] = IF j < i THEN s[j] ELSE s[j + 1]
<1> DEFINE a == SubSeq(s, 1, i - 1)
           b == SubSeq(s, i + 1, Len(s))
<1>1. /\ a \in Seq(S) /\ Len(a) = i - 1 /\ \A j \in 1..i - 1 : a[j] = s[j]
  BY SubSeqProperties
<1>2. /\ b \in Seq(S) /\ Len(b) = Len(s) - i /\ \A j \in 1..Len(s) - i : b[j] = s[i + j]
  BY SubSeqProperties
<1>3. RemoveAt(s, i) = a \o b
  BY DEF RemoveAt
<1> HIDE DEF a, b
<1>4. /\ a \o b \in Seq(S) /\ Len(a \o b) = Len(a) + Len(b)
      /\ \A j \in 1..Len(a) + Len(b) : (a \o b)[j] = IF j <= Len(a) THEN a[j] ELSE b[j - Len(a)]
  BY <1>1, <1>2, ConcatProperties
<1>5. (i - 1) + (Len(s) - i) = Len(s) - 1
  OBVIOUS
<1>6. Len(a \o b) = Len(s) - 1
  BY <1>1, <1>2, <1>4, <1>5
<1>7. ASSUME NEW j \in 1..Len(s) - 1 PROVE (a \o b)[j] = IF j < i THEN s[j] ELSE s[j + 1]
  <2>1. (a \o b)[j] = IF j <= i - 1 THEN a[j] ELSE b[j - (i - 1)]
    BY <1>1, <1>2, <1>4, <1>5
  <2>2. CASE j < i
    BY <1>1, <2>1, <2>2
  <2>3. CASE ~(j < i)
    <3> DEFINE k == j - (i - 1)
    <3>1. k \in 1..Len(s) - i /\ i + k = j + 1 /\ ~(j <= i - 1) /\ ~(j < i)
      BY <2>3
    <3>2. (a \o b)[j] = b[k]
      BY <2>1, <3>1
    <3> HIDE DEF k
    <3>3. b[k] = s[j + 1]
      BY <1>2, <3>1
    <3> QED BY <3>1, <3>2, <3>3
  <2> QED BY <2>2, <2>3
<1> QED BY <1>3, <1>4, <1>6, <1>7

(* A process is unlinked from a list: the others stay, in their order.     *)
LEMMA RemoveAtSet ==
    ASSUME NEW S, NEW s \in Seq(S), NEW i \in 1..Len(s)
    PROVE  /\ ToSet(RemoveAt(s, i)) \subseteq ToSet(s)
           /\ ToSet(s) \subseteq ToSet(RemoveAt(s, i)) \cup {s[i]}
           /\ s[i] \in ToSet(s)
           /\ IsInjective(s) => /\ IsInjective(RemoveAt(s, i))
                                /\ ToSet(RemoveAt(s, i)) = ToSet(s) \ {s[i]}
<1> DEFINE r == RemoveAt(s, i)
<1>0. /\ r \in Seq(S) /\ Len(r) = Len(s) - 1
      /\ \A j \in 1..Len(s) - 1 : r[j] = IF j < i THEN s[j] ELSE s[j + 1]
  BY RemoveAtSeq
<1>1. /\ r \in Seq(S) /\ Len(r) = Len(s) - 1 /\ Len(s) \in Nat
      /\ DOMAIN r = 1..Len(s) - 1 /\ DOMAIN s = 1..Len(s)
      /\ \A j \in 1..Len(s) - 1 : r[j] = IF j < i THEN s[j] ELSE s[j + 1]
  BY <1>0, LenProperties
<1> HIDE DEF r
<1>2. \A j \in 1..Len(s) - 1 : \E k \in 1..Len(s) : k # i /\ r[j] = s[k]
  <2> SUFFICES ASSUME NEW j \in 1..Len(s) - 1
               PROVE  \E k \in 1..Len(s) : k # i /\ r[j] = s[k]
    OBVIOUS
  <2>1. CASE j < i
    <3>1. j \in 1..Len(s) /\ j # i /\ r[j] = s[j]
      BY <1>1, <2>1
    <3> QED BY <3>1
  <2>2. CASE ~(j < i)
    <3>1. j + 1 \in 1..Len(s) /\ j + 1 # i /\ r[j] = s[j + 1]
      BY <1>1, <2>2
    <3> QED BY <3>1
  <2> QED BY <2>1, <2>2
<1>3. \A k \in 1..Len(s) : k # i => \E j \in 1..Len(s) - 1 : r[j] = s[k]
  <2> SUFFICES ASSUME NEW k \in 1..Len(s), k # i
               PROVE  \E j \in 1..Len(s) - 1 : r[j] = s[k]
    OBVIOUS
  <2>1. CASE k < i
    <3>1. k \in 1..Len(s) - 1 /\ r[k] = s[k]
      BY <1>1, <2>1
    <3> QED BY <3>1
  <2>2. CASE k > i
    <3>1. k - 1 \in 1..Len(s) - 1 /\ ~(k - 1 < i) /\ (k - 1) + 1 = k
      BY <1>1, <2>2
    <3>2. r[k - 1] = s[k]
      BY <1>1, <3>1
    <3> QED BY <3>1, <3>2
  <2> QED BY <1>1, <2>1, <2>2
<1>4. ToSet(r) \subseteq ToSet(s) /\ ToSet(s) \subseteq ToSet(r) \cup {s[i]} /\ s[i] \in ToSet(s)
  <2>0. ToSet(s) = {s[k] : k \in 1..Len(s)} /\ ToSet(r) = {r[k] : k \in 1..Len(s) - 1}
    BY <1>1 DEF ToSet
  <2>1. ToSet(r) \subseteq ToSet(s)
    BY <1>2, <2>0
  <2>2. ToSet(s) \subseteq ToSet(r) \cup {s[i]}
    BY <1>3, <2>0
  <2> QED BY <2>0, <2>1, <2>2
<1>5. ASSUME IsInjective(s) PROVE IsInjective(r) /\ s[i] \notin ToSet(r)
  <2>1. \A k, l \in 1..Len(s) : s[k] = s[l] => k = l
    BY <1>1, <1>5 DEF IsInjective
  <2>2. s[i] \notin ToSet(r)
    BY <1>1, <1>2, <2>1 DEF ToSet
  <2>3. ASSUME NEW j \in 1..Len(s) - 1, NEW k \in 1..Len(s) - 1, r[j] = r[k]
        PROVE  j = k
    <3>1. j \in 1..Len(s) /\ j + 1 \in 1..Len(s) /\ k \in 1..Len(s) /\ k + 1 \in 1..Len(s)
      BY <1>1
    <3>2. CASE j < i /\ k < i
      BY <1>1, <2>1, <2>3, <3>1, <3>2
    <3>3. CASE j < i /\ ~(k < i)
      <4>1. j = k + 1
        BY <1>1, <2>1, <2>3, <3>1, <3>3
      <4> QED BY <1>1, <3>3, <4>1
    <3>4. CASE ~(j < i) /\ k < i
      <4>1. j + 1 = k
        BY <1>1, <2>1, <2>3, <3>1, <3>4
      <4> QED BY <1>1, <3>4, <4>1
    <3>5. CASE ~(j < i) /\ ~(k < i)
      <4>1. j + 1 = k + 1
        BY <1>1, <2>1, <2>3, <3>1, <3>5
      <4> QED BY <1>1, <4>1
    <3> QED BY <3>2, <3>3, <3>4, <3>5
  <2> QED BY <1>1, <2>2, <2>3 DEF IsInjective
<1> QED BY <1>4, <1>5 DEF r

LEMMA Smallest ==
    ASSUME NEW S \in SUBSET Nat, S # {}
    PROVE  Min(S) \in S /\ \A y \in S : Min(S) <= y
<1>1. \E x \in S : \A y \in S : ~(<<y, x>> \in OpToRel(<, Nat))
  BY NatLessThanWellFounded, WFMin
<1>2. \E x \in S : \A y \in S : ~(y < x)
  BY <1>1 DEF OpToRel
<1>3. \E x \in S : \A y \in S : x <= y
  BY <1>2
<1> QED BY <1>3 DEF Min

LEMMA RemoveSet ==
    ASSUME NEW S, NEW s \in Seq(S), NEW p
    PROVE  /\ RemoveFirst(s, p) \in Seq(S)
           /\ ToSet(RemoveFirst(s, p)) \subseteq ToSet(s)
           /\ ToSet(s) \subseteq ToSet(RemoveFirst(s, p)) \cup {p}
           /\ IsInjective(s) => /\ IsInjective(RemoveFirst(s, p))
                                /\ ToSet(RemoveFirst(s, p)) = ToSet(s) \ {p}
<1>1. CASE \E i \in 1..Len(s) : s[i] = p
  <2> DEFINE I == {j \in 1..Len(s) : s[j] = p}
             i == Min(I)
  <2>1. I # {} /\ I \in SUBSET Nat
    BY <1>1
  <2>2. i \in 1..Len(s) /\ s[i] = p
    BY <2>1, Smallest
  <2>3. RemoveFirst(s, p) = RemoveAt(s, i)
    BY <1>1, <2>1 DEF RemoveFirst, SelectInSeq
  <2> HIDE DEF I, i
  <2>4. RemoveAt(s, i) \in Seq(S)
    BY <2>2, RemoveAtSeq
  <2> QED BY <2>2, <2>3, <2>4, RemoveAtSet
<1>2. CASE ~\E i \in 1..Len(s) : s[i] = p
  <2>1. RemoveFirst(s, p) = s
    BY <1>2 DEF RemoveFirst
  <2>2. p \notin ToSet(s)
    BY <1>2, LenProperties DEF ToSet
  <2> QED BY <2>1, <2>2
<1> QED BY <1>1, <1>2

(* The orders in which a set of processes can be queued.                   *)
LEMMA Orders ==
    ASSUME NEW S, IsFiniteSet(S), NEW order \in SetToSeqs(S)
    PROVE  order \in Seq(S) /\ IsInjective(order) /\ ToSet(order) = S
<1> DEFINE n == Cardinality(S)
<1>1. n \in Nat
  BY FS_CardinalityType
<1>2. order \in [1..n -> S] /\ \A i, j \in 1..n : i # j => order[i] # order[j]
  BY DEF SetToSeqs
<1>3. order \in Seq(S) /\ DOMAIN order = 1..n
  BY <1>1, <1>2
<1> HIDE DEF n
<1>4. IsInjective(order) /\ order \in Injection(1..n, S)
  BY <1>2, <1>3 DEF IsInjective, Injection
<1>5. Cardinality(1..n) = n
  BY <1>1, FS_Interval
<1>6. order \in Surjection(1..n, S)
  BY <1>4, <1>5, FS_Injection DEF n
<1>7. ToSet(order) = S
  BY <1>2, <1>3, <1>6 DEF ToSet, Surjection
<1> QED BY <1>3, <1>4, <1>7

-------------------------------------------------------------------------------
(* The run queues *)

Queue(S) == [push : Seq(S), pop : Seq(S)]

(* No process is in the queue twice.                                       *)
Once(q) == IsInjective(q.push \o q.pop)

LEMMA OnceParts ==
    ASSUME NEW S, NEW q \in Queue(S)
    PROVE  /\ Once(q) <=> /\ IsInjective(q.push) /\ IsInjective(q.pop)
                         /\ ToSet(q.push) \cap ToSet(q.pop) = {}
           /\ Queued(q) = ToSet(q.push) \cup ToSet(q.pop)
           /\ Queued(q) \subseteq S
<1>1. q.push \in Seq(S) /\ q.pop \in Seq(S)
  BY DEF Queue
<1>2. \A s \in Seq(S) : ToSet(s) \subseteq S
  BY LenProperties DEF ToSet
<1> QED BY <1>1, <1>2, ConcatSet DEF Once, Queued

LEMMA EmptyQueued ==
    ASSUME NEW S
    PROVE  EmptyQueue \in Queue(S) /\ Queued(EmptyQueue) = {} /\ Once(EmptyQueue)
<1>1. EmptyQueue \in Queue(S)
  BY DEF EmptyQueue, Queue
<1>2. ToSet(<<>>) = {} /\ IsInjective(<<>>)
  BY DEF ToSet, IsInjective
<1> QED BY <1>1, <1>2, OnceParts DEF EmptyQueue

LEMMA IdleQueued ==
    ASSUME NEW S, NEW q \in Queue(S)
    PROVE  IsEmpty(q) <=> Queued(q) = {}
<1>1. q.push \in Seq(S) /\ q.pop \in Seq(S)
  BY DEF Queue
<1>2. \A s \in Seq(S) : s = <<>> <=> ToSet(s) = {}
  <2> SUFFICES ASSUME NEW s \in Seq(S) PROVE s = <<>> <=> ToSet(s) = {}
    OBVIOUS
  <2>1. ASSUME s # <<>> PROVE ToSet(s) # {}
    <3>1. Len(s) \in Nat \ {0}
      BY <2>1, EmptySeq
    <3>2. 1 \in DOMAIN s
      BY <3>1, LenProperties
    <3> QED BY <3>2 DEF ToSet
  <2>2. ToSet(<<>>) = {}
    BY DEF ToSet
  <2> QED BY <2>1, <2>2
<1> QED BY <1>1, <1>2 DEF Queued, IsEmpty

(* Processes that are not in the queue are added at its back.              *)
LEMMA PushedAll ==
    ASSUME NEW S, NEW q \in Queue(S), NEW s \in Seq(S)
    PROVE  LET n == [q EXCEPT !.push = @ \o s] IN
           /\ n \in Queue(S)
           /\ Queued(n) = Queued(q) \cup ToSet(s)
           /\ Once(q) /\ IsInjective(s) /\ Queued(q) \cap ToSet(s) = {} => Once(n)
<1> DEFINE n == [q EXCEPT !.push = @ \o s]
<1>0. q.push \in Seq(S) /\ q.pop \in Seq(S) /\ q = [push |-> q.push, pop |-> q.pop]
  BY DEF Queue
<1>1. q.push \in Seq(S) /\ q.pop \in Seq(S) /\ n.push = q.push \o s /\ n.pop = q.pop
  BY <1>0
<1>2. n \in Queue(S)
  BY <1>1, ConcatProperties DEF Queue
<1> HIDE DEF n
<1>3. /\ ToSet(q.push \o s) = ToSet(q.push) \cup ToSet(s)
      /\ IsInjective(q.push \o s) <=> /\ IsInjective(q.push) /\ IsInjective(s)
                                      /\ ToSet(q.push) \cap ToSet(s) = {}
  BY <1>1, ConcatSet
<1>4. /\ Queued(n) = ToSet(n.push) \cup ToSet(n.pop)
      /\ Queued(q) = ToSet(q.push) \cup ToSet(q.pop)
  BY DEF Queued
<1>5. /\ Once(q) <=> /\ IsInjective(q.push) /\ IsInjective(q.pop)
                    /\ ToSet(q.push) \cap ToSet(q.pop) = {}
      /\ Once(n) <=> /\ IsInjective(n.push) /\ IsInjective(n.pop)
                    /\ ToSet(n.push) \cap ToSet(n.pop) = {}
  BY <1>2, OnceParts
<1> QED BY <1>1, <1>2, <1>3, <1>4, <1>5 DEF n

LEMMA Removed ==
    ASSUME NEW S, NEW q \in Queue(S), NEW p
    PROVE  /\ RemoveProc(q, p) \in Queue(S)
           /\ Queued(RemoveProc(q, p)) \subseteq Queued(q)
           /\ Queued(q) \subseteq Queued(RemoveProc(q, p)) \cup {p}
           /\ Once(q) => /\ Once(RemoveProc(q, p))
                        /\ Queued(RemoveProc(q, p)) = Queued(q) \ {p}
<1> DEFINE n == RemoveProc(q, p)
<1>1. q.push \in Seq(S) /\ q.pop \in Seq(S)
  BY DEF Queue
<1>2. CASE p \in ToSet(q.push)
  <2>1. n = [push |-> RemoveFirst(q.push, p), pop |-> q.pop]
    BY <1>2 DEF RemoveProc, Queue
  <2> HIDE DEF n
  <2>2. n \in Queue(S) /\ n.push = RemoveFirst(q.push, p) /\ n.pop = q.pop
    BY <1>1, <2>1, RemoveSet DEF Queue
  <2>3. /\ Once(q) <=> /\ IsInjective(q.push) /\ IsInjective(q.pop)
                        /\ ToSet(q.push) \cap ToSet(q.pop) = {}
        /\ Once(n) <=> /\ IsInjective(n.push) /\ IsInjective(n.pop)
                        /\ ToSet(n.push) \cap ToSet(n.pop) = {}
        /\ Queued(n) = ToSet(n.push) \cup ToSet(n.pop)
        /\ Queued(q) = ToSet(q.push) \cup ToSet(q.pop)
    BY <2>2, OnceParts
  <2>4. /\ ToSet(n.push) \subseteq ToSet(q.push) /\ ToSet(q.push) \subseteq ToSet(n.push) \cup {p}
        /\ IsInjective(q.push) => IsInjective(n.push) /\ ToSet(n.push) = ToSet(q.push) \ {p}
    BY <1>1, <2>2, RemoveSet
  <2> QED BY <1>2, <2>2, <2>3, <2>4 DEF n
<1>3. CASE p \notin ToSet(q.push)
  <2>1. n = [push |-> q.push, pop |-> RemoveFirst(q.pop, p)]
    BY <1>3 DEF RemoveProc, Queue
  <2> HIDE DEF n
  <2>2. n \in Queue(S) /\ n.pop = RemoveFirst(q.pop, p) /\ n.push = q.push
    BY <1>1, <2>1, RemoveSet DEF Queue
  <2>3. /\ Once(q) <=> /\ IsInjective(q.push) /\ IsInjective(q.pop)
                        /\ ToSet(q.push) \cap ToSet(q.pop) = {}
        /\ Once(n) <=> /\ IsInjective(n.push) /\ IsInjective(n.pop)
                        /\ ToSet(n.push) \cap ToSet(n.pop) = {}
        /\ Queued(n) = ToSet(n.push) \cup ToSet(n.pop)
        /\ Queued(q) = ToSet(q.push) \cup ToSet(q.pop)
    BY <2>2, OnceParts
  <2>4. /\ ToSet(n.pop) \subseteq ToSet(q.pop) /\ ToSet(q.pop) \subseteq ToSet(n.pop) \cup {p}
        /\ IsInjective(q.pop) => IsInjective(n.pop) /\ ToSet(n.pop) = ToSet(q.pop) \ {p}
    BY <1>1, <2>2, RemoveSet
  <2> QED BY <1>3, <2>2, <2>3, <2>4 DEF n
<1> QED BY <1>2, <1>3

LEMMA Popped ==
    ASSUME NEW S, NEW q \in Queue(S), NEW i \in DOMAIN q.pop
    PROVE  /\ PopAt(q, i) \in Queue(S) /\ q.pop[i] \in S /\ q.pop[i] \in Queued(q)
           /\ Queued(PopAt(q, i)) \subseteq Queued(q)
           /\ Queued(q) \subseteq Queued(PopAt(q, i)) \cup {q.pop[i]}
           /\ Once(q) => /\ Once(PopAt(q, i))
                        /\ Queued(PopAt(q, i)) = Queued(q) \ {q.pop[i]}
<1> DEFINE n == PopAt(q, i)
<1>1. q.push \in Seq(S) /\ q.pop \in Seq(S) /\ i \in 1..Len(q.pop)
  BY LenProperties DEF Queue
<1>2. n = [push |-> q.push, pop |-> RemoveAt(q.pop, i)]
  BY DEF PopAt, Queue
<1> HIDE DEF n
<1>3. n \in Queue(S) /\ n.pop = RemoveAt(q.pop, i) /\ n.push = q.push
  BY <1>1, <1>2, RemoveAtSeq DEF Queue
<1>4. /\ ToSet(RemoveAt(q.pop, i)) \subseteq ToSet(q.pop)
      /\ ToSet(q.pop) \subseteq ToSet(RemoveAt(q.pop, i)) \cup {q.pop[i]}
      /\ q.pop[i] \in ToSet(q.pop)
      /\ IsInjective(q.pop) => /\ IsInjective(RemoveAt(q.pop, i))
                               /\ ToSet(RemoveAt(q.pop, i)) = ToSet(q.pop) \ {q.pop[i]}
  BY <1>1, RemoveAtSet
<1>5. q.pop[i] \in S
  BY <1>1, ElementOfSeq
<1>6. /\ Once(q) <=> /\ IsInjective(q.push) /\ IsInjective(q.pop)
                    /\ ToSet(q.push) \cap ToSet(q.pop) = {}
      /\ Once(n) <=> /\ IsInjective(n.push) /\ IsInjective(n.pop)
                    /\ ToSet(n.push) \cap ToSet(n.pop) = {}
      /\ Queued(n) = ToSet(n.push) \cup ToSet(n.pop)
      /\ Queued(q) = ToSet(q.push) \cup ToSet(q.pop)
  BY <1>3, OnceParts
<1> QED BY <1>1, <1>3, <1>4, <1>5, <1>6 DEF n

LEMMA PutNext ==
    ASSUME NEW S, NEW q \in Queue(S), NEW p \in S
    PROVE  /\ ExecuteNext(q, p) \in Queue(S)
           /\ Queued(ExecuteNext(q, p)) = Queued(q) \cup {p}
           /\ ExecuteNext(q, p).pop # <<>>
           /\ Once(q) /\ p \notin Queued(q) => Once(ExecuteNext(q, p))
<1> DEFINE n == ExecuteNext(q, p)
<1>1. q.push \in Seq(S) /\ q.pop \in Seq(S) /\ <<p>> \in Seq(S)
  BY DEF Queue
<1>0. q = [push |-> q.push, pop |-> q.pop]
  BY DEF Queue
<1>2. n.pop = <<p>> \o q.pop /\ n.push = q.push /\ n = [push |-> n.push, pop |-> n.pop]
  <2> DEFINE c == <<p>> \o q.pop
  <2>1. n = [q EXCEPT !.pop = c]
    BY DEF ExecuteNext
  <2>2. PICK x, a, b : x = c /\ a = q.push /\ b = q.pop
    OBVIOUS
  <2> HIDE DEF c, n
  <2>3. q = [push |-> a, pop |-> b]
    BY <1>0, <2>2
  <2>4. n = [push |-> a, pop |-> x]
    BY <2>1, <2>2, <2>3
  <2>5. n.pop = x /\ n.push = a /\ n = [push |-> n.push, pop |-> n.pop]
    BY <2>4
  <2> QED BY <2>2, <2>5 DEF c
<1> HIDE DEF n
<1>3. n \in Queue(S) /\ n.pop = <<p>> \o q.pop /\ n.push = q.push
  <2>1. <<p>> \o q.pop \in Seq(S)
    BY <1>1, ConcatProperties
  <2>2. n.pop \in Seq(S) /\ n.push \in Seq(S)
    BY <1>1, <1>2, <2>1
  <2>3. [push |-> n.push, pop |-> n.pop] \in Queue(S)
    BY <2>2 DEF Queue
  <2> QED BY <1>2, <2>3
<1>p. ToSet(<<p>>) = {p} /\ IsInjective(<<p>>)
  BY OneElement
<1>4. /\ ToSet(n.pop) = {p} \cup ToSet(q.pop)
      /\ IsInjective(n.pop) <=> IsInjective(q.pop) /\ {p} \cap ToSet(q.pop) = {}
  <2>1. /\ ToSet(<<p>> \o q.pop) = ToSet(<<p>>) \cup ToSet(q.pop)
        /\ IsInjective(<<p>> \o q.pop) <=> /\ IsInjective(<<p>>) /\ IsInjective(q.pop)
                                           /\ ToSet(<<p>>) \cap ToSet(q.pop) = {}
    <3>1. PICK one, rest : one = <<p>> /\ rest = q.pop
      OBVIOUS
    <3>2. one \in Seq(S) /\ rest \in Seq(S)
      BY <1>1, <3>1
    <3>3. /\ ToSet(one \o rest) = ToSet(one) \cup ToSet(rest)
          /\ IsInjective(one \o rest) <=> /\ IsInjective(one) /\ IsInjective(rest)
                                          /\ ToSet(one) \cap ToSet(rest) = {}
      BY <3>2, ConcatSet
    <3> QED BY <3>1, <3>3
  <2>2. ToSet(n.pop) = {p} \cup ToSet(q.pop)
    BY <1>3, <1>p, <2>1
  <2> QED BY <1>3, <1>p, <2>1, <2>2
<1>5. n.pop # <<>>
  <2>1. ToSet(<<>>) = {}
    BY DEF ToSet
  <2> QED BY <1>4, <2>1
<1>6. /\ Once(q) <=> /\ IsInjective(q.push) /\ IsInjective(q.pop)
                    /\ ToSet(q.push) \cap ToSet(q.pop) = {}
      /\ Once(n) <=> /\ IsInjective(n.push) /\ IsInjective(n.pop)
                    /\ ToSet(n.push) \cap ToSet(n.pop) = {}
      /\ Queued(n) = ToSet(n.push) \cup ToSet(n.pop)
      /\ Queued(q) = ToSet(q.push) \cup ToSet(q.pop)
  BY <1>3, OnceParts
<1> QED BY <1>1, <1>3, <1>4, <1>5, <1>6 DEF n

LEMMA Toggled ==
    ASSUME NEW S, NEW q \in Queue(S)
    PROVE  /\ Toggle(q) \in Queue(S)
           /\ Queued(Toggle(q)) = Queued(q)
           /\ Once(q) => Once(Toggle(q))
<1>1. CASE q.pop = <<>>
  <2> DEFINE n == Toggle(q)
  <2>1. n = [push |-> <<>>, pop |-> q.push]
    BY <1>1 DEF Toggle
  <2> HIDE DEF n
  <2>2. n \in Queue(S) /\ n.push = q.pop /\ n.pop = q.push
    BY <1>1, <2>1 DEF Queue
  <2>3. Queued(n) = Queued(q)
    <3>1. Queued(n) = ToSet(n.push) \cup ToSet(n.pop)
      BY <2>2, OnceParts
    <3>2. Queued(q) = ToSet(q.push) \cup ToSet(q.pop)
      BY OnceParts
    <3> QED BY <2>2, <3>1, <3>2
  <2>4. Once(q) => Once(n)
    <3>1. Once(n) <=> /\ IsInjective(n.push) /\ IsInjective(n.pop)
                      /\ ToSet(n.push) \cap ToSet(n.pop) = {}
      BY <2>2, OnceParts
    <3>2. Once(q) <=> /\ IsInjective(q.push) /\ IsInjective(q.pop)
                      /\ ToSet(q.push) \cap ToSet(q.pop) = {}
      BY OnceParts
    <3> QED BY <2>2, <3>1, <3>2
  <2> QED BY <2>2, <2>3, <2>4 DEF n
<1>2. CASE q.pop # <<>>
  BY <1>2 DEF Toggle
<1> QED BY <1>1, <1>2

(* The reset threads of a channel are put in front one after the other.    *)
LEMMA PutAllNextFcn ==
    ASSUME NEW S, NEW q \in Queue(S), NEW order \in Seq(S)
    PROVE  \E g : /\ g = [i \in 0..Len(order) |->
                          IF i = 0 THEN q
                          ELSE ExecuteNext(IF order[i] \in Queued(g[i - 1])
                                           THEN RemoveProc(g[i - 1], order[i])
                                           ELSE g[i - 1], order[i])]
                 /\ ExecuteNextAll(q, order) = g[Len(order)]
<1> DEFINE F(r, p) == ExecuteNext(IF p \in Queued(r) THEN RemoveProc(r, p) ELSE r, p)
           Fcn(n, g) == g = [i \in 0..n |-> IF i = 0 THEN q ELSE F(g[i - 1], order[i])]
           B == {n \in Nat : ~\E g : Fcn(n, g)}
<1>1. B = {}
  <2> SUFFICES ASSUME B # {} PROVE FALSE
    OBVIOUS
  <2> DEFINE m == Min(B)
  <2>1. m \in B /\ m \in Nat /\ \A y \in B : m <= y
    BY Smallest
  <2> HIDE DEF m
  <2>2. m # 0
    <3>1. Fcn(0, [i \in 0..0 |-> q])
      OBVIOUS
    <3> QED BY <2>1, <3>1
  <2>3. m - 1 \in Nat /\ m - 1 \notin B
    <3> HIDE DEF B
    <3> QED BY <2>1, <2>2
  <2>4. PICK g : Fcn(m - 1, g)
    BY <2>3
  <2> DEFINE h == [i \in 0..m |-> IF i = m THEN F(g[m - 1], order[m]) ELSE g[i]]
  <2>5. ASSUME NEW i \in 0..m PROVE h[i] = IF i = 0 THEN q ELSE F(h[i - 1], order[i])
    <3> HIDE DEF F
    <3>1. CASE i = m
      <4>1. m - 1 \in 0..m /\ m - 1 # m /\ h[m - 1] = g[m - 1]
        BY <2>1, <2>3
      <4> QED BY <2>2, <3>1, <4>1
    <3>2. CASE i # m /\ i # 0
      <4>1. i \in 0..m - 1 /\ i - 1 \in 0..m /\ i - 1 # m
        BY <2>1, <3>2
      <4>2. h[i] = g[i] /\ h[i - 1] = g[i - 1]
        BY <3>2, <4>1
      <4> QED BY <2>4, <3>2, <4>1, <4>2
    <3>3. CASE i # m /\ i = 0
      <4>1. i \in 0..m - 1 /\ h[i] = g[i]
        BY <2>1, <2>3, <3>3
      <4> QED BY <2>4, <3>3, <4>1
    <3> QED BY <3>1, <3>2, <3>3
  <2>6. Fcn(m, h)
    BY <2>5, Zenon
  <2> QED BY <2>1, <2>6
<1>2. \E g : Fcn(Len(order), g)
  BY <1>1
<1> DEFINE g0 == CHOOSE g : Fcn(Len(order), g)
<1>3. Fcn(Len(order), g0)
  BY <1>2
<1>4. ExecuteNextAll(q, order) = g0[Len(order)]
  BY DEF ExecuteNextAll
<1> QED BY <1>3, <1>4

LEMMA PutAllNext ==
    ASSUME NEW S, NEW q \in Queue(S), NEW order \in Seq(S)
    PROVE  /\ ExecuteNextAll(q, order) \in Queue(S)
           /\ Queued(ExecuteNextAll(q, order)) = Queued(q) \cup ToSet(order)
           /\ Once(q) => Once(ExecuteNextAll(q, order))
<1> DEFINE F(r, p) == ExecuteNext(IF p \in Queued(r) THEN RemoveProc(r, p) ELSE r, p)
<1>1. PICK g : /\ g = [i \in 0..Len(order) |-> IF i = 0 THEN q ELSE F(g[i - 1], order[i])]
               /\ ExecuteNextAll(q, order) = g[Len(order)]
  BY PutAllNextFcn
<1>2. ASSUME NEW r \in Queue(S), NEW p \in S
      PROVE  /\ F(r, p) \in Queue(S) /\ Queued(F(r, p)) = Queued(r) \cup {p}
             /\ Once(r) => Once(F(r, p))
  <2> DEFINE x == IF p \in Queued(r) THEN RemoveProc(r, p) ELSE r
  <2>1. /\ x \in Queue(S) /\ Queued(x) \cup {p} = Queued(r) \cup {p}
        /\ Once(r) => Once(x) /\ p \notin Queued(x)
    BY Removed
  <2> HIDE DEF x
  <2>2. /\ ExecuteNext(x, p) \in Queue(S) /\ Queued(ExecuteNext(x, p)) = Queued(x) \cup {p}
        /\ Once(x) /\ p \notin Queued(x) => Once(ExecuteNext(x, p))
    BY <2>1, PutNext
  <2> QED BY <2>1, <2>2 DEF x
<1> HIDE DEF F
<1> DEFINE Seen(n) == {order[i] : i \in 1..n}
           Good(n) == /\ g[n] \in Queue(S) /\ Queued(g[n]) = Queued(q) \cup Seen(n)
                      /\ Once(q) => Once(g[n])
           B == {n \in 0..Len(order) : ~Good(n)}
<1>3. Len(order) \in Nat /\ \A i \in 1..Len(order) : order[i] \in S
  BY LenProperties, ElementOfSeq
<1>4. /\ g[0] = q
      /\ \A i \in 1..Len(order) : g[i] = F(g[i - 1], order[i])
  BY <1>1, <1>3
<1>5. B = {}
  <2> SUFFICES ASSUME B # {} PROVE FALSE
    OBVIOUS
  <2> DEFINE m == Min(B)
  <2>1. m \in B /\ \A y \in B : m <= y
    <3>1. B \in SUBSET Nat
      BY <1>3
    <3> QED BY <3>1, Smallest
  <2>2. m \in 0..Len(order) /\ ~Good(m)
    BY <2>1
  <2>3. Good(0)
    <3>1. Seen(0) = {}
      OBVIOUS
    <3> QED BY <1>4, <3>1
  <2> HIDE DEF m
  <2>4. m \in 1..Len(order) /\ m - 1 \in 0..Len(order) /\ m - 1 \notin B
    <3> HIDE DEF B, Good
    <3>1. m # 0
      BY <2>2, <2>3
    <3> QED BY <1>3, <2>1, <2>2, <3>1
  <2>5. Good(m - 1)
    BY <2>4
  <2>6. Seen(m) = Seen(m - 1) \cup {order[m]}
    BY <1>3, <2>4
  <2>7. g[m] = F(g[m - 1], order[m]) /\ order[m] \in S
    BY <1>3, <1>4, <2>4
  <2> HIDE DEF Seen
  <2>8. Good(m)
    BY <1>2, <2>5, <2>6, <2>7
  <2> QED BY <2>2, <2>8
<1>6. Good(Len(order))
  BY <1>3, <1>5
<1>7. Seen(Len(order)) = ToSet(order)
  BY LenProperties DEF ToSet
<1> QED BY <1>1, <1>6, <1>7

-------------------------------------------------------------------------------
(* The vector of delta events *)

Vector(E) ==
    {v \in [slot : Seq(E), size : Nat, index : [E -> Nat]] : v.size <= Len(v.slot)}

(* No event that is in the vector lies beyond position c.                  *)
Within(v, E, c) == \A e \in E : RemovableDelta(v, e) => v.index[e] <= c

LEMMA VectorParts ==
    ASSUME NEW E, NEW v \in Vector(E)
    PROVE  /\ v.slot \in Seq(E) /\ Len(v.slot) \in Nat /\ v.size \in 0..Len(v.slot)
           /\ v.index \in [E -> Nat]
           /\ v = [slot |-> v.slot, size |-> v.size, index |-> v.index]
           /\ \A i \in 1..Len(v.slot) : v.slot[i] \in E
BY LenProperties, ElementOfSeq DEF Vector

LEMMA VectorOf ==
    ASSUME NEW E, NEW slot \in Seq(E), NEW size \in Nat, NEW index \in [E -> Nat],
           size <= Len(slot)
    PROVE  [slot |-> slot, size |-> size, index |-> index] \in Vector(E)
BY DEF Vector

LEMMA EmptyVector ==
    ASSUME NEW E
    PROVE  EmptyDelta(E) \in Vector(E)
BY DEF EmptyDelta, Vector

LEMMA ClearedDelta ==
    ASSUME NEW E, NEW v \in Vector(E)
    PROVE  ClearDelta(v) \in Vector(E)
<1>1. v.index \in [E -> Nat] /\ v \in [slot : Seq(E), size : Nat, index : [E -> Nat]]
  BY DEF Vector
<1>2. ASSUME NEW s \in Seq(E), NEW n \in Nat, n <= Len(s)
      PROVE  [v EXCEPT !.slot = s, !.size = n] \in Vector(E)
  BY <1>1, <1>2 DEF Vector
<1>3. <<>> \in Seq(E) /\ 0 \in Nat /\ 0 <= Len(<<>>)
  OBVIOUS
<1> QED BY <1>2, <1>3 DEF ClearDelta

LEMMA AddedDelta ==
    ASSUME NEW E, NEW v \in Vector(E), NEW e \in E
    PROVE  /\ AddDelta(v, e) \in Vector(E)
           /\ RemovableDelta(AddDelta(v, e), e)
           /\ \A f \in E : RemovableDelta(v, f) => RemovableDelta(AddDelta(v, e), f)
<1> DEFINE w == AddDelta(v, e)
           s == SubSeq(v.slot, 1, v.size)
<1>1. /\ v.slot \in Seq(E) /\ Len(v.slot) \in Nat /\ v.size \in 0..Len(v.slot)
      /\ v.index \in [E -> Nat]
  BY VectorParts
<1>2. s \in Seq(E) /\ Len(s) = v.size /\ \A i \in 1..v.size : s[i] = v.slot[i]
  BY <1>1, SubSeqProperties
<1>3. /\ w.slot = Append(s, e) /\ w.size = v.size + 1
      /\ w.index = [v.index EXCEPT ![e] = v.size + 1]
      /\ w = [slot |-> w.slot, size |-> w.size, index |-> w.index]
  BY DEF AddDelta
<1> HIDE DEF w, s
<1>4. /\ w.slot \in Seq(E) /\ Len(w.slot) = v.size + 1 /\ w.slot[v.size + 1] = e
      /\ \A i \in 1..v.size : w.slot[i] = v.slot[i]
  BY <1>1, <1>2, <1>3, AppendProperties
<1>5. w.index \in [E -> Nat] /\ w.size \in Nat
  BY <1>1, <1>3
<1>6. w \in Vector(E)
  <2>1. w.size <= Len(w.slot)
    BY <1>1, <1>3, <1>4
  <2>2. [slot |-> w.slot, size |-> w.size, index |-> w.index] \in Vector(E)
    BY <1>4, <1>5, <2>1, VectorOf
  <2> QED BY <1>3, <2>2
<1>7. RemovableDelta(w, e)
  BY <1>1, <1>3, <1>4 DEF RemovableDelta
<1>8. ASSUME NEW f \in E, RemovableDelta(v, f), f # e PROVE RemovableDelta(w, f)
  <2>1. v.index[f] \in 1..v.size /\ v.slot[v.index[f]] = f /\ w.index[f] = v.index[f]
    BY <1>1, <1>3, <1>8 DEF RemovableDelta
  <2> QED BY <1>1, <1>3, <1>4, <2>1 DEF RemovableDelta
<1> QED BY <1>6, <1>7, <1>8 DEF w

(* The last event takes the place of the one removed: none that is to be   *)
(* notified is lost, or moves beyond the position the loop has reached.    *)
LEMMA RemovedDelta ==
    ASSUME NEW E, NEW v \in Vector(E), NEW e \in E, RemovableDelta(v, e)
    PROVE  LET w == RemoveDelta(v, e) IN
           /\ w \in Vector(E) /\ Len(w.slot) = Len(v.slot)
           /\ \A f \in E \ {e} : RemovableDelta(v, f) => RemovableDelta(w, f)
           /\ \A c \in Nat : Within(v, E, c) => Within(w, E, c)
           /\ \A c \in 1..Len(v.slot) : v.slot[c] # e => w.slot[c] = v.slot[c]
<1> DEFINE w == RemoveDelta(v, e)
           i == v.index[e]
           last == v.slot[v.size]
<1>1. /\ v.slot \in Seq(E) /\ Len(v.slot) \in Nat /\ v.size \in 0..Len(v.slot)
      /\ v.index \in [E -> Nat] /\ \A j \in 1..Len(v.slot) : v.slot[j] \in E
  BY VectorParts
<1>2. i \in 1..v.size /\ v.slot[i] = e /\ i \in 1..Len(v.slot)
  BY <1>1 DEF RemovableDelta
<1>3. last \in E /\ v.size \in 1..Len(v.slot)
  BY <1>1, <1>2
<1>4. /\ w.slot = [v.slot EXCEPT ![i] = last] /\ w.size = v.size - 1
      /\ w.index = [[v.index EXCEPT ![last] = i] EXCEPT ![e] = 0]
      /\ w = [slot |-> w.slot, size |-> w.size, index |-> w.index]
  BY DEF RemoveDelta
<1> HIDE DEF w, i, last
<1>5. /\ w.slot \in Seq(E) /\ Len(w.slot) = Len(v.slot)
      /\ \A j \in 1..Len(v.slot) : w.slot[j] = IF j = i THEN last ELSE v.slot[j]
  BY <1>1, <1>2, <1>3, <1>4, ExceptSeq
<1>6. /\ w.index \in [E -> Nat] /\ w.size \in Nat
      /\ \A f \in E : w.index[f] = IF f = e THEN 0 ELSE IF f = last THEN i ELSE v.index[f]
  <2>1. w.size \in Nat /\ i \in Nat
    BY <1>1, <1>2, <1>3, <1>4
  <2> DEFINE x == [v.index EXCEPT ![last] = i]
  <2>2. x \in [E -> Nat] /\ \A f \in E : x[f] = IF f = last THEN i ELSE v.index[f]
    BY <1>1, <1>3, <2>1
  <2>3. w.index = [x EXCEPT ![e] = 0]
    BY <1>4
  <2> HIDE DEF x
  <2> QED BY <2>1, <2>2, <2>3
<1>7. w \in Vector(E)
  <2>1. w.size <= Len(w.slot)
    BY <1>1, <1>3, <1>4, <1>5
  <2>2. [slot |-> w.slot, size |-> w.size, index |-> w.index] \in Vector(E)
    BY <1>5, <1>6, <2>1, VectorOf
  <2> QED BY <1>4, <2>2
<1>8. ASSUME NEW f \in E, f # e, RemovableDelta(v, f) PROVE RemovableDelta(w, f)
  <2>1. v.index[f] \in 1..v.size /\ v.slot[v.index[f]] = f /\ v.index[f] # i
    BY <1>2, <1>8 DEF RemovableDelta
  <2>2. CASE f = last
    <3>1. e # last
      BY <1>8, <2>2
    <3>2. i # v.size
      BY <1>2, <3>1 DEF last
    <3> QED BY <1>1, <1>2, <1>3, <1>4, <1>5, <1>6, <1>8, <2>2, <3>2 DEF RemovableDelta
  <2>3. CASE f # last
    <3>1. v.index[f] # v.size
      BY <2>1, <2>3 DEF last
    <3> QED BY <1>1, <1>3, <1>4, <1>5, <1>6, <1>8, <2>1, <2>3, <3>1 DEF RemovableDelta
  <2> QED BY <2>2, <2>3
<1>9. ASSUME NEW c \in Nat, Within(v, E, c) PROVE Within(w, E, c)
  <2> SUFFICES ASSUME NEW f \in E, RemovableDelta(w, f) PROVE w.index[f] <= c
    BY DEF Within
  <2>1. w.index[f] \in 1..w.size /\ w.slot[w.index[f]] = f /\ f # e
    BY <1>6 DEF RemovableDelta
  <2>2. CASE f = last
    <3>1. i <= c
      BY <1>9 DEF Within, i
    <3> QED BY <1>6, <2>1, <2>2, <3>1
  <2>3. CASE f # last
    <3>1. w.index[f] = v.index[f] /\ v.index[f] # i
      BY <1>2, <1>5, <1>6, <2>1, <2>3
    <3>2. v.index[f] \in 1..v.size /\ v.slot[v.index[f]] = f
      BY <1>1, <1>3, <1>4, <1>5, <2>1, <3>1
    <3> QED BY <1>9, <3>1, <3>2 DEF Within, RemovableDelta
  <2> QED BY <2>2, <2>3
<1>10. ASSUME NEW c \in 1..Len(v.slot), v.slot[c] # e PROVE w.slot[c] = v.slot[c]
  BY <1>2, <1>5, <1>10
<1> QED BY <1>5, <1>7, <1>8, <1>9, <1>10 DEF w

LEMMA RemoveAllDeltaFcn ==
    ASSUME NEW E, NEW v \in Vector(E), NEW order \in Seq(E)
    PROVE  \E g : /\ g = [i \in 0..Len(order) |->
                          IF i = 0 THEN v ELSE RemoveDelta(g[i - 1], order[i])]
                 /\ RemoveAllDelta(v, order) = g[Len(order)]
<1> DEFINE Fcn(n, g) ==
             g = [i \in 0..n |-> IF i = 0 THEN v ELSE RemoveDelta(g[i - 1], order[i])]
           B == {n \in Nat : ~\E g : Fcn(n, g)}
<1>1. B = {}
  <2> SUFFICES ASSUME B # {} PROVE FALSE
    OBVIOUS
  <2> DEFINE m == Min(B)
  <2>1. m \in B /\ m \in Nat /\ \A y \in B : m <= y
    BY Smallest
  <2> HIDE DEF m
  <2>2. m # 0
    <3>1. Fcn(0, [i \in 0..0 |-> v])
      OBVIOUS
    <3> QED BY <2>1, <3>1
  <2>3. m - 1 \in Nat /\ m - 1 \notin B
    <3> HIDE DEF B
    <3> QED BY <2>1, <2>2
  <2>4. PICK g : Fcn(m - 1, g)
    BY <2>3
  <2> DEFINE h == [i \in 0..m |-> IF i = m THEN RemoveDelta(g[m - 1], order[m]) ELSE g[i]]
  <2>5. ASSUME NEW i \in 0..m
        PROVE  h[i] = IF i = 0 THEN v ELSE RemoveDelta(h[i - 1], order[i])
    <3>1. CASE i = m
      <4>1. m - 1 \in 0..m /\ m - 1 # m /\ h[m - 1] = g[m - 1]
        BY <2>1, <2>3
      <4> QED BY <2>2, <3>1, <4>1
    <3>2. CASE i # m /\ i # 0
      <4>1. i \in 0..m - 1 /\ i - 1 \in 0..m /\ i - 1 # m
        BY <2>1, <3>2
      <4>2. h[i] = g[i] /\ h[i - 1] = g[i - 1]
        BY <3>2, <4>1
      <4> QED BY <2>4, <3>2, <4>1, <4>2
    <3>3. CASE i # m /\ i = 0
      <4>1. i \in 0..m - 1 /\ h[i] = g[i]
        BY <2>1, <2>3, <3>3
      <4> QED BY <2>4, <3>3, <4>1
    <3> QED BY <3>1, <3>2, <3>3
  <2>6. Fcn(m, h)
    BY <2>5, Zenon
  <2> QED BY <2>1, <2>6
<1>2. \E g : Fcn(Len(order), g)
  BY <1>1
<1> DEFINE g0 == CHOOSE g : Fcn(Len(order), g)
<1>3. Fcn(Len(order), g0)
  BY <1>2
<1>4. RemoveAllDelta(v, order) = g0[Len(order)]
  BY DEF RemoveAllDelta
<1> QED BY <1>3, <1>4

LEMMA RemovedAllDelta ==
    ASSUME NEW E, NEW v \in Vector(E), NEW order \in Seq(E), IsInjective(order),
           \A e \in ToSet(order) : RemovableDelta(v, e)
    PROVE  LET w == RemoveAllDelta(v, order) IN
           /\ w \in Vector(E) /\ Len(w.slot) = Len(v.slot)
           /\ \A f \in E \ ToSet(order) : RemovableDelta(v, f) => RemovableDelta(w, f)
           /\ \A c \in Nat : Within(v, E, c) => Within(w, E, c)
           /\ \A c \in 1..Len(v.slot) : v.slot[c] \notin ToSet(order) => w.slot[c] = v.slot[c]
<1>1. PICK g : /\ g = [i \in 0..Len(order) |->
                          IF i = 0 THEN v ELSE RemoveDelta(g[i - 1], order[i])]
               /\ RemoveAllDelta(v, order) = g[Len(order)]
  BY RemoveAllDeltaFcn
<1> DEFINE Left(n) == {f \in E : \A i \in 1..n : order[i] # f}
           Good(n) ==
             /\ g[n] \in Vector(E) /\ Len(g[n].slot) = Len(v.slot)
             /\ \A f \in Left(n) : RemovableDelta(v, f) => RemovableDelta(g[n], f)
             /\ \A c \in Nat : Within(v, E, c) => Within(g[n], E, c)
             /\ \A c \in 1..Len(v.slot) :
                  v.slot[c] \notin ToSet(order) => g[n].slot[c] = v.slot[c]
           B == {n \in 0..Len(order) : ~Good(n)}
<1>2. /\ Len(order) \in Nat /\ DOMAIN order = 1..Len(order)
      /\ \A i \in 1..Len(order) : order[i] \in E /\ order[i] \in ToSet(order)
      /\ \A i, j \in 1..Len(order) : order[i] = order[j] => i = j
  BY LenProperties, ElementOfSeq DEF ToSet, IsInjective
<1>3. /\ g[0] = v
      /\ \A i \in 1..Len(order) : g[i] = RemoveDelta(g[i - 1], order[i])
  BY <1>1, <1>2
<1>4. B = {}
  <2> SUFFICES ASSUME B # {} PROVE FALSE
    OBVIOUS
  <2> DEFINE m == Min(B)
  <2>1. m \in B /\ \A y \in B : m <= y
    <3>1. B \in SUBSET Nat
      BY <1>2
    <3> QED BY <3>1, Smallest
  <2>2. m \in 0..Len(order) /\ ~Good(m)
    BY <2>1
  <2>3. Good(0)
    BY <1>3
  <2> HIDE DEF m
  <2>4. m \in 1..Len(order) /\ m - 1 \in 0..Len(order) /\ m - 1 \notin B
    <3> HIDE DEF B, Good
    <3>1. m # 0
      BY <2>2, <2>3
    <3> QED BY <1>2, <2>1, <2>2, <3>1
  <2>5. Good(m - 1)
    BY <2>4
  <2>6. Left(m) = Left(m - 1) \ {order[m]} /\ order[m] \in Left(m - 1)
    <3>1. \A i \in 1..m - 1 : i \in 1..Len(order) /\ i # m /\ i \in 1..m
      BY <1>2, <2>4
    <3>2. \A i \in 1..m : i = m \/ i \in 1..m - 1
      BY <1>2, <2>4
    <3> QED BY <1>2, <2>4, <3>1, <3>2
  <2>7. g[m] = RemoveDelta(g[m - 1], order[m]) /\ order[m] \in E /\ order[m] \in ToSet(order)
    BY <1>2, <1>3, <2>4
  <2>8. RemovableDelta(g[m - 1], order[m])
    BY <2>5, <2>6, <2>7
  <2> HIDE DEF Left
  <2>9. /\ g[m] \in Vector(E) /\ Len(g[m].slot) = Len(g[m - 1].slot)
        /\ \A f \in E \ {order[m]} : RemovableDelta(g[m - 1], f) => RemovableDelta(g[m], f)
        /\ \A c \in Nat : Within(g[m - 1], E, c) => Within(g[m], E, c)
        /\ \A c \in 1..Len(g[m - 1].slot) :
             g[m - 1].slot[c] # order[m] => g[m].slot[c] = g[m - 1].slot[c]
    BY <2>5, <2>7, <2>8, RemovedDelta
  <2>10. \A f \in Left(m) : RemovableDelta(v, f) => RemovableDelta(g[m], f)
    <3>1. Left(m) \subseteq E
      BY DEF Left
    <3> QED BY <2>5, <2>6, <2>9, <3>1
  <2>11. \A c \in 1..Len(v.slot) : v.slot[c] \notin ToSet(order) => g[m].slot[c] = v.slot[c]
    BY <2>5, <2>7, <2>9
  <2>12. Good(m)
    BY <2>5, <2>9, <2>10, <2>11
  <2> QED BY <2>2, <2>12
<1>5. Good(Len(order))
  BY <1>2, <1>4
<1>6. Left(Len(order)) = E \ ToSet(order)
  BY <1>2 DEF ToSet
<1> QED BY <1>1, <1>5, <1>6

-------------------------------------------------------------------------------
(* The members of a process *)

LEMMA MemberFields ==
    ASSUME NEW r
    PROVE  r \in Member =>
           /\ r.state \in SUBSET {"disabled", "suspended", "ready", "zombie"}
           /\ r.kind \in {"STATIC", "EVENT", "OR", "AND", "TIMEOUT"} /\ r.timed \in BOOLEAN
           /\ r.on \in SUBSET (UserEvent \cup Channel) /\ r.count \in Int /\ r.cycles \in Nat
           /\ r.lists \in SUBSET Event /\ r.throw \in {"NONE", "KILL", "SYNC", "ASYNC", "USER"}
           /\ r.stack \in BOOLEAN /\ r.areset \in Int /\ r.reset \in Int /\ r.sticky \in BOOLEAN
BY DEF Member

LEMMA MemberState ==
    ASSUME NEW r \in Member, NEW s \in SUBSET {"disabled", "suspended", "ready", "zombie"}
    PROVE  [r EXCEPT !.state = s] \in Member
BY DEF Member

LEMMA MemberCount ==
    ASSUME NEW r \in Member, NEW n \in Int, NEW l \in SUBSET Event
    PROVE  [r EXCEPT !.count = n, !.lists = l] \in Member
BY DEF Member

LEMMA MemberWait ==
    ASSUME NEW r \in Member, NEW k \in {"STATIC", "EVENT", "OR", "AND", "TIMEOUT"},
           NEW b \in BOOLEAN, NEW o \in SUBSET (UserEvent \cup Channel), NEW n \in Int,
           NEW l \in SUBSET Event
    PROVE  [r EXCEPT !.kind = k, !.timed = b, !.on = o, !.count = n, !.lists = l] \in Member
BY DEF Member

LEMMA MemberThrow ==
    ASSUME NEW r \in Member, NEW w \in {"NONE", "KILL", "SYNC", "ASYNC", "USER"}, NEW n \in Nat
    PROVE  [r EXCEPT !.throw = w, !.cycles = n] \in Member
BY DEF Member

LEMMA MemberIdle ==
    ASSUME NEW r \in Member, NEW l \in SUBSET Event
    PROVE  [r EXCEPT !.kind = "STATIC", !.timed = FALSE, !.on = {}, !.count = 0, !.lists = l]
             \in Member
<1>1. /\ "STATIC" \in {"STATIC", "EVENT", "OR", "AND", "TIMEOUT"} /\ FALSE \in BOOLEAN
      /\ {} \in SUBSET (UserEvent \cup Channel) /\ 0 \in Int
  OBVIOUS
<1> QED BY <1>1, MemberWait

LEMMA MemberStep ==
    ASSUME NEW r \in Member, NEW p \in Process, NEW e
    PROVE  /\ \A b \in {"disabled", "suspended", "ready", "zombie"} :
                Set(r, b) \in Member /\ Clear(r, b) \in Member
           /\ Completed(r, p, e) \in Member
           /\ Counted(r, e) \in Member
           /\ RemoveDynamicEvents(r, p) \in Member
           /\ Disconnected(r, p) \in Member
           /\ Resumed(r) \in Member
           /\ \A async \in BOOLEAN : Reset(r, p, async) \in Member
<1>1. \A b \in {"disabled", "suspended", "ready", "zombie"} :
                Set(r, b) \in Member /\ Clear(r, b) \in Member
  BY DEF Member, Set, Clear
<1>2. Completed(r, p, e) \in Member
  <2> DEFINE l == r.lists \ ({e} \cup (IF r.timed THEN {p} ELSE {})
                                \cup (IF r.kind = "OR" \/ e = p THEN r.on ELSE {}))
             s == IF Has(r, "suspended") THEN r.state \cup {"ready"} ELSE r.state
  <2>1. l \in SUBSET Event /\ s \in SUBSET {"disabled", "suspended", "ready", "zombie"}
    BY MemberFields
  <2>2. Completed(r, p, e) = [r EXCEPT !.kind = "STATIC", !.timed = FALSE, !.on = {}, !.count = 0,
                                       !.lists = l, !.state = s]
    BY DEF Completed
  <2> HIDE DEF l, s
  <2> DEFINE i == [r EXCEPT !.kind = "STATIC", !.timed = FALSE, !.on = {}, !.count = 0, !.lists = l]
  <2>3. i \in Member
    BY <2>1, MemberIdle
  <2>4. Completed(r, p, e) = [i EXCEPT !.state = s]
    BY <2>2
  <2> HIDE DEF i
  <2> QED BY <2>1, <2>3, <2>4, MemberState
<1>3. Counted(r, e) \in Member
  <2> DEFINE n == r.count - 1
             l == r.lists \ {e}
  <2>1. n \in Int /\ l \in SUBSET Event
    BY MemberFields
  <2>2. Counted(r, e) = [r EXCEPT !.count = n, !.lists = l]
    BY DEF Counted
  <2> HIDE DEF n, l
  <2>3. [r EXCEPT !.count = n, !.lists = l] \in Member
    BY <2>1, MemberCount
  <2> QED BY <2>2, <2>3
<1>4. RemoveDynamicEvents(r, p) \in Member
  <2> DEFINE l == r.lists \ ({p} \cup r.on)
  <2>1. l \in SUBSET Event
    BY MemberFields
  <2>2. RemoveDynamicEvents(r, p) =
          [r EXCEPT !.kind = "STATIC", !.timed = FALSE, !.on = {}, !.count = 0, !.lists = l]
    BY DEF RemoveDynamicEvents
  <2> HIDE DEF l
  <2> QED BY <2>1, <2>2, MemberIdle
<1>5. Disconnected(r, p) \in Member
  <2>1. [RemoveDynamicEvents(r, p) EXCEPT !.state = {"zombie"}] \in Member
    BY <1>4, MemberState
  <2> QED BY <2>1 DEF Disconnected
<1>6. Resumed(r) \in Member
  BY DEF Member, Resumed, Standing
<1>7. Reset(r, p, TRUE) \in Member
  <2> DEFINE d == RemoveDynamicEvents(Clear(r, "ready"), p)
  <2>1. d \in Member
    <3>1. ASSUME NEW x \in Member PROVE RemoveDynamicEvents(x, p) \in Member
      <4> DEFINE l == x.lists \ ({p} \cup x.on)
      <4>1. l \in SUBSET Event
        BY <3>1, MemberFields
      <4>2. RemoveDynamicEvents(x, p) =
              [x EXCEPT !.kind = "STATIC", !.timed = FALSE, !.on = {}, !.count = 0, !.lists = l]
        BY DEF RemoveDynamicEvents
      <4> HIDE DEF l
      <4> QED BY <3>1, <4>1, <4>2, MemberIdle
    <3> QED BY <1>1, <3>1
  <2> HIDE DEF d
  <2>2. [d EXCEPT !.throw = "ASYNC", !.cycles = 0] \in Member
    BY <2>1, MemberThrow
  <2> QED BY <2>2 DEF Reset, d
<1>8. Reset(r, p, FALSE) \in Member
  BY DEF Member, Reset
<1> QED BY <1>1, <1>2, <1>3, <1>4, <1>5, <1>6, <1>7, <1>8

LEMMA MemberWaits ==
    ASSUME NEW r \in Member, NEW p \in Process,
           NEW kind \in {"EVENT", "OR", "AND", "TIMEOUT"}, NEW timed \in BOOLEAN,
           NEW E \in SUBSET (UserEvent \cup Channel), IsFiniteSet(E)
    PROVE  WaitOn(r, p, kind, E, timed) \in Member
<1> DEFINE l == r.lists \cup E \cup (IF timed THEN {p} ELSE {})
           n == IF kind = "AND" THEN Cardinality(E) ELSE 0
<1>1. l \in SUBSET Event
  BY MemberFields DEF Event
<1>2. n \in Int
  BY FS_CardinalityType
<1>3. WaitOn(r, p, kind, E, timed) =
        [r EXCEPT !.kind = kind, !.timed = timed, !.on = E, !.lists = l, !.count = n]
  BY DEF WaitOn
<1> HIDE DEF l, n
<1>4. [r EXCEPT !.kind = kind, !.timed = timed, !.on = E, !.lists = l, !.count = n] \in Member
  BY <1>1, <1>2 DEF Member
<1> QED BY <1>3, <1>4

LEMMA MemberResets ==
    ASSUME NEW r \in Member, NEW p \in Process, NEW async \in BOOLEAN,
           NEW asserted \in BOOLEAN, NEW running \in BOOLEAN
    PROVE  ResetChanged(r, p, async, asserted, running) \in Member
<1> DEFINE n == IF asserted THEN 1 ELSE -1
           counted == IF async THEN [r EXCEPT !.areset = @ + n] ELSE [r EXCEPT !.reset = @ + n]
           thrown == IF asserted /\ running THEN Reset(counted, p, async) ELSE counted
<1>1. counted \in Member
  <2>1. ASSUME NEW k \in Int
        PROVE  [r EXCEPT !.areset = k] \in Member /\ [r EXCEPT !.reset = k] \in Member
    BY <2>1 DEF Member
  <2>2. r.areset + n \in Int /\ r.reset + n \in Int
    BY MemberFields
  <2> QED BY <2>1, <2>2
<1> HIDE DEF counted
<1>2. thrown \in Member
  BY <1>1, MemberStep
<1> HIDE DEF thrown
<1>3. [thrown EXCEPT !.throw = "NONE"] \in Member
  BY <1>2 DEF Member
<1> QED BY <1>2, <1>3 DEF ResetChanged, thrown, counted

(* A reset of a process that has not ended is asserted or deasserted: r is *)
(* its state before and s the one after.                                   *)
ResetTo(r, s, async, asserted, running) ==
  /\ s.stack = r.stack /\ s.sticky = r.sticky
  /\ s.areset = IF ~async THEN r.areset ELSE IF asserted THEN r.areset + 1 ELSE r.areset - 1
  /\ s.reset = IF async THEN r.reset ELSE IF asserted THEN r.reset + 1 ELSE r.reset - 1
  /\ s.state = IF async /\ asserted /\ running THEN r.state \ {"ready"} ELSE r.state
  /\ \/ s.throw = "NONE" /\ ~r.sticky /\ Standing(s) = "NONE"
     \/ /\ s.throw = IF ~(asserted /\ running) THEN r.throw
                     ELSE IF async THEN "ASYNC" ELSE "SYNC"
        /\ s.throw \in {"SYNC", "ASYNC"} => Standing(s) # "NONE" \/ r.sticky

LEMMA ResetEffect ==
    ASSUME NEW r \in Member, NEW p \in Process, NEW async \in BOOLEAN,
           NEW asserted \in BOOLEAN, NEW running \in BOOLEAN, ~Has(r, "zombie")
    PROVE  ResetTo(r, ResetChanged(r, p, async, asserted, running), async, asserted, running)
<1> DEFINE s == ResetChanged(r, p, async, asserted, running)
           n == IF asserted THEN 1 ELSE -1
           counted == IF async THEN [r EXCEPT !.areset = @ + n] ELSE [r EXCEPT !.reset = @ + n]
           thrown == IF asserted /\ running THEN Reset(counted, p, async) ELSE counted
           same(x) == /\ x \in Member /\ x.stack = r.stack /\ x.sticky = r.sticky
                      /\ x.areset = IF async THEN r.areset + n ELSE r.areset
                      /\ x.reset = IF async THEN r.reset ELSE r.reset + n
           after == IF async /\ asserted /\ running THEN r.state \ {"ready"} ELSE r.state
<1>1. same(counted) /\ counted.state = r.state /\ counted.throw = r.throw
  <2>1. ASSUME NEW k \in Int
        PROVE  /\ LET x == [r EXCEPT !.areset = k] IN
                  /\ x \in Member /\ x.stack = r.stack /\ x.sticky = r.sticky /\ x.areset = k
                  /\ x.reset = r.reset /\ x.state = r.state /\ x.throw = r.throw
               /\ LET x == [r EXCEPT !.reset = k] IN
                  /\ x \in Member /\ x.stack = r.stack /\ x.sticky = r.sticky /\ x.reset = k
                  /\ x.areset = r.areset /\ x.state = r.state /\ x.throw = r.throw
    BY <2>1 DEF Member
  <2>2. r.areset + n \in Int /\ r.reset + n \in Int
    BY MemberFields
  <2>3. CASE async
    <3>1. counted = [r EXCEPT !.areset = r.areset + n]
      BY <2>3
    <3> HIDE DEF counted, n
    <3> QED BY <2>1, <2>2, <2>3, <3>1
  <2>4. CASE ~async
    <3>1. counted = [r EXCEPT !.reset = r.reset + n]
      BY <2>4
    <3> HIDE DEF counted, n
    <3> QED BY <2>1, <2>2, <2>4, <3>1
  <2> QED BY <2>3, <2>4
<1> HIDE DEF counted
<1>2. /\ same(thrown) /\ thrown.state = after
      /\ thrown.throw = IF ~(asserted /\ running) THEN r.throw ELSE IF async THEN "ASYNC" ELSE "SYNC"
  <2>1. CASE ~(asserted /\ running)
    BY <1>1, <2>1
  <2>2. CASE asserted /\ running /\ ~async
    BY <1>1, <2>2 DEF Member, Reset
  <2>3. CASE asserted /\ running /\ async
    <3> DEFINE c == Clear(counted, "ready")
               d == RemoveDynamicEvents(c, p)
    <3>1. same(c) /\ c.state = counted.state \ {"ready"}
      BY <1>1 DEF Member, Clear
    <3> HIDE DEF c
    <3>2. same(d) /\ d.state = c.state
      <4>1. d \in Member
        BY <3>1, MemberStep
      <4> QED BY <3>1, <4>1 DEF Member, RemoveDynamicEvents
    <3> HIDE DEF d
    <3>3. thrown = [d EXCEPT !.throw = "ASYNC", !.cycles = 0]
      BY <2>3 DEF Reset, d, c
    <3>4. same(thrown) /\ thrown.state = d.state /\ thrown.throw = "ASYNC"
      <4> HIDE DEF thrown, n
      <4>1. d \in Member
        BY <3>2
      <4>2. /\ thrown \in Member /\ thrown.stack = d.stack /\ thrown.sticky = d.sticky
            /\ thrown.areset = d.areset /\ thrown.reset = d.reset /\ thrown.state = d.state
            /\ thrown.throw = "ASYNC"
        BY <3>3, <4>1 DEF Member
      <4> QED BY <3>2, <4>2
    <3> HIDE DEF thrown, same
    <3> QED BY <1>1, <2>3, <3>1, <3>2, <3>4
  <2> QED BY <2>1, <2>2, <2>3
<1> HIDE DEF thrown
<1>3. \/ /\ s = [thrown EXCEPT !.throw = "NONE"] /\ Standing(thrown) = "NONE" /\ ~r.sticky
      \/ /\ s = thrown
         /\ thrown.throw \in {"SYNC", "ASYNC"} => Standing(thrown) # "NONE" \/ r.sticky
  BY DEF ResetChanged, thrown, counted
<1> HIDE DEF s
<1>4. LET x == [thrown EXCEPT !.throw = "NONE"] IN
      same(x) /\ x.state = thrown.state /\ x.throw = "NONE" /\ Standing(x) = Standing(thrown)
  BY <1>2 DEF Member, Standing
<1>5. same(s) /\ s.state = after
  BY <1>2, <1>3, <1>4
<1>6. \/ s.throw = "NONE" /\ ~r.sticky /\ Standing(s) = "NONE"
      \/ /\ s.throw = IF ~(asserted /\ running) THEN r.throw
                      ELSE IF async THEN "ASYNC" ELSE "SYNC"
         /\ s.throw \in {"SYNC", "ASYNC"} => Standing(s) # "NONE" \/ r.sticky
  BY <1>2, <1>3, <1>4
<1>7. ResetTo(r, s, async, asserted, running)
  BY <1>5, <1>6, MemberFields DEF ResetTo
<1> QED BY <1>7 DEF s

-------------------------------------------------------------------------------
(* The inductive invariant *)

ProcOk == proc \in [Process -> Member]

(* An event with a pending delta notification is in the vector, at the     *)
(* position it keeps.                                                      *)
StoresOk ==
  /\ pend \in [Event -> {None, Delta} \cup Time]
  /\ delta \in Vector(Event)
  /\ \A e \in Event : pend[e] = Delta => RemovableDelta(delta, e)

QueuesOk ==
  /\ methods \in Queue(Method) /\ threads \in Queue(Thread)
  /\ stranded \subseteq Process

ChannelsOk == requests \subseteq Channel /\ level \in [Channel -> BOOLEAN]

RunOk ==
  /\ active \in Process \cup {NoProcess}
  /\ caller \in Method \cup {NoProcess}
  /\ phase \in {"main", "initupdate", "initnotify", "methods", "threads", "update", "notify",
                "crunched", "advance", "timed"}
  /\ cursor \in Nat
  /\ now \in Time
  /\ run \in [status : {"elaboration", "running", "stopped"}, forced : BOOLEAN,
              paused : BOOLEAN, once : BOOLEAN, until : Time, toTime : BOOLEAN]
  /\ open \subseteq {"evaluate", "update", "deltanotify", "timednotify"}

(* Who has the control: a process runs only in an evaluation, and one that *)
(* a method has preempted only under that method.  The simulation is       *)
(* stopped from an evaluation, or by sc_main between two calls.            *)
Control ==
  /\ active # NoProcess => phase \in {"methods", "threads"}
  /\ caller # NoProcess => phase = "methods"
  /\ active \in Method => phase = "methods" /\ caller = NoProcess
  /\ active \in Thread /\ phase = "methods" => caller # NoProcess
  /\ phase # "main" => run.status = "running"
  /\ run.forced => run.status = "stopped" \/ phase \in {"methods", "threads", "update", "crunched"}
  /\ run.status = "stopped" => phase = "main" /\ run.forced

(* What is still to be notified lies before the position of the loop.      *)
LoopOk ==
  phase \in {"initnotify", "notify"} =>
    cursor <= Len(delta.slot) /\ Within(delta, Event, cursor)

IInv == ProcOk /\ StoresOk /\ QueuesOk /\ ChannelsOk /\ RunOk /\ Control /\ LoopOk

-------------------------------------------------------------------------------
(* What the parts of an action do *)

LEMMA Names ==
    /\ Method \subseteq Process /\ Thread \subseteq Process /\ Process = Method \cup Thread
    /\ Method \cap Thread = {} /\ NoProcess \notin Process
    /\ Process \subseteq Event /\ UserEvent \subseteq Event /\ Channel \subseteq Event
    /\ Process \cap (UserEvent \cup Channel) = {} /\ UserEvent \cap Channel = {}
    /\ Event = Process \cup UserEvent \cup Channel
    /\ IsFiniteSet(Event) /\ IsFiniteSet(Process) /\ IsFiniteSet(Method) /\ IsFiniteSet(Thread)
    /\ None # Delta /\ None \notin Time /\ Delta \notin Time /\ Time \subseteq Nat
<1>1. Method \subseteq Event /\ Thread \subseteq Event /\ Process \subseteq Event
  BY DEF Event, Process
<1>2. IsFiniteSet(Event) /\ IsFiniteSet(Process) /\ IsFiniteSet(Method) /\ IsFiniteSet(Thread)
  BY <1>1, KernelAssumption, FS_Subset
<1>3. None # Delta /\ None \notin Time /\ Delta \notin Time /\ Time \subseteq Nat
  BY KernelAssumption DEF None, Delta, Time
<1> QED BY <1>1, <1>2, <1>3, KernelAssumption DEF Event, Process

LEMMA QueuesDef ==
    QueuesOk => /\ Queued(methods) \subseteq Method /\ Queued(threads) \subseteq Thread
                /\ Queued(methods) \cap Queued(threads) = {}
                /\ IsEmpty(methods) <=> Queued(methods) = {}
                /\ IsEmpty(threads) <=> Queued(threads) = {}
BY OnceParts, IdleQueued, Names DEF QueuesOk

LEMMA PushedBack ==
    ASSUME QueuesOk, NEW ms \in Seq(Method), NEW ts \in Seq(Thread), PushBackAll(ms, ts)
    PROVE  /\ QueuesOk' /\ stranded' = stranded
           /\ Queued(methods)' = Queued(methods) \cup ToSet(ms)
           /\ Queued(threads)' = Queued(threads) \cup ToSet(ts)
           /\ /\ Once(methods) /\ IsInjective(ms) /\ Queued(methods) \cap ToSet(ms) = {}
              => Once(methods)'
           /\ /\ Once(threads) /\ IsInjective(ts) /\ Queued(threads) \cap ToSet(ts) = {}
              => Once(threads)'
           /\ methods.pop' = methods.pop /\ threads.pop' = threads.pop
<1> DEFINE m == [methods EXCEPT !.push = @ \o ms]
           t == [threads EXCEPT !.push = @ \o ts]
<1>1. methods' = m /\ threads' = t /\ stranded' = stranded
  BY DEF PushBackAll
<1>2. m.pop = methods.pop /\ t.pop = threads.pop
  BY DEF QueuesOk, Queue
<1>3. /\ m \in Queue(Method) /\ Queued(m) = Queued(methods) \cup ToSet(ms)
      /\ Once(methods) /\ IsInjective(ms) /\ Queued(methods) \cap ToSet(ms) = {} => Once(m)
  BY PushedAll DEF QueuesOk
<1>4. /\ t \in Queue(Thread) /\ Queued(t) = Queued(threads) \cup ToSet(ts)
      /\ Once(threads) /\ IsInjective(ts) /\ Queued(threads) \cap ToSet(ts) = {} => Once(t)
  BY PushedAll DEF QueuesOk
<1> HIDE DEF m, t
<1> QED BY <1>1, <1>2, <1>3, <1>4 DEF QueuesOk

LEMMA Pushed ==
    ASSUME QueuesOk, NEW p \in Process, Push(p)
    PROVE  /\ QueuesOk' /\ stranded' = stranded
           /\ Queued(methods)' = Queued(methods) \cup ({p} \cap Method)
           /\ Queued(threads)' = Queued(threads) \cup ({p} \cap Thread)
           /\ p \notin Queued(methods) /\ Once(methods) => Once(methods)'
           /\ p \notin Queued(threads) /\ Once(threads) => Once(threads)'
           /\ methods.pop' = methods.pop /\ threads.pop' = threads.pop
<1>1. /\ p \in Method => <<p>> \in Seq(Method) /\ ToSet(<<p>>) = {p} /\ IsInjective(<<p>>)
      /\ p \in Thread => <<p>> \in Seq(Thread) /\ ToSet(<<p>>) = {p} /\ IsInjective(<<p>>)
      /\ <<>> \in Seq(Method) /\ <<>> \in Seq(Thread) /\ ToSet(<<>>) = {} /\ IsInjective(<<>>)
  BY OneElement DEF ToSet, IsInjective
<1>2. CASE p \in Method
  <2>1. PushBackAll(<<p>>, <<>>)
    BY <1>2 DEF Push
  <2>2. /\ QueuesOk' /\ stranded' = stranded
        /\ Queued(methods)' = Queued(methods) \cup {p} /\ Queued(threads)' = Queued(threads) \cup {}
        /\ Once(methods) /\ Queued(methods) \cap {p} = {} => Once(methods)'
        /\ Once(threads) => Once(threads)'
        /\ methods.pop' = methods.pop /\ threads.pop' = threads.pop
    BY <1>1, <1>2, <2>1, PushedBack
  <2> QED BY <1>2, <2>2, Names
<1>3. CASE p \notin Method
  <2>1. PushBackAll(<<>>, <<p>>) /\ p \in Thread
    BY <1>3, Names DEF Push
  <2>2. /\ QueuesOk' /\ stranded' = stranded
        /\ Queued(threads)' = Queued(threads) \cup {p} /\ Queued(methods)' = Queued(methods) \cup {}
        /\ Once(threads) /\ Queued(threads) \cap {p} = {} => Once(threads)'
        /\ Once(methods) => Once(methods)'
        /\ methods.pop' = methods.pop /\ threads.pop' = threads.pop
    BY <1>1, <2>1, PushedBack
  <2> QED BY <1>3, <2>1, <2>2, Names
<1> QED BY <1>2, <1>3

LEMMA RunnableRemoved ==
    ASSUME QueuesOk, NEW p, RemoveRunnable(p)
    PROVE  /\ QueuesOk' /\ stranded' = stranded
           /\ Queued(methods)' \subseteq Queued(methods)
           /\ Queued(methods) \subseteq Queued(methods)' \cup {p}
           /\ Queued(threads)' \subseteq Queued(threads)
           /\ Queued(threads) \subseteq Queued(threads)' \cup {p}
           /\ Once(methods) => Once(methods)' /\ Queued(methods)' = Queued(methods) \ {p}
           /\ Once(threads) => Once(threads)' /\ Queued(threads)' = Queued(threads) \ {p}
<1> DEFINE m == IF p \in Queued(methods) THEN RemoveProc(methods, p) ELSE methods
           t == IF p \in Queued(threads) THEN RemoveProc(threads, p) ELSE threads
<1>1. methods' = m /\ threads' = t /\ stranded' = stranded
  BY DEF RemoveRunnable
<1>2. /\ m \in Queue(Method) /\ Queued(m) \subseteq Queued(methods)
      /\ Queued(methods) \subseteq Queued(m) \cup {p}
      /\ Once(methods) => Once(m) /\ Queued(m) = Queued(methods) \ {p}
  BY Removed DEF QueuesOk
<1>3. /\ t \in Queue(Thread) /\ Queued(t) \subseteq Queued(threads)
      /\ Queued(threads) \subseteq Queued(t) \cup {p}
      /\ Once(threads) => Once(t) /\ Queued(t) = Queued(threads) \ {p}
  BY Removed DEF QueuesOk
<1> HIDE DEF m, t
<1> QED BY <1>1, <1>2, <1>3 DEF QueuesOk

LEMMA PreemptedQueue ==
    ASSUME QueuesOk, NEW p \in Thread, active \in Thread
    PROVE  /\ Preempted(p) \in Queue(Thread)
           /\ Queued(Preempted(p)) = Queued(threads) \cup {p, active}
           /\ Preempted(p).pop # <<>>
           /\ Once(threads) /\ active \notin Queued(threads) => Once(Preempted(p))
<1> DEFINE rest == IF p \in Queued(threads) THEN RemoveProc(threads, p) ELSE threads
           more == IF p = active THEN rest ELSE ExecuteNext(rest, active)
<1>1. /\ rest \in Queue(Thread) /\ Queued(rest) \cup {p} = Queued(threads) \cup {p}
      /\ Once(threads) => Once(rest) /\ Queued(rest) = Queued(threads) \ {p}
  BY Removed DEF QueuesOk
<1> HIDE DEF rest
<1>2. /\ more \in Queue(Thread) /\ Queued(more) \cup {p} = Queued(threads) \cup {p, active}
      /\ Once(threads) /\ active \notin Queued(threads) => Once(more) /\ p \notin Queued(more)
  <2>1. CASE p = active
    BY <1>1, <2>1
  <2>2. CASE p # active
    <3>1. /\ ExecuteNext(rest, active) \in Queue(Thread)
          /\ Queued(ExecuteNext(rest, active)) = Queued(rest) \cup {active}
          /\ Once(rest) /\ active \notin Queued(rest) => Once(ExecuteNext(rest, active))
      BY <1>1, PutNext
    <3> QED BY <1>1, <2>2, <3>1
  <2> QED BY <2>1, <2>2
<1> HIDE DEF more
<1>3. Preempted(p) = ExecuteNext(more, p)
  BY DEF Preempted, more, rest
<1>4. /\ ExecuteNext(more, p) \in Queue(Thread)
      /\ Queued(ExecuteNext(more, p)) = Queued(more) \cup {p}
      /\ ExecuteNext(more, p).pop # <<>>
      /\ Once(more) /\ p \notin Queued(more) => Once(ExecuteNext(more, p))
  BY <1>2, PutNext
<1> QED BY <1>2, <1>3, <1>4

(* An event fires: the vector loses the timeouts it ends.                  *)
LEMMA Triggering ==
    ASSUME ProcOk, QueuesOk, NEW e \in Event,
           NEW at \in [Event -> {None, Delta} \cup Time], NEW v \in Vector(Event),
           \A f \in Event \ {e} : at[f] = Delta => RemovableDelta(v, f),
           Trigger(e, at, v)
    PROVE  /\ ProcOk' /\ QueuesOk' /\ StoresOk'
           /\ proc' = [p \in Process |-> Triggered(p, e)]
           /\ pend' = [f \in Event |-> IF f = e \/ (f \in Process /\ DropsTimeout(f, e)) THEN None
                                                                               ELSE at[f]]
           /\ stranded' = stranded
           /\ Queued(methods)' = Queued(methods) \cup {p \in Method : Wakes(p, e)}
           /\ Queued(threads)' = Queued(threads) \cup {p \in Thread : Wakes(p, e)}
           /\ Once(methods) => Once(methods)'
           /\ Once(threads) => Once(threads)'
           /\ methods.pop' = methods.pop /\ threads.pop' = threads.pop
           /\ Len(delta.slot)' = Len(v.slot)
           /\ \A c \in 1..Len(v.slot) :
                v.slot[c] = e /\ Within(v, Event, c) => Within(delta, Event, c - 1)'
<1> DEFINE woken == {p \in Process : Wakes(p, e)}
           dropped == {p \in Process : DropsTimeout(p, e)}
<1>1. /\ proc' = [p \in Process |-> Triggered(p, e)]
      /\ pend' = [f \in Event |-> IF f \in dropped \cup {e} THEN None ELSE at[f]]
  BY DEF Trigger
<1>2. PICK order \in SetToSeqs({p \in dropped : at[p] = Delta}) :
        delta' = Unindexed(RemoveAllDelta(v, order), e)
  BY DEF Trigger
<1>3. PICK ms \in SetToSeqs(woken \cap Method), ts \in SetToSeqs(woken \cap Thread) :
        PushBackAll(ms, ts)
  BY DEF Trigger
<1>4. ProcOk'
  <2>1. ASSUME NEW p \in Process PROVE Triggered(p, e) \in Member
    <3>1. proc[p] \in Member
      BY DEF ProcOk
    <3>2. [proc[p] EXCEPT !.cycles = @ - 1] \in Member \/ ~(proc[p].cycles > 0)
      <4>1. ASSUME NEW n \in Nat PROVE [proc[p] EXCEPT !.cycles = n] \in Member
        BY <3>1, <4>1 DEF Member
      <4>2. proc[p].cycles > 0 => proc[p].cycles - 1 \in Nat
        BY <3>1, MemberFields
      <4> QED BY <4>1, <4>2
    <3>3. [proc[p] EXCEPT !.lists = @ \ {e}] \in Member
      <4>1. ASSUME NEW l \in SUBSET Event PROVE [proc[p] EXCEPT !.lists = l] \in Member
        BY <3>1, <4>1 DEF Member
      <4>2. proc[p].lists \ {e} \in SUBSET Event
        BY <3>1, MemberFields
      <4> QED BY <4>1, <4>2
    <3>4. /\ Set(proc[p], "ready") \in Member /\ Completed(proc[p], p, e) \in Member
          /\ Counted(proc[p], e) \in Member /\ RemoveDynamicEvents(proc[p], p) \in Member
      BY <3>1, MemberStep
    <3> QED BY <3>1, <3>2, <3>3, <3>4 DEF Triggered
  <2> QED BY <1>1, <2>1 DEF ProcOk
<1>5. /\ ms \in Seq(Method) /\ IsInjective(ms) /\ ToSet(ms) = woken \cap Method
      /\ ts \in Seq(Thread) /\ IsInjective(ts) /\ ToSet(ts) = woken \cap Thread
  <2>1. IsFiniteSet(woken \cap Method) /\ IsFiniteSet(woken \cap Thread)
    BY Names, FS_Subset
  <2>2. /\ ms \in Seq(woken \cap Method) /\ IsInjective(ms) /\ ToSet(ms) = woken \cap Method
        /\ ts \in Seq(woken \cap Thread) /\ IsInjective(ts) /\ ToSet(ts) = woken \cap Thread
    BY <2>1, Orders
  <2> HIDE DEF woken
  <2> QED BY <2>2, SeqMonotonic
<1>6. \A p \in woken : p \notin Queued(methods) /\ p \notin Queued(threads)
  BY DEF Wakes, Ready, StaticTrigger, DynamicTrigger, Runnable
<1>7. /\ QueuesOk' /\ stranded' = stranded
      /\ Queued(methods)' = Queued(methods) \cup (woken \cap Method)
      /\ Queued(threads)' = Queued(threads) \cup (woken \cap Thread)
      /\ Once(methods) => Once(methods)'
      /\ Once(threads) => Once(threads)'
      /\ methods.pop' = methods.pop /\ threads.pop' = threads.pop
  <2> HIDE DEF woken
  <2>1. Queued(methods) \cap ToSet(ms) = {} /\ Queued(threads) \cap ToSet(ts) = {}
    BY <1>5, <1>6
  <2> QED BY <1>3, <1>5, <2>1, PushedBack
<1>8. \A p \in dropped : p # e
  BY DEF DropsTimeout
<1> DEFINE w == RemoveAllDelta(v, order)
<1>9. /\ order \in Seq(Event) /\ IsInjective(order)
      /\ ToSet(order) = {p \in dropped : at[p] = Delta}
  <2> DEFINE S == {p \in dropped : at[p] = Delta}
  <2>1. S \subseteq Event /\ IsFiniteSet(S)
    BY Names, FS_Subset
  <2>2. order \in SetToSeqs(S)
    OBVIOUS
  <2> HIDE DEF S
  <2>3. order \in Seq(S) /\ IsInjective(order) /\ ToSet(order) = S
    BY <2>1, <2>2, Orders
  <2>4. order \in Seq(Event)
    BY <2>1, <2>3, SeqMonotonic
  <2> QED BY <2>3, <2>4 DEF S
<1> HIDE DEF dropped
<1>10. \A f \in ToSet(order) : f \in Event /\ f # e /\ RemovableDelta(v, f)
  <2>1. dropped \subseteq Process
    BY DEF dropped
  <2> QED BY <1>8, <1>9, <2>1, Names
<1>11. /\ w \in Vector(Event) /\ Len(w.slot) = Len(v.slot)
       /\ \A f \in Event \ ToSet(order) : RemovableDelta(v, f) => RemovableDelta(w, f)
       /\ \A c \in Nat : Within(v, Event, c) => Within(w, Event, c)
       /\ \A c \in 1..Len(v.slot) : v.slot[c] \notin ToSet(order) => w.slot[c] = v.slot[c]
  BY <1>9, <1>10, RemovedAllDelta
<1> HIDE DEF w
<1>12. /\ delta' = [w EXCEPT !.index[e] = 0] /\ delta'.slot = w.slot /\ delta'.size = w.size
       /\ delta'.index = [w.index EXCEPT ![e] = 0]
       /\ delta' = [slot |-> w.slot, size |-> w.size, index |-> delta'.index]
  <2>1. w = [slot |-> w.slot, size |-> w.size, index |-> w.index]
    BY <1>11, VectorParts
  <2> QED BY <1>2, <2>1 DEF Unindexed, w
<1>13. /\ w.slot \in Seq(Event) /\ Len(w.slot) \in Nat /\ w.size \in 0..Len(w.slot)
       /\ w.index \in [Event -> Nat]
  BY <1>11, VectorParts
<1>14. delta' \in Vector(Event)
  <2>1. delta'.index \in [Event -> Nat]
    BY <1>12, <1>13
  <2>2. [slot |-> w.slot, size |-> w.size, index |-> delta'.index] \in Vector(Event)
    BY <1>13, <2>1, VectorOf
  <2> QED BY <1>12, <2>2
<1>15. \A f \in Event \ {e} : /\ delta'.index[f] = w.index[f]
                              /\ RemovableDelta(w, f) <=> RemovableDelta(delta', f)
  BY <1>12, <1>13 DEF RemovableDelta
<1>16. StoresOk'
  <2>1. pend' \in [Event -> {None, Delta} \cup Time]
    BY <1>1
  <2>2. ASSUME NEW f \in Event, pend'[f] = Delta PROVE RemovableDelta(delta', f)
    <3>1. f # e /\ f \notin dropped /\ at[f] = Delta
      BY <1>1, <2>2, Names
    <3>2. f \notin ToSet(order) /\ RemovableDelta(v, f)
      BY <1>9, <3>1
    <3> QED BY <1>11, <1>15, <3>1, <3>2
  <2> QED BY <1>14, <2>1, <2>2 DEF StoresOk
<1>17. ASSUME NEW c \in 1..Len(v.slot), v.slot[c] = e, Within(v, Event, c)
       PROVE  Within(delta', Event, c - 1)
  <2>1. c \in Nat /\ Within(w, Event, c) /\ w.slot[c] = e
    <3>1. c \in Nat /\ e \notin ToSet(order)
      BY <1>10
    <3> QED BY <1>11, <1>17, <3>1
  <2> SUFFICES ASSUME NEW f \in Event, RemovableDelta(delta', f)
               PROVE  delta'.index[f] <= c - 1
    BY DEF Within
  <2>2. f # e
    BY <1>12, <1>13 DEF RemovableDelta
  <2>3. RemovableDelta(w, f) /\ w.index[f] = delta'.index[f] /\ w.index[f] \in Nat
    BY <1>13, <1>15, <2>2
  <2>4. w.index[f] <= c /\ w.index[f] # c
    BY <2>1, <2>2, <2>3 DEF Within, RemovableDelta
  <2> QED BY <2>1, <2>3, <2>4
<1>18. /\ pend' = [f \in Event |-> IF f = e \/ (f \in Process /\ DropsTimeout(f, e)) THEN None
                                                                            ELSE at[f]]
       /\ Queued(methods)' = Queued(methods) \cup {p \in Method : Wakes(p, e)}
       /\ Queued(threads)' = Queued(threads) \cup {p \in Thread : Wakes(p, e)}
  <2>1. woken \cap Method = {p \in Method : Wakes(p, e)} /\ woken \cap Thread = {p \in Thread : Wakes(p, e)}
    BY Names
  <2>2. \A f : f \in dropped \cup {e} <=> f = e \/ (f \in Process /\ DropsTimeout(f, e))
    BY DEF dropped
  <2> QED BY <1>1, <1>7, <2>1, <2>2
<1> QED BY <1>1, <1>4, <1>7, <1>11, <1>12, <1>16, <1>17, <1>18

(* Pending notifications *)

LEMMA Without ==
    ASSUME StoresOk, NEW e \in Event
    PROVE  /\ VectorWithout(e) \in Vector(Event)
           /\ \A f \in Event \ {e} : pend[f] = Delta => RemovableDelta(VectorWithout(e), f)
<1>1. CASE pend[e] = Delta
  <2>1. RemovableDelta(delta, e) /\ VectorWithout(e) = RemoveDelta(delta, e)
    BY <1>1 DEF StoresOk, VectorWithout
  <2>2. /\ RemoveDelta(delta, e) \in Vector(Event)
        /\ \A f \in Event \ {e} : RemovableDelta(delta, f) => RemovableDelta(RemoveDelta(delta, e), f)
    BY <2>1, RemovedDelta DEF StoresOk
  <2> QED BY <2>1, <2>2 DEF StoresOk
<1>2. CASE pend[e] # Delta
  BY <1>2 DEF StoresOk, VectorWithout
<1> QED BY <1>1, <1>2

LEMMA Cancelled ==
    ASSUME StoresOk, NEW e \in Event, CancelPending(e)
    PROVE  StoresOk' /\ pend' = [pend EXCEPT ![e] = None]
<1>1. pend' = [pend EXCEPT ![e] = None] /\ delta' = VectorWithout(e)
  BY DEF CancelPending
<1>2. \A f \in Event : pend'[f] = IF f = e THEN None ELSE pend[f]
  BY <1>1 DEF StoresOk
<1>3. pend' \in [Event -> {None, Delta} \cup Time]
  BY <1>1 DEF StoresOk
<1>4. \A f \in Event : pend'[f] = Delta => RemovableDelta(delta', f)
  BY <1>1, <1>2, Without, Names
<1> QED BY <1>1, <1>3, <1>4, Without DEF StoresOk

LEMMA Armed ==
    ASSUME StoresOk, NEW p \in Event, NEW t \in Time, now \in Time, now + t <= MaxTime,
           NEW v \in Vector(Event),
           \A f \in Event \ {p} : pend[f] = Delta => RemovableDelta(v, f),
           ArmTimeout(p, t, v)
    PROVE  /\ StoresOk'
           /\ pend' = [pend EXCEPT ![p] = IF t = 0 THEN Delta ELSE now + t]
<1>1. /\ pend' = [pend EXCEPT ![p] = IF t = 0 THEN Delta ELSE now + t]
      /\ delta' = IF t = 0 THEN AddDelta(v, p) ELSE v
  BY DEF ArmTimeout
<1>2. now + t \in Time
  BY KernelAssumption DEF Time
<1>3. pend' \in [Event -> {None, Delta} \cup Time]
  BY <1>1, <1>2 DEF StoresOk
<1>4. \A f \in Event : pend'[f] = IF f = p THEN IF t = 0 THEN Delta ELSE now + t ELSE pend[f]
  BY <1>1 DEF StoresOk
<1>5. CASE t = 0
  <2>1. /\ delta' \in Vector(Event) /\ RemovableDelta(delta', p)
        /\ \A f \in Event : RemovableDelta(v, f) => RemovableDelta(delta', f)
    BY <1>1, <1>5, AddedDelta
  <2> QED BY <1>1, <1>3, <1>4, <2>1 DEF StoresOk
<1>6. CASE t # 0
  <2>1. delta' = v /\ pend'[p] # Delta
    BY <1>1, <1>2, <1>4, <1>6, Names
  <2> QED BY <1>1, <1>3, <1>4, <2>1 DEF StoresOk
<1> QED BY <1>5, <1>6

LEMMA Notified ==
    ASSUME StoresOk, NEW e \in Event, NotifyDelta(e)
    PROVE  StoresOk'
<1>1. pend' = [pend EXCEPT ![e] = Delta] /\ delta' = AddDelta(delta, e)
  BY DEF NotifyDelta
<1>2. /\ delta' \in Vector(Event) /\ RemovableDelta(delta', e)
      /\ \A f \in Event : RemovableDelta(delta, f) => RemovableDelta(delta', f)
  BY <1>1, AddedDelta DEF StoresOk
<1>3. /\ pend' \in [Event -> {None, Delta} \cup Time]
      /\ \A f \in Event : pend'[f] = IF f = e THEN Delta ELSE pend[f]
  BY <1>1 DEF StoresOk
<1> QED BY <1>2, <1>3 DEF StoresOk

-------------------------------------------------------------------------------
(* Unchanged parts *)

LEMMA Same ==
    ASSUME IInv
    PROVE  /\ proc' = proc => ProcOk'
           /\ pend' = pend /\ delta' = delta => StoresOk'
           /\ methods' = methods /\ threads' = threads /\ stranded' = stranded => QueuesOk'
           /\ requests' = requests /\ level' = level => ChannelsOk'
           /\ active' = active /\ phase' = phase /\ cursor' = cursor /\ now' = now /\ run' = run
                /\ open' = open /\ caller' = caller => RunOk' /\ Control'
           /\ phase' \notin {"initnotify", "notify"} => LoopOk'
BY DEF IInv, ProcOk, StoresOk, QueuesOk, ChannelsOk, RunOk, Control, LoopOk

LEMMA MayCall ==
    ASSUME IInv, NEW op, Calls(op)
    PROVE  /\ phase \in {"main", "methods", "threads"}
           /\ run.status # "stopped"
           /\ active = NoProcess => phase = "main" 
BY DEF Calls, IInv, Control

(* The process that runs yields, or none did.                              *)
LEMMA Yielding ==
    ASSUME IInv, active' = NoProcess, caller' = caller,
           phase' = phase, cursor' = cursor, now' = now, run' = run, open' = open
    PROVE  RunOk' /\ Control'
<1>1. NoProcess \notin Method /\ NoProcess \notin Thread
  BY Names
<1> QED BY <1>1 DEF IInv, RunOk, Control

-------------------------------------------------------------------------------
(* One lemma for each part of the next-state relation                      *)

LEMMA EventOperationTyped == IInv /\ EventOperation => IInv'
<1> SUFFICES ASSUME IInv, EventOperation PROVE IInv'
  OBVIOUS
<1> USE Same
<1>1. ASSUME NEW e \in UserEvent, NotifyNow(e) PROVE IInv'
  <2>1. Calls("notify") /\ Trigger(e, pend, VectorWithout(e)) /\ UNCHANGED <<channels, active, control>>
    BY <1>1 DEF NotifyNow
  <2>2. e \in Event
    BY Names
  <2>3. ProcOk' /\ QueuesOk' /\ StoresOk'
    BY <2>1, <2>2, Triggering, Without DEF IInv, StoresOk
  <2>4. phase' \notin {"initnotify", "notify"}
    BY <2>1, MayCall DEF control
  <2> QED BY <2>1, <2>3, <2>4 DEF IInv, channels, control
<1>2. ASSUME NEW e \in UserEvent, NotifyZero(e) PROVE IInv'
  <2>1. /\ Calls("notifyzero") /\ NotifyDelta(e)
        /\ UNCHANGED <<proc, queues, channels, active, control>>
    BY <1>2 DEF NotifyZero
  <2>2. StoresOk'
    BY <2>1, Names, Notified DEF IInv
  <2>3. phase' \notin {"initnotify", "notify"}
    BY <2>1, MayCall DEF control
  <2> QED BY <2>1, <2>2, <2>3 DEF IInv, queues, channels, control
<1>3. ASSUME NEW e \in UserEvent, NEW t \in Time \ {0}, NotifyAt(e, t) PROVE IInv'
  <2>1. /\ Calls("notifyat") /\ now + t <= MaxTime /\ pend' = [pend EXCEPT ![e] = now + t]
        /\ UNCHANGED <<proc, delta, queues, channels, active, control>>
    BY <1>3 DEF NotifyAt
  <2>2. now + t \in Time /\ now + t # Delta /\ e \in Event
    BY <2>1, Names, KernelAssumption DEF IInv, RunOk, Time
  <2>3. StoresOk'
    <3>1. pend' \in [Event -> {None, Delta} \cup Time]
      BY <2>1, <2>2 DEF IInv, StoresOk
    <3>2. \A f \in Event : pend'[f] = Delta => pend[f] = Delta
      BY <2>1, <2>2 DEF IInv, StoresOk
    <3> QED BY <2>1, <3>1, <3>2 DEF IInv, StoresOk
  <2>4. phase' \notin {"initnotify", "notify"}
    BY <2>1, MayCall DEF control
  <2> QED BY <2>1, <2>3, <2>4 DEF IInv, queues, channels, control
<1>4. ASSUME NEW e \in UserEvent, CancelNotify(e) PROVE IInv'
  <2>1. /\ Calls("cancel") /\ CancelPending(e)
        /\ UNCHANGED <<proc, queues, channels, active, control>>
    BY <1>4 DEF CancelNotify
  <2>2. StoresOk'
    BY <2>1, Names, Cancelled DEF IInv
  <2>3. phase' \notin {"initnotify", "notify"}
    BY <2>1, MayCall DEF control
  <2> QED BY <2>1, <2>2, <2>3 DEF IInv, queues, channels, control
<1>5. ASSUME NEW c \in Channel, RequestUpdate(c) PROVE IInv'
  <2>1. /\ Calls("update") /\ requests' = requests \cup {c}
        /\ UNCHANGED <<proc, stores, queues, level, active, control>>
    BY <1>5 DEF RequestUpdate
  <2>2. ChannelsOk'
    BY <2>1 DEF IInv, ChannelsOk
  <2>3. phase' \notin {"initnotify", "notify"}
    BY <2>1, MayCall DEF control
  <2> QED BY <2>1, <2>2, <2>3 DEF IInv, queues, stores, control
<1> QED BY <1>1, <1>2, <1>3, <1>4, <1>5 DEF EventOperation

(* The new state of a process that is preempted, and of the caller.        *)
LEMMA Preempting ==
    ASSUME IInv, NEW p \in Thread, NEW r \in Member, PreemptWith(p, r), active # NoProcess,
           UNCHANGED <<channels, phase, cursor, now, run, open>>
    PROVE  ProcOk' /\ QueuesOk' /\ ChannelsOk' /\ RunOk' /\ Control' /\ LoopOk'
<1>1. CASE active \in Method
  <2>1. /\ active' = p /\ caller' = active /\ proc' = [proc EXCEPT ![p] = Resumed(r)]
        /\ RemoveRunnable(p)
    BY <1>1 DEF PreemptWith
  <2>2. Resumed(r) \in Member /\ p \in Process
    BY Names, MemberStep
  <2>3. ProcOk' /\ QueuesOk'
    BY <2>1, <2>2, RunnableRemoved DEF IInv, ProcOk
  <2>4. p \notin Method /\ p # NoProcess
    BY Names
  <2> QED BY <1>1, <2>1, <2>2, <2>3, <2>4 DEF IInv, ChannelsOk, RunOk, Control, LoopOk, channels
<1>2. CASE active \notin Method
  <2>1. /\ active' = NoProcess /\ caller' = caller /\ proc' = [proc EXCEPT ![p] = r]
        /\ threads' = Preempted(p) /\ methods' = methods /\ stranded' = stranded
    BY <1>2 DEF PreemptWith
  <2>2. active \in Thread
    BY <1>2, Names DEF IInv, RunOk
  <2>3. ProcOk'
    BY <2>1, Names DEF IInv, ProcOk
  <2>4. QueuesOk'
    BY <2>1, <2>2, PreemptedQueue DEF IInv, QueuesOk
  <2>5. RunOk' /\ Control'
    BY <2>1, Yielding
  <2>6. phase \in {"methods", "threads"}
    BY DEF IInv, Control
  <2> QED BY <2>3, <2>4, <2>5, <2>6 DEF IInv, ChannelsOk, LoopOk, channels
<1> QED BY <1>1, <1>2

LEMMA ProcessControlTyped == IInv /\ ProcessControl => IInv'
<1> SUFFICES ASSUME IInv, ProcessControl PROVE IInv'
  OBVIOUS
<1> USE Same
<1>0. \A p \in Process : proc[p] \in Member /\ p \in Event
  BY Names DEF IInv, ProcOk
<1>t. \A p \in Thread : p \in Process
  BY Names
<1>1. ASSUME NEW p \in Process, SuspendProcess(p) PROVE IInv'
  <2>1. /\ Calls("suspend") /\ proc' = [proc EXCEPT ![p] = Held(p)] /\ RemoveRunnable(p)
        /\ active' = IF p \in Thread /\ p = active THEN NoProcess ELSE active
        /\ UNCHANGED <<stores, channels, control>>
    BY <1>1 DEF SuspendProcess
  <2>2. Held(p) \in Member
    <3>1. Set(proc[p], "suspended") \in Member
      BY <1>0, MemberStep
    <3> QED BY <3>1, MemberStep DEF Held
  <2>3. ProcOk' /\ QueuesOk'
    BY <2>1, <2>2, RunnableRemoved DEF IInv, ProcOk
  <2>4. RunOk' /\ Control'
    BY <2>1, Yielding DEF control
  <2>5. phase' \notin {"initnotify", "notify"}
    BY <2>1, MayCall DEF control
  <2> QED BY <2>1, <2>3, <2>4, <2>5 DEF IInv, stores, channels, control
<1>2. ASSUME NEW p \in Process, ResumeProcess(p) PROVE IInv'
  <2> DEFINE r     == proc[p]
             error == ~Corners /\ {"disabled", "suspended"} \subseteq r.state
             free  == IF error THEN Clear(r, "suspended") ELSE Released(r)
             again == /\ Has(r, "ready") /\ ~error
                      /\ p \in Thread \/ p \notin Runnable \cup {active}
  <2>1. /\ Calls("resume")
        /\ proc' = [proc EXCEPT ![p] = IF again THEN RemoveDynamicEvents(free, p) ELSE free]
        /\ IF again /\ p \notin Runnable THEN Push(p) ELSE UNCHANGED queues
        /\ IF again THEN CancelPending(p) ELSE UNCHANGED stores
        /\ UNCHANGED <<channels, active, control>>
    BY <1>2 DEF ResumeProcess
  <2>2. free \in Member
    <3>1. Clear(r, "suspended") \in Member
      BY <1>0, MemberStep
    <3>2. Clear(Clear(r, "suspended"), "ready") \in Member
      BY <3>1, MemberStep
    <3> QED BY <3>1, <3>2 DEF Released
  <2> HIDE DEF again, free
  <2>3. RemoveDynamicEvents(free, p) \in Member
    BY <2>2, MemberStep
  <2>4. ProcOk'
    BY <2>1, <2>2, <2>3 DEF IInv, ProcOk
  <2>5. QueuesOk'
    BY <2>1, Pushed DEF IInv, queues
  <2>6. StoresOk'
    BY <1>0, <2>1, Cancelled DEF IInv, stores
  <2>7. phase' \notin {"initnotify", "notify"}
    BY <2>1, MayCall DEF control
  <2> QED BY <2>1, <2>4, <2>5, <2>6, <2>7 DEF IInv, channels, control
<1>3. ASSUME NEW p \in Process, DisableProcess(p) PROVE IInv'
  <2> DEFINE off == Set(proc[p], "disabled")
             new == IF p \in Thread /\ run.status = "elaboration" THEN Set(off, "ready") ELSE off
  <2>1. /\ \E op : Calls(op)
        /\ proc' = [proc EXCEPT ![p] = new]
        /\ UNCHANGED <<stores, queues, channels, active, control>>
    BY <1>3 DEF DisableProcess
  <2>2. new \in Member
    <3>1. off \in Member
      BY <1>0, MemberStep
    <3> QED BY <3>1, MemberStep
  <2> HIDE DEF new
  <2>3. ProcOk'
    BY <2>1, <2>2 DEF IInv, ProcOk
  <2>4. phase' \notin {"initnotify", "notify"}
    BY <2>1, MayCall DEF control
  <2> QED BY <2>1, <2>3, <2>4 DEF IInv, stores, queues, channels, control
<1>4. ASSUME NEW p \in Process, EnableProcess(p) PROVE IInv'
  <2> DEFINE on    == Clear(proc[p], "disabled")
             again == on.state = {"ready"} /\ (p \in Method \/ Corners)
             new   == IF again THEN Clear(on, "ready") ELSE on
  <2>1. /\ Calls("enable")
        /\ proc' = [proc EXCEPT ![p] = new]
        /\ IF again /\ p \notin Runnable THEN Push(p) ELSE UNCHANGED queues
        /\ UNCHANGED <<stores, channels, active, control>>
    BY <1>4 DEF EnableProcess
  <2>2. new \in Member
    <3>1. on \in Member
      BY <1>0, MemberStep
    <3> QED BY <3>1, MemberStep
  <2> HIDE DEF new, again
  <2>3. ProcOk' /\ QueuesOk'
    BY <2>1, <2>2, Pushed DEF IInv, ProcOk, queues
  <2>4. phase' \notin {"initnotify", "notify"}
    BY <2>1, MayCall DEF control
  <2> QED BY <2>1, <2>3, <2>4 DEF IInv, stores, channels, control
<1>5. ASSUME NEW p \in Process, KillDisconnect(p) PROVE IInv'
  <2>1. /\ Calls("kill") /\ proc' = [proc EXCEPT ![p] = Disconnected(@, p)]
        /\ CancelPending(p)
        /\ IF p \in Method THEN RemoveRunnable(p) ELSE UNCHANGED queues
        /\ active' = IF p = active THEN NoProcess ELSE active
        /\ UNCHANGED <<channels, control>>
    BY <1>5 DEF KillDisconnect
  <2>2. Disconnected(proc[p], p) \in Member
    BY <1>0, MemberStep
  <2>3. ProcOk'
    BY <2>1, <2>2 DEF IInv, ProcOk
  <2>4. QueuesOk'
    BY <2>1, RunnableRemoved DEF IInv, queues
  <2>5. StoresOk'
    BY <1>0, <2>1, Cancelled DEF IInv
  <2>6. RunOk' /\ Control'
    BY <2>1, Yielding DEF control
  <2>7. phase' \notin {"initnotify", "notify"}
    BY <2>1, MayCall DEF control
  <2> QED BY <2>1, <2>3, <2>4, <2>5, <2>6, <2>7 DEF IInv, channels, control
<1>6. ASSUME NEW p \in Thread, KillThread(p) PROVE IInv'
  <2> DEFINE r == [proc[p] EXCEPT !.throw = "KILL", !.cycles = 0]
  <2>1. /\ active # NoProcess /\ PreemptWith(p, r)
        /\ UNCHANGED <<stores, channels, phase, cursor, now, run, open>>
    BY <1>6 DEF KillThread
  <2>2. r \in Member
    BY <1>0, <1>t, MemberThrow
  <2> HIDE DEF r
  <2> QED BY <2>1, <2>2, Preempting DEF IInv, stores
<1>7. ASSUME NEW p \in Thread, ThrowIt(p) PROVE IInv'
  <2> DEFINE d == RemoveDynamicEvents(proc[p], p)
             r == [d EXCEPT !.throw = "USER"]
  <2>1. /\ active # NoProcess /\ PreemptWith(p, r) /\ CancelPending(p)
        /\ UNCHANGED <<channels, phase, cursor, now, run, open>>
    BY <1>7 DEF ThrowIt
  <2>2. d \in Member
    BY <1>0, <1>t, MemberStep
  <2> HIDE DEF d
  <2>3. r \in Member
    BY <2>2 DEF Member
  <2> HIDE DEF r
  <2>4. StoresOk'
    BY <1>0, <1>t, <2>1, Cancelled DEF IInv
  <2> QED BY <2>1, <2>3, <2>4, Preempting DEF IInv
<1>8. ASSUME NEW p \in Thread, ResetProcess(p) PROVE IInv'
  <2> DEFINE r == Reset(proc[p], p, TRUE)
  <2>1. /\ active # NoProcess /\ PreemptWith(p, r) /\ CancelPending(p)
        /\ UNCHANGED <<channels, phase, cursor, now, run, open>>
    BY <1>8 DEF ResetProcess
  <2>2. r \in Member
    BY <1>0, <1>t, MemberStep
  <2> HIDE DEF r
  <2>3. StoresOk'
    BY <1>0, <1>t, <2>1, Cancelled DEF IInv
  <2> QED BY <2>1, <2>2, <2>3, Preempting DEF IInv
<1>9. ASSUME NEW p \in Thread, NEW asserted \in BOOLEAN, SyncReset(p, asserted) PROVE IInv'
  <2> DEFINE r == [proc[p] EXCEPT !.sticky = asserted]
             new == IF ~Corners /\ Has(r, "suspended") THEN r
                    ELSE ResetChanged(r, p, FALSE, asserted, Started)
  <2>1. /\ Calls("syncreset") /\ proc' = [proc EXCEPT ![p] = new]
        /\ UNCHANGED <<stores, queues, channels, active, control>>
    BY <1>9 DEF SyncReset
  <2>2. r \in Member
    BY <1>0, <1>t DEF Member
  <2> HIDE DEF r
  <2>3. new \in Member
    BY <1>t, <2>2, MemberResets DEF Started
  <2> HIDE DEF new
  <2>4. ProcOk'
    BY <2>1, <2>3 DEF IInv, ProcOk
  <2>5. phase' \notin {"initnotify", "notify"}
    BY <2>1, MayCall DEF control
  <2> QED BY <2>1, <2>4, <2>5 DEF IInv, stores, queues, channels, control
<1>10. ASSUME Stop PROVE IInv'
  <2>1. /\ Calls("stop")
        /\ run' = [run EXCEPT !.forced = TRUE,
                              !.status = IF phase = "main" THEN "stopped" ELSE @]
        /\ IF StopMode = "IMMEDIATE"
           THEN stranded' = Runnable /\ methods' = EmptyQueue /\ threads' = EmptyQueue
           ELSE UNCHANGED queues
        /\ UNCHANGED <<proc, stores, channels, active, phase, cursor, now, open, caller>>
    BY <1>10 DEF Stop
  <2>2. QueuesOk'
    <3>1. Runnable \subseteq Process
      BY QueuesDef, Names DEF IInv, QueuesOk, Runnable
    <3>2. EmptyQueue \in Queue(Method) /\ EmptyQueue \in Queue(Thread)
      BY EmptyQueued
    <3> QED BY <2>1, <3>1, <3>2 DEF IInv, QueuesOk, queues
  <2>3. phase \in {"main", "methods", "threads"} /\ (active = NoProcess => phase = "main")
    BY <2>1, MayCall
  <2>4. RunOk'
    BY <2>1 DEF IInv, RunOk
  <2>5. run'.forced = TRUE /\ run'.status = IF phase = "main" THEN "stopped" ELSE run.status
    BY <2>1 DEF IInv, RunOk
  <2>6. Control'
    BY <2>1, <2>3, <2>5 DEF IInv, Control
  <2> QED BY <2>1, <2>2, <2>3, <2>4, <2>6 DEF IInv, stores, channels
<1>11. ASSUME Pause PROVE IInv'
  <2>1. /\ Calls("pause") /\ run' = [run EXCEPT !.paused = TRUE]
        /\ UNCHANGED <<proc, stores, queues, channels, active, phase, cursor, now, open, caller>>
    BY <1>11 DEF Pause
  <2>2. RunOk' /\ run'.status = run.status /\ run'.forced = run.forced
    BY <2>1 DEF IInv, RunOk
  <2>3. Control'
    BY <2>1, <2>2 DEF IInv, Control
  <2>4. phase' \notin {"initnotify", "notify"}
    BY <2>1, MayCall
  <2> QED BY <2>1, <2>2, <2>3, <2>4 DEF IInv, stores, queues, channels
<1> QED BY <1>1, <1>2, <1>3, <1>4, <1>5, <1>6, <1>7, <1>8, <1>9, <1>10, <1>11 DEF ProcessControl

LEMMA Kinds ==
    ASSUME NEW w \in WaitKinds
    PROVE  /\ w[1] \in {"EVENT", "OR", "AND"} /\ w[2] \in SUBSET (UserEvent \cup Channel)
           /\ IsFiniteSet(w[2]) /\ w[2] # {}
<1>1. /\ w[1] \in {"EVENT", "OR", "AND"} /\ w[2] \in SUBSET (UserEvent \cup Channel)
      /\ (\E e : w[2] = {e}) \/ Cardinality(w[2]) = 2
  BY DEF WaitKinds
<1>2. IsFiniteSet(w[2])
  BY <1>1, Names, FS_Subset
<1>3. Cardinality({}) = 0
  BY FS_EmptySet
<1> QED BY <1>1, <1>2, <1>3

LEMMA SetTriggerTyped == IInv /\ SetTrigger => IInv'
<1> SUFFICES ASSUME IInv, SetTrigger PROVE IInv'
  OBVIOUS
<1> USE Same
<1>0. active \in Method
  BY DEF SetTrigger, NextTrigger, NextTriggerTimed, Triggers
<1>1. active \in Process /\ active \in Event /\ proc[active] \in Member
  BY <1>0, Names DEF IInv, ProcOk
<1>2. phase \notin {"initnotify", "notify"}
  BY <1>0 DEF IInv, Control
<1> DEFINE d == RemoveDynamicEvents(proc[active], active)
<1>3. d \in Member
  BY <1>1, MemberStep
<1> HIDE DEF d
<1>4. ASSUME NEW kind \in {"EVENT", "OR", "AND"}, NEW E \in SUBSET (UserEvent \cup Channel),
             IsFiniteSet(E), NextTrigger(kind, E)
      PROVE  IInv'
  <2>1. /\ proc' = [proc EXCEPT ![active] = WaitOn(d, active, kind, E, FALSE)]
        /\ CancelPending(active)
        /\ UNCHANGED <<queues, channels, active, control>>
    BY <1>4 DEF NextTrigger, d
  <2>2. WaitOn(d, active, kind, E, FALSE) \in Member
    BY <1>1, <1>3, <1>4, MemberWaits
  <2>3. ProcOk'
    BY <1>1, <2>1, <2>2 DEF IInv, ProcOk
  <2>4. StoresOk'
    BY <1>1, <2>1, Cancelled DEF IInv
  <2> QED BY <1>2, <2>1, <2>3, <2>4 DEF IInv, queues, channels, control
<1>5. ASSUME NEW kind \in {"EVENT", "OR", "AND", "TIMEOUT"}, NEW t \in Time,
             NEW E \in SUBSET (UserEvent \cup Channel),
             IsFiniteSet(E), NextTriggerTimed(kind, E, t)
      PROVE  IInv'
  <2>1. /\ now + t <= MaxTime /\ ArmTimeout(active, t, VectorWithout(active))
        /\ proc' = [proc EXCEPT ![active] = WaitOn(d, active, kind, E, TRUE)]
        /\ UNCHANGED <<queues, channels, active, control>>
    BY <1>5 DEF NextTriggerTimed, d
  <2>2. WaitOn(d, active, kind, E, TRUE) \in Member
    BY <1>1, <1>3, <1>5, MemberWaits
  <2>3. ProcOk'
    BY <1>1, <2>1, <2>2 DEF IInv, ProcOk
  <2>4. StoresOk'
    BY <1>1, <2>1, Without, Armed DEF IInv, RunOk
  <2> QED BY <1>2, <2>1, <2>3, <2>4 DEF IInv, queues, channels, control
<1>6. ASSUME NEW w \in WaitKinds, NextTrigger(w[1], w[2]) PROVE IInv'
  BY <1>4, <1>6, Kinds
<1>7. ASSUME NEW w \in WaitKinds, NEW t \in Time, NextTriggerTimed(w[1], w[2], t) PROVE IInv'
  BY <1>5, <1>7, Kinds
<1>8. ASSUME NEW t \in Time, NextTriggerTimed("TIMEOUT", {}, t) PROVE IInv'
  BY <1>5, <1>8, FS_EmptySet
<1> QED BY <1>6, <1>7, <1>8 DEF SetTrigger

LEMMA YieldTyped == IInv /\ Yield => IInv'
<1> SUFFICES ASSUME IInv, Yield PROVE IInv'
  OBVIOUS
<1> USE Same
<1>0. active \in Process /\ active' = NoProcess /\ channels' = channels /\ control' = control
  BY Names DEF Yield, WaitFor, WaitTimed, WaitCycles, ThreadEnd, MethodReturn, Waits
<1>1. active \in Event /\ proc[active] \in Member /\ active # NoProcess
  BY <1>0, Names DEF IInv, ProcOk
<1>2. ChannelsOk' /\ RunOk' /\ Control' /\ LoopOk'
  <2>1. phase \notin {"initnotify", "notify"}
    BY <1>1 DEF IInv, Control
  <2> QED BY <1>0, <2>1, Yielding DEF IInv, channels, control
<1>3. ASSUME NEW kind \in {"EVENT", "OR", "AND"}, NEW E \in SUBSET (UserEvent \cup Channel),
             IsFiniteSet(E), WaitFor(kind, E)
      PROVE  ProcOk' /\ StoresOk' /\ QueuesOk'
  <2>1. /\ proc' = [proc EXCEPT ![active] = WaitOn(proc[active], active, kind, E, FALSE)]
        /\ UNCHANGED <<stores, queues>>
    BY <1>3 DEF WaitFor
  <2>2. WaitOn(proc[active], active, kind, E, FALSE) \in Member
    BY <1>0, <1>1, <1>3, MemberWaits
  <2>3. ProcOk'
    BY <2>1, <2>2 DEF IInv, ProcOk
  <2> QED BY <2>1, <2>3 DEF IInv, stores, queues
<1>4. ASSUME NEW kind \in {"EVENT", "OR", "AND", "TIMEOUT"}, NEW t \in Time,
             NEW E \in SUBSET (UserEvent \cup Channel),
             IsFiniteSet(E), WaitTimed(kind, E, t)
      PROVE  ProcOk' /\ StoresOk' /\ QueuesOk'
  <2>1. /\ now + t <= MaxTime /\ ArmTimeout(active, t, delta)
        /\ proc' = [proc EXCEPT ![active] = WaitOn(proc[active], active, kind, E, TRUE)]
        /\ UNCHANGED queues
    BY <1>4 DEF WaitTimed
  <2>2. WaitOn(proc[active], active, kind, E, TRUE) \in Member
    BY <1>0, <1>1, <1>4, MemberWaits
  <2>3. ProcOk'
    BY <2>1, <2>2 DEF IInv, ProcOk
  <2>4. delta \in Vector(Event) /\ \A f \in Event \ {active} : pend[f] = Delta => RemovableDelta(delta, f)
    BY DEF IInv, StoresOk
  <2>5. StoresOk'
    BY <1>1, <2>1, <2>4, Armed DEF IInv, RunOk
  <2> QED BY <2>1, <2>3, <2>5 DEF IInv, queues
<1>5. ASSUME NEW n \in 1..MaxCycles, WaitCycles(n) PROVE ProcOk' /\ StoresOk' /\ QueuesOk'
  <2>1. proc' = [proc EXCEPT ![active].cycles = n - 1] /\ UNCHANGED <<stores, queues>>
    BY <1>5 DEF WaitCycles
  <2>2. n - 1 \in Nat
    OBVIOUS
  <2>3. \A k \in Nat : [proc[active] EXCEPT !.cycles = k] \in Member
    BY <1>1 DEF Member
  <2>4. ProcOk'
    BY <2>1, <2>2, <2>3 DEF IInv, ProcOk
  <2> QED BY <2>1, <2>4 DEF IInv, stores, queues
<1>6. ASSUME ThreadEnd PROVE ProcOk' /\ StoresOk' /\ QueuesOk'
  <2> DEFINE d == Disconnected(proc[active], active)
  <2>1. /\ proc' = [proc EXCEPT ![active] = [d EXCEPT !.throw = "NONE", !.stack = FALSE]]
        /\ IF Has(proc[active], "zombie") THEN UNCHANGED stores ELSE CancelPending(active)
        /\ RemoveRunnable(active)
    BY <1>6 DEF ThreadEnd
  <2>2. d \in Member
    BY <1>0, <1>1, MemberStep
  <2> HIDE DEF d
  <2>3. [d EXCEPT !.throw = "NONE", !.stack = FALSE] \in Member
    BY <2>2 DEF Member
  <2>4. ProcOk'
    BY <2>1, <2>3 DEF IInv, ProcOk
  <2>5. StoresOk'
    BY <1>1, <2>1, Cancelled DEF IInv, stores
  <2>6. QueuesOk'
    BY <2>1, RunnableRemoved DEF IInv
  <2> QED BY <2>4, <2>5, <2>6
<1>7. ASSUME MethodReturn PROVE ProcOk' /\ StoresOk' /\ QueuesOk'
  BY <1>7 DEF MethodReturn, IInv, stores, queues
<1>8. ProcOk' /\ StoresOk' /\ QueuesOk'
  <2>1. ASSUME NEW w \in WaitKinds, WaitFor(w[1], w[2]) PROVE ProcOk' /\ StoresOk' /\ QueuesOk'
    BY <1>3, <2>1, Kinds
  <2>2. ASSUME NEW w \in WaitKinds, NEW t \in Time, WaitTimed(w[1], w[2], t)
        PROVE  ProcOk' /\ StoresOk' /\ QueuesOk'
    BY <1>4, <2>2, Kinds
  <2>3. ASSUME NEW t \in Time, WaitTimed("TIMEOUT", {}, t) PROVE ProcOk' /\ StoresOk' /\ QueuesOk'
    BY <1>4, <2>3, FS_EmptySet
  <2> QED BY <1>5, <1>6, <1>7, <2>1, <2>2, <2>3 DEF Yield
<1> QED BY <1>2, <1>8 DEF IInv

LEMMA StartCallTyped == IInv /\ StartCall => IInv'
<1> SUFFICES ASSUME IInv, StartCall PROVE IInv'
  OBVIOUS
<1> USE Same
<1>1. ASSUME NEW d \in 0..MaxTime - now, NEW toTime \in BOOLEAN
      PROVE  now + d \in Time /\ (d = 0) \in BOOLEAN
  BY KernelAssumption DEF IInv, RunOk, Time
<1>2. ASSUME NEW d \in 0..MaxTime - now, NEW toTime \in BOOLEAN, Start(d, toTime) PROVE IInv'
  <2>1. /\ phase = "main" /\ Started
        /\ run' = [run EXCEPT !.paused = FALSE, !.once = d = 0, !.until = now + d,
                              !.toTime = toTime]
        /\ phase' = "methods" /\ methods' = Toggle(methods) /\ open' = open \cup {"evaluate"}
        /\ UNCHANGED <<proc, stores, threads, stranded, channels, active, cursor, now, caller>>
    BY <1>2 DEF Start, EvaluateBegin
  <2>2. QueuesOk'
    BY <2>1, Toggled DEF IInv, QueuesOk
  <2>3. run' \in [status : {"elaboration", "running", "stopped"}, forced : BOOLEAN,
              paused : BOOLEAN, once : BOOLEAN, until : Time, toTime : BOOLEAN]
        /\ run'.status = run.status /\ run'.forced = run.forced
    BY <1>1, <2>1 DEF IInv, RunOk
  <2>4. RunOk'
    BY <2>1, <2>3 DEF IInv, RunOk
  <2>5. active = NoProcess /\ caller = NoProcess /\ ~run.forced /\ run.status = "running"
    BY <2>1 DEF IInv, Control, Started
  <2>6. Control'
    BY <2>1, <2>3, <2>5, Names DEF IInv, Control
  <2> QED BY <2>1, <2>2, <2>4, <2>6 DEF IInv, stores, channels
<1>3. ASSUME NEW d \in 0..MaxTime - now, NEW toTime \in BOOLEAN, FirstStart(d, toTime) PROVE IInv'
  <2>1. /\ phase = "main" /\ run.status = "elaboration" /\ ~run.forced
        /\ run' = [run EXCEPT !.status = "running", !.paused = FALSE, !.once = d = 0,
                              !.until = now + d, !.toTime = toTime]
        /\ phase' = "initupdate"
        /\ UNCHANGED <<proc, stores, queues, channels, active, cursor, now, open, caller>>
    BY <1>3 DEF FirstStart
  <2>2. run' \in [status : {"elaboration", "running", "stopped"}, forced : BOOLEAN,
              paused : BOOLEAN, once : BOOLEAN, until : Time, toTime : BOOLEAN]
        /\ run'.status = "running" /\ run'.forced = run.forced
    BY <1>1, <2>1 DEF IInv, RunOk
  <2>3. RunOk'
    BY <2>1, <2>2 DEF IInv, RunOk
  <2>4. active = NoProcess /\ caller = NoProcess
    BY <2>1 DEF IInv, Control
  <2>5. Control'
    BY <2>1, <2>2, <2>4, Names DEF IInv, Control
  <2> QED BY <2>1, <2>3, <2>5 DEF IInv, stores, queues, channels
<1>4. ASSUME StartAfterStop PROVE IInv'
  BY <1>4 DEF StartAfterStop, vars, stores, queues, channels, control, IInv, LoopOk
<1>5. \A toTime \in {TRUE, MaxTime = 0} : toTime \in BOOLEAN
  OBVIOUS
<1> QED BY <1>2, <1>3, <1>4, <1>5 DEF StartCall

(* A reset signal changes: the timeouts of the threads it resets end.      *)
LEMMA Changing ==
    ASSUME ProcOk, StoresOk, QueuesOk, level \in [Channel -> BOOLEAN], NEW c \in Channel, Changed(c)
    PROVE  /\ ProcOk' /\ StoresOk'
           /\ level' \in [Channel -> BOOLEAN]
           /\ threads' \in Queue(Thread)
           /\ Queued(threads)' = Queued(threads) \cup ThrownBy(c)
           /\ Once(threads) => Once(threads)'
           /\ \A e \in Event : pend'[e] = IF e \in ThrownBy(c) /\ proc[e].timed THEN None
                                          ELSE IF e = c THEN Delta ELSE pend[e]
<1> DEFINE targets == {x \in Resets : x.channel = c}
           thrown  == ThrownBy(c)
           timed   == {p \in thrown : proc[p].timed}
           new(p)  == LET x == CHOOSE y \in targets : y.process = p IN
                      ResetChanged(proc[p], p, x.async, x.level # level[c], TRUE)
<1>1. /\ level' = [level EXCEPT ![c] = IF targets = {} THEN @ ELSE ~@]
      /\ proc' = [p \in Process |-> IF \E x \in targets : x.process = p THEN new(p) ELSE proc[p]]
      /\ pend' = [e \in Event |-> IF e \in timed THEN None ELSE IF e = c THEN Delta ELSE pend[e]]
  BY DEF Changed
<1>2. PICK order \in SetToSeqs({p \in timed : pend[p] = Delta}) :
        delta' = AddDelta(RemoveAllDelta(delta, order), c)
  BY DEF Changed
<1>3. PICK next \in SetToSeqs(thrown) : threads' = ExecuteNextAll(threads, next)
  BY DEF Changed
<1>4. Resets \subseteq [channel : Channel, process : Thread, async : BOOLEAN, level : BOOLEAN]
  BY KernelAssumption
<1>5. level' \in [Channel -> BOOLEAN]
  <2>1. (IF targets = {} THEN level[c] ELSE ~level[c]) \in BOOLEAN
    OBVIOUS
  <2> HIDE DEF targets
  <2> QED BY <1>1, <2>1
<1>6. ASSUME NEW p \in Process, \E x \in targets : x.process = p PROVE new(p) \in Member
  <2> DEFINE x == CHOOSE y \in targets : y.process = p
  <2>1. x \in targets
    BY <1>6
  <2>2. x.async \in BOOLEAN /\ (x.level # level[c]) \in BOOLEAN /\ TRUE \in BOOLEAN
    BY <1>4, <2>1
  <2>3. proc[p] \in Member
    BY DEF ProcOk
  <2> HIDE DEF x
  <2>4. ResetChanged(proc[p], p, x.async, x.level # level[c], TRUE) \in Member
    BY <2>2, <2>3, MemberResets
  <2> QED BY <2>4 DEF x
<1>7. ProcOk'
  <2> HIDE DEF new, targets
  <2> QED BY <1>1, <1>6 DEF ProcOk
<1>8. thrown \subseteq Thread /\ timed \subseteq thrown
  BY <1>4 DEF ThrownBy
<1>9. IsFiniteSet(thrown) /\ thrown \subseteq Event /\ c \notin thrown
  BY <1>8, Names, FS_Subset
<1> HIDE DEF thrown
<1>10. next \in Seq(Thread) /\ ToSet(next) = thrown
  <2>1. next \in Seq(thrown) /\ ToSet(next) = thrown
    BY <1>3, <1>9, Orders
  <2> QED BY <1>8, <2>1, SeqMonotonic
<1>11. /\ threads' \in Queue(Thread)
       /\ Queued(threads)' = Queued(threads) \cup thrown
       /\ Once(threads) => Once(threads)'
  <2> DEFINE q == ExecuteNextAll(threads, next)
  <2>1. q \in Queue(Thread) /\ Queued(q) = Queued(threads) \cup thrown /\ (Once(threads) => Once(q))
    BY <1>10, PutAllNext DEF QueuesOk
  <2> HIDE DEF q
  <2> QED BY <1>3, <2>1 DEF q
<1>12. /\ order \in Seq(Event) /\ IsInjective(order)
       /\ ToSet(order) = {p \in timed : pend[p] = Delta}
  <2> DEFINE S == {p \in timed : pend[p] = Delta}
  <2>1. S \subseteq Event /\ IsFiniteSet(S)
    BY <1>8, <1>9, FS_Subset
  <2>2. order \in SetToSeqs(S)
    OBVIOUS
  <2> HIDE DEF S
  <2>3. order \in Seq(S) /\ IsInjective(order) /\ ToSet(order) = S
    BY <2>1, <2>2, Orders
  <2>4. order \in Seq(Event)
    BY <2>1, <2>3, SeqMonotonic
  <2> QED BY <2>3, <2>4 DEF S
<1> HIDE DEF timed
<1> DEFINE w == RemoveAllDelta(delta, order)
<1>13. /\ w \in Vector(Event)
       /\ \A f \in Event \ ToSet(order) : RemovableDelta(delta, f) => RemovableDelta(w, f)
  <2>1. \A e \in ToSet(order) : RemovableDelta(delta, e)
    BY <1>8, <1>9, <1>12 DEF StoresOk
  <2> QED BY <1>12, <2>1, RemovedAllDelta DEF StoresOk
<1> HIDE DEF w
<1>14. c \in Event
  BY Names
<1>15. /\ delta' \in Vector(Event) /\ RemovableDelta(delta', c)
       /\ \A f \in Event : RemovableDelta(w, f) => RemovableDelta(delta', f)
  <2>1. delta' = AddDelta(w, c)
    BY <1>2 DEF w
  <2> QED BY <1>13, <1>14, <2>1, AddedDelta
<1>16. StoresOk'
  <2>1. pend' \in [Event -> {None, Delta} \cup Time]
    BY <1>1 DEF StoresOk
  <2>2. ASSUME NEW f \in Event, pend'[f] = Delta PROVE RemovableDelta(delta', f)
    <3>1. f = c \/ (f \notin timed /\ pend[f] = Delta)
      BY <1>1, <2>2, Names
    <3> QED BY <1>12, <1>13, <1>15, <3>1 DEF StoresOk
  <2> QED BY <1>15, <2>1, <2>2 DEF StoresOk
<1>17. \A e \in Event : pend'[e] = IF e \in ThrownBy(c) /\ proc[e].timed THEN None
                                   ELSE IF e = c THEN Delta ELSE pend[e]
  BY <1>1 DEF timed, thrown
<1> QED BY <1>5, <1>7, <1>11, <1>16, <1>17 DEF thrown

LEMMA ScheduleTyped == IInv /\ Schedule => IInv'
<1> SUFFICES ASSUME IInv, Schedule PROVE IInv'
  OBVIOUS
<1> USE Same
<1>0. active = NoProcess => active \notin Method /\ active \notin Thread
  BY Names
<1>1. ASSUME Initialize PROVE IInv'
  <2> DEFINE M == {p \in Initial \cap Method : ~Suspended(p)}
             T == {p \in Initial \cap Thread : ~Suspended(p)}
  <2>1. PICK ms \in SetToSeqs(M), ts \in SetToSeqs(T) : PushBackAll(ms, ts)
    BY <1>1 DEF Initialize
  <2>2. /\ phase = "initupdate" /\ phase' = "initnotify" /\ cursor' = delta.size
        /\ proc' = [p \in Process |->
                      IF p \in Initial /\ Suspended(p) THEN Set(proc[p], "ready") ELSE proc[p]]
        /\ UNCHANGED <<stores, channels, active, now, run, open, caller>>
    BY <1>1 DEF Initialize
  <2>3. M \subseteq Method /\ T \subseteq Thread
    OBVIOUS
  <2> HIDE DEF M, T
  <2>4. IsFiniteSet(M) /\ IsFiniteSet(T)
    BY <2>3, Names, FS_Subset
  <2>5. ms \in Seq(Method) /\ ts \in Seq(Thread)
    <3>1. ms \in Seq(M) /\ ts \in Seq(T)
      BY <2>1, <2>4, Orders
    <3> QED BY <2>3, <3>1, SeqMonotonic
  <2>6. QueuesOk'
    BY <2>1, <2>5, PushedBack DEF IInv
  <2>7. ProcOk'
    <3>1. \A p \in Process : proc[p] \in Member /\ Set(proc[p], "ready") \in Member
      BY MemberStep DEF IInv, ProcOk
    <3> QED BY <2>2, <3>1 DEF ProcOk
  <2>8. delta.size \in Nat /\ delta.size <= Len(delta.slot)
    BY VectorParts DEF IInv, StoresOk
  <2>9. RunOk' /\ Control'
    BY <2>2, <2>8 DEF IInv, RunOk, Control
  <2>10. Within(delta, Event, delta.size)
    BY VectorParts DEF Within, RemovableDelta, IInv, StoresOk
  <2>11. LoopOk'
    BY <2>2, <2>8, <2>10 DEF LoopOk, stores
  <2> QED BY <2>2, <2>6, <2>7, <2>9, <2>11 DEF IInv, stores, channels
<1>2. ASSUME RunMethod PROVE IInv'
  <2>1. PICK i \in PopChoices(methods, Random) :
          /\ active' = methods.pop[i] /\ methods' = PopAt(methods, i)
          /\ stranded' = stranded \ {methods.pop[i]}
    BY <1>2 DEF RunMethod
  <2>2. /\ active = NoProcess /\ caller = NoProcess /\ phase = "methods"
        /\ UNCHANGED <<proc, stores, threads, channels, control>>
    BY <1>2 DEF RunMethod, Scheduling
  <2>3. i \in DOMAIN methods.pop
    BY <2>1 DEF PopChoices
  <2>4. methods' \in Queue(Method) /\ active' \in Method
    BY <2>1, <2>3, Popped DEF IInv, QueuesOk
  <2>5. QueuesOk'
    BY <2>1, <2>2, <2>4 DEF IInv, QueuesOk
  <2>6. RunOk' /\ Control'
    BY <2>2, <2>4, Names DEF IInv, RunOk, Control, control
  <2> QED BY <2>2, <2>5, <2>6 DEF IInv, stores, channels, control
<1>3. ASSUME MethodsDone PROVE IInv'
  <2>1. /\ active = NoProcess /\ caller = NoProcess /\ phase = "methods" /\ phase' = "threads"
        /\ threads' = Toggle(threads)
        /\ UNCHANGED <<proc, stores, methods, stranded, channels, active, cursor, now, run, open,
                       caller>>
    BY <1>3 DEF MethodsDone, Scheduling
  <2>2. QueuesOk'
    BY <2>1, Toggled DEF IInv, QueuesOk
  <2>3. RunOk' /\ Control'
    BY <1>0, <2>1 DEF IInv, RunOk, Control
  <2> QED BY <2>1, <2>2, <2>3 DEF IInv, stores, channels
<1>4. ASSUME RunThread PROVE IInv'
  <2>1. PICK i \in PopChoices(threads, Random) :
          /\ active' = threads.pop[i] /\ threads' = PopAt(threads, i)
          /\ stranded' = stranded \ {threads.pop[i]}
          /\ proc' = [proc EXCEPT ![threads.pop[i]] = Resumed(@)]
    BY <1>4 DEF RunThread
  <2>2. /\ active = NoProcess /\ (phase = "threads" \/ caller # NoProcess)
        /\ UNCHANGED <<stores, methods, channels, control>>
    BY <1>4 DEF RunThread
  <2>3. i \in DOMAIN threads.pop
    BY <2>1 DEF PopChoices
  <2>4. threads' \in Queue(Thread) /\ threads.pop[i] \in Thread
    BY <2>1, <2>3, Popped DEF IInv, QueuesOk
  <2>5. QueuesOk'
    BY <2>1, <2>2, <2>4 DEF IInv, QueuesOk
  <2>6. ProcOk'
    <3>1. Resumed(proc[threads.pop[i]]) \in Member
      BY <2>4, Names, MemberStep DEF IInv, ProcOk
    <3> QED BY <2>1, <3>1 DEF IInv, ProcOk
  <2>7. RunOk' /\ Control'
    BY <2>1, <2>2, <2>4, Names DEF IInv, RunOk, Control, control
  <2>8. phase \in {"methods", "threads"}
    BY <2>2 DEF IInv, Control
  <2> QED BY <2>2, <2>5, <2>6, <2>7, <2>8 DEF IInv, stores, channels, control
<1>5. ASSUME ReturnToCaller PROVE IInv'
  <2>1. /\ active = NoProcess /\ caller # NoProcess /\ caller' = NoProcess
        /\ active' = IF Has(proc[caller], "zombie") THEN NoProcess ELSE caller
        /\ UNCHANGED <<proc, stores, queues, channels, phase, cursor, now, run, open>>
    BY <1>5 DEF ReturnToCaller
  <2>2. phase = "methods" /\ caller \in Method
    BY <2>1 DEF IInv, RunOk, Control
  <2>3. RunOk' /\ Control'
    BY <2>1, <2>2, Names DEF IInv, RunOk, Control
  <2> QED BY <2>1, <2>2, <2>3 DEF IInv, stores, queues, channels
<1>6. ASSUME AnotherRound PROVE IInv'
  <2>1. /\ active = NoProcess /\ caller = NoProcess /\ phase = "threads" /\ phase' = "methods"
        /\ methods' = Toggle(methods) /\ open' = open \cup {"evaluate"}
        /\ UNCHANGED <<proc, stores, threads, stranded, channels, active, cursor, now, run, caller>>
    BY <1>6 DEF AnotherRound, ThreadsDone, Scheduling, EvaluateBegin
  <2>2. QueuesOk'
    BY <2>1, Toggled DEF IInv, QueuesOk
  <2>3. RunOk' /\ Control'
    BY <1>0, <2>1 DEF IInv, RunOk, Control
  <2> QED BY <2>1, <2>2, <2>3 DEF IInv, stores, channels
<1>7. ASSUME AbortEvaluation PROVE IInv'
  <2>1. /\ active = NoProcess /\ caller = NoProcess /\ phase = "threads" /\ phase' = "crunched"
        /\ UNCHANGED <<proc, stores, queues, channels, active, cursor, now, run, open, caller>>
    BY <1>7 DEF AbortEvaluation, ThreadsDone, Scheduling
  <2>2. RunOk' /\ Control'
    BY <1>0, <2>1 DEF IInv, RunOk, Control
  <2> QED BY <2>1, <2>2 DEF IInv, stores, queues, channels
<1>8. ASSUME EvaluateEnd PROVE IInv'
  <2>1. /\ active = NoProcess /\ caller = NoProcess /\ phase = "threads" /\ phase' = "update"
        /\ open' = (open \ {"evaluate"}) \cup {"update"}
        /\ UNCHANGED <<proc, stores, queues, channels, active, cursor, now, run, caller>>
    BY <1>8 DEF EvaluateEnd, ThreadsDone, Scheduling
  <2>2. RunOk' /\ Control'
    BY <1>0, <2>1 DEF IInv, RunOk, Control
  <2> QED BY <2>1, <2>2 DEF IInv, stores, queues, channels
<1>9. ASSUME NEW c \in Channel, NEW changes \in BOOLEAN, Update(c, changes) PROVE IInv'
  <2>1. /\ phase \in {"initupdate", "update"} /\ requests' = requests \ {c}
        /\ IF changes THEN Changed(c) ELSE UNCHANGED <<proc, stores, threads, level>>
        /\ UNCHANGED <<methods, stranded, active, control>>
    BY <1>9 DEF Update
  <2>2. CASE changes
    <3>1. ProcOk' /\ StoresOk' /\ level' \in [Channel -> BOOLEAN] /\ threads' \in Queue(Thread)
      BY <2>1, <2>2, Changing DEF IInv, ChannelsOk
    <3>2. QueuesOk' /\ ChannelsOk'
      BY <2>1, <3>1 DEF IInv, QueuesOk, ChannelsOk
    <3> QED BY <2>1, <3>1, <3>2 DEF IInv, control
  <2>3. CASE ~changes
    <3>1. ChannelsOk'
      BY <2>1, <2>3 DEF IInv, ChannelsOk
    <3> QED BY <2>1, <2>3, <3>1 DEF IInv, stores, control
  <2> QED BY <2>2, <2>3
<1>10. ASSUME UpdateEnd PROVE IInv'
  <2>1. /\ phase = "update" /\ phase' = IF run.forced THEN "crunched" ELSE "notify"
        /\ cursor' = IF run.forced THEN cursor ELSE delta.size
        /\ open' = (open \ {"update"}) \cup {"deltanotify"}
        /\ UNCHANGED <<proc, stores, queues, channels, active, now, run, caller>>
    BY <1>10 DEF UpdateEnd, SkipsNotify, LoopStart
  <2>2. delta.size \in Nat /\ delta.size <= Len(delta.slot)
    BY VectorParts DEF IInv, StoresOk
  <2>3. active = NoProcess /\ caller = NoProcess
    BY <2>1 DEF IInv, Control
  <2>4. RunOk' /\ Control'
    BY <1>0, <2>1, <2>2, <2>3 DEF IInv, RunOk, Control
  <2>5. Within(delta, Event, delta.size)
    BY VectorParts DEF Within, RemovableDelta, IInv, StoresOk
  <2>6. LoopOk'
    BY <2>1, <2>2, <2>5 DEF LoopOk, stores
  <2> QED BY <2>1, <2>4, <2>6 DEF IInv, stores, queues, channels
<1>11. ASSUME DeltaStep PROVE IInv'
  <2>1. /\ phase \in {"initnotify", "notify"} /\ cursor > 0 /\ cursor' = cursor - 1
        /\ Trigger(delta.slot[cursor], pend, delta)
        /\ UNCHANGED <<channels, active, phase, now, run, open, caller>>
    BY <1>11 DEF DeltaStep
  <2>2. cursor \in 1..Len(delta.slot) /\ Within(delta, Event, cursor) /\ cursor - 1 \in Nat
    BY <2>1, VectorParts DEF IInv, LoopOk, RunOk, StoresOk
  <2>3. delta.slot[cursor] \in Event
    BY <2>2, VectorParts DEF IInv, StoresOk
  <2>4. /\ ProcOk' /\ QueuesOk' /\ StoresOk' /\ Len(delta.slot)' = Len(delta.slot)
        /\ Within(delta', Event, cursor')
    <3> DEFINE e == delta.slot[cursor]
    <3>1. \A f \in Event \ {e} : pend[f] = Delta => RemovableDelta(delta, f)
      BY DEF IInv, StoresOk
    <3>2. /\ ProcOk' /\ QueuesOk' /\ StoresOk' /\ Len(delta.slot)' = Len(delta.slot)
          /\ \A c \in 1..Len(delta.slot) :
               delta.slot[c] = e /\ Within(delta, Event, c) => Within(delta', Event, c - 1)
      <4> HIDE DEF e
      <4>1. e \in Event /\ Trigger(e, pend, delta)
        BY <2>1, <2>3 DEF e
      <4> QED BY <3>1, <4>1, Triggering DEF IInv, StoresOk
    <3>3. Within(delta', Event, cursor - 1)
      BY <2>2, <3>2
    <3> QED BY <2>1, <3>2, <3>3
  <2>5. LoopOk'
    <3>1. cursor' <= Len(delta.slot)'
      BY <2>1, <2>2, <2>4
    <3> QED BY <2>4, <3>1 DEF LoopOk
  <2>6. RunOk' /\ Control'
    BY <2>1, <2>2 DEF IInv, RunOk, Control
  <2> QED BY <2>1, <2>4, <2>5, <2>6 DEF IInv, channels
<1>12. ASSUME DeltaDone PROVE IInv'
  <2>1. /\ phase \in {"initnotify", "notify"} /\ cursor = 0 /\ delta' = ClearDelta(delta)
        /\ \/ phase' = "crunched" /\ open' = open \ {"deltanotify"} /\ UNCHANGED methods
           \/ /\ phase' = "methods" /\ methods' = Toggle(methods)
              /\ open' = (open \ {"deltanotify"}) \cup {"evaluate"}
        /\ UNCHANGED <<proc, pend, threads, stranded, channels, active, cursor, now, run, caller>>
    BY <1>12 DEF DeltaDone, EvaluateBegin
  <2>2. \A e \in Event : pend[e] # Delta
    <3>1. \A e \in Event : ~RemovableDelta(delta, e)
      BY <2>1, VectorParts DEF IInv, LoopOk, Within, RemovableDelta, StoresOk
    <3> QED BY <3>1 DEF IInv, StoresOk
  <2>3. ClearDelta(delta) \in Vector(Event)
    BY ClearedDelta DEF IInv, StoresOk
  <2>4. StoresOk'
    BY <2>1, <2>2, <2>3 DEF IInv, StoresOk
  <2>5. QueuesOk'
    BY <2>1, Toggled DEF IInv, QueuesOk
  <2>6. active = NoProcess /\ caller = NoProcess /\ ~run.forced
    BY <2>1 DEF IInv, Control
  <2>7. RunOk' /\ Control'
    BY <1>0, <2>1, <2>6 DEF IInv, RunOk, Control
  <2> QED BY <2>1, <2>4, <2>5, <2>7 DEF IInv, channels
<1>13. ASSUME Return, UNCHANGED <<active, cursor, open, caller>>,
               phase \in {"crunched", "advance", "timed"}
       PROVE  RunOk' /\ Control'
  <2>1. /\ phase' = "main" /\ (now' = run.until \/ now' = now)
        /\ run' = [run EXCEPT !.status = IF run.forced THEN "stopped" ELSE @]
    BY <1>13 DEF Return
  <2>2. active = NoProcess /\ caller = NoProcess /\ run.status = "running"
    BY <1>13 DEF IInv, Control
  <2>3. /\ run' \in [status : {"elaboration", "running", "stopped"}, forced : BOOLEAN,
                     paused : BOOLEAN, once : BOOLEAN, until : Time, toTime : BOOLEAN]
        /\ run'.forced = run.forced /\ run'.status = IF run.forced THEN "stopped" ELSE run.status
        /\ run.until \in Time
    BY <2>1 DEF IInv, RunOk
  <2>4. RunOk'
    BY <1>13, <2>1, <2>3 DEF IInv, RunOk
  <2>5. Control'
    BY <1>0, <1>13, <2>1, <2>2, <2>3 DEF Control
  <2> QED BY <2>4, <2>5
<1>14. ASSUME CrunchReturns PROVE IInv'
  <2>1. /\ phase = "crunched"
        /\ IF Leaves THEN Return ELSE phase' = "advance" /\ UNCHANGED <<now, run>>
        /\ UNCHANGED <<proc, stores, queues, channels, active, cursor, open, caller>>
    BY <1>14 DEF CrunchReturns
  <2>2. CASE Leaves
    BY <1>13, <2>1, <2>2 DEF Return, IInv, stores, queues, channels
  <2>3. CASE ~Leaves
    <3>1. RunOk' /\ Control'
      BY <2>1, <2>3, <1>0 DEF Leaves, IInv, RunOk, Control
    <3> QED BY <2>1, <2>3, <3>1 DEF IInv, stores, queues, channels
  <2> QED BY <2>2, <2>3
<1>15. ASSUME AdvanceTime PROVE IInv'
  <2>1. /\ phase = "advance" /\ phase' = "timed" /\ now' \in Time
        /\ open' = open \cup {"timednotify"}
        /\ UNCHANGED <<proc, stores, queues, channels, active, cursor, run, caller>>
    BY <1>15 DEF AdvanceTime, NextTimes
  <2>2. RunOk' /\ Control'
    BY <1>0, <2>1 DEF IInv, RunOk, Control
  <2> QED BY <2>1, <2>2 DEF IInv, stores, queues, channels
<1>16. ASSUME NoNextTime PROVE IInv'
  BY <1>13, <1>16 DEF NoNextTime, Return, IInv, stores, queues, channels
<1>17. ASSUME TimedStep PROVE IInv'
  <2>1. PICK e \in TimedAt(now) : Trigger(e, pend, delta)
    BY <1>17 DEF TimedStep
  <2>2. phase = "timed" /\ UNCHANGED <<channels, active, control>>
    BY <1>17 DEF TimedStep
  <2>3. e \in Event /\ \A f \in Event \ {e} : pend[f] = Delta => RemovableDelta(delta, f)
    BY <2>1 DEF TimedAt, IInv, StoresOk
  <2>4. ProcOk' /\ QueuesOk' /\ StoresOk'
    BY <2>1, <2>3, Triggering DEF IInv, StoresOk
  <2> QED BY <2>2, <2>4 DEF IInv, channels, control
<1>18. ASSUME TimedDone PROVE IInv'
  <2>1. /\ phase = "timed"
        /\ UNCHANGED <<proc, stores, threads, stranded, channels, active, cursor, caller>>
    BY <1>18 DEF TimedDone
  <2>2. \/ phase' = "advance" /\ UNCHANGED <<methods, now, run, open>>
        \/ /\ phase' = "methods" /\ methods' = Toggle(methods)
           /\ open' = (open \ {"timednotify"}) \cup {"evaluate"} /\ UNCHANGED <<now, run>>
        \/ Return /\ open' = open \ {"timednotify"} /\ UNCHANGED methods
    BY <1>18 DEF TimedDone, EvaluateBegin
  <2>3. active = NoProcess /\ caller = NoProcess
    BY <2>1 DEF IInv, Control
  <2>4. CASE phase' = "advance" /\ UNCHANGED <<methods, now, run, open>>
    <3>1. RunOk' /\ Control'
      BY <1>0, <2>1, <2>4 DEF IInv, RunOk, Control
    <3> QED BY <2>1, <2>4, <3>1 DEF IInv, stores, channels
  <2>5. CASE /\ phase' = "methods" /\ methods' = Toggle(methods)
             /\ open' = (open \ {"timednotify"}) \cup {"evaluate"} /\ UNCHANGED <<now, run>>
    <3>1. RunOk' /\ Control'
      BY <1>0, <2>1, <2>3, <2>5 DEF IInv, RunOk, Control
    <3>2. QueuesOk'
      BY <2>1, <2>5, Toggled DEF IInv, QueuesOk
    <3> QED BY <2>1, <2>5, <3>1, <3>2 DEF IInv, stores, channels
  <2>6. CASE Return /\ open' = open \ {"timednotify"} /\ UNCHANGED methods
    <3>1. /\ phase' = "main" /\ (now' = run.until \/ now' = now)
          /\ run' = [run EXCEPT !.status = IF run.forced THEN "stopped" ELSE @]
          /\ ~run.forced
      BY <2>1, <2>6 DEF Return, IInv, Control
    <3>2. run' = run /\ run.until \in Time
      BY <3>1 DEF IInv, RunOk
    <3>3. RunOk' /\ Control'
      BY <1>0, <2>1, <2>3, <2>6, <3>1, <3>2 DEF IInv, RunOk, Control
    <3> QED BY <2>1, <2>6, <3>1, <3>3 DEF IInv, stores, channels
  <2> QED BY <2>2, <2>4, <2>5, <2>6
<1> QED BY <1>1, <1>2, <1>3, <1>4, <1>5, <1>6, <1>7, <1>8, <1>9, <1>10, <1>11, <1>12,
           <1>14, <1>15, <1>16, <1>17, <1>18 DEF Schedule

-------------------------------------------------------------------------------
(* The types *)

LEMMA Initially == Init => IInv
<1> SUFFICES ASSUME Init PROVE IInv
  OBVIOUS
<1>1. ProcOk
  <2>1. ASSUME NEW p \in Process, NEW b \in BOOLEAN PROVE Cardinality(Sources(p, b)) \in Int
    <3>1. IsFiniteSet(Sources(p, b))
      BY KernelAssumption, FS_Subset DEF Sources
    <3> QED BY <3>1, FS_CardinalityType
  <2>2. ASSUME NEW m \in Int, NEW n \in Int
        PROVE  [NewProcess EXCEPT !.areset = m, !.reset = n] \in Member
    <3>1. NewProcess \in Member
      BY DEF NewProcess, Member
    <3> HIDE DEF NewProcess
    <3>2. ASSUME NEW r \in Member PROVE [r EXCEPT !.areset = m, !.reset = n] \in Member
      BY DEF Member
    <3> QED BY <3>1, <3>2
  <2> QED BY <2>1, <2>2 DEF Init, ProcOk
<1>2. StoresOk
  BY EmptyVector, Names DEF Init, StoresOk
<1>3. QueuesOk
  BY EmptyQueued DEF Init, QueuesOk
<1>4. ChannelsOk /\ LoopOk
  BY DEF Init, ChannelsOk, LoopOk
<1>5. 0 \in Time
  BY KernelAssumption DEF Time
<1>6. RunOk
  BY <1>5 DEF Init, RunOk
<1>7. Control
  BY Names DEF Init, Control
<1> QED BY <1>1, <1>2, <1>3, <1>4, <1>6, <1>7 DEF IInv

LEMMA Steps == IInv /\ [Next]_vars => IInv'
<1>1. IInv /\ UNCHANGED vars => IInv'
  BY DEF vars, stores, queues, channels, control, IInv, ProcOk, StoresOk, QueuesOk, ChannelsOk,
         RunOk, Control, LoopOk
<1> QED BY <1>1, EventOperationTyped, ProcessControlTyped, SetTriggerTyped, YieldTyped,
           StartCallTyped, ScheduleTyped DEF Next

LEMMA Invariance == Spec => []IInv
BY Initially, Steps, PTL DEF Spec

(* The variables keep their types, and crunch() never reads a slot of the  *)
(* vector of delta notifications that was never written (l_events, size    *)
(* and i of its loop, against remove_delta_event).                         *)
THEOREM TypeCorrect == Spec => []TypeOK
<1>1. IInv => TypeOK
  BY DEF IInv, ProcOk, StoresOk, QueuesOk, ChannelsOk, RunOk, LoopOk, TypeOK, Vector, Queue
<1> QED BY <1>1, Invariance, PTL

-------------------------------------------------------------------------------
(* The time and the observer.  None of what a process or sc_main calls     *)
(* moves the scheduler.                                                    *)

CallStep == EventOperation \/ ProcessControl \/ SetTrigger \/ Yield

(* A new notification lies after the time, or in the next delta cycle.     *)
NoEarlier == \A e \in Event : pend'[e] \in {None, Delta, pend[e]} \/ pend'[e] > now

LEMMA Calling ==
    ASSUME IInv, CallStep
    PROVE  /\ UNCHANGED <<phase, now, open, level>>
           /\ phase \in {"main", "methods", "threads"}
           /\ run'.once = run.once /\ run'.until = run.until
           /\ phase # "main" \/ run'.forced \/ run' = run
           /\ NoEarlier
<1>1. \A e, v : pend' = [pend EXCEPT ![e] = v] /\ v \in {None, Delta} => NoEarlier
  BY DEF IInv, StoresOk, NoEarlier
<1>2. \A e : CancelPending(e) \/ NotifyDelta(e) => NoEarlier
  BY <1>1 DEF CancelPending, NotifyDelta
<1>3. ASSUME NEW e, NEW t \in Time, t = 0 \/ pend' = [pend EXCEPT ![e] = now + t],
             t # 0 \/ pend' = [pend EXCEPT ![e] = Delta]
      PROVE  NoEarlier
  <2>1. now + t > now \/ t = 0
    BY KernelAssumption DEF IInv, RunOk, Time
  <2> QED BY <1>1, <1>3, <2>1 DEF IInv, StoresOk, NoEarlier
<1>4. \A e, t, v : t \in Time /\ ArmTimeout(e, t, v) => NoEarlier
  BY <1>3 DEF ArmTimeout
<1>5. pend' = pend => NoEarlier
  BY DEF NoEarlier
<1>6. CASE EventOperation
  <2>1. /\ UNCHANGED <<phase, now, open, run, level>>
        /\ \E op : Calls(op)
    BY <1>6 DEF EventOperation, NotifyNow, NotifyZero, NotifyAt, CancelNotify, RequestUpdate,
                control, channels
  <2>2. NoEarlier
    <3>1. ASSUME NEW e \in UserEvent, NotifyNow(e) PROVE NoEarlier
      <4>1. Trigger(e, pend, VectorWithout(e))
        BY <3>1 DEF NotifyNow
      <4>2. \A f \in Event : pend'[f] \in {None, pend[f]}
        BY <4>1 DEF Trigger
      <4> QED BY <4>2 DEF NoEarlier
    <3>2. ASSUME NEW e \in UserEvent, NEW t \in Time \ {0}, NotifyAt(e, t) PROVE NoEarlier
      BY <1>3, <3>2 DEF NotifyAt
    <3> QED BY <1>2, <1>5, <1>6, <3>1, <3>2
            DEF EventOperation, NotifyZero, CancelNotify, RequestUpdate, stores
  <2> QED BY <2>1, <2>2, MayCall
<1>7. CASE ProcessControl
  <2>1. /\ UNCHANGED <<phase, now, open, level>>
        /\ \E op : Calls(op)
    BY <1>7 DEF ProcessControl, SuspendProcess, ResumeProcess, DisableProcess, EnableProcess,
                KillDisconnect, KillThread, ThrowIt, ResetProcess, SyncReset, Stop, Pause,
                control, channels
  <2>2. \/ run' = run
        \/ active # NoProcess /\ run' = [run EXCEPT !.paused = TRUE]
        \/ run' = [run EXCEPT !.forced = TRUE,
                              !.status = IF phase = "main" THEN "stopped" ELSE @]
    BY <1>7 DEF ProcessControl, SuspendProcess, ResumeProcess, DisableProcess, EnableProcess,
                KillDisconnect, KillThread, ThrowIt, ResetProcess, SyncReset, Stop, Pause,
                control
  <2>3. /\ run'.once = run.once /\ run'.until = run.until
        /\ phase # "main" \/ run'.forced \/ run' = run
    BY <2>2 DEF IInv, RunOk, Control
  <2>4. NoEarlier
    BY <1>2, <1>5, <1>7
       DEF ProcessControl, SuspendProcess, ResumeProcess, DisableProcess, EnableProcess,
           KillDisconnect, KillThread, ThrowIt, ResetProcess, SyncReset, Stop, Pause, stores
  <2> QED BY <2>1, <2>3, <2>4, MayCall
<1>8. CASE SetTrigger
  <2>1. UNCHANGED <<phase, now, open, run, level>> /\ active \in Method
    BY <1>8 DEF SetTrigger, NextTrigger, NextTriggerTimed, Triggers, control, channels
  <2>2. NoEarlier
    BY <1>2, <1>4, <1>8 DEF SetTrigger, NextTrigger, NextTriggerTimed
  <2> QED BY <2>1, <2>2 DEF IInv, Control
<1>9. CASE Yield
  <2>1. UNCHANGED <<phase, now, open, run, level>> /\ active \in Process
    BY <1>9, Names DEF Yield, WaitFor, WaitTimed, WaitCycles, ThreadEnd, MethodReturn, Waits,
                       control, channels
  <2>2. NoEarlier
    BY <1>2, <1>4, <1>5, <1>9
       DEF Yield, WaitFor, WaitTimed, WaitCycles, ThreadEnd, MethodReturn, stores
  <2> QED BY <2>1, <2>2, Names DEF IInv, Control
<1> QED BY <1>6, <1>7, <1>8, <1>9 DEF CallStep

(* What the observer was told, at every place of the scheduler.            *)
Intervals ==
  LET cycle == open \ {"timednotify"} IN
  /\ phase \in {"main", "crunched"} /\ ~run.forced => cycle = {}
  /\ phase \in {"main", "crunched"} /\ run.forced =>
       cycle = {} \/ cycle = {"evaluate"} \/ cycle = {"deltanotify"}
  /\ phase \in {"initupdate", "initnotify", "advance", "timed"} => cycle = {}
  /\ phase \in {"methods", "threads"} => cycle = {"evaluate"}
  /\ phase = "update" => cycle = {"update"}
  /\ phase = "notify" => cycle = {"deltanotify"}

LEMMA IntervalsStep == IInv /\ Intervals /\ [Next]_vars => Intervals'
<1> SUFFICES ASSUME IInv, Intervals, [Next]_vars PROVE Intervals'
  OBVIOUS
<1>1. CASE UNCHANGED vars
  BY <1>1 DEF vars, control, Intervals
<1>2. CASE CallStep
  <2>1. /\ phase' = phase /\ open' = open /\ phase \in {"main", "methods", "threads"}
        /\ phase # "main" \/ run'.forced \/ run' = run
    BY <1>2, Calling
  <2> QED BY <2>1 DEF Intervals
<1>3. CASE StartCall
  <2>1. \/ phase = "main" /\ phase' = "methods" /\ open' = open \cup {"evaluate"} /\ Started
        \/ phase = "main" /\ phase' = "initupdate" /\ open' = open /\ ~run.forced
        \/ UNCHANGED vars
    BY <1>3 DEF StartCall, Start, FirstStart, StartAfterStop, EvaluateBegin
  <2>2. Started /\ phase = "main" => ~run.forced
    BY DEF Started, IInv, Control
  <2> QED BY <1>1, <2>1, <2>2 DEF Intervals
<1>4. CASE Schedule
  <2>1. \/ phase' = phase /\ open' = open /\ run' = run
        \/ phase = "initupdate" /\ phase' = "initnotify" /\ open' = open
        \/ phase = "methods" /\ phase' = "threads" /\ open' = open
        \/ phase = "threads" /\ phase' = "methods" /\ open' = open \cup {"evaluate"}
        \/ phase = "threads" /\ phase' = "crunched" /\ open' = open /\ run.forced /\ run' = run
        \/ phase = "threads" /\ phase' = "update" /\ open' = (open \ {"evaluate"}) \cup {"update"}
        \/ /\ phase = "update" /\ open' = (open \ {"update"}) \cup {"deltanotify"} /\ run' = run
           /\ phase' = IF run.forced THEN "crunched" ELSE "notify"
        \/ /\ phase \in {"initnotify", "notify"} /\ run' = run
           /\ \/ phase' = "crunched" /\ open' = open \ {"deltanotify"}
              \/ phase' = "methods" /\ open' = (open \ {"deltanotify"}) \cup {"evaluate"}
        \/ phase = "crunched" /\ phase' = "advance" /\ open' = open /\ ~run.forced
        \/ phase = "crunched" /\ Return /\ open' = open
        \/ phase = "advance" /\ phase' = "timed" /\ open' = open \cup {"timednotify"}
        \/ phase = "advance" /\ Return /\ open' = open
        \/ phase = "timed" /\ phase' = "advance" /\ open' = open
        \/ phase = "timed" /\ phase' = "methods" /\ open' = (open \ {"timednotify"}) \cup {"evaluate"}
        \/ phase = "timed" /\ Return /\ open' = open \ {"timednotify"}
    BY <1>4 DEF Schedule, Initialize, RunMethod, MethodsDone, RunThread, ReturnToCaller,
                AnotherRound, AbortEvaluation, EvaluateEnd, Update, UpdateEnd, DeltaStep, DeltaDone,
                CrunchReturns, AdvanceTime, NoNextTime, TimedStep, TimedDone, ThreadsDone,
                EvaluateBegin, Aborts, SkipsNotify, Leaves, control
  <2>2. Return => phase' = "main" /\ run'.forced = run.forced
    BY DEF Return, IInv, RunOk
  <2>3. phase \in {"initnotify", "notify", "advance", "timed"} => ~run.forced
    BY DEF IInv, Control
  <2> QED BY <2>1, <2>2, <2>3 DEF Intervals
<1> QED BY <1>1, <1>2, <1>3, <1>4 DEF Next, CallStep

(* The observer is told of the parts of a delta cycle one after the other, *)
(* and the last one is closed when crunch() is left, unless it is left for *)
(* sc_stop() (post_event_callback and the returns of crunch()).            *)
THEOREM IntervalsAreNested == Spec => []IntervalsNested
<1>1. Init => Intervals
  BY DEF Init, Intervals
<1>2. Spec => []Intervals
  BY <1>1, IntervalsStep, Invariance, PTL DEF Spec
<1>3. Intervals /\ IInv => IntervalsNested
  <2> SUFFICES ASSUME Intervals, IInv PROVE IntervalsNested
    OBVIOUS
  <2> DEFINE cycle == open \ {"timednotify"}
  <2>1. \/ cycle = {} \/ cycle = {"evaluate"} \/ cycle = {"update"} \/ cycle = {"deltanotify"}
    BY DEF IInv, RunOk, Intervals
  <2>2. \/ Cardinality(cycle) = 0 \/ Cardinality(cycle) = 1
    <3>1. Cardinality({}) = 0 /\ \A x : Cardinality({x}) = 1
      BY FS_EmptySet, FS_Singleton
    <3> HIDE DEF cycle
    <3> QED BY <2>1, <3>1
  <2>3. Cardinality(cycle) <= 1
    BY <2>2
  <2> QED BY <2>3 DEF Intervals, IntervalsNested
<1> QED BY <1>2, <1>3, Invariance, PTL

(* No notification is late, the time sc_start() was given is not over, and *)
(* the time advances when nothing else is left to be done.                 *)
Timing ==
  /\ \A e \in Event : pend[e] \in Time =>
       pend[e] >= now /\ (phase # "timed" => pend[e] # now)
  /\ phase # "main" => now <= run.until /\ (run.once => run.until = now)
  /\ phase \in {"advance", "timed"} => ~run.once
  /\ phase \in {"advance", "timed"} \/ (phase = "crunched" /\ ~Leaves) =>
       \A e \in Event : pend[e] # Delta
  /\ phase = "advance" \/ (phase = "crunched" /\ ~Leaves) => Idle

(* What happens at a time that goes on adds no notification for it.        *)
LEMMA SameTime ==
    ASSUME IInv, Timing, now' = now, phase # "timed" \/ phase' = "timed" \/ TimedAt(now) = {},
           \A e \in Event : pend'[e] \in {None, Delta, pend[e]} \/ pend'[e] > now
    PROVE  \A e \in Event : pend'[e] \in Time =>
             pend'[e] >= now' /\ (phase' # "timed" => pend'[e] # now')
<1> SUFFICES ASSUME NEW e \in Event, pend'[e] \in Time
             PROVE  pend'[e] >= now' /\ (phase' # "timed" => pend'[e] # now')
  OBVIOUS
<1>1. now \in Nat /\ pend'[e] \in Nat
  BY Names DEF IInv, RunOk
<1>2. CASE pend'[e] = pend[e]
  BY <1>2 DEF Timing, TimedAt
<1>3. CASE pend'[e] > now
  BY <1>1, <1>3
<1> QED BY <1>2, <1>3, Names

(* The time sc_start() reaches when it returns.                            *)
LEMMA Returning ==
    ASSUME IInv, Timing, Return, pend' = pend,
           \/ phase = "crunched" /\ Leaves
           \/ phase = "advance" /\ NextTimes = {}
           \/ phase = "timed" /\ TimedAt(now) = {} /\ ~(now < run.until)
    PROVE  /\ Timing'
           /\ now' # now => now' > now /\ phase = "advance" /\ now' = run.until
<1>1. /\ now \in Nat /\ run.until \in Nat /\ run.until \in Time /\ phase' = "main"
      /\ run'.once = run.once
      /\ now' = IF run.toTime /\ ~run.paused /\ ~run.forced THEN run.until ELSE now
  BY Names DEF IInv, RunOk, Return
<1>2. now <= run.until /\ (run.once => run.until = now)
  BY DEF Timing
<1>3. CASE phase = "advance" /\ NextTimes = {}
  <2>1. ASSUME NEW e \in Event, pend[e] \in Time PROVE pend[e] > run.until
    <3>1. pend[e] \in Nat /\ ~(pend[e] <= run.until)
      BY <1>3, <2>1, Names DEF NextTimes, TimedAt
    <3> QED BY <1>1, <3>1
  <2>2. \A e \in Event : pend[e] \in Time => pend[e] >= now' /\ pend[e] # now'
    <3> SUFFICES ASSUME NEW e \in Event, pend[e] \in Time PROVE pend[e] >= now' /\ pend[e] # now'
      OBVIOUS
    <3>1. pend[e] > run.until /\ pend[e] \in Nat
      BY <2>1, Names
    <3> QED BY <1>1, <1>2, <3>1
  <2>3. Timing'
    BY <1>1, <2>2 DEF Timing
  <2> QED BY <1>1, <1>2, <1>3, <2>3
<1>4. CASE now' = now /\ (phase = "crunched" \/ TimedAt(now) = {})
  <2>1. \A e \in Event : pend'[e] \in Time =>
          pend'[e] >= now' /\ (phase' # "timed" => pend'[e] # now')
    BY <1>1, <1>4 DEF Timing, TimedAt
  <2> QED BY <1>1, <1>4, <2>1 DEF Timing
<1>5. phase = "crunched" /\ Leaves => now' = now
  BY <1>1, <1>2 DEF Leaves
<1>6. phase = "timed" /\ ~(now < run.until) => now' = now
  BY <1>1, <1>2
<1> QED BY <1>3, <1>4, <1>5, <1>6

LEMMA TimingStep ==
    IInv /\ Timing /\ [Next]_vars
      => /\ Timing'
         /\ now' # now => /\ now' > now /\ phase = "advance"
                          /\ \A e \in Event : pend[e] \in Time => pend[e] >= now'
<1> SUFFICES ASSUME IInv, Timing, [Next]_vars
             PROVE  /\ Timing'
                    /\ now' # now => /\ now' > now /\ phase = "advance"
                                     /\ \A e \in Event : pend[e] \in Time => pend[e] >= now'
  OBVIOUS
<1>0. now \in Nat /\ run.until \in Nat
  BY Names DEF IInv, RunOk
<1>1. CASE UNCHANGED vars
  BY <1>1 DEF vars, stores, queues, control, Timing, Leaves, Idle
<1>2. CASE CallStep
  <2>1. /\ phase' = phase /\ now' = now /\ phase \in {"main", "methods", "threads"}
        /\ run'.once = run.once /\ run'.until = run.until /\ NoEarlier
    BY <1>2, Calling
  <2>2. \A e \in Event : pend'[e] \in Time =>
          pend'[e] >= now' /\ (phase' # "timed" => pend'[e] # now')
    BY <2>1, SameTime DEF NoEarlier
  <2> QED BY <2>1, <2>2 DEF Timing
<1>3. CASE StartCall
  <2>1. ASSUME NEW d \in 0..MaxTime - now, NEW toTime \in BOOLEAN,
               Start(d, toTime) \/ FirstStart(d, toTime)
        PROVE  Timing' /\ now' = now
    <3>1. /\ phase = "main" /\ phase' \in {"methods", "initupdate"} /\ pend' = pend /\ now' = now
          /\ run'.once = (d = 0) /\ run'.until = now + d
      BY <2>1 DEF Start, FirstStart, EvaluateBegin, stores, IInv, RunOk
    <3>2. now' <= run'.until /\ (run'.once => run'.until = now')
      <4>1. d \in Nat
        BY <1>0, KernelAssumption
      <4>2. run'.once => d = 0
        BY <3>1
      <4>3. now' = now /\ run'.until = now + d
        BY <3>1
      <4> QED BY <1>0, <4>1, <4>2, <4>3
    <3>3. \A e \in Event : pend'[e] \in Time =>
            pend'[e] >= now' /\ (phase' # "timed" => pend'[e] # now')
      BY <3>1, SameTime
    <3> QED BY <3>1, <3>2, <3>3 DEF Timing
  <2>2. \A toTime \in {TRUE, MaxTime = 0} : toTime \in BOOLEAN
    OBVIOUS
  <2> QED BY <1>1, <1>3, <2>1, <2>2 DEF StartCall, StartAfterStop
<1>4. CASE Schedule
  <2>1. ASSUME /\ now' = now /\ run' = run /\ phase \in {"initupdate", "initnotify", "methods",
                                                       "threads", "update", "notify"}
               /\ phase' \in {"initnotify", "initupdate", "methods", "threads", "update", "notify"}
                  \/ (phase' = "crunched" /\ Leaves)
               /\ \A e \in Event : pend'[e] \in {None, Delta, pend[e]} \/ pend'[e] > now
        PROVE  Timing' /\ now' = now
    <3>1. \A e \in Event : pend'[e] \in Time =>
            pend'[e] >= now' /\ (phase' # "timed" => pend'[e] # now')
      BY <2>1, SameTime
    <3>2. Leaves' = Leaves
      BY <2>1 DEF Leaves
    <3> QED BY <2>1, <3>1, <3>2 DEF Timing
  <2>2. pend' = pend => \A e \in Event : pend'[e] \in {None, Delta, pend[e]} \/ pend'[e] > now
    OBVIOUS
  <2>3. CASE Initialize \/ RunMethod \/ MethodsDone \/ RunThread \/ ReturnToCaller
               \/ AnotherRound \/ AbortEvaluation \/ EvaluateEnd \/ UpdateEnd
    <3>1. /\ now' = now /\ run' = run /\ pend' = pend
          /\ phase \in {"initupdate", "methods", "threads", "update"}
          /\ phase' \in {"initnotify", "methods", "threads", "update", "notify"}
             \/ (phase' = "crunched" /\ Leaves)
      BY <2>3 DEF Initialize, RunMethod, MethodsDone, RunThread, ReturnToCaller, AnotherRound,
                  AbortEvaluation, EvaluateEnd, UpdateEnd, ThreadsDone, EvaluateBegin, Aborts,
                  SkipsNotify, Leaves, control, stores, IInv, Control
    <3> QED BY <2>1, <2>2, <3>1
  <2>4. ASSUME NEW c \in Channel, NEW changes \in BOOLEAN, Update(c, changes)
        PROVE  Timing' /\ now' = now
    <3>1. /\ now' = now /\ run' = run /\ phase' = phase /\ phase \in {"initupdate", "update"}
      BY <2>4 DEF Update, control
    <3>2. Changed(c) => \A e \in Event : pend'[e] \in {None, Delta, pend[e]}
      BY Changing DEF IInv, ChannelsOk
    <3> QED BY <2>1, <2>2, <2>4, <3>1, <3>2 DEF Update, stores
  <2>5. ASSUME DeltaStep PROVE Timing' /\ now' = now
    <3>1. /\ now' = now /\ run' = run /\ phase' = phase /\ phase \in {"initnotify", "notify"}
          /\ Trigger(delta.slot[cursor], pend, delta)
      BY <2>5 DEF DeltaStep
    <3>2. \A f \in Event : pend'[f] \in {None, pend[f]}
      BY <3>1 DEF Trigger
    <3> QED BY <2>1, <3>1, <3>2
  <2>6. ASSUME DeltaDone PROVE Timing' /\ now' = now
    <3>1. /\ phase \in {"initnotify", "notify"} /\ cursor = 0 /\ ~run.forced
          /\ pend' = pend /\ now' = now /\ run' = run /\ threads' = threads
          /\ \/ phase' = "crunched" /\ methods' = methods /\ (Idle \/ Leaves)
             \/ phase' = "methods"
      BY <2>6 DEF DeltaDone, EvaluateBegin, Leaves, IInv, Control
    <3>2. \A e \in Event : pend[e] # Delta
      <4>1. \A e \in Event : ~RemovableDelta(delta, e)
        BY <3>1, VectorParts DEF IInv, LoopOk, Within, RemovableDelta, StoresOk
      <4> QED BY <4>1 DEF IInv, StoresOk
    <3>3. CASE phase' = "methods"
      BY <2>1, <2>2, <3>1, <3>3
    <3>4. CASE phase' = "crunched" /\ methods' = methods /\ (Idle \/ Leaves)
      <4>1. \A e \in Event : pend'[e] \in Time =>
              pend'[e] >= now' /\ (phase' # "timed" => pend'[e] # now')
        BY <2>2, <3>1, SameTime
      <4>2. now' <= run'.until /\ (run'.once => run'.until = now')
        BY <3>1 DEF Timing
      <4>3. Leaves' = Leaves /\ (~Leaves => Idle')
        BY <3>1, <3>4 DEF Leaves, Idle
      <4> QED BY <3>1, <3>2, <3>4, <4>1, <4>2, <4>3 DEF Timing
    <3> QED BY <3>1, <3>3, <3>4
  <2>7. ASSUME CrunchReturns PROVE Timing' /\ now' = now
    <3>1. /\ phase = "crunched" /\ pend' = pend /\ methods' = methods /\ threads' = threads
          /\ IF Leaves THEN Return ELSE phase' = "advance" /\ now' = now /\ run' = run
      BY <2>7 DEF CrunchReturns, stores, queues
    <3>2. CASE Leaves
      BY <3>1, <3>2, Returning
    <3>3. CASE ~Leaves
      <4>1. \A e \in Event : pend'[e] \in Time =>
              pend'[e] >= now' /\ (phase' # "timed" => pend'[e] # now')
        BY <2>2, <3>1, <3>3, SameTime
      <4>2. Idle' /\ ~run.once
        BY <3>1, <3>3 DEF Timing, Idle, Leaves
      <4> QED BY <3>1, <3>3, <4>1, <4>2 DEF Timing
    <3> QED BY <3>2, <3>3
  <2>8. ASSUME AdvanceTime
        PROVE  /\ Timing' /\ (now' # now => now' > now) /\ phase = "advance"
               /\ \A e \in Event : pend[e] \in Time => pend[e] >= now'
    <3>1. /\ phase = "advance" /\ phase' = "timed" /\ pend' = pend /\ run' = run
          /\ now' \in NextTimes /\ \A u \in NextTimes : now' <= u
      BY <2>8 DEF AdvanceTime, stores
    <3>2. now' \in Time /\ now' <= run.until /\ now' \in Nat /\ now <= now'
      BY <3>1, Names DEF NextTimes, TimedAt, Timing
    <3>3. \A e \in Event : pend[e] \in Time => pend[e] >= now'
      <4> SUFFICES ASSUME NEW e \in Event, pend[e] \in Time PROVE pend[e] >= now'
        OBVIOUS
      <4>1. pend[e] \in Nat /\ (pend[e] <= run.until => pend[e] \in NextTimes)
        BY Names DEF NextTimes, TimedAt
      <4> QED BY <1>0, <3>1, <3>2, <4>1
    <3>4. ~run.once /\ \A e \in Event : pend[e] # Delta
      BY <3>1 DEF Timing
    <3> QED BY <1>0, <3>1, <3>2, <3>3, <3>4 DEF Timing
  <2>9. ASSUME NoNextTime
        PROVE  /\ Timing' /\ (now' # now => now' > now) /\ phase = "advance"
               /\ \A e \in Event : pend[e] \in Time => now' = now \/ pend[e] >= now'
    <3>1. phase = "advance" /\ NextTimes = {} /\ Return /\ pend' = pend
      BY <2>9 DEF NoNextTime, stores
    <3>2. Timing' /\ (now' # now => now' > now /\ now' = run.until)
      BY <3>1, Returning
    <3>3. ASSUME NEW e \in Event, pend[e] \in Time, now' # now PROVE pend[e] >= now'
      <4>1. pend[e] \in Nat /\ ~(pend[e] <= run.until)
        BY <3>1, <3>3, Names DEF NextTimes, TimedAt
      <4> QED BY <1>0, <3>2, <3>3, <4>1
    <3> QED BY <3>1, <3>2, <3>3
  <2>10. ASSUME TimedStep PROVE Timing' /\ now' = now
    <3>1. PICK e \in TimedAt(now) : Trigger(e, pend, delta)
      BY <2>10 DEF TimedStep
    <3>2. phase = "timed" /\ phase' = "timed" /\ now' = now /\ run' = run
      BY <2>10 DEF TimedStep, control
    <3>3. \A f \in Event : pend'[f] \in {None, pend[f]}
      BY <3>1 DEF Trigger
    <3>4. \A f \in Event : pend'[f] # Delta
      BY <3>2, <3>3, Names DEF Timing
    <3>5. \A f \in Event : pend'[f] \in Time =>
            pend'[f] >= now' /\ (phase' # "timed" => pend'[f] # now')
      BY <3>2, <3>3, SameTime
    <3> QED BY <3>2, <3>4, <3>5 DEF Timing
  <2>11. ASSUME TimedDone PROVE Timing' /\ now' = now
    <3>1. phase = "timed" /\ TimedAt(now) = {} /\ pend' = pend /\ threads' = threads
      BY <2>11 DEF TimedDone, stores
    <3>2. \/ Idle /\ phase' = "advance" /\ methods' = methods /\ now' = now /\ run' = run
          \/ phase' = "methods" /\ now' = now /\ run' = run
          \/ Return /\ ~(now < run.until)
      BY <2>11 DEF TimedDone, EvaluateBegin
    <3>3. CASE Return /\ ~(now < run.until)
      BY <3>1, <3>3, Returning
    <3>4. CASE \/ Idle /\ phase' = "advance" /\ methods' = methods /\ now' = now /\ run' = run
               \/ phase' = "methods" /\ now' = now /\ run' = run
      <4>1. \A e \in Event : pend'[e] \in Time =>
              pend'[e] >= now' /\ (phase' # "timed" => pend'[e] # now')
        BY <2>2, <3>1, <3>4, SameTime
      <4> QED BY <3>1, <3>4, <4>1 DEF Timing, Idle
    <3> QED BY <3>2, <3>3, <3>4
  <2> QED BY <1>4, <2>3, <2>4, <2>5, <2>6, <2>7, <2>8, <2>9, <2>10, <2>11
          DEF Schedule, Initialize, RunMethod, MethodsDone, RunThread, ReturnToCaller,
              AnotherRound, AbortEvaluation, EvaluateEnd, UpdateEnd, control
<1> QED BY <1>1, <1>2, <1>3, <1>4 DEF Next, CallStep

(* The simulated time only grows, and only past nothing: no process is     *)
(* runnable, no delta notification is pending and no timed one is earlier  *)
(* (simulate() and next_time(), whatever sc_start() was given).            *)
THEOREM TimeOnlyAdvances == Spec => TimeAdvances
<1>1. Init => Timing
  BY Names, KernelAssumption DEF Init, Timing, None, Time
<1>2. Spec => []Timing
  BY <1>1, TimingStep, Invariance, PTL DEF Spec
<1> DEFINE Past == now' # now =>
                     /\ now' > now
                     /\ Queued(methods) \cup Queued(threads) = {}
                     /\ \A e \in Event : pend[e] \notin {Delta} \cup 0 .. now' - 1
<1>3. IInv /\ IInv' /\ Timing /\ [Next]_vars => Past
  <2> SUFFICES ASSUME IInv, IInv', Timing, [Next]_vars, now' # now
               PROVE  /\ now' > now
                      /\ Queued(methods) \cup Queued(threads) = {}
                      /\ \A e \in Event : pend[e] \notin {Delta} \cup 0 .. now' - 1
    OBVIOUS
  <2>1. /\ now' > now /\ phase = "advance"
        /\ \A e \in Event : pend[e] \in Time => pend[e] >= now'
    BY TimingStep
  <2>2. Queued(methods) \cup Queued(threads) = {}
    BY <2>1, QueuesDef DEF Timing, Idle, IInv
  <2>3. \A e \in Event : pend[e] # Delta /\ pend[e] \in {None, Delta} \cup Time
    BY <2>1 DEF Timing, IInv, StoresOk
  <2>4. now' \in Nat
    BY Names DEF IInv, RunOk
  <2>5. ASSUME NEW t \in {None} \cup Time, t \in Time => t >= now' PROVE t \notin 0..now' - 1
    <3>1. t = -1 \/ (t \in Nat /\ t >= now')
      BY <2>5, Names DEF None
    <3> QED BY <2>4, <3>1
  <2>6. \A e \in Event : pend[e] \notin 0..now' - 1
    BY <2>1, <2>3, <2>5
  <2> QED BY <2>1, <2>2, <2>3, <2>6
<1>4. Spec => [][Past]_vars
  BY <1>2, <1>3, Invariance, PTL DEF Spec
<1> QED BY <1>4 DEF TimeAdvances

(* The updates of sc_stop() in the mode that finishes the delta cycle.     *)
Finishing ==
  /\ phase = "update" => Idle
  /\ DeltaFinished

(* In the mode SC_STOP_FINISH_DELTA a simulation that is stopped leaves no *)
(* runnable process and no update behind (do_sc_stop_action, crunch()), if *)
(* no update resets a thread at once.                                      *)
THEOREM StopFinishesDelta ==
    ASSUME StopMode = "FINISH_DELTA", \A x \in Resets : ~x.async
    PROVE  Spec => []DeltaFinished
<1>1. Init => Finishing
  BY DEF Init, Finishing, DeltaFinished
<1>2. IInv /\ Finishing /\ [Next]_vars => Finishing'
  <2> SUFFICES ASSUME IInv, Finishing, [Next]_vars PROVE Finishing'
    OBVIOUS
  <2>1. CASE UNCHANGED vars
    BY <2>1 DEF vars, queues, channels, control, Finishing, DeltaFinished, Idle
  <2>2. CASE CallStep
    BY <2>2, Calling DEF Finishing, DeltaFinished
  <2>3. CASE StartCall
    BY <2>1, <2>3 DEF StartCall, Start, FirstStart, StartAfterStop, EvaluateBegin, Finishing,
                      DeltaFinished
  <2>4. ASSUME NEW c \in Channel, NEW changes \in BOOLEAN, Update(c, changes) PROVE Finishing'
    <3>1. /\ phase' = phase /\ phase \in {"initupdate", "update"} /\ UNCHANGED methods
          /\ Changed(c) \/ threads' = threads
      BY <2>4 DEF Update, control
    <3>2. CASE Changed(c)
      <4>1. ThrownBy(c) = {}
        BY DEF ThrownBy
      <4>2. /\ threads' \in Queue(Thread) /\ Queued(threads)' = Queued(threads) \cup ThrownBy(c)
        BY <3>2, Changing DEF IInv, ChannelsOk
      <4>3. IsEmpty(threads') <=> IsEmpty(threads)
        BY <4>1, <4>2, IdleQueued DEF IInv, QueuesOk
      <4> QED BY <3>1, <4>3 DEF Finishing, DeltaFinished, Idle
    <3> QED BY <3>1, <3>2 DEF Finishing, DeltaFinished, Idle
  <2>5. CASE Schedule
    <3>1. \/ phase' \notin {"update", "crunched"}
          \/ \E c \in Channel, changes \in BOOLEAN : Update(c, changes)
          \/ phase' = "update" /\ Idle /\ UNCHANGED queues
          \/ phase' = "crunched" /\ phase = "update" /\ requests = {} /\ UNCHANGED <<queues, channels>>
          \/ phase' = "crunched" /\ ~run.forced /\ UNCHANGED run
      BY <2>5 DEF Schedule, Initialize, RunMethod, MethodsDone, RunThread, ReturnToCaller,
                AnotherRound, AbortEvaluation, EvaluateEnd, UpdateEnd, DeltaStep, DeltaDone,
                CrunchReturns, AdvanceTime, NoNextTime, TimedStep, TimedDone, ThreadsDone,
                EvaluateBegin, Aborts, SkipsNotify, control, Return, IInv, Control, Scheduling
    <3> QED BY <2>4, <3>1 DEF Finishing, DeltaFinished, Idle, queues, channels
  <2> QED BY <2>1, <2>2, <2>3, <2>5 DEF Next, CallStep
<1>3. Spec => []Finishing
  BY <1>1, <1>2, Invariance, PTL DEF Spec
<1> QED BY <1>3, PTL DEF Finishing
===============================================================================
