-------------------------- MODULE RunQueueLinksProofs --------------------------
(***************************************************************************)
(* The links of a run queue, proved for any finite set of processes: every *)
(* operation leaves two lists that are sound, and that are those the       *)
(* operation on sequences of RunQueueSpec leaves.                          *)
(***************************************************************************)
EXTENDS RunQueueLinks, FiniteSetTheorems, SequenceTheorems, WellFoundedInduction, TLAPS

(* What the link of the process before position i holds.                   *)
LinkAt(s, i) == IF i \in 1 .. Len(s) THEN s[i] ELSE End

(* The processes of s are linked in their order from start on.             *)
Chain(link, start, s) ==
  /\ start = LinkAt(s, 1)
  /\ \A i \in 1 .. Len(s) : link[s[i]] = LinkAt(s, i + 1)

(* The two queues are the lists s and t, without a process in common.      *)
Lists(s, t) ==
  /\ s \in Seq(Process) /\ t \in Seq(Process)
  /\ IsInjective(s) /\ IsInjective(t)
  /\ \A i \in 1 .. Len(s), j \in 1 .. Len(t) : s[i] # t[j]
  /\ Chain(next, next[PushHead], s)
  /\ Chain(next, popHead, t)
  /\ tail = IF s = <<>> THEN PushHead ELSE s[Len(s)]

(* TailIsLast and LinkedOnce speak of the traversals; that these meet the  *)
(* processes of two lists whose ends are known is what is inductive.       *)
IInv == TypeOK /\ \E s, t : Lists(s, t)

-------------------------------------------------------------------------------
LEMMA Pointers ==
  /\ PushHead # End /\ PushHead # Null /\ End # Null
  /\ PushHead \notin Process /\ End \notin Process /\ Null \notin Process
  /\ NoProc \notin Process
  /\ IsFiniteSet(Process)
<1>1. ASSUME NEW x, NEW y PROVE Cardinality({x, y}) # 3
  <2>1. IsFiniteSet({x}) /\ Cardinality({x}) = 1
    BY FS_Singleton
  <2>2. Cardinality({x} \cup {y}) # 3
    BY <2>1, FS_AddElement
  <2>3. {x} \cup {y} = {x, y}
    OBVIOUS
  <2> QED  BY <2>2, <2>3
<1>2. PushHead # End
  <2>1. PushHead = End => {PushHead, End, Null} = {End, Null}
    OBVIOUS
  <2>2. Cardinality({End, Null}) # 3
    BY <1>1
  <2> QED  BY <2>1, <2>2, LinksAssumption
<1>3. PushHead # Null
  <2>1. PushHead = Null => {PushHead, End, Null} = {End, Null}
    OBVIOUS
  <2>2. Cardinality({End, Null}) # 3
    BY <1>1
  <2> QED  BY <2>1, <2>2, LinksAssumption
<1>4. End # Null
  <2>1. End = Null => {PushHead, End, Null} = {PushHead, Null}
    OBVIOUS
  <2>2. Cardinality({PushHead, Null}) # 3
    BY <1>1
  <2> QED  BY <2>1, <2>2, LinksAssumption
<1> QED  BY <1>2, <1>3, <1>4, LinksAssumption

(* What holds of 0 and passes on to the next number holds of all: the set  *)
(* of the numbers where it fails would have a least element.               *)
LEMMA Upwards ==
  ASSUME NEW S, 0 \in S, \A n \in Nat : n \in S => n + 1 \in S
  PROVE  Nat \subseteq S
<1> SUFFICES ASSUME Nat \ S # {} PROVE FALSE
  OBVIOUS
<1>1. \E x \in Nat \ S : \A y \in Nat \ S : ~(<<y, x>> \in OpToRel(<, Nat))
  BY NatLessThanWellFounded, WFMin
<1>2. PICK x \in Nat \ S : \A y \in Nat \ S : ~(y < x)
  BY <1>1 DEF OpToRel
<1>3. x - 1 \in Nat /\ x - 1 < x /\ (x - 1) + 1 = x
  BY <1>2
<1> QED  BY <1>2, <1>3

-------------------------------------------------------------------------------
(* Traversals *)

(* After k links of a chain the traversal is at the process k + 1, or has  *)
(* met the sentinel.                                                       *)
LEMMA FollowChain ==
  ASSUME NEW s \in Seq(Process), NEW start, Chain(next, start, s), NEW k \in Nat
  PROVE  Follow(start, k) = LinkAt(s, k + 1)
<1> DEFINE Along(g) ==
             g = [i \in 0 .. k |->
                    IF i = 0 THEN start
                    ELSE IF g[i - 1] \in Process THEN next[g[i - 1]] ELSE g[i - 1]]
           a == [i \in 0 .. k |-> LinkAt(s, i + 1)]
<1>0. Len(s) \in Nat /\ \A i \in 1 .. Len(s) : s[i] \in Process
  OBVIOUS
<1>1. ASSUME NEW i \in 1 .. k
      PROVE  LinkAt(s, i + 1) =
               IF LinkAt(s, i) \in Process THEN next[LinkAt(s, i)] ELSE LinkAt(s, i)
  <2>1. CASE i \in 1 .. Len(s)
    <3>1. LinkAt(s, i) = s[i] /\ s[i] \in Process
      BY <1>0, <2>1 DEF LinkAt
    <3> QED  BY <2>1, <3>1 DEF Chain
  <2>2. CASE i \notin 1 .. Len(s)
    <3>1. i + 1 \notin 1 .. Len(s)
      BY <1>0, <2>2
    <3> QED  BY <2>2, <3>1, Pointers DEF LinkAt
  <2> QED  BY <2>1, <2>2
<1>2. Along(a)
  <2>1. ASSUME NEW i \in 1 .. k PROVE i - 1 \in 0 .. k /\ (i - 1) + 1 = i
    OBVIOUS
  <2>2. \A i \in 1 .. k : a[i - 1] = LinkAt(s, i)
    BY <2>1
  <2>3. start = LinkAt(s, 0 + 1)
    BY DEF Chain
  <2>4. \A i \in 0 .. k : i # 0 => i \in 1 .. k
    OBVIOUS
  <2> QED  BY <1>1, <2>2, <2>3, <2>4
<1>3. PICK at : Along(at) /\ Follow(start, k) = at[k]
  BY <1>2, Zenon DEF Follow
<1>4. ASSUME NEW i \in 0 .. k, i # 0
      PROVE  at[i] = IF at[i - 1] \in Process THEN next[at[i - 1]] ELSE at[i - 1]
  BY <1>3, <1>4
<1>5. at[0] = start
  BY <1>3
<1> HIDE DEF Along
<1> DEFINE S == {i \in Nat : i <= k => at[i] = LinkAt(s, i + 1)}
<1>6. 0 \in S
  BY <1>5 DEF Chain
<1>7. ASSUME NEW n \in Nat, n \in S PROVE n + 1 \in S
  <2> SUFFICES ASSUME n + 1 <= k PROVE at[n + 1] = LinkAt(s, (n + 1) + 1)
    OBVIOUS
  <2>1. n + 1 \in 0 .. k /\ n + 1 # 0 /\ (n + 1) - 1 = n /\ n <= k /\ n + 1 \in 1 .. k
    OBVIOUS
  <2>2. at[n] = LinkAt(s, n + 1)
    BY <1>7, <2>1
  <2>3. at[n + 1] = IF at[n] \in Process THEN next[at[n]] ELSE at[n]
    BY <1>4, <2>1
  <2> QED  BY <1>1, <2>1, <2>2, <2>3
<1>8. Nat \subseteq S
  <2> HIDE DEF S
  <2> QED  BY <1>6, <1>7, Upwards
<1> QED  BY <1>3, <1>8

(* A traversal meets the processes of the chain, in their order, and stops *)
(* at the sentinel.                                                        *)
LEMMA WalkChain ==
  \A s, start :
    s \in Seq(Process) /\ IsInjective(s) /\ Chain(next, start, s) => Walk(start) = s
<1> SUFFICES ASSUME NEW s \in Seq(Process), NEW start, IsInjective(s), Chain(next, start, s)
             PROVE  Walk(start) = s
  OBVIOUS
<1> DEFINE K == {k \in 0 .. Cardinality(Process) :
                   \A i \in 0 .. k : Follow(start, i) \in Process}
<1>0. Len(s) \in Nat /\ s \in [1 .. Len(s) -> Process] /\ DOMAIN s = 1 .. Len(s)
  OBVIOUS
<1>1. Cardinality(1 .. Len(s)) = Len(s)
  BY <1>0, FS_Interval
<1>2. s \in Injection(1 .. Len(s), Process)
  BY <1>0 DEF IsInjective, Injection
<1>3. Cardinality(Process) \in Nat /\ Len(s) <= Cardinality(Process)
  BY <1>1, <1>2, Pointers, FS_Injection, FS_CardinalityType
<1>4. \A k \in Nat : Follow(start, k) = LinkAt(s, k + 1)
  BY FollowChain
<1>5. \A k \in Nat : Follow(start, k) \in Process <=> k < Len(s)
  <2> SUFFICES ASSUME NEW k \in Nat PROVE LinkAt(s, k + 1) \in Process <=> k < Len(s)
    BY <1>4
  <2>1. k + 1 \in 1 .. Len(s) <=> k < Len(s)
    BY <1>0
  <2> QED  BY <1>0, <2>1, Pointers DEF LinkAt
<1>6. K = 0 .. Len(s) - 1
  <2>1. \A k \in 0 .. Cardinality(Process) :
          (\A i \in 0 .. k : Follow(start, i) \in Process) <=> k < Len(s)
    BY <1>0, <1>5
  <2> QED  BY <1>0, <1>3, <2>1
<1>7. Cardinality(K) = Len(s)
  <2>1. 0 \in Int /\ Len(s) - 1 \in Int /\ (0 > Len(s) - 1 <=> Len(s) = 0)
    BY <1>0
  <2>2. Cardinality(0 .. Len(s) - 1) = Len(s)
    BY <1>0, <2>1, FS_Interval
  <2> QED  BY <1>6, <2>2
<1>8. Walk(start) = [i \in 1 .. Len(s) |-> Follow(start, i - 1)]
  BY <1>7 DEF Walk
<1>9. \A i \in 1 .. Len(s) : Follow(start, i - 1) = s[i]
  <2> SUFFICES ASSUME NEW i \in 1 .. Len(s) PROVE Follow(start, i - 1) = s[i]
    OBVIOUS
  <2>1. i - 1 \in Nat /\ (i - 1) + 1 = i
    BY <1>0
  <2> QED  BY <1>4, <2>1 DEF LinkAt
<1> QED  BY <1>0, <1>8, <1>9

(* The traversals of two lists.                                            *)
LEMMA Traversals ==
  \A s, t : Lists(s, t) => PushList = s /\ PopList = t
BY WalkChain DEF Lists, PushList, PopList

LEMMA TraversalsNext ==
  (\A s, t : Lists(s, t) => PushList = s /\ PopList = t)'
BY Traversals, PTL

-------------------------------------------------------------------------------
(* Lists of processes *)

(* A process is put behind a list, or in front of it.                      *)
LEMMA AddedTo ==
  ASSUME NEW s \in Seq(Process), NEW p \in Process
  PROVE  /\ Append(s, p) \in Seq(Process) /\ Len(Append(s, p)) = Len(s) + 1
         /\ \A i \in 1 .. Len(s) : Append(s, p)[i] = s[i]
         /\ Append(s, p)[Len(s) + 1] = p
         /\ <<p>> \o s \in Seq(Process) /\ Len(<<p>> \o s) = Len(s) + 1
         /\ (<<p>> \o s)[1] = p
         /\ \A i \in 1 .. Len(s) : (<<p>> \o s)[i + 1] = s[i]
<1>1. Len(s) \in Nat /\ <<p>> \in Seq(Process) /\ Len(<<p>>) = 1 /\ <<p>>[1] = p
  OBVIOUS
<1>2. <<p>> \o s \in Seq(Process) /\ Len(<<p>> \o s) = Len(s) + 1
  BY <1>1, ConcatProperties
<1>3. \A i \in 1 .. Len(s) + 1 : (<<p>> \o s)[i] = IF i <= 1 THEN <<p>>[i] ELSE s[i - 1]
  BY <1>1, ConcatProperties
<1>4. \A i \in 1 .. Len(s) : (<<p>> \o s)[i + 1] = s[i]
  BY <1>1, <1>3
<1> QED  BY <1>1, <1>2, <1>3, <1>4, AppendProperties

LEMMA AddedInjective ==
  ASSUME NEW s \in Seq(Process), IsInjective(s),
         NEW p \in Process, \A i \in 1 .. Len(s) : s[i] # p
  PROVE  IsInjective(Append(s, p)) /\ IsInjective(<<p>> \o s)
<1> DEFINE a == Append(s, p)
           f == <<p>> \o s
<1>1. /\ a \in Seq(Process) /\ Len(a) = Len(s) + 1
      /\ \A i \in 1 .. Len(s) : a[i] = s[i]
      /\ a[Len(s) + 1] = p
      /\ f \in Seq(Process) /\ Len(f) = Len(s) + 1
      /\ f[1] = p
      /\ \A i \in 1 .. Len(s) : f[i + 1] = s[i]
  BY AddedTo
<1> HIDE DEF a, f
<1>2. /\ Len(s) \in Nat /\ DOMAIN s = 1 .. Len(s)
      /\ DOMAIN a = 1 .. Len(s) + 1 /\ DOMAIN f = 1 .. Len(s) + 1
  BY <1>1
<1>3. \A i, j \in 1 .. Len(s) : s[i] = s[j] => i = j
  BY <1>2 DEF IsInjective
<1>4. ASSUME NEW i \in 1 .. Len(s) + 1, NEW j \in 1 .. Len(s) + 1, a[i] = a[j] PROVE i = j
  <2>1. i \in 1 .. Len(s) \/ i = Len(s) + 1
    BY <1>2
  <2>2. j \in 1 .. Len(s) \/ j = Len(s) + 1
    BY <1>2
  <2> QED  BY <1>1, <1>3, <1>4, <2>1, <2>2
<1>5. ASSUME NEW i \in 1 .. Len(s) + 1, NEW j \in 1 .. Len(s) + 1, f[i] = f[j] PROVE i = j
  <2>1. i = 1 \/ (i - 1 \in 1 .. Len(s) /\ f[i] = s[i - 1])
    BY <1>1, <1>2
  <2>2. j = 1 \/ (j - 1 \in 1 .. Len(s) /\ f[j] = s[j - 1])
    BY <1>1, <1>2
  <2>3. i - 1 = j - 1 => i = j
    OBVIOUS
  <2> QED  BY <1>1, <1>3, <1>5, <2>1, <2>2, <2>3
<1> QED  BY <1>2, <1>4, <1>5 DEF IsInjective, a, f

(* The process at position i is taken out of a list.                       *)
LEMMA TakenOut ==
  ASSUME NEW s \in Seq(Process), NEW i \in 1 .. Len(s)
  PROVE  /\ RemoveAt(s, i) \in Seq(Process)
         /\ Len(RemoveAt(s, i)) = Len(s) - 1
         /\ \A j \in 1 .. Len(s) - 1 : RemoveAt(s, i)[j] = IF j < i THEN s[j] ELSE s[j + 1]
<1> DEFINE a == SubSeq(s, 1, i - 1)
           b == SubSeq(s, i + 1, Len(s))
<1>1. /\ a \in Seq(Process) /\ Len(a) = i - 1 /\ \A j \in 1 .. i - 1 : a[j] = s[j]
  BY SubSeqProperties
<1>2. /\ b \in Seq(Process) /\ Len(b) = Len(s) - i /\ \A j \in 1 .. Len(s) - i : b[j] = s[i + j]
  BY SubSeqProperties
<1>3. RemoveAt(s, i) = a \o b
  BY DEF RemoveAt
<1> HIDE DEF a, b
<1>4. /\ a \o b \in Seq(Process) /\ Len(a \o b) = Len(a) + Len(b)
      /\ \A j \in 1 .. Len(a) + Len(b) :
           (a \o b)[j] = IF j <= Len(a) THEN a[j] ELSE b[j - Len(a)]
  BY <1>1, <1>2, ConcatProperties
<1>5. (i - 1) + (Len(s) - i) = Len(s) - 1
  OBVIOUS
<1>6. ASSUME NEW j \in 1 .. Len(s) - 1 PROVE (a \o b)[j] = IF j < i THEN s[j] ELSE s[j + 1]
  <2>1. (a \o b)[j] = IF j <= i - 1 THEN a[j] ELSE b[j - (i - 1)]
    BY <1>1, <1>2, <1>4, <1>5
  <2>2. CASE j < i
    BY <1>1, <2>1, <2>2
  <2>3. CASE ~(j < i)
    <3>1. /\ j - (i - 1) \in 1 .. Len(s) - i /\ i + (j - (i - 1)) = j + 1
          /\ ~(j <= i - 1)
      BY <2>3
    <3>2. (a \o b)[j] = b[j - (i - 1)]
      BY <2>1, <3>1
    <3>3. b[j - (i - 1)] = s[j + 1]
      BY <1>2, <3>1
    <3> QED  BY <2>3, <3>2, <3>3
  <2> QED  BY <2>2, <2>3
<1> QED  BY <1>1, <1>2, <1>3, <1>4, <1>5, <1>6

LEMMA TakenOutInjective ==
  ASSUME NEW s \in Seq(Process), IsInjective(s), NEW i \in 1 .. Len(s)
  PROVE  /\ IsInjective(RemoveAt(s, i))
         /\ \A j \in 1 .. Len(RemoveAt(s, i)) : \E k \in 1 .. Len(s) : RemoveAt(s, i)[j] = s[k]
         /\ RemoveFirst(s, s[i]) = RemoveAt(s, i)
<1> DEFINE r == RemoveAt(s, i)
<1>1. /\ r \in Seq(Process) /\ Len(r) = Len(s) - 1
      /\ \A j \in 1 .. Len(s) - 1 : r[j] = IF j < i THEN s[j] ELSE s[j + 1]
  BY TakenOut
<1>2. /\ Len(s) \in Nat /\ DOMAIN s = 1 .. Len(s)
      /\ \A j, k \in 1 .. Len(s) : s[j] = s[k] => j = k
  BY DEF IsInjective
<1>3. RemoveFirst(s, s[i]) = r
  <2> DEFINE I == {j \in 1 .. Len(s) : s[j] = s[i]}
  <2>1. I = {i}
    BY <1>2
  <2>2. SelectInSeq(s, LAMBDA v : v = s[i]) = i
    BY <2>1 DEF SelectInSeq, Min
  <2> QED  BY <2>2 DEF RemoveFirst
<1> HIDE DEF r
<1>4. ASSUME NEW j \in 1 .. Len(s) - 1
      PROVE  \E k \in 1 .. Len(s) : r[j] = s[k] /\ k = IF j < i THEN j ELSE j + 1
  <2>1. j \in 1 .. Len(s) /\ j + 1 \in 1 .. Len(s)
    BY <1>2
  <2> QED  BY <1>1, <2>1
<1>5. ASSUME NEW j \in 1 .. Len(s) - 1, NEW l \in 1 .. Len(s) - 1, r[j] = r[l] PROVE j = l
  <2>1. PICK m \in 1 .. Len(s) : r[j] = s[m] /\ m = IF j < i THEN j ELSE j + 1
    BY <1>4
  <2>2. PICK n \in 1 .. Len(s) : r[l] = s[n] /\ n = IF l < i THEN l ELSE l + 1
    BY <1>4
  <2>3. m = n
    BY <1>2, <1>5, <2>1, <2>2
  <2> QED  BY <2>1, <2>2, <2>3
<1>6. DOMAIN r = 1 .. Len(s) - 1
  BY <1>1
<1> QED  BY <1>1, <1>3, <1>4, <1>5, <1>6 DEF IsInjective, r

-------------------------------------------------------------------------------
(* Chains of links *)

(* A chain whose links are kept is a chain still.                          *)
LEMMA ChainKept ==
  ASSUME NEW link, NEW new, NEW start, NEW s, Chain(link, start, s),
         \A i \in 1 .. Len(s) : new[s[i]] = link[s[i]]
  PROVE  Chain(new, start, s)
BY DEF Chain

LEMMA ChainEmpty ==
  ASSUME NEW link, NEW start
  PROVE  Chain(link, start, <<>>) <=> start = End
BY DEF Chain, LinkAt

(* p is linked behind the last process, or behind the dummy head.          *)
LEMMA ChainAppended ==
  ASSUME NEW s \in Seq(Process), NEW p \in Process,
         NEW link, NEW start, Chain(link, start, s), NEW new, NEW first,
         new[p] = End,
         IF s = <<>> THEN first = p ELSE first = start /\ new[s[Len(s)]] = p,
         \A i \in 1 .. Len(s) - 1 : new[s[i]] = link[s[i]]
  PROVE  Chain(new, first, Append(s, p))
<1> DEFINE a == Append(s, p)
           n == Len(s)
<1>1. /\ a \in Seq(Process) /\ Len(a) = n + 1
      /\ \A i \in 1 .. n : a[i] = s[i]
      /\ a[n + 1] = p
  BY AddedTo
<1> HIDE DEF a
<1>2. n \in Nat /\ (s = <<>> <=> n = 0)
  BY EmptySeq
<1>3. first = LinkAt(a, 1)
  <2>1. 1 \in 1 .. n + 1 /\ LinkAt(a, 1) = a[1]
    BY <1>1, <1>2 DEF LinkAt
  <2>2. CASE n = 0
    BY <1>1, <1>2, <2>1, <2>2
  <2>3. CASE n # 0
    <3>1. 1 \in 1 .. n /\ start = s[1] /\ first = start
      BY <1>2, <2>3 DEF Chain, LinkAt
    <3> QED  BY <1>1, <2>1, <3>1
  <2> QED  BY <2>2, <2>3
<1>4. ASSUME NEW i \in 1 .. n + 1 PROVE new[a[i]] = LinkAt(a, i + 1)
  <2>1. CASE i = n + 1
    <3>1. i + 1 \notin 1 .. n + 1
      BY <1>2, <2>1
    <3> QED  BY <1>1, <2>1, <3>1 DEF LinkAt
  <2>2. CASE i = n
    <3>1. n # 0 /\ i + 1 \in 1 .. n + 1 /\ i \in 1 .. n
      BY <1>2, <2>2
    <3> QED  BY <1>1, <1>2, <2>2, <3>1 DEF LinkAt
  <2>3. CASE i < n
    <3>1. i \in 1 .. n - 1 /\ i \in 1 .. n /\ i + 1 \in 1 .. n /\ i + 1 \in 1 .. n + 1
      BY <1>2, <2>3
    <3>2. new[s[i]] = s[i + 1]
      BY <3>1 DEF Chain, LinkAt
    <3> QED  BY <1>1, <3>1, <3>2 DEF LinkAt
  <2> QED  BY <1>2, <2>1, <2>2, <2>3
<1> QED  BY <1>1, <1>3, <1>4 DEF Chain, a

(* p is linked before the first process.                                   *)
LEMMA ChainPrepended ==
  ASSUME NEW s \in Seq(Process), NEW p \in Process,
         NEW link, NEW start, Chain(link, start, s), NEW new,
         new[p] = start,
         \A i \in 1 .. Len(s) : new[s[i]] = link[s[i]]
  PROVE  Chain(new, p, <<p>> \o s)
<1> DEFINE f == <<p>> \o s
           n == Len(s)
<1>1. /\ f \in Seq(Process) /\ Len(f) = n + 1
      /\ f[1] = p
      /\ \A i \in 1 .. n : f[i + 1] = s[i]
  BY AddedTo
<1> HIDE DEF f
<1>2. n \in Nat
  OBVIOUS
<1>3. p = LinkAt(f, 1)
  BY <1>1, <1>2 DEF LinkAt
<1>4. \A i \in 1 .. n + 1 : LinkAt(f, i + 1) = LinkAt(s, i)
  <2> SUFFICES ASSUME NEW i \in 1 .. n + 1 PROVE LinkAt(f, i + 1) = LinkAt(s, i)
    OBVIOUS
  <2>1. i + 1 \in 1 .. n + 1 <=> i \in 1 .. n
    BY <1>2
  <2> QED  BY <1>1, <2>1 DEF LinkAt
<1>5. ASSUME NEW i \in 1 .. n + 1 PROVE new[f[i]] = LinkAt(f, i + 1)
  <2>1. CASE i = 1
    BY <1>1, <1>4, <2>1 DEF Chain
  <2>2. CASE i # 1
    <3>1. i - 1 \in 1 .. n /\ (i - 1) + 1 = i
      BY <1>2, <2>2
    <3>2. f[i] = s[i - 1]
      BY <1>1, <3>1
    <3>3. new[s[i - 1]] = LinkAt(s, i)
      BY <3>1 DEF Chain
    <3> QED  BY <1>4, <3>2, <3>3
  <2> QED  BY <2>1, <2>2
<1> QED  BY <1>1, <1>3, <1>5 DEF Chain, f

(* The link of the process at position i goes to the one before it, or to  *)
(* the start of the list.                                                  *)
LEMMA ChainUnlinked ==
  ASSUME NEW s \in Seq(Process), NEW i \in 1 .. Len(s),
         NEW link, NEW start, Chain(link, start, s), NEW new, NEW first,
         IF i = 1 THEN first = link[s[1]] ELSE first = start /\ new[s[i - 1]] = link[s[i]],
         \A j \in 1 .. Len(s) : j # i /\ j # i - 1 => new[s[j]] = link[s[j]]
  PROVE  Chain(new, first, RemoveAt(s, i))
<1> DEFINE r == RemoveAt(s, i)
           n == Len(s)
<1>1. /\ r \in Seq(Process) /\ Len(r) = n - 1
      /\ \A j \in 1 .. n - 1 : r[j] = IF j < i THEN s[j] ELSE s[j + 1]
  BY TakenOut
<1> HIDE DEF r
<1>2. n \in Nat /\ i \in 1 .. n
  OBVIOUS
<1>3. \A j \in 1 .. n : LinkAt(r, j) = IF j < i THEN LinkAt(s, j) ELSE LinkAt(s, j + 1)
  <2> SUFFICES ASSUME NEW j \in 1 .. n
               PROVE  LinkAt(r, j) = IF j < i THEN LinkAt(s, j) ELSE LinkAt(s, j + 1)
    OBVIOUS
  <2>1. j < i => j \in 1 .. n - 1
    BY <1>2
  <2>2. j \in 1 .. n - 1 <=> j + 1 \in 1 .. n
    BY <1>2
  <2> QED  BY <1>1, <2>1, <2>2 DEF LinkAt
<1>4. first = LinkAt(r, 1)
  <2>1. 1 \in 1 .. n
    BY <1>2
  <2>2. CASE i = 1
    BY <1>3, <2>1, <2>2 DEF Chain
  <2>3. CASE i # 1
    <3>1. first = LinkAt(s, 1)
      BY <2>3 DEF Chain
    <3>2. 1 < i
      BY <1>2, <2>3
    <3> QED  BY <1>3, <2>1, <3>1, <3>2
  <2> QED  BY <2>2, <2>3
<1>5. ASSUME NEW j \in 1 .. n - 1 PROVE new[r[j]] = LinkAt(r, j + 1)
  <2>0. j \in 1 .. n /\ j + 1 \in 1 .. n
    BY <1>2
  <2>1. CASE j < i - 1
    <3>0. j < i /\ j # i /\ j # i - 1 /\ j + 1 < i
      BY <1>2, <2>0, <2>1
    <3>1. r[j] = s[j] /\ j # i /\ j # i - 1 /\ j + 1 < i
      BY <1>1, <3>0
    <3>2. new[s[j]] = LinkAt(s, j + 1)
      BY <2>0, <3>1 DEF Chain
    <3> QED  BY <1>3, <2>0, <3>1, <3>2
  <2>2. CASE j = i - 1
    <3>1. r[j] = s[j] /\ i # 1 /\ j + 1 = i /\ ~(j + 1 < i)
      BY <1>1, <2>2
    <3>2. new[s[j]] = LinkAt(s, i + 1)
      BY <2>2, <3>1 DEF Chain
    <3> QED  BY <1>3, <2>0, <3>1, <3>2
  <2>3. CASE j >= i
    <3>1. r[j] = s[j + 1] /\ j + 1 # i /\ j + 1 # i - 1 /\ ~(j + 1 < i)
      BY <1>1, <2>3
    <3>2. new[s[j + 1]] = LinkAt(s, (j + 1) + 1)
      BY <2>0, <3>1 DEF Chain
    <3> QED  BY <1>3, <2>0, <3>1, <3>2
  <2> QED  BY <1>2, <2>1, <2>2, <2>3
<1> QED  BY <1>1, <1>4, <1>5 DEF Chain, r

-------------------------------------------------------------------------------
(* The operations *)

LEMMA ListFacts ==
  ASSUME NEW s, NEW t, Lists(s, t)
  PROVE  /\ s \in Seq(Process) /\ Len(s) \in Nat /\ (s = <<>> <=> Len(s) = 0)
         /\ t \in Seq(Process) /\ Len(t) \in Nat /\ (t = <<>> <=> Len(t) = 0)
         /\ \A i \in 1 .. Len(s) : s[i] \in Process /\ s[i] # PushHead /\ Runnable(s[i])
         /\ \A i \in 1 .. Len(t) : t[i] \in Process /\ t[i] # PushHead /\ Runnable(t[i])
         /\ \A i, j \in 1 .. Len(s) : s[i] = s[j] => i = j
         /\ \A i, j \in 1 .. Len(t) : t[i] = t[j] => i = j
         /\ \A i \in 1 .. Len(s), j \in 1 .. Len(t) : s[i] # t[j]
         /\ IF s = <<>> THEN tail = PushHead ELSE Len(s) \in 1 .. Len(s) /\ tail = s[Len(s)]
<1>1. s \in Seq(Process) /\ Len(s) \in Nat /\ (s = <<>> <=> Len(s) = 0) /\ DOMAIN s = 1 .. Len(s)
  BY EmptySeq DEF Lists
<1>2. t \in Seq(Process) /\ Len(t) \in Nat /\ (t = <<>> <=> Len(t) = 0) /\ DOMAIN t = 1 .. Len(t)
  BY EmptySeq DEF Lists
<1>3. /\ \A i \in 1 .. Len(s) : s[i] \in Process /\ s[i] # PushHead
      /\ \A i \in 1 .. Len(t) : t[i] \in Process /\ t[i] # PushHead
  BY <1>1, <1>2, Pointers
<1>4. ASSUME NEW i \in 1 .. Len(s) PROVE Runnable(s[i])
  BY <1>3, Pointers DEF Lists, Chain, LinkAt, Runnable
<1>5. ASSUME NEW i \in 1 .. Len(t) PROVE Runnable(t[i])
  BY <1>3, Pointers DEF Lists, Chain, LinkAt, Runnable
<1>6. \A i, j \in 1 .. Len(s) : s[i] = s[j] => i = j
  BY <1>1 DEF Lists, IsInjective
<1>7. \A i, j \in 1 .. Len(t) : t[i] = t[j] => i = j
  BY <1>2 DEF Lists, IsInjective
<1>8. /\ \A i \in 1 .. Len(s), j \in 1 .. Len(t) : s[i] # t[j]
      /\ IF s = <<>> THEN tail = PushHead ELSE Len(s) \in 1 .. Len(s) /\ tail = s[Len(s)]
  BY <1>1 DEF Lists
<1> QED  BY <1>1, <1>2, <1>3, <1>4, <1>5, <1>6, <1>7, <1>8

(* push_back_method/push_back_thread.                                      *)
LEMMA PushBackLists ==
  ASSUME TypeOK, NEW s, NEW t, Lists(s, t), NEW p \in Process, PushBackLink(p)
  PROVE  TypeOK' /\ Lists(Append(s, p), t)'
<1> USE ListFacts
<1>1. /\ \A i \in 1 .. Len(s) : s[i] # p
      /\ \A i \in 1 .. Len(t) : t[i] # p
  BY DEF PushBackLink
<1>2. /\ next \in [Process \cup {PushHead} -> Process \cup {End, Null}]
      /\ tail \in Process \cup {PushHead} /\ tail # p
      /\ next' = [next EXCEPT ![p] = End, ![tail] = p]
      /\ tail' = p /\ popHead' = popHead
  BY <1>1, Pointers DEF TypeOK, PushBackLink
<1>3. next'[p] = End /\ next'[tail] = p /\ \A x \in Process \cup {PushHead} :
        x # p /\ x # tail => next'[x] = next[x]
  BY <1>2
<1>4. TypeOK'
  BY <1>2, Pointers DEF TypeOK, PushBackLink
<1>5. Chain(next', next'[PushHead], Append(s, p))
  <2>1. IF s = <<>> THEN next'[PushHead] = p
        ELSE next'[PushHead] = next[PushHead] /\ next'[s[Len(s)]] = p
    BY <1>2, <1>3, Pointers
  <2>2. ASSUME NEW i \in 1 .. Len(s) - 1 PROVE next'[s[i]] = next[s[i]]
    <3>1. i \in 1 .. Len(s) /\ i # Len(s) /\ s # <<>>
      OBVIOUS
    <3>2. s[i] # tail /\ s[i] # p /\ s[i] \in Process
      BY <1>1, <3>1
    <3> QED  BY <1>3, <3>2
  <2>3. Chain(next, next[PushHead], s)
    BY DEF Lists
  <2>4. PICK start : start = next[PushHead]
    OBVIOUS
  <2>5. PICK first : first = next'[PushHead]
    OBVIOUS
  <2>6. PICK link : link = next
    OBVIOUS
  <2>7. PICK new : new = next'
    OBVIOUS
  <2>8. Chain(new, first, Append(s, p))
    <3>1. Chain(link, start, s)
      BY <2>3, <2>4, <2>6
    <3>2. new[p] = End
      BY <1>3, <2>7
    <3>3. IF s = <<>> THEN first = p ELSE first = start /\ new[s[Len(s)]] = p
      BY <2>1, <2>4, <2>5, <2>7
    <3>4. \A i \in 1 .. Len(s) - 1 : new[s[i]] = link[s[i]]
      BY <2>2, <2>6, <2>7
    <3>5. s \in Seq(Process)
      BY DEF Lists
    <3> QED  BY <3>1, <3>2, <3>3, <3>4, <3>5, ChainAppended
  <2> QED  BY <2>5, <2>7, <2>8
<1>6. Chain(next', popHead', t)
  <2>1. \A i \in 1 .. Len(t) : t[i] # tail /\ t[i] # p /\ t[i] \in Process
    BY <1>1
  <2>2. \A i \in 1 .. Len(t) : next'[t[i]] = next[t[i]]
    BY <1>3, <2>1
  <2>3. Chain(next, popHead, t) /\ t \in Seq(Process)
    BY DEF Lists
  <2>4. Chain(next', popHead, t)
    BY <2>2, <2>3, ChainKept
  <2> QED  BY <1>2, <2>4
<1>7. /\ Append(s, p) \in Seq(Process) /\ Len(Append(s, p)) = Len(s) + 1
      /\ \A i \in 1 .. Len(s) : Append(s, p)[i] = s[i]
      /\ Append(s, p)[Len(s) + 1] = p
  BY AddedTo
<1>8. \A i \in 1 .. Len(Append(s, p)), j \in 1 .. Len(t) : Append(s, p)[i] # t[j]
  <2> SUFFICES ASSUME NEW i \in 1 .. Len(s) + 1, NEW j \in 1 .. Len(t)
               PROVE  Append(s, p)[i] # t[j]
    BY <1>7
  <2>1. i \in 1 .. Len(s) \/ i = Len(s) + 1
    OBVIOUS
  <2> QED  BY <1>1, <1>7, <2>1
<1>9. IsInjective(Append(s, p)) /\ IsInjective(t)
  BY <1>1, AddedInjective DEF Lists
<1>10. tail' = Append(s, p)[Len(Append(s, p))] /\ Append(s, p) # <<>>
  <2>1. Len(Append(s, p)) # 0 /\ Len(<<>>) = 0
    BY <1>7
  <2> QED  BY <1>2, <1>7, <2>1
<1> QED  BY <1>4, <1>5, <1>6, <1>7, <1>8, <1>9, <1>10 DEF Lists

(* push_front_method/push_front_thread.                                    *)
LEMMA PushFrontLists ==
  ASSUME TypeOK, NEW s, NEW t, Lists(s, t), NEW p \in Process, PushFrontLink(p)
  PROVE  TypeOK' /\ Lists(<<p>> \o s, t)'
<1> USE ListFacts
<1>1. /\ \A i \in 1 .. Len(s) : s[i] # p
      /\ \A i \in 1 .. Len(t) : t[i] # p
  BY DEF PushFrontLink
<1>2. /\ next \in [Process \cup {PushHead} -> Process \cup {End, Null}]
      /\ next' = [next EXCEPT ![p] = next[PushHead], ![PushHead] = p]
      /\ tail' = (IF tail = PushHead THEN p ELSE tail) /\ popHead' = popHead
  BY DEF TypeOK, PushFrontLink
<1>3. next'[p] = next[PushHead] /\ next'[PushHead] = p /\ \A x \in Process \cup {PushHead} :
        x # p /\ x # PushHead => next'[x] = next[x]
  BY <1>2, Pointers
<1>4. TypeOK'
  <2>1. next' \in [Process \cup {PushHead} -> Process \cup {End, Null}]
    BY <1>2
  <2> QED  BY <2>1, <1>2 DEF TypeOK, PushFrontLink
<1>5. Chain(next', next'[PushHead], <<p>> \o s)
  <2>1. \A i \in 1 .. Len(s) : next'[s[i]] = next[s[i]]
    BY <1>1, <1>3
  <2>2. Chain(next, next[PushHead], s)
    BY DEF Lists
  <2>3. Chain(next', p, <<p>> \o s)
    <3>1. PICK start : start = next[PushHead]
      OBVIOUS
    <3>2. Chain(next, start, s) /\ next'[p] = start
      BY <1>3, <2>2, <3>1
    <3>3. s \in Seq(Process)
      BY DEF Lists
    <3> QED  BY <2>1, <3>2, <3>3, ChainPrepended
  <2> QED  BY <1>3, <2>3
<1>6. Chain(next', popHead', t)
  <2>1. \A i \in 1 .. Len(t) : next'[t[i]] = next[t[i]]
    BY <1>1, <1>3
  <2>2. Chain(next, popHead, t) /\ t \in Seq(Process)
    BY DEF Lists
  <2>3. Chain(next', popHead, t)
    BY <2>1, <2>2, ChainKept
  <2> QED  BY <1>2, <2>3
<1>7. /\ <<p>> \o s \in Seq(Process) /\ Len(<<p>> \o s) = Len(s) + 1
      /\ (<<p>> \o s)[1] = p
      /\ \A i \in 1 .. Len(s) : (<<p>> \o s)[i + 1] = s[i]
  BY AddedTo
<1>8. \A i \in 1 .. Len(<<p>> \o s), j \in 1 .. Len(t) : (<<p>> \o s)[i] # t[j]
  <2> SUFFICES ASSUME NEW i \in 1 .. Len(s) + 1, NEW j \in 1 .. Len(t)
               PROVE  (<<p>> \o s)[i] # t[j]
    BY <1>7
  <2>1. CASE i = 1
    BY <1>1, <1>7, <2>1
  <2>2. CASE i # 1
    <3>1. i - 1 \in 1 .. Len(s) /\ (i - 1) + 1 = i
      BY <2>2
    <3>2. (<<p>> \o s)[i] = s[i - 1]
      BY <1>7, <3>1
    <3>3. s[i - 1] # t[j]
      BY <3>1 DEF Lists
    <3> QED  BY <3>2, <3>3
  <2> QED  BY <2>1, <2>2
<1>9. IsInjective(<<p>> \o s) /\ IsInjective(t)
  BY <1>1, AddedInjective DEF Lists
<1>10. tail' = (<<p>> \o s)[Len(<<p>> \o s)] /\ <<p>> \o s # <<>>
  <2>1. <<p>> \o s # <<>>
    BY <1>7
  <2>2. CASE s = <<>>
    BY <1>2, <1>7, <2>2
  <2>3. CASE s # <<>>
    BY <1>2, <1>7, <2>3
  <2> QED  BY <2>1, <2>2, <2>3
<1> QED  BY <1>4, <1>5, <1>6, <1>7, <1>8, <1>9, <1>10 DEF Lists

(* execute_method_next/execute_thread_next.                                *)
LEMMA ExecuteNextLists ==
  ASSUME TypeOK, NEW s, NEW t, Lists(s, t), NEW p \in Process, ExecuteNextLink(p)
  PROVE  TypeOK' /\ Lists(s, <<p>> \o t)'
<1> USE ListFacts
<1>1. /\ \A i \in 1 .. Len(s) : s[i] # p
      /\ \A i \in 1 .. Len(t) : t[i] # p
  BY DEF ExecuteNextLink
<1>2. /\ next \in [Process \cup {PushHead} -> Process \cup {End, Null}]
      /\ next' = [next EXCEPT ![p] = popHead]
      /\ popHead' = p /\ tail' = tail
  BY DEF TypeOK, ExecuteNextLink
<1>3. next'[p] = popHead /\ \A x \in Process \cup {PushHead} : x # p => next'[x] = next[x]
  BY <1>2
<1>4. TypeOK'
  <2>1. next' \in [Process \cup {PushHead} -> Process \cup {End, Null}]
    BY <1>2 DEF TypeOK
  <2> QED  BY <2>1, <1>2 DEF TypeOK, ExecuteNextLink
<1>5. Chain(next', next'[PushHead], s)
  <2>1. \A i \in 1 .. Len(s) : next'[s[i]] = next[s[i]]
    BY <1>1, <1>3
  <2>2. Chain(next, next[PushHead], s)
    BY DEF Lists
  <2>3. next'[PushHead] = next[PushHead]
    BY <1>3, Pointers
  <2> QED  BY <2>1, <2>2, <2>3, ChainKept
<1>6. Chain(next', popHead', <<p>> \o t)
  <2>1. \A i \in 1 .. Len(t) : next'[t[i]] = next[t[i]]
    BY <1>1, <1>3
  <2>2. Chain(next, popHead, t)
    BY DEF Lists
  <2>3. Chain(next', p, <<p>> \o t)
    BY <1>3, <2>1, <2>2, ChainPrepended
  <2> QED  BY <1>2, <2>3
<1>7. /\ <<p>> \o t \in Seq(Process) /\ Len(<<p>> \o t) = Len(t) + 1
      /\ (<<p>> \o t)[1] = p
      /\ \A i \in 1 .. Len(t) : (<<p>> \o t)[i + 1] = t[i]
  BY AddedTo
<1>8. \A i \in 1 .. Len(s), j \in 1 .. Len(<<p>> \o t) : s[i] # (<<p>> \o t)[j]
  <2> SUFFICES ASSUME NEW i \in 1 .. Len(s), NEW j \in 1 .. Len(t) + 1
               PROVE  s[i] # (<<p>> \o t)[j]
    BY <1>7
  <2>1. j = 1 \/ (j - 1 \in 1 .. Len(t) /\ (j - 1) + 1 = j)
    OBVIOUS
  <2> QED  BY <1>1, <1>7, <2>1
<1>9. IsInjective(<<p>> \o t) /\ IsInjective(s)
  BY <1>1, AddedInjective DEF Lists
<1>10. tail' = IF s = <<>> THEN PushHead ELSE s[Len(s)]
  BY <1>2 DEF Lists
<1> QED  BY <1>4, <1>5, <1>6, <1>7, <1>8, <1>9, <1>10 DEF Lists

(* A process is unlinked from the pop queue, by a pop or by                *)
(* remove_method/remove_thread.                                            *)
LEMMA UnlinkPopLists ==
  ASSUME TypeOK, NEW s, NEW t, Lists(s, t), NEW i \in 1 .. Len(t), UnlinkPop(i),
         tail' = tail, popped' \in Process \cup {NoProc}
  PROVE  TypeOK' /\ Lists(s, RemoveAt(t, i))'
<1> USE ListFacts
<1>1. /\ PopList = t /\ t[i] \in Process
      /\ next \in [Process \cup {PushHead} -> Process \cup {End, Null}]
  BY Traversals DEF TypeOK
<1>3. /\ IF i = 1 THEN popHead' = next[t[1]]
         ELSE popHead' = popHead /\ next'[t[i - 1]] = next[t[i]]
      /\ \A x \in Process \cup {PushHead} :
           x # t[i] /\ (i # 1 => x # t[i - 1]) => next'[x] = next[x]
      /\ next' \in [Process \cup {PushHead} -> Process \cup {End, Null}]
      /\ popHead' \in Process \cup {End}
  <2>1. CASE i = 1
    <3>1. popHead' = next[t[i]] /\ next' = [next EXCEPT ![t[i]] = Null]
      BY <1>1, <2>1 DEF UnlinkPop
    <3>2. next[t[i]] \in Process \cup {End}
      BY <1>1 DEF Runnable
    <3> QED  BY <1>1, <2>1, <3>1, <3>2
  <2>2. CASE i # 1
    <3>1. /\ popHead' = popHead
          /\ next' = [next EXCEPT ![t[i - 1]] = next[t[i]], ![t[i]] = Null]
      BY <1>1, <2>2 DEF UnlinkPop
    <3>2. i - 1 \in 1 .. Len(t) /\ i - 1 # i
      BY <2>2
    <3>3. t[i - 1] # t[i] /\ t[i - 1] \in Process
      BY <3>2
    <3>4. next'[t[i - 1]] = next[t[i]]
      BY <1>1, <3>1, <3>3
    <3>5. \A x \in Process \cup {PushHead} : x # t[i] /\ x # t[i - 1] => next'[x] = next[x]
      BY <1>1, <3>1, <3>3
    <3>6. next' \in [Process \cup {PushHead} -> Process \cup {End, Null}]
      BY <1>1, <3>1, <3>3
    <3>7. popHead' \in Process \cup {End}
      BY <3>1 DEF TypeOK
    <3> QED  BY <2>2, <3>1, <3>4, <3>5, <3>6, <3>7
  <2> QED  BY <2>1, <2>2
<1>4. TypeOK'
  BY <1>3 DEF TypeOK
<1>5. i # 1 => i - 1 \in 1 .. Len(t) /\ t[i - 1] \in Process /\ t[i - 1] # PushHead
  <2>1. i # 1 => i - 1 \in 1 .. Len(t)
    OBVIOUS
  <2> QED  BY <2>1
<1>6. Chain(next', next'[PushHead], s)
  <2>1. next'[PushHead] = next[PushHead]
    BY <1>3, <1>5
  <2>2. \A k \in 1 .. Len(s) : next'[s[k]] = next[s[k]]
    BY <1>3, <1>5
  <2>3. Chain(next, next[PushHead], s)
    BY DEF Lists
  <2> QED  BY <2>1, <2>2, <2>3, ChainKept
<1>7. Chain(next', popHead', RemoveAt(t, i))
  <2>1. ASSUME NEW j \in 1 .. Len(t), j # i, j # i - 1 PROVE next'[t[j]] = next[t[j]]
    BY <1>3, <1>5, <2>1
  <2>2. Chain(next, popHead, t)
    BY DEF Lists
  <2> QED  BY <1>3, <2>1, <2>2, ChainUnlinked
<1>8. /\ RemoveAt(t, i) \in Seq(Process) /\ IsInjective(RemoveAt(t, i))
      /\ \A j \in 1 .. Len(RemoveAt(t, i)) : \E k \in 1 .. Len(t) : RemoveAt(t, i)[j] = t[k]
  BY TakenOut, TakenOutInjective DEF Lists
<1>9. \A k \in 1 .. Len(s), j \in 1 .. Len(RemoveAt(t, i)) : s[k] # RemoveAt(t, i)[j]
  BY <1>8
<1>10. IsInjective(s) /\ tail' = IF s = <<>> THEN PushHead ELSE s[Len(s)]
  BY DEF Lists
<1> QED  BY <1>4, <1>6, <1>7, <1>8, <1>9, <1>10 DEF Lists

(* remove_method/remove_thread of a process of the push queue: its link    *)
(* goes to the one before it, or to the dummy head, and so does the tail.  *)
UnlinkPush(i) ==
  LET prior == IF i = 1 THEN PushHead ELSE PushList[i - 1] IN
  /\ next' = [next EXCEPT ![prior] = next[PushList[i]], ![PushList[i]] = Null]
  /\ tail' = IF tail = PushList[i] THEN prior ELSE tail
  /\ UNCHANGED popHead

LEMMA UnlinkPushLists ==
  ASSUME TypeOK, NEW s, NEW t, Lists(s, t), NEW i \in 1 .. Len(s), UnlinkPush(i),
         popped' \in Process \cup {NoProc}
  PROVE  TypeOK' /\ Lists(RemoveAt(s, i), t)'
<1> USE ListFacts
<1> DEFINE prior == IF i = 1 THEN PushHead ELSE s[i - 1]
<1>1. /\ PushList = s /\ s[i] \in Process
      /\ next \in [Process \cup {PushHead} -> Process \cup {End, Null}]
  BY Traversals DEF TypeOK
<1>2. i # 1 => i - 1 \in 1 .. Len(s) /\ i - 1 # i
  OBVIOUS
<1>3. /\ prior \in Process \cup {PushHead} /\ prior # s[i]
      /\ i # 1 => prior = s[i - 1] /\ prior \in Process
      /\ i = 1 => prior = PushHead
  BY <1>1, <1>2
<1>4. /\ next' = [next EXCEPT ![prior] = next[s[i]], ![s[i]] = Null]
      /\ tail' = (IF tail = s[i] THEN prior ELSE tail)
      /\ popHead' = popHead
  BY <1>1 DEF UnlinkPush
<1> HIDE DEF prior
<1>5. /\ next'[prior] = next[s[i]]
      /\ \A x \in Process \cup {PushHead} : x # s[i] /\ x # prior => next'[x] = next[x]
      /\ next' \in [Process \cup {PushHead} -> Process \cup {End, Null}]
  BY <1>1, <1>3, <1>4
<1>6. TypeOK'
  BY <1>3, <1>4, <1>5 DEF TypeOK
<1>7. Chain(next', next'[PushHead], RemoveAt(s, i))
  <2>1. IF i = 1 THEN next'[PushHead] = next[s[1]]
        ELSE next'[PushHead] = next[PushHead] /\ next'[s[i - 1]] = next[s[i]]
    <3>1. CASE i = 1
      BY <1>3, <1>5, <3>1
    <3>2. CASE i # 1
      BY <1>1, <1>3, <1>5, <3>2, Pointers
    <3> QED  BY <3>1, <3>2
  <2>2. ASSUME NEW j \in 1 .. Len(s), j # i, j # i - 1 PROVE next'[s[j]] = next[s[j]]
    <3>1. s[j] # s[i] /\ s[j] # prior /\ s[j] \in Process
      BY <1>2, <1>3, <2>2
    <3> QED  BY <1>5, <3>1
  <2>3. Chain(next, next[PushHead], s)
    BY DEF Lists
  <2> QED  BY <2>1, <2>2, <2>3, ChainUnlinked
<1>8. Chain(next', popHead', t)
  <2>1. ASSUME NEW j \in 1 .. Len(t) PROVE next'[t[j]] = next[t[j]]
    <3>1. t[j] # s[i] /\ t[j] # prior /\ t[j] \in Process
      BY <1>2, <1>3
    <3> QED  BY <1>5, <3>1
  <2>2. Chain(next, popHead, t)
    BY DEF Lists
  <2>3. \A j \in 1 .. Len(t) : next'[t[j]] = next[t[j]]
    BY <2>1
  <2>4. Chain(next', popHead, t)
    BY <2>2, <2>3, ChainKept
  <2> QED  BY <1>4, <2>4
<1>9. /\ RemoveAt(s, i) \in Seq(Process) /\ IsInjective(RemoveAt(s, i))
      /\ Len(RemoveAt(s, i)) = Len(s) - 1
      /\ \A j \in 1 .. Len(s) - 1 : RemoveAt(s, i)[j] = IF j < i THEN s[j] ELSE s[j + 1]
      /\ \A j \in 1 .. Len(RemoveAt(s, i)) : \E k \in 1 .. Len(s) : RemoveAt(s, i)[j] = s[k]
  BY TakenOut, TakenOutInjective DEF Lists
<1>10. \A j \in 1 .. Len(RemoveAt(s, i)), k \in 1 .. Len(t) : RemoveAt(s, i)[j] # t[k]
  BY <1>9
<1>11. tail' = IF RemoveAt(s, i) = <<>> THEN PushHead
               ELSE RemoveAt(s, i)[Len(RemoveAt(s, i))]
  <2>0. /\ RemoveAt(s, i) = <<>> <=> Len(s) = 1
        /\ Len(s) \in 1 .. Len(s) /\ tail = s[Len(s)]
    BY <1>9, EmptySeq
  <2>1. CASE i = Len(s)
    <3>1. tail' = prior
      BY <1>4, <2>0, <2>1
    <3>2. CASE i = 1
      BY <1>3, <2>0, <2>1, <3>1, <3>2
    <3>3. CASE i # 1
      <4>1. Len(s) - 1 \in 1 .. Len(s) - 1 /\ Len(s) - 1 < i /\ Len(s) # 1
        BY <2>1, <3>3
      <4> QED  BY <1>3, <1>9, <2>0, <2>1, <3>1, <3>3, <4>1
    <3> QED  BY <3>2, <3>3
  <2>2. CASE i # Len(s)
    <3>1. tail # s[i]
      BY <2>0, <2>2
    <3>2. Len(s) - 1 \in 1 .. Len(s) - 1 /\ ~(Len(s) - 1 < i) /\ Len(s) # 1
          /\ (Len(s) - 1) + 1 = Len(s)
      BY <2>2
    <3> QED  BY <1>4, <1>9, <2>0, <3>1, <3>2
  <2> QED  BY <2>1, <2>2
<1>12. IsInjective(t)
  BY DEF Lists
<1> QED  BY <1>6, <1>7, <1>8, <1>9, <1>10, <1>11, <1>12 DEF Lists

(* init() links the dummy head and the pop queue to the sentinel; toggle() *)
(* moves the list of the push queue to the empty pop queue.                *)
LEMMA InitLists == Init => TypeOK /\ Lists(<<>>, <<>>)
<1> SUFFICES ASSUME Init PROVE TypeOK /\ Lists(<<>>, <<>>)
  OBVIOUS
<1>1. next[PushHead] = End /\ popHead = End /\ tail = PushHead
  BY DEF Init
<1>2. Chain(next, next[PushHead], <<>>) /\ Chain(next, popHead, <<>>)
  BY <1>1, ChainEmpty
<1>3. <<>> \in Seq(Process) /\ IsInjective(<<>>) /\ Len(<<>>) = 0
  BY DEF IsInjective
<1>4. TypeOK
  BY Pointers DEF Init, TypeOK
<1> QED  BY <1>1, <1>2, <1>3, <1>4 DEF Lists

LEMMA InitQueuesLists ==
  ASSUME TypeOK, InitQueues
  PROVE  TypeOK' /\ Lists(<<>>, <<>>)'
<1>1. /\ next'[PushHead] = End /\ popHead' = End /\ tail' = PushHead /\ popped' = NoProc
      /\ next' \in [Process \cup {PushHead} -> Process \cup {End, Null}]
  BY DEF InitQueues, TypeOK
<1>2. Chain(next', next'[PushHead], <<>>) /\ Chain(next', popHead', <<>>)
  BY <1>1, ChainEmpty
<1>3. <<>> \in Seq(Process) /\ IsInjective(<<>>) /\ Len(<<>>) = 0
  BY DEF IsInjective
<1> QED  BY <1>1, <1>2, <1>3 DEF Lists, TypeOK

LEMMA ToggleLists ==
  ASSUME TypeOK, NEW s, NEW t, Lists(s, t), ToggleLink
  PROVE  TypeOK' /\ t = <<>> /\ Lists(<<>>, s)'
<1> USE ListFacts
<1>1. /\ popHead = End /\ popHead' = next[PushHead] /\ tail' = PushHead /\ popped' = NoProc
      /\ next' = [next EXCEPT ![PushHead] = End]
      /\ next \in [Process \cup {PushHead} -> Process \cup {End, Null}]
  BY DEF ToggleLink, TypeOK
<1>2. t = <<>>
  <2>1. 1 \in 1 .. Len(t) => popHead = t[1] /\ t[1] \in Process
    BY DEF Lists, Chain, LinkAt
  <2> QED  BY <1>1, <2>1, Pointers
<1>3. next[PushHead] \in Process \cup {End}
  <2>1. next[PushHead] = LinkAt(s, 1)
    BY DEF Lists, Chain
  <2> QED  BY <2>1 DEF LinkAt
<1>4. TypeOK'
  BY <1>1, <1>3 DEF TypeOK
<1>5. Chain(next', next'[PushHead], <<>>)
  BY <1>1, ChainEmpty
<1>6. Chain(next', popHead', s)
  <2>1. \A i \in 1 .. Len(s) : next'[s[i]] = next[s[i]]
    BY <1>1
  <2>2. Chain(next, next[PushHead], s)
    BY DEF Lists
  <2> QED  BY <1>1, <2>1, <2>2, ChainKept
<1>7. <<>> \in Seq(Process) /\ IsInjective(<<>>) /\ Len(<<>>) = 0
  BY DEF IsInjective
<1>8. s \in Seq(Process) /\ IsInjective(s)
  BY DEF Lists
<1> QED  BY <1>1, <1>2, <1>4, <1>5, <1>6, <1>7, <1>8 DEF Lists

-------------------------------------------------------------------------------
(* The refinement, and the invariant on the way *)

LEMMA QueueWith ==
  ASSUME NEW s, NEW t, NEW x
  PROVE  /\ [[push |-> s, pop |-> t] EXCEPT !.push = x] = [push |-> x, pop |-> t]
         /\ [[push |-> s, pop |-> t] EXCEPT !.pop = x] = [push |-> s, pop |-> x]
OBVIOUS

(* A step of the links that leaves the lists a and b where s and t were is *)
(* a step of the abstract queue from the one pair to the other.            *)
LEMMA PushStep ==
  ASSUME TypeOK, NEW s, NEW t, Lists(s, t), NEW p \in Process,
         PushBackLink(p) \/ PushFrontLink(p) \/ ExecuteNextLink(p)
  PROVE  TypeOK' /\ (\E a, b : Lists(a, b)') /\ Abstract!Push(p)
<1>1. PushList = s /\ PopList = t
  BY Traversals
<1>2. \A a, b : Lists(a, b)' => PushList' = a /\ PopList' = b
  BY TraversalsNext
<1>3. popped' = NoProc /\ next[p] = Null
  BY DEF PushBackLink, PushFrontLink, ExecuteNextLink, Runnable
<1>4. p \notin Abstract!Queued([push |-> s, pop |-> t])
  <2>1. \A i \in 1 .. Len(s) : s[i] # p
    BY <1>3, ListFacts DEF Runnable
  <2>2. \A i \in 1 .. Len(t) : t[i] # p
    BY <1>3, ListFacts DEF Runnable
  <2>3. DOMAIN s = 1 .. Len(s) /\ DOMAIN t = 1 .. Len(t)
    BY DEF Lists
  <2> QED  BY <2>1, <2>2, <2>3 DEF Abstract!Queued, Abstract!ToSet
<1>5. CASE PushBackLink(p)
  <2>1. TypeOK' /\ Lists(Append(s, p), t)'
    BY <1>5, PushBackLists
  <2>2. PushList' = Append(s, p) /\ PopList' = t
    BY <1>2, <2>1
  <2>3. Abstract!PushBack([push |-> s, pop |-> t], p) = [push |-> Append(s, p), pop |-> t]
    BY DEF Abstract!PushBack
  <2> QED  BY <1>1, <1>3, <1>4, <2>1, <2>2, <2>3 DEF Abstract!Push
<1>6. CASE PushFrontLink(p)
  <2>1. TypeOK' /\ Lists(<<p>> \o s, t)'
    BY <1>6, PushFrontLists
  <2>2. PushList' = <<p>> \o s /\ PopList' = t
    BY <1>2, <2>1
  <2>3. Abstract!PushFront([push |-> s, pop |-> t], p) = [push |-> <<p>> \o s, pop |-> t]
    <3>1. [push |-> s, pop |-> t].push = s
      OBVIOUS
    <3>2. Abstract!PushFront([push |-> s, pop |-> t], p)
            = [[push |-> s, pop |-> t] EXCEPT !.push = <<p>> \o s]
      BY <3>1 DEF Abstract!PushFront
    <3> QED  BY <3>2, QueueWith
  <2> QED  BY <1>1, <1>3, <1>4, <2>1, <2>2, <2>3 DEF Abstract!Push
<1>7. CASE ExecuteNextLink(p)
  <2>1. TypeOK' /\ Lists(s, <<p>> \o t)'
    BY <1>7, ExecuteNextLists
  <2>2. PushList' = s /\ PopList' = <<p>> \o t
    BY <1>2, <2>1
  <2>3. Abstract!ExecuteNext([push |-> s, pop |-> t], p) = [push |-> s, pop |-> <<p>> \o t]
    <3>1. [push |-> s, pop |-> t].pop = t
      OBVIOUS
    <3>2. Abstract!ExecuteNext([push |-> s, pop |-> t], p)
            = [[push |-> s, pop |-> t] EXCEPT !.pop = <<p>> \o t]
      BY <3>1 DEF Abstract!ExecuteNext
    <3> QED  BY <3>2, QueueWith
  <2> QED  BY <1>1, <1>3, <1>4, <2>1, <2>2, <2>3 DEF Abstract!Push
<1> QED  BY <1>5, <1>6, <1>7

(* The operators of the abstract queue are those of the lists.             *)
LEMMA AbstractTakenOut ==
  ASSUME NEW s \in Seq(Process), IsInjective(s), NEW i \in 1 .. Len(s)
  PROVE  /\ Abstract!RemoveAt(s, i) = RemoveAt(s, i)
         /\ Abstract!RemoveFirst(s, s[i]) = RemoveAt(s, i)
<1>1. Abstract!RemoveAt(s, i) = RemoveAt(s, i)
  BY DEF Abstract!RemoveAt, RemoveAt
<1>2. Abstract!SelectInSeq(s, LAMBDA v : v = s[i]) = i
  <2> DEFINE I == {j \in 1 .. Len(s) : s[j] = s[i]}
  <2>1. I = {i}
    BY DEF IsInjective
  <2> QED  BY <2>1 DEF Abstract!SelectInSeq, Abstract!Min
<1> QED  BY <1>1, <1>2 DEF Abstract!RemoveFirst

(* A pop takes the same process from the list and from the sequence.       *)
LEMMA PopStep ==
  ASSUME TypeOK, NEW s, NEW t, Lists(s, t), NEW i \in 1 .. Len(t),
         UnlinkPop(i), popped' = t[i], tail' = tail
  PROVE  TypeOK' /\ (\E a, b : Lists(a, b)') /\ Abstract!Pop
<1>1. PushList = s /\ PopList = t
  BY Traversals
<1>2. \A a, b : Lists(a, b)' => PushList' = a /\ PopList' = b
  BY TraversalsNext
<1>3. t[i] \in Process /\ t \in Seq(Process) /\ IsInjective(t)
  BY ListFacts DEF Lists
<1>4. TypeOK' /\ Lists(s, RemoveAt(t, i))'
  BY <1>3, UnlinkPopLists
<1>5. PushList' = s /\ PopList' = RemoveAt(t, i)
  BY <1>2, <1>4
<1> DEFINE c == [push |-> s, pop |-> t]
<1>6. c.pop = t
  OBVIOUS
<1>7. Abstract!PopAt(c, i) = [c EXCEPT !.pop = Abstract!RemoveAt(t, i)]
  BY <1>6 DEF Abstract!PopAt
<1>8. Abstract!PopAt(c, i) = [push |-> s, pop |-> RemoveAt(t, i)]
  BY <1>3, <1>7, QueueWith, AbstractTakenOut
<1>9. i \in Abstract!PopChoices(c, TRUE)
  BY <1>3, <1>6 DEF Abstract!PopChoices
<1> HIDE DEF c
<1>10. \E random \in BOOLEAN : \E k \in Abstract!PopChoices(c, random) :
         popped' = c.pop[k] /\ [push |-> s, pop |-> RemoveAt(t, i)] = Abstract!PopAt(c, k)
  BY <1>6, <1>8, <1>9
<1> QED  BY <1>1, <1>4, <1>5, <1>10 DEF Abstract!Pop, c

(* remove_method/remove_thread unlinks the process the sequence loses.     *)
LEMMA RemoveStep ==
  ASSUME TypeOK, NEW s, NEW t, Lists(s, t), NEW p \in Process, RemoveLink(p)
  PROVE  TypeOK' /\ (\E a, b : Lists(a, b)') /\ Abstract!Unqueue(p)
<1>1. PushList = s /\ PopList = t
  BY Traversals
<1>2. \A a, b : Lists(a, b)' => PushList' = a /\ PopList' = b
  BY TraversalsNext
<1>3. /\ s \in Seq(Process) /\ IsInjective(s) /\ DOMAIN s = 1 .. Len(s)
      /\ t \in Seq(Process) /\ IsInjective(t)
      /\ \A k \in 1 .. Len(s), j \in 1 .. Len(t) : s[k] # t[j]
  BY DEF Lists
<1>4. popped' = NoProc /\ popped' \in Process \cup {NoProc}
  BY DEF RemoveLink
<1> DEFINE c == [push |-> s, pop |-> t]
<1>5. c.push = s /\ c.pop = t
  OBVIOUS
<1>6. CASE \E i \in 1 .. Len(s) : s[i] = p /\ UnlinkPush(i)
  <2>1. PICK i \in 1 .. Len(s) : s[i] = p /\ UnlinkPush(i)
    BY <1>6
  <2>2. TypeOK' /\ Lists(RemoveAt(s, i), t)'
    BY <1>4, <2>1, UnlinkPushLists
  <2>3. PushList' = RemoveAt(s, i) /\ PopList' = t
    BY <1>2, <2>2
  <2>4. p \in Abstract!ToSet(s)
    BY <1>3, <2>1 DEF Abstract!ToSet
  <2>5. Abstract!RemoveProc(c, p) = [c EXCEPT !.push = Abstract!RemoveFirst(s, p)]
    BY <1>5, <2>4 DEF Abstract!RemoveProc
  <2>6. Abstract!RemoveFirst(s, p) = RemoveAt(s, i)
    BY <1>3, <2>1, AbstractTakenOut
  <2>7. Abstract!RemoveProc(c, p) = [push |-> RemoveAt(s, i), pop |-> t]
    BY <2>5, <2>6, QueueWith
  <2> QED  BY <1>1, <1>4, <2>2, <2>3, <2>7 DEF Abstract!Unqueue
<1>7. CASE \E i \in 1 .. Len(t) : t[i] = p /\ UnlinkPop(i) /\ tail' = tail
  <2>1. PICK i \in 1 .. Len(t) : t[i] = p /\ UnlinkPop(i) /\ tail' = tail
    BY <1>7
  <2>2. TypeOK' /\ Lists(s, RemoveAt(t, i))'
    BY <1>4, <2>1, UnlinkPopLists
  <2>3. PushList' = s /\ PopList' = RemoveAt(t, i)
    BY <1>2, <2>2
  <2>4. p \notin Abstract!ToSet(s)
    BY <1>3, <2>1 DEF Abstract!ToSet
  <2>5. Abstract!RemoveProc(c, p) = [c EXCEPT !.pop = Abstract!RemoveFirst(t, p)]
    BY <1>5, <2>4 DEF Abstract!RemoveProc
  <2>6. Abstract!RemoveFirst(t, p) = RemoveAt(t, i)
    BY <1>3, <2>1, AbstractTakenOut
  <2>7. Abstract!RemoveProc(c, p) = [push |-> s, pop |-> RemoveAt(t, i)]
    BY <2>5, <2>6, QueueWith
  <2> QED  BY <1>1, <1>4, <2>2, <2>3, <2>7 DEF Abstract!Unqueue
<1>8. \/ \E i \in 1 .. Len(s) : s[i] = p /\ UnlinkPush(i)
      \/ \E i \in 1 .. Len(t) : t[i] = p /\ UnlinkPop(i) /\ tail' = tail
  <2>1. \A i \in 1 .. Len(s) :
          LET prior == IF i = 1 THEN PushHead ELSE PushList[i - 1] IN
          /\ s[i] = p
          /\ next' = [next EXCEPT ![prior] = next[p], ![p] = Null]
          /\ tail' = IF tail = p THEN prior ELSE tail
          /\ UNCHANGED popHead
          => UnlinkPush(i)
    BY <1>1 DEF UnlinkPush
  <2> QED  BY <1>1, <2>1 DEF RemoveLink
<1> QED  BY <1>6, <1>7, <1>8

(* Every step leaves two sound lists, and is a step of the abstract queue. *)
LEMMA Steps ==
  ASSUME IInv, [Next]_vars
  PROVE  IInv' /\ (Abstract!Next \/ UNCHANGED Abstract!vars)
<1>0. TypeOK
  BY DEF IInv
<1>1. PICK s, t : Lists(s, t)
  BY DEF IInv
<1>2. PushList = s /\ PopList = t
  BY <1>1, Traversals
<1>3. \A a, b : Lists(a, b)' => PushList' = a /\ PopList' = b
  BY TraversalsNext
<1>4. t \in Seq(Process) /\ Len(t) \in Nat
  BY <1>1 DEF Lists
<1>5. CASE \E p \in Process : PushBackLink(p) \/ PushFrontLink(p) \/ ExecuteNextLink(p)
  BY <1>0, <1>1, <1>5, PushStep DEF IInv, Abstract!Next
<1>6. CASE \E p \in Process : RemoveLink(p)
  BY <1>0, <1>1, <1>6, RemoveStep DEF IInv, Abstract!Next
<1>7. CASE PopFirst
  <2>1. popHead = LinkAt(t, 1)
    BY <1>1 DEF Lists, Chain
  <2>2. 1 \in 1 .. Len(t) /\ popHead = t[1]
    BY <1>7, <2>1 DEF PopFirst, LinkAt
  <2>3. UnlinkPop(1) /\ popped' = t[1] /\ tail' = tail
    BY <1>2, <1>7, <2>2 DEF PopFirst, UnlinkPop
  <2>4. TypeOK' /\ (\E a, b : Lists(a, b)') /\ Abstract!Pop
    BY <1>0, <1>1, <2>2, <2>3, PopStep
  <2> QED  BY <2>4 DEF IInv, Abstract!Next
<1>8. CASE PopRandom
  <2>1. PICK i \in 1 .. Len(t) : popped' = t[i] /\ UnlinkPop(i) /\ tail' = tail
    BY <1>2, <1>8 DEF PopRandom
  <2>2. TypeOK' /\ (\E a, b : Lists(a, b)') /\ Abstract!Pop
    BY <1>0, <1>1, <2>1, PopStep
  <2> QED  BY <2>2 DEF IInv, Abstract!Next
<1>9. CASE ToggleLink
  <2>1. TypeOK' /\ t = <<>> /\ Lists(<<>>, s)'
    BY <1>0, <1>1, <1>9, ToggleLists
  <2>2. PushList' = <<>> /\ PopList' = s
    BY <1>3, <2>1
  <2>3. [push |-> s, pop |-> t].pop = t /\ [push |-> s, pop |-> t].push = s
    OBVIOUS
  <2>4. Abstract!Toggle([push |-> s, pop |-> t]) = [push |-> <<>>, pop |-> s]
    BY <2>1, <2>3 DEF Abstract!Toggle
  <2>5. popped' = NoProc
    BY <1>9 DEF ToggleLink
  <2>6. Abstract!StartRound
    BY <1>2, <2>2, <2>4, <2>5 DEF Abstract!StartRound
  <2> QED  BY <2>1, <2>6 DEF IInv, Abstract!Next
<1>10. CASE InitQueues
  <2>1. TypeOK' /\ Lists(<<>>, <<>>)'
    BY <1>0, <1>10, InitQueuesLists
  <2>2. PushList' = <<>> /\ PopList' = <<>>
    BY <1>3, <2>1
  <2>3. Abstract!Clear
    BY <1>10, <2>2 DEF InitQueues, Abstract!Clear, Abstract!EmptyQueue
  <2> QED  BY <2>1, <2>3 DEF IInv, Abstract!Next
<1>11. CASE UNCHANGED vars
  <2>1. TypeOK' /\ Lists(s, t)'
    BY <1>0, <1>1, <1>11 DEF vars, TypeOK, Lists
  <2>2. PushList' = s /\ PopList' = t
    BY <1>3, <2>1
  <2>3. UNCHANGED Abstract!vars
    BY <1>2, <1>11, <2>2 DEF vars, Abstract!vars
  <2> QED  BY <2>1, <2>3 DEF IInv
<1> QED  BY <1>5, <1>6, <1>7, <1>8, <1>9, <1>10, <1>11 DEF Next

(* Whatever is pushed, popped and removed in whatever order, the links are *)
(* those of two lists without a process in common, which end at the        *)
(* sentinel, and the tail is the end of the first: the strengthening of    *)
(* LinksSound that is inductive.                                           *)
THEOREM Inductive == Spec => []IInv
<1>1. Init => IInv
  BY InitLists DEF IInv
<1>2. IInv /\ [Next]_vars => IInv'
  BY Steps
<1> QED  BY <1>1, <1>2, PTL DEF Spec

(* The tail of the push queue is its last process, so that no process is   *)
(* pushed to a link nobody follows, and a process that is linked is linked *)
(* once and known as runnable.                                             *)
THEOREM LinksStaySound == Spec => []LinksSound
<1>1. IInv => LinksSound
  <2> SUFFICES ASSUME IInv PROVE LinksSound
    OBVIOUS
  <2>1. PICK s, t : Lists(s, t)
    BY DEF IInv
  <2>2. PushList = s /\ PopList = t
    BY <2>1, Traversals
  <2>3. TailIsLast
    BY <2>1, <2>2 DEF TailIsLast, Last, Lists
  <2>4. LinkedOnce
    <3>1. /\ s \in Seq(Process) /\ Len(s) \in Nat /\ t \in Seq(Process) /\ Len(t) \in Nat
          /\ \A i \in 1 .. Len(s) : Runnable(s[i])
          /\ \A i \in 1 .. Len(t) : Runnable(t[i])
          /\ \A i, j \in 1 .. Len(s) : s[i] = s[j] => i = j
          /\ \A i, j \in 1 .. Len(t) : t[i] = t[j] => i = j
          /\ \A i \in 1 .. Len(s), j \in 1 .. Len(t) : s[i] # t[j]
      BY <2>1, ListFacts
    <3> DEFINE all == s \o t
    <3>2. all \in Seq(Process) /\ Len(all) = Len(s) + Len(t) /\ DOMAIN all = 1 .. Len(s) + Len(t)
      BY <3>1
    <3>3. \A i \in 1 .. Len(s) + Len(t) : all[i] = IF i <= Len(s) THEN s[i] ELSE t[i - Len(s)]
      BY <3>1, ConcatProperties
    <3>4. \A i \in 1 .. Len(s) + Len(t) :
            \/ i \in 1 .. Len(s) /\ all[i] = s[i]
            \/ i > Len(s) /\ i - Len(s) \in 1 .. Len(t) /\ all[i] = t[i - Len(s)]
      BY <3>1, <3>3
    <3> HIDE DEF all
    <3>5. ASSUME NEW i \in 1 .. Len(s) + Len(t), NEW j \in 1 .. Len(s) + Len(t), all[i] = all[j]
          PROVE  i = j
      <4>1. i - Len(s) = j - Len(s) => i = j
        BY <3>1
      <4> QED  BY <3>1, <3>4, <3>5, <4>1
    <3>6. \A i \in 1 .. Len(s) + Len(t) : Runnable(all[i])
      BY <3>1, <3>4
    <3>7. IsInjective(all) /\ \A i \in DOMAIN all : Runnable(all[i])
      BY <3>2, <3>5, <3>6 DEF IsInjective
    <3> QED  BY <2>2, <3>7 DEF LinkedOnce, all
  <2> QED  BY <2>3, <2>4 DEF IInv, LinksSound
<1> QED  BY <1>1, Inductive, PTL

(* The pointers of sc_runnable implement the two sequences every other     *)
(* module takes a run queue for: no process is lost, duplicated or         *)
(* reordered by an operation, for any number of processes.                 *)
THEOREM Refinement == Spec => ImplementsQueue
<1>1. Init => Abstract!Init
  <2> SUFFICES ASSUME Init PROVE Abstract!Init
    OBVIOUS
  <2>1. PushList = <<>> /\ PopList = <<>>
    BY InitLists, Traversals
  <2> QED  BY <2>1 DEF Init, Abstract!Init, Abstract!EmptyQueue
<1>2. IInv /\ [Next]_vars => [Abstract!Next]_Abstract!vars
  BY Steps
<1> QED  BY <1>1, <1>2, Inductive, PTL DEF Spec, ImplementsQueue, Abstract!Spec
===============================================================================
