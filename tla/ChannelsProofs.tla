---------------------------- MODULE ChannelsProofs ----------------------------
(***************************************************************************)
(* The safety of Channels and the refinement of FifoSpec, proved for any   *)
(* number of threads with any calls, any values and any sizes.             *)
(***************************************************************************)
EXTENDS Channels, FiniteSetTheorems, SequenceTheorems, TLAPS

(* The free places, which buf_write() tests, agree with the three counts,  *)
(* which write() tests: no value is dropped by a full buffer, whatever the *)
(* order of reads and writes in a delta cycle.                             *)
CountsAgree ==
    /\ fifo.free = Size - fifo.readable + fifo.read - fifo.written
    /\ Num_available >= 0 /\ Num_free >= 0

(* The indices enclose the values.                                         *)
IndicesAgree == fifo.wi = (fifo.ri + (Size - fifo.free)) % Size

(* A thread that waits for time is in no call of a channel, and a thread   *)
(* runs, is queued or waits.                                               *)
ThreadsApart ==
    /\ curr \notin runnable
    /\ \A t \in resting : call[t] = "none" /\ t \notin runnable /\ t # curr

(* SleepersMustWait, with the calls that could go on.                      *)
Open == {d \in Call : CouldGoOn(d)}

SleepersSound ==
    \A u \in Thread : u # curr /\ u \notin runnable => call[u] \notin Open

OwnerIsInside == inside \subseteq {owner} \ {None}

IInv ==
    /\ TypeOK /\ CountsAgree /\ IndicesAgree
    /\ ThreadsApart /\ OwnerIsInside /\ SleepersSound

(* The example is written for one producer and one consumer.               *)
OneOfEach ==
    \A c \in {"put", "get"} : \A t, u \in Thread : c \in Use[t] /\ c \in Use[u] => t = u

(* WokenIsServed, by calls.                                                *)
Served ==
    \A t \in Thread : t \in runnable \/ t = curr =>
        /\ call[t] = "put" => num < Max
        /\ call[t] = "get" => num > 0

ExampleInv ==
    /\ num \in 0..Max
    /\ \A t \in Thread : call[t] # "none" => call[t] \in Use[t]
    /\ Served

-------------------------------------------------------------------------------
(* Circular buffers *)

(* The buffer e is d but for the place j.                                  *)
DiffersAt(d, e, j, S) == \A i \in 0..(S - 1) : i # j => e[i] = d[i]

(* The buffer e is d with v written behind n values, m of them now.        *)
Written(d, e, v, r, n, m, S) ==
    /\ S \in Int /\ S > 0 /\ r \in Int /\ 0 <= r /\ r < S
    /\ n \in Int /\ 0 <= n /\ n < S /\ m = n + 1
    /\ DiffersAt(d, e, (r + n) % S, S) /\ e[(r + n) % S] = v

(* The buffer e is d with the first of n values taken, m left.             *)
Taken(d, e, r, n, m, S) ==
    /\ S \in Int /\ S > 0 /\ r \in Int /\ 0 <= r /\ r < S
    /\ n \in Int /\ 1 <= n /\ n <= S /\ m = n - 1
    /\ DiffersAt(d, e, r, S)

LEMMA Wrap ==
    ASSUME NEW S \in Int, S > 0, NEW x \in Int, 0 <= x, x < 2 * S
    PROVE  x % S = (IF x < S THEN x ELSE x - S) /\ x % S \in 0..(S - 1)
<1>1. x < S => x % S = x
  BY SMT
<1>2. x >= S => x % S = x - S
  BY SMT
<1> QED BY <1>1, <1>2

LEMMA WrapNext ==
    ASSUME NEW S \in Int, S > 0, NEW w \in Int, 0 <= w, w < S
    PROVE  (w + 1) % S \in 0..(S - 1)
BY Wrap

(* The place behind the values, when one more is written ...               *)
LEMMA WrapWrite ==
    ASSUME NEW S \in Int, S > 0, NEW r \in Int, 0 <= r, r < S,
           NEW n \in Int, 0 <= n, n < S
    PROVE  (((r + n) % S) + 1) % S = (r + (n + 1)) % S
<1> DEFINE y == r + n
           z == y % S
           u == y + 1
<1>1. y \in Int /\ 0 <= y /\ y < 2 * S - 1
  OBVIOUS
<1> HIDE DEF y
<1>2. z = (IF y < S THEN y ELSE y - S)
  BY <1>1, Wrap
<1> HIDE DEF z
<1>3. (z + 1) % S = (IF z + 1 < S THEN z + 1 ELSE z + 1 - S)
  BY <1>1, <1>2, Wrap
<1>4. u \in Int /\ 0 <= u /\ u < 2 * S
  BY <1>1
<1> HIDE DEF u
<1>5. u % S = (IF u < S THEN u ELSE u - S)
  BY <1>4, Wrap
<1>6. (z + 1) % S = u % S
  BY <1>1, <1>2, <1>3, <1>5 DEF u
<1>7. u = r + (n + 1)
  BY DEF u, y
<1> QED BY <1>6, <1>7, Zenon DEF z, y

(* ... and when one is read.                                               *)
LEMMA WrapRead ==
    ASSUME NEW S \in Int, S > 0, NEW r \in Int, 0 <= r, r < S,
           NEW n \in Int, 1 <= n, n <= S
    PROVE  (((r + 1) % S) + (n - 1)) % S = (r + n) % S
<1> DEFINE q == (r + 1) % S
           y == q + (n - 1)
           u == r + n
<1>1. q = (IF r + 1 < S THEN r + 1 ELSE r + 1 - S)
  BY Wrap
<1> HIDE DEF q
<1>2. y \in Int /\ 0 <= y /\ y < 2 * S /\ u \in Int /\ 0 <= u /\ u < 2 * S
  BY <1>1
<1>3. y = u \/ y = u - S
  BY <1>1
<1> HIDE DEF y, u
<1>4. y % S = (IF y < S THEN y ELSE y - S) /\ u % S = (IF u < S THEN u ELSE u - S)
  BY <1>2, Wrap
<1>5. y % S = u % S
  BY <1>2, <1>3, <1>4
<1> QED BY <1>5 DEF q, y, u

(* Length and values of a window.                                          *)
Entries(d, r, n, S) ==
    /\ Len(Window(d, r, n, S)) = n
    /\ \A i \in 1..n : Window(d, r, n, S)[i] = d[(r + i - 1) % S]

LEMMA WindowEntries ==
    ASSUME NEW d, NEW r, NEW S, NEW n \in Nat PROVE Entries(d, r, n, S)
<1> DEFINE T == {d[(r + i - 1) % S] : i \in 1..n}
<1>1. Window(d, r, n, S) \in [1..n -> T]
  BY DEF Window
<1>2. Window(d, r, n, S) \in Seq(T)
  BY <1>1, SeqDef
<1>3. Len(Window(d, r, n, S)) = n
  BY <1>1, <1>2, LenProperties
<1> QED BY <1>3 DEF Window, Entries

LEMMA WindowType ==
    ASSUME NEW V, NEW S \in Int, S > 0, NEW d, \A i \in 0..(S - 1) : d[i] \in V,
           NEW r \in Int, 0 <= r, r < S, NEW n \in Int, 0 <= n, n <= S
    PROVE  Window(d, r, n, S) \in Seq(V)
<1>1. \A i \in 1..n : (r + i - 1) % S \in 0..(S - 1)
  BY Wrap
<1>2. n \in Nat
  OBVIOUS
<1>3. Window(d, r, n, S) \in [1..n -> V]
  BY <1>1 DEF Window
<1> QED BY <1>2, <1>3, SeqDef

(* What is written behind the last value is appended.                      *)
LEMMA WindowAppend ==
    ASSUME NEW S, NEW d, NEW e, NEW v, NEW r, NEW n, NEW m, Written(d, e, v, r, n, m, S)
    PROVE  Window(e, r, m, S) = Append(Window(d, r, n, S), v)
<1>a. /\ S \in Int /\ S > 0 /\ r \in Int /\ 0 <= r /\ r < S
      /\ n \in Int /\ 0 <= n /\ n < S /\ m = n + 1 /\ m \in Int
  BY DEF Written
<1>b. DiffersAt(d, e, (r + n) % S, S) /\ e[(r + n) % S] = v
  BY DEF Written
<1> USE <1>a
<1> DEFINE w == Window(d, r, n, S)
           x == Window(e, r, m, S)
           V == {d[i] : i \in 0..(S - 1)} \cup {e[i] : i \in 0..(S - 1)}
<1>0. \A i \in 0..(S - 1) : d[i] \in V /\ e[i] \in V
  OBVIOUS
<1>1. (r + n) % S = (IF r + n < S THEN r + n ELSE r + n - S) /\ (r + n) % S \in 0..(S - 1)
  BY Wrap
<1>2. v \in V
  BY <1>1, <1>0, <1>b
<1> HIDE DEF V
<1>3. w \in Seq(V) /\ Len(w) = n /\ \A i \in 1..n : w[i] = d[(r + i - 1) % S]
  <2>1. n <= S /\ n \in Nat
    OBVIOUS
  <2>2. w \in Seq(V)
    BY <1>0, <2>1, WindowType
  <2>3. Entries(d, r, n, S)
    BY <2>1, WindowEntries
  <2> QED BY <2>2, <2>3 DEF Entries
<1>4. x \in Seq(V) /\ Len(x) = m /\ \A i \in 1..m : x[i] = e[(r + i - 1) % S]
  <2>1. m \in Nat /\ 0 <= m /\ m <= S
    OBVIOUS
  <2>2. x \in Seq(V)
    BY <1>0, <2>1, WindowType
  <2>3. Entries(e, r, m, S)
    BY <2>1, WindowEntries
  <2> QED BY <2>2, <2>3 DEF Entries
<1>5. \A i \in 1..n : x[i] = w[i]
  <2> SUFFICES ASSUME NEW i \in 1..n PROVE x[i] = w[i]
    OBVIOUS
  <2>1. /\ (r + i - 1) % S = (IF r + i - 1 < S THEN r + i - 1 ELSE r + i - 1 - S)
        /\ (r + i - 1) % S \in 0..(S - 1)
    BY Wrap
  <2>2. (r + i - 1) % S # (r + n) % S
    BY <1>1, <2>1
  <2>3. e[(r + i - 1) % S] = d[(r + i - 1) % S]
    BY <1>b, <2>1, <2>2 DEF DiffersAt
  <2>4. x[i] = e[(r + i - 1) % S] /\ w[i] = d[(r + i - 1) % S]
    <3> HIDE DEF x, w
    <3>1. i \in 1..m
      OBVIOUS
    <3> QED BY <1>3, <1>4, <3>1, Zenon
  <2> QED BY <2>3, <2>4
<1>6. x[m] = v
  <2>1. r + m - 1 = r + n /\ m \in 1..m
    OBVIOUS
  <2> HIDE DEF x
  <2>3. x[m] = e[(r + m - 1) % S]
    BY <1>4, <2>1
  <2> QED BY <1>b, <2>1, <2>3
<1> HIDE DEF w, x
<1>7. /\ Append(w, v) \in Seq(V) /\ Len(Append(w, v)) = m
      /\ Append(w, v)[m] = v
      /\ \A i \in 1..n : Append(w, v)[i] = w[i]
  BY <1>2, <1>3
<1>8. \A i \in 1..Len(x) : x[i] = Append(w, v)[i]
  <2> SUFFICES ASSUME NEW i \in 1..m PROVE x[i] = Append(w, v)[i]
    BY <1>4
  <2>1. i \in 1..n \/ i = m
    OBVIOUS
  <2> QED BY <1>5, <1>6, <1>7, <2>1, Zenon
<1>9. x = Append(w, v)
  BY <1>4, <1>7, <1>8, SeqEqual
<1> QED BY <1>9 DEF w, x

(* The first value is taken off; its place may be overwritten.             *)
LEMMA WindowTail ==
    ASSUME NEW S, NEW d, NEW e, NEW r, NEW n, NEW m, Taken(d, e, r, n, m, S)
    PROVE  /\ Window(d, r, n, S) # <<>>
           /\ Head(Window(d, r, n, S)) = d[r]
           /\ Window(e, (r + 1) % S, m, S) = Tail(Window(d, r, n, S))
<1>a. /\ S \in Int /\ S > 0 /\ r \in Int /\ 0 <= r /\ r < S
      /\ n \in Int /\ 1 <= n /\ n <= S /\ m = n - 1 /\ m \in Int
  BY DEF Taken
<1>b. DiffersAt(d, e, r, S)
  BY DEF Taken
<1> USE <1>a
<1> DEFINE q == (r + 1) % S
           w == Window(d, r, n, S)
           x == Window(e, q, m, S)
           V == {d[i] : i \in 0..(S - 1)} \cup {e[i] : i \in 0..(S - 1)}
<1>0. \A i \in 0..(S - 1) : d[i] \in V /\ e[i] \in V
  OBVIOUS
<1> HIDE DEF V
<1>1. q = (IF r + 1 < S THEN r + 1 ELSE r + 1 - S) /\ q \in 0..(S - 1)
  BY Wrap
<1> HIDE DEF q
<1>2. w \in Seq(V) /\ Len(w) = n /\ \A i \in 1..n : w[i] = d[(r + i - 1) % S]
  <2>1. 0 <= n /\ n \in Nat
    OBVIOUS
  <2>2. w \in Seq(V)
    BY <1>0, <2>1, WindowType
  <2>3. Entries(d, r, n, S)
    BY <2>1, WindowEntries
  <2> QED BY <2>2, <2>3 DEF Entries
<1>3. x \in Seq(V) /\ Len(x) = m /\ \A i \in 1..m : x[i] = e[(q + i - 1) % S]
  <2>1. /\ m \in Nat /\ 0 <= m /\ m <= S
        /\ q \in Int /\ 0 <= q /\ q < S
    BY <1>1
  <2>2. x \in Seq(V)
    BY <1>0, <2>1, WindowType
  <2>3. Entries(e, q, m, S)
    BY <2>1, WindowEntries
  <2> QED BY <2>2, <2>3 DEF Entries
<1> HIDE DEF w, x
<1>4. w # <<>>
  BY <1>2, EmptySeq
<1>5. Head(w) = d[r]
  <2>1. Head(w) = w[1]
    BY <1>2
  <2>2. (r + 1 - 1) % S = r
    BY Wrap
  <2> QED BY <1>2, <2>1, <2>2
<1>6. \A i \in 1..m : x[i] = w[i + 1]
  <2> SUFFICES ASSUME NEW i \in 1..m PROVE x[i] = w[i + 1]
    OBVIOUS
  <2>1. /\ (r + i) % S = (IF r + i < S THEN r + i ELSE r + i - S)
        /\ (r + i) % S \in 0..(S - 1)
    BY Wrap
  <2>2. (q + i - 1) % S = (IF q + i - 1 < S THEN q + i - 1 ELSE q + i - 1 - S)
    <3> DEFINE y == q + i - 1
    <3>1. y \in Int /\ 0 <= y /\ y < 2 * S
      BY <1>1
    <3> HIDE DEF y
    <3>2. y % S = IF y < S THEN y ELSE y - S
      BY <3>1, Wrap
    <3> QED BY <1>1, <3>2 DEF y
  <2>3. (q + i - 1) % S = (r + i) % S
    BY <1>1, <2>1, <2>2
  <2>4. (r + i) % S # r
    BY <2>1
  <2>5. e[(r + i) % S] = d[(r + i) % S]
    BY <1>b, <2>1, <2>4 DEF DiffersAt
  <2>6. w[i + 1] = d[(r + i) % S]
    <3>1. r + (i + 1) - 1 = r + i /\ i + 1 \in 1..n
      OBVIOUS
    <3>2. w[i + 1] = d[(r + (i + 1) - 1) % S]
      BY <1>2, <3>1, Zenon
    <3>3. (r + (i + 1) - 1) % S = (r + i) % S
      BY <3>1, Zenon
    <3> QED BY <3>2, <3>3, Zenon
  <2>7. x[i] = e[(q + i - 1) % S]
    BY <1>3
  <2> QED BY <2>3, <2>5, <2>6, <2>7
<1>7. /\ Tail(w) \in Seq(V) /\ Len(Tail(w)) = m
      /\ \A i \in 1..m : Tail(w)[i] = w[i + 1]
  BY <1>2, <1>4, HeadTailProperties
<1>8. \A i \in 1..Len(x) : x[i] = Tail(w)[i]
  BY <1>3, <1>6, <1>7
<1>9. x = Tail(w)
  BY <1>3, <1>7, <1>8, SeqEqual
<1> QED BY <1>4, <1>5, <1>9 DEF w, x, q
-------------------------------------------------------------------------------
(* The sc_fifo *)

(* The fields of the sc_fifo, as the type invariant gives them.            *)
FifoOK(f) ==
    /\ f.buf \in [0..(Size - 1) -> Value] /\ f.got \in Value
    /\ f.ri \in 0..(Size - 1) /\ f.wi \in 0..(Size - 1)

CountsOK(f) ==
    /\ f.free \in 0..Size /\ f.readable \in 0..Size
    /\ f.read \in 0..Size /\ f.written \in 0..Size

FifoType ==
    [buf : [0..(Size - 1) -> Value], ri : 0..(Size - 1), wi : 0..(Size - 1),
     free : 0..Size, readable : 0..Size, read : 0..Size, written : 0..Size, got : Value]

LEMMA SizeFacts ==
    ASSUME ChannelsAssumption
    PROVE  /\ Size \in Int /\ Size > 0 /\ Max \in Int /\ Max > 0 /\ MaxPost \in Nat
           /\ None \notin Thread /\ Blank \in Value
BY DEF ChannelsAssumption, Blank

(* A write that found a place is stored at the end.                        *)
LEMMA WriteFacts ==
    ASSUME ChannelsAssumption, fifo \in FifoType, CountsAgree, IndicesAgree, Num_free # 0,
           NEW v \in Value, Buf_write(v)
    PROVE  /\ fifo' \in FifoType /\ CountsAgree' /\ IndicesAgree'
           /\ Num_available' = Num_available /\ Num_free' = Num_free - 1
           /\ fifo'.got = fifo.got
           /\ Window(fifo.buf, fifo.ri, Size - fifo.free, Size)'
                  = Append(Window(fifo.buf, fifo.ri, Size - fifo.free, Size), v)
<1> USE SizeFacts
<1>1. FifoOK(fifo) /\ CountsOK(fifo)
  BY DEF FifoType, FifoOK, CountsOK
<1>2. fifo.free > 0 /\ Num_free > 0
  BY <1>1 DEF CountsOK, CountsAgree, Num_free, Num_available
<1>3. fifo' = [fifo EXCEPT !.buf[fifo.wi] = v, !.wi = (fifo.wi + 1) % Size,
                           !.free = fifo.free - 1, !.written = fifo.written + 1]
  BY <1>1, <1>2 DEF Buf_write, CountsOK
<1>4. /\ fifo'.buf = [fifo.buf EXCEPT ![fifo.wi] = v] /\ fifo'.wi = (fifo.wi + 1) % Size
      /\ fifo'.free = fifo.free - 1 /\ fifo'.written = fifo.written + 1
      /\ fifo'.ri = fifo.ri /\ fifo'.readable = fifo.readable /\ fifo'.read = fifo.read
      /\ fifo'.got = fifo.got
  BY <1>3 DEF FifoType
<1>5. Num_available' = Num_available /\ Num_free' = Num_free - 1
  BY <1>1, <1>4 DEF CountsOK, Num_available, Num_free
<1>6. fifo.written + 1 \in 0..Size
  BY <1>1, <1>2 DEF CountsOK, Num_free
<1>7. (fifo.wi + 1) % Size \in 0..(Size - 1)
  BY <1>1, WrapNext DEF FifoOK
<1>8. FifoOK(fifo') /\ CountsOK(fifo')
  <2>1. FifoOK(fifo')
    BY <1>1, <1>4, <1>7 DEF FifoOK
  <2>2. CountsOK(fifo')
    BY <1>1, <1>2, <1>4, <1>6 DEF CountsOK
  <2> QED BY <2>1, <2>2
<1>9. fifo' \in FifoType
  BY <1>3, <1>4, <1>8 DEF FifoOK, CountsOK, FifoType
<1> DEFINE n == Size - fifo.free
           m == Size - fifo'.free
<1>10. n \in Int /\ 0 <= n /\ n < Size /\ m = n + 1 /\ m \in Int
  BY <1>1, <1>2, <1>4 DEF CountsOK
<1>11. fifo.wi = (fifo.ri + n) % Size
  BY DEF IndicesAgree
<1> HIDE DEF n, m
<1>12. fifo'.wi = (fifo'.ri + m) % Size
  <2>1. fifo.ri \in Int /\ 0 <= fifo.ri /\ fifo.ri < Size
    BY <1>1 DEF FifoOK
  <2>2. (((fifo.ri + n) % Size) + 1) % Size = (fifo.ri + (n + 1)) % Size
    BY <1>10, <2>1, WrapWrite
  <2> QED BY <1>4, <1>10, <1>11, <2>2, Zenon
<1>13. CountsAgree' /\ IndicesAgree'
  <2>1. fifo'.free = Size - fifo'.readable + fifo'.read - fifo'.written
    BY <1>1, <1>4 DEF CountsOK, CountsAgree
  <2>2. Num_available' >= 0 /\ Num_free' >= 0
    BY <1>1, <1>2, <1>5 DEF CountsOK, CountsAgree, Num_free
  <2> QED BY <1>12, <2>1, <2>2 DEF CountsAgree, IndicesAgree, m
<1>14. Window(fifo'.buf, fifo.ri, m, Size) = Append(Window(fifo.buf, fifo.ri, n, Size), v)
  <2>1. DiffersAt(fifo.buf, fifo'.buf, (fifo.ri + n) % Size, Size)
    BY <1>1, <1>4, <1>11 DEF DiffersAt, FifoOK
  <2>2. fifo'.buf[(fifo.ri + n) % Size] = v
    BY <1>1, <1>4, <1>11 DEF FifoOK
  <2>3. fifo.ri \in Int /\ 0 <= fifo.ri /\ fifo.ri < Size
    BY <1>1 DEF FifoOK
  <2>4. Written(fifo.buf, fifo'.buf, v, fifo.ri, n, m, Size)
    BY <1>10, <2>1, <2>2, <2>3 DEF Written
  <2> QED BY <2>4, WindowAppend
<1> QED BY <1>4, <1>5, <1>9, <1>13, <1>14 DEF n, m

(* A read that found a value takes the oldest.                             *)
LEMMA ReadFacts ==
    ASSUME ChannelsAssumption, fifo \in FifoType, CountsAgree, IndicesAgree,
           Num_available # 0, Buf_read
    PROVE  /\ fifo' \in FifoType /\ CountsAgree' /\ IndicesAgree'
           /\ Num_available' = Num_available - 1 /\ Num_free' = Num_free
           /\ Window(fifo.buf, fifo.ri, Size - fifo.free, Size) # <<>>
           /\ fifo'.got = Head(Window(fifo.buf, fifo.ri, Size - fifo.free, Size))
           /\ Window(fifo.buf, fifo.ri, Size - fifo.free, Size)'
                  = Tail(Window(fifo.buf, fifo.ri, Size - fifo.free, Size))
<1> USE SizeFacts
<1>1. FifoOK(fifo) /\ CountsOK(fifo)
  BY DEF FifoType, FifoOK, CountsOK
<1>2. fifo.free < Size /\ Num_available > 0
  BY <1>1 DEF CountsOK, CountsAgree, Num_free, Num_available
<1>3. fifo' = [fifo EXCEPT !.got = fifo.buf[fifo.ri], !.ri = (fifo.ri + 1) % Size,
                           !.buf[fifo.ri] = Blank,
                           !.free = fifo.free + 1, !.read = fifo.read + 1]
  BY <1>1, <1>2 DEF Buf_read, CountsOK
<1>4. /\ fifo'.buf = [fifo.buf EXCEPT ![fifo.ri] = Blank] /\ fifo'.ri = (fifo.ri + 1) % Size
      /\ fifo'.free = fifo.free + 1 /\ fifo'.read = fifo.read + 1
      /\ fifo'.wi = fifo.wi /\ fifo'.readable = fifo.readable /\ fifo'.written = fifo.written
      /\ fifo'.got = fifo.buf[fifo.ri]
  BY <1>3 DEF FifoType
<1>5. Num_available' = Num_available - 1 /\ Num_free' = Num_free
  BY <1>1, <1>4 DEF CountsOK, Num_available, Num_free
<1>6. fifo.read + 1 \in 0..Size
  BY <1>1, <1>2 DEF CountsOK, Num_available
<1>7. (fifo.ri + 1) % Size \in 0..(Size - 1)
  BY <1>1, WrapNext DEF FifoOK
<1>8. FifoOK(fifo') /\ CountsOK(fifo')
  <2>1. FifoOK(fifo')
    BY <1>1, <1>4, <1>7 DEF FifoOK
  <2>2. CountsOK(fifo')
    BY <1>1, <1>2, <1>4, <1>6 DEF CountsOK
  <2> QED BY <2>1, <2>2
<1>9. fifo' \in FifoType
  BY <1>3, <1>4, <1>8 DEF FifoOK, CountsOK, FifoType
<1> DEFINE n == Size - fifo.free
           m == Size - fifo'.free
<1>10. n \in Int /\ 1 <= n /\ n <= Size /\ m = n - 1 /\ m \in Int
  BY <1>1, <1>2, <1>4 DEF CountsOK
<1>11. fifo.wi = (fifo.ri + n) % Size
  BY DEF IndicesAgree
<1> HIDE DEF n, m
<1>12. fifo'.wi = (fifo'.ri + m) % Size
  <2>1. fifo.ri \in Int /\ 0 <= fifo.ri /\ fifo.ri < Size
    BY <1>1 DEF FifoOK
  <2>2. (((fifo.ri + 1) % Size) + (n - 1)) % Size = (fifo.ri + n) % Size
    BY <1>10, <2>1, WrapRead
  <2> QED BY <1>4, <1>10, <1>11, <2>2, Zenon
<1>13. CountsAgree' /\ IndicesAgree'
  <2>1. fifo'.free = Size - fifo'.readable + fifo'.read - fifo'.written
    BY <1>1, <1>4 DEF CountsOK, CountsAgree
  <2>2. Num_available' >= 0 /\ Num_free' >= 0
    BY <1>1, <1>2, <1>5 DEF CountsOK, CountsAgree, Num_available
  <2> QED BY <1>12, <2>1, <2>2 DEF CountsAgree, IndicesAgree, m
<1>14. /\ Window(fifo.buf, fifo.ri, n, Size) # <<>>
       /\ Head(Window(fifo.buf, fifo.ri, n, Size)) = fifo.buf[fifo.ri]
       /\ Window(fifo'.buf, (fifo.ri + 1) % Size, m, Size)
              = Tail(Window(fifo.buf, fifo.ri, n, Size))
  <2>1. DiffersAt(fifo.buf, fifo'.buf, fifo.ri, Size)
    BY <1>1, <1>4 DEF DiffersAt, FifoOK
  <2>2. fifo.ri \in Int /\ 0 <= fifo.ri /\ fifo.ri < Size
    BY <1>1 DEF FifoOK
  <2>3. Taken(fifo.buf, fifo'.buf, fifo.ri, n, m, Size)
    BY <1>10, <2>1, <2>2 DEF Taken
  <2> QED BY <2>3, WindowTail
<1> QED BY <1>4, <1>5, <1>9, <1>13, <1>14 DEF n, m

LEMMA UpdateFacts ==
    ASSUME ChannelsAssumption, fifo \in FifoType, CountsAgree, IndicesAgree,
           fifo' = [fifo EXCEPT !.readable = Size - fifo.free, !.read = 0, !.written = 0]
    PROVE  /\ fifo' \in FifoType /\ CountsAgree' /\ IndicesAgree'
           /\ Num_available' = Size - fifo.free /\ Num_free' = fifo.free
           /\ Num_available' = Num_available + fifo.written
           /\ Num_free' = Num_free + fifo.read
           /\ fifo.read \in Nat /\ fifo.written \in Nat
           /\ fifo'.got = fifo.got
           /\ Window(fifo.buf, fifo.ri, Size - fifo.free, Size)'
                  = Window(fifo.buf, fifo.ri, Size - fifo.free, Size)
           /\ Len(Window(fifo.buf, fifo.ri, Size - fifo.free, Size)) = Size - fifo.free
<1> USE SizeFacts
<1>1. FifoOK(fifo) /\ CountsOK(fifo)
  BY DEF FifoType, FifoOK, CountsOK
<1>2. /\ fifo'.buf = fifo.buf /\ fifo'.ri = fifo.ri /\ fifo'.wi = fifo.wi
      /\ fifo'.free = fifo.free /\ fifo'.got = fifo.got
      /\ fifo'.readable = Size - fifo.free /\ fifo'.read = 0 /\ fifo'.written = 0
  BY DEF FifoType
<1>3. FifoOK(fifo') /\ CountsOK(fifo')
  BY <1>1, <1>2 DEF FifoOK, CountsOK
<1>4. fifo' \in FifoType
  BY <1>2, <1>3 DEF FifoOK, CountsOK, FifoType
<1>5. /\ Num_available' = Size - fifo.free /\ Num_free' = fifo.free
      /\ Num_available' = Num_available + fifo.written
      /\ Num_free' = Num_free + fifo.read
  BY <1>1, <1>2 DEF CountsOK, CountsAgree, Num_available, Num_free
<1>6. CountsAgree' /\ IndicesAgree'
  BY <1>1, <1>2, <1>5 DEF CountsOK, CountsAgree, IndicesAgree
<1>7. Size - fifo.free \in Nat
  BY <1>1 DEF CountsOK
<1>8. Len(Window(fifo.buf, fifo.ri, Size - fifo.free, Size)) = Size - fifo.free
  BY <1>7, WindowEntries DEF Entries
<1> QED BY <1>1, <1>2, <1>4, <1>5, <1>6, <1>8 DEF CountsOK
-------------------------------------------------------------------------------
(* The threads *)

ThreadsOK ==
    /\ runnable \subseteq Thread /\ resting \subseteq Thread
    /\ curr \in Thread \cup {None}
    /\ call \in [Thread -> Call \cup {"none"}]

LocksOK ==
    /\ owner \in Thread \cup {None} /\ inside \subseteq Thread /\ value \in 0..MaxPost

ExampleOK ==
    /\ data \in [0..(Max - 1) -> Value] /\ first \in 0..(Max - 1) /\ num \in Int

LEMMA TypeSplit ==
    TypeOK <=> ThreadsOK /\ fifo \in FifoType /\ asked \in BOOLEAN /\ LocksOK /\ ExampleOK
BY DEF TypeOK, ThreadsOK, FifoType, LocksOK, ExampleOK

(* Everything but the threads.                                             *)
ChannelsOK ==
    /\ fifo \in FifoType /\ asked \in BOOLEAN /\ LocksOK /\ ExampleOK
    /\ CountsAgree /\ IndicesAgree /\ OwnerIsInside

LEMMA SameChannels ==
    ASSUME ChannelsOK, UNCHANGED <<fifo, asked, locks, example>>
    PROVE  ChannelsOK' /\ Open' = Open
BY DEF ChannelsOK, LocksOK, ExampleOK, CountsAgree, IndicesAgree, OwnerIsInside,
       Num_available, Num_free, Open, CouldGoOn, locks, example

LEMMA Split ==
    IInv <=> ThreadsOK /\ ThreadsApart /\ SleepersSound /\ ChannelsOK
BY TypeSplit DEF IInv, ChannelsOK

LEMMA SplitNext ==
    ThreadsOK' /\ ThreadsApart' /\ SleepersSound' /\ ChannelsOK' => IInv'
BY Split, PTL

(* A step that puts no thread to sleep that could go on.                   *)
LEMMA SleepersSame ==
    ASSUME SleepersSound, Open' = Open,
           \A u \in Thread : u # curr' /\ u \notin runnable' =>
               \/ call'[u] = call[u] /\ u # curr /\ u \notin runnable
               \/ call'[u] \notin Open
    PROVE  SleepersSound'
BY DEF SleepersSound

LEMMA BlocksStep ==
    ASSUME ChannelsAssumption, IInv, NEW t \in Thread, curr = t, NEW c \in Call,
           Blocks(t, c), c \notin Open
    PROVE  IInv'
<1> USE SizeFacts, Split, SplitNext
<1>1. ChannelsOK' /\ Open' = Open
  BY SameChannels DEF Blocks
<1>2. ThreadsOK'
  BY DEF ThreadsOK, Blocks
<1>3. ThreadsApart'
  BY DEF ThreadsOK, ThreadsApart, Blocks
<1>4. \A u \in Thread : u # curr' /\ u \notin runnable' =>
          \/ call'[u] = call[u] /\ u # curr /\ u \notin runnable
          \/ call'[u] \notin Open
  BY DEF Blocks, ThreadsOK
<1>5. SleepersSound'
  BY <1>1, <1>4, SleepersSame
<1> QED BY <1>1, <1>2, <1>3, <1>5

(* A call returns: those it wakes have not to wait any more, for the rest  *)
(* nothing has changed.                                                    *)
LEMMA ReturnsStep ==
    ASSUME ChannelsAssumption, IInv, NEW t \in Thread, curr = t, NEW c,
           c # "none", Returns(t, c), ChannelsOK',
           Open' \subseteq Open \cup {c}
    PROVE  IInv'
<1> USE SizeFacts, Split, SplitNext
<1>1. ThreadsOK'
  BY DEF ThreadsOK, Returns, Waiters
<1>2. ThreadsApart'
  <2>1. curr' \notin runnable'
    BY DEF ThreadsOK, ThreadsApart, Returns, Waiters
  <2> SUFFICES ASSUME NEW u \in resting'
               PROVE  call'[u] = "none" /\ u \notin runnable' /\ u # curr'
    BY <2>1 DEF ThreadsApart
  <2>2. u \in Thread /\ u # t /\ call[u] = "none" /\ u \notin runnable
    BY DEF ThreadsOK, ThreadsApart, Returns
  <2>3. call'[u] = "none" /\ u # curr'
    BY <2>2 DEF ThreadsOK, Returns
  <2>4. u \notin Waiters(c)
    BY <2>2, curr = t DEF Waiters
  <2> QED BY <2>2, <2>3, <2>4 DEF Returns
<1>3. SleepersSound'
  <2> SUFFICES ASSUME NEW u \in Thread, u # curr', u \notin runnable'
               PROVE  call'[u] \notin Open'
    BY DEF SleepersSound
  <2>1. u # t /\ call'[u] = call[u] /\ u \notin runnable /\ call[u] # c
    BY DEF Returns, ThreadsOK, Waiters
  <2>2. call[u] \notin Open
    BY <2>1 DEF SleepersSound
  <2> QED BY <2>1, <2>2
<1> QED BY <1>1, <1>2, <1>3

LEMMA DispatchStep ==
    ASSUME ChannelsAssumption, IInv, NEW t \in Thread, Dispatch(t) PROVE IInv'
<1> USE SizeFacts, Split, SplitNext
<1>1. ChannelsOK' /\ Open' = Open
  BY SameChannels DEF Dispatch
<1>2. ThreadsOK' /\ ThreadsApart'
  BY DEF ThreadsOK, ThreadsApart, Dispatch
<1>3. \A u \in Thread : u # curr' /\ u \notin runnable' =>
          call'[u] = call[u] /\ u # curr /\ u \notin runnable
  BY DEF Dispatch, ThreadsOK
<1>4. SleepersSound'
  BY <1>1, <1>3, SleepersSame
<1> QED BY <1>1, <1>2, <1>4

LEMMA RestStep ==
    ASSUME ChannelsAssumption, IInv, NEW t \in Thread, Rest(t) PROVE IInv'
<1> USE SizeFacts, Split, SplitNext
<1>1. ChannelsOK' /\ Open' = Open
  BY SameChannels DEF Rest
<1>2. ThreadsOK' /\ ThreadsApart'
  BY DEF ThreadsOK, ThreadsApart, Rest
<1>3. "none" \notin Open
  BY DEF Open, Call
<1>4. \A u \in Thread : u # curr' /\ u \notin runnable' =>
          \/ call'[u] = call[u] /\ u # curr /\ u \notin runnable
          \/ call'[u] \notin Open
  BY <1>3 DEF Rest, ThreadsOK
<1>5. SleepersSound'
  BY <1>1, <1>4, SleepersSame
<1> QED BY <1>1, <1>2, <1>5

LEMMA AdvanceStep == ASSUME ChannelsAssumption, IInv, AdvanceTime PROVE IInv'
<1> USE SizeFacts, Split, SplitNext
<1>1. ChannelsOK' /\ Open' = Open
  BY SameChannels DEF AdvanceTime
<1>2. ThreadsOK' /\ ThreadsApart'
  BY DEF ThreadsOK, ThreadsApart, AdvanceTime
<1>3. \A u \in Thread : u # curr' /\ u \notin runnable' =>
          call'[u] = call[u] /\ u # curr /\ u \notin runnable
  BY DEF AdvanceTime, ThreadsOK
<1>4. SleepersSound'
  BY <1>1, <1>3, SleepersSame
<1> QED BY <1>1, <1>2, <1>4

LEMMA UpdateStep == ASSUME ChannelsAssumption, IInv, Update PROVE IInv'
<1> USE SizeFacts, Split, SplitNext
<1>1. fifo \in FifoType /\ CountsAgree /\ IndicesAgree
  BY DEF ChannelsOK
<1>2. fifo' = [fifo EXCEPT !.readable = Size - fifo.free, !.read = 0, !.written = 0]
  BY DEF Update
<1>3. /\ fifo' \in FifoType /\ CountsAgree' /\ IndicesAgree'
      /\ Num_available' = Num_available + fifo.written
      /\ Num_free' = Num_free + fifo.read
      /\ fifo.read \in Nat /\ fifo.written \in Nat
  BY <1>1, <1>2, UpdateFacts
<1>4. ChannelsOK'
  BY <1>3 DEF Update, ChannelsOK, LocksOK, ExampleOK, OwnerIsInside, locks, example
<1>5. PICK woken \in SUBSET resting :
         /\ runnable' = woken \cup (IF fifo.read > 0 THEN Waiters("write") ELSE {})
                              \cup (IF fifo.written > 0 THEN Waiters("read") ELSE {})
         /\ resting' = resting \ woken
  BY DEF Update
<1>6. curr = None /\ curr' = None /\ call' = call /\ runnable = {} /\ UNCHANGED <<locks, example>>
  BY DEF Update
<1>7. ThreadsOK'
  BY <1>5, <1>6 DEF ThreadsOK, Waiters
<1>8. ThreadsApart'
  BY <1>5, <1>6 DEF ThreadsOK, ThreadsApart, Waiters
<1>9. SleepersSound'
  <2> SUFFICES ASSUME NEW u \in Thread, u # curr', u \notin runnable'
               PROVE  call'[u] \notin Open'
    BY DEF SleepersSound
  <2>1. call'[u] = call[u] /\ u # curr /\ u \notin runnable
    BY <1>6 DEF ThreadsOK
  <2>2. call[u] \notin Open
    BY <2>1 DEF SleepersSound
  <2>3. call[u] = "write" => ~(fifo.read > 0)
    BY <1>5, <1>6, <2>1 DEF Waiters
  <2>4. call[u] = "read" => ~(fifo.written > 0)
    BY <1>5, <1>6, <2>1 DEF Waiters
  <2>5. Num_available \in Int /\ Num_free \in Int
    BY <1>1 DEF FifoType, Num_available, Num_free
  <2> QED BY <1>3, <1>6, <2>1, <2>2, <2>3, <2>4, <2>5
          DEF Open, CouldGoOn, locks, example
<1> QED BY <1>4, <1>7, <1>8, <1>9

(* The calls *)

LEMMA FifoWriteStep ==
    ASSUME ChannelsAssumption, IInv, NEW t \in Thread, FifoWrite(t) PROVE IInv'
<1> USE SizeFacts, Split, SplitNext
<1>1. curr = t /\ "write" \in Call  /\ fifo \in FifoType /\ CountsAgree /\ IndicesAgree
  BY DEF FifoWrite, Calls, Call, ChannelsOK
<1>2. CASE Num_free = 0
  <2>1. Blocks(t, "write") /\ "write" \notin Open
    BY <1>2 DEF FifoWrite, Open, CouldGoOn
  <2> QED BY <1>1, <2>1, BlocksStep
<1>3. CASE Num_free # 0
  <2>1. PICK v \in Value : Buf_write(v)
    BY <1>3 DEF FifoWrite
  <2>2. Returns(t, "none of them") /\ UNCHANGED <<locks, example>> /\ asked' = TRUE
    BY <1>3, <2>1 DEF FifoWrite, Buf_write
  <2>3. /\ fifo' \in FifoType /\ CountsAgree' /\ IndicesAgree'
        /\ Num_available' = Num_available /\ Num_free' = Num_free - 1
    BY <1>1, <1>3, <2>1, WriteFacts
  <2>4. ChannelsOK'
    BY <2>2, <2>3 DEF ChannelsOK, LocksOK, ExampleOK, OwnerIsInside, locks, example
  <2>5. Open' \subseteq Open
    <3>1. Num_free \in Int
      BY <1>1 DEF FifoType, Num_free
    <3>2. Num_free' > 0 => Num_free > 0
      BY <2>3, <3>1
    <3>3. Num_available' > 0 => Num_available > 0
      BY <2>3
    <3> HIDE SizeFacts, Split, SplitNext
    <3> QED BY <2>2, <3>2, <3>3 DEF Open, CouldGoOn, Call, locks, example
  <2> QED BY <1>1, <2>2, <2>4, <2>5, ReturnsStep
<1> QED BY <1>2, <1>3

LEMMA FifoReadStep ==
    ASSUME ChannelsAssumption, IInv, NEW t \in Thread, FifoRead(t) PROVE IInv'
<1> USE SizeFacts, Split, SplitNext
<1>1. curr = t /\ "read" \in Call /\ fifo \in FifoType /\ CountsAgree /\ IndicesAgree
  BY DEF FifoRead, Calls, Call, ChannelsOK
<1>2. CASE Num_available = 0
  <2>1. Blocks(t, "read") /\ "read" \notin Open
    BY <1>2 DEF FifoRead, Open, CouldGoOn
  <2> QED BY <1>1, <2>1, BlocksStep
<1>3. CASE Num_available # 0
  <2>1. Buf_read /\ Returns(t, "none of them") /\ UNCHANGED <<locks, example>>
        /\ asked' = TRUE
    BY <1>3 DEF FifoRead, Buf_read
  <2>3. /\ fifo' \in FifoType /\ CountsAgree' /\ IndicesAgree'
        /\ Num_available' = Num_available - 1 /\ Num_free' = Num_free
    BY <1>1, <1>3, <2>1, ReadFacts
  <2>4. ChannelsOK'
    BY <2>1, <2>3 DEF ChannelsOK, LocksOK, ExampleOK, OwnerIsInside, locks, example
  <2>5. Open' \subseteq Open
    <3>1. Num_available \in Int
      BY <1>1 DEF FifoType, Num_available
    <3>2. Num_available' > 0 => Num_available > 0
      BY <2>3, <3>1
    <3>3. Num_free' > 0 => Num_free > 0
      BY <2>3
    <3> HIDE SizeFacts, Split, SplitNext
    <3> QED BY <2>1, <3>2, <3>3 DEF Open, CouldGoOn, Call, locks, example
  <2> QED BY <1>1, <2>1, <2>4, <2>5, ReturnsStep
<1> QED BY <1>2, <1>3

(* A call that leaves the sc_fifo alone.                                   *)
LEMMA SameFifo ==
    ASSUME ChannelsOK, UNCHANGED <<fifo, asked>>, LocksOK', ExampleOK', OwnerIsInside'
    PROVE  /\ ChannelsOK'
           /\ ("read" \in Open' <=> "read" \in Open)
           /\ ("write" \in Open' <=> "write" \in Open)
BY DEF ChannelsOK, CountsAgree, IndicesAgree, Num_available, Num_free, Open, CouldGoOn

LEMMA LockStep ==
    ASSUME ChannelsAssumption, IInv, NEW t \in Thread, Lock(t) PROVE IInv'
<1> USE SizeFacts, Split, SplitNext
<1>1. curr = t /\ "lock" \in Call
  BY DEF Lock, Calls, Call
<1>2. CASE owner \notin {None, t}
  <2>1. Blocks(t, "lock") /\ "lock" \notin Open
    BY <1>2 DEF Lock, Open, CouldGoOn
  <2> QED BY <1>1, <2>1, BlocksStep
<1>3. CASE owner \in {None, t}
  <2>1. /\ owner' = t /\ inside' = inside \cup {t} /\ Returns(t, "none of them")
        /\ UNCHANGED <<value, fifo, asked, example>>
    BY <1>3 DEF Lock
  <2>2. LocksOK' /\ ExampleOK' /\ OwnerIsInside'
    BY <1>3, <2>1 DEF ChannelsOK, LocksOK, ExampleOK, OwnerIsInside, example
  <2>3. ChannelsOK' /\ Open' \subseteq Open
    <3>1. ChannelsOK' /\ ("read" \in Open' <=> "read" \in Open)
                      /\ ("write" \in Open' <=> "write" \in Open)
      BY <2>1, <2>2, SameFifo
    <3> QED BY <2>1, <3>1 DEF Open, CouldGoOn, Call, example
  <2> QED BY <1>1, <2>1, <2>3, ReturnsStep
<1> QED BY <1>2, <1>3

LEMMA UnlockStep ==
    ASSUME ChannelsAssumption, IInv, NEW t \in Thread, Unlock(t) PROVE IInv'
<1> USE SizeFacts, Split, SplitNext
<1>1. /\ curr = t /\ owner = t /\ owner' = None /\ inside' = inside \ {t}
      /\ Returns(t, "lock") /\ UNCHANGED <<value, fifo, asked, example>>
  BY DEF Unlock, Calls
<1>2. LocksOK' /\ ExampleOK' /\ OwnerIsInside'
  BY <1>1 DEF ChannelsOK, LocksOK, ExampleOK, OwnerIsInside, example
<1>3. ChannelsOK' /\ Open' \subseteq Open \cup {"lock"}
  <2>1. ChannelsOK' /\ ("read" \in Open' <=> "read" \in Open)
                    /\ ("write" \in Open' <=> "write" \in Open)
    BY <1>1, <1>2, SameFifo
  <2> QED BY <1>1, <2>1 DEF Open, CouldGoOn, Call, example
<1> QED BY <1>1, <1>3, ReturnsStep

LEMMA TakeStep ==
    ASSUME ChannelsAssumption, IInv, NEW t \in Thread, Take(t) PROVE IInv'
<1> USE SizeFacts, Split, SplitNext
<1>1. curr = t /\ "take" \in Call /\ value \in 0..MaxPost
  BY DEF Take, Calls, Call, ChannelsOK, LocksOK
<1>2. CASE value <= 0
  <2>1. Blocks(t, "take") /\ "take" \notin Open
    BY <1>1, <1>2 DEF Take, Open, CouldGoOn
  <2> QED BY <1>1, <2>1, BlocksStep
<1>3. CASE ~(value <= 0)
  <2>1. /\ value' = value - 1 /\ Returns(t, "none of them")
        /\ UNCHANGED <<owner, inside, fifo, asked, example>>
    BY <1>3 DEF Take
  <2>a. value > 0 /\ value' \in 0..MaxPost
    <3>1. MaxPost \in Int /\ value \in Int /\ 0 <= value /\ value <= MaxPost
      BY <1>1
    <3>2. value > 0
      BY <1>3, <3>1
    <3>3. value - 1 \in 0..MaxPost
      BY <3>1, <3>2
    <3>4. value' = value - 1
      BY <2>1
    <3> QED BY <3>2, <3>3, <3>4
  <2>2. LocksOK' /\ ExampleOK' /\ OwnerIsInside'
    BY <2>a, <2>1 DEF ChannelsOK, LocksOK, ExampleOK, OwnerIsInside, example
  <2>3. ChannelsOK' /\ Open' \subseteq Open
    <3>1. ChannelsOK' /\ ("read" \in Open' <=> "read" \in Open)
                      /\ ("write" \in Open' <=> "write" \in Open)
      BY <2>1, <2>2, SameFifo
    <3> QED BY <2>a, <2>1, <3>1 DEF Open, CouldGoOn, Call, example
  <2> QED BY <1>1, <2>1, <2>3, ReturnsStep
<1> QED BY <1>2, <1>3

LEMMA PostStep ==
    ASSUME ChannelsAssumption, IInv, NEW t \in Thread, Post(t) PROVE IInv'
<1> USE SizeFacts, Split, SplitNext
<1>1. /\ curr = t /\ value < MaxPost /\ value' = value + 1
      /\ Returns(t, "take") /\ UNCHANGED <<owner, inside, fifo, asked, example>>
      /\ value \in 0..MaxPost
  BY DEF Post, Calls, ChannelsOK, LocksOK
<1>2. LocksOK' /\ ExampleOK' /\ OwnerIsInside'
  BY <1>1 DEF ChannelsOK, LocksOK, ExampleOK, OwnerIsInside, example
<1>3. ChannelsOK' /\ Open' \subseteq Open \cup {"take"}
  <2>1. ChannelsOK' /\ ("read" \in Open' <=> "read" \in Open)
                    /\ ("write" \in Open' <=> "write" \in Open)
    BY <1>1, <1>2, SameFifo
  <2> QED BY <1>1, <2>1 DEF Open, CouldGoOn, Call, example
<1> QED BY <1>1, <1>3, ReturnsStep

(* The Fifo of the example *)

LEMMA Fifo_writeStep ==
    ASSUME ChannelsAssumption, IInv, NEW t \in Thread, Fifo_write(t) PROVE IInv'
<1> USE SizeFacts, Split, SplitNext
<1>1. curr = t /\ "put" \in Call /\ ExampleOK
  BY DEF Fifo_write, Calls, Call, ChannelsOK
<1>2. CASE call[t] = "none" /\ num = Max
  <2>1. Blocks(t, "put") /\ "put" \notin Open
    BY <1>2 DEF Fifo_write, Open, CouldGoOn
  <2> QED BY <1>1, <2>1, BlocksStep
<1>3. CASE ~(call[t] = "none" /\ num = Max)
  <2>1. PICK v \in Value : data' = [data EXCEPT ![(first + num) % Max] = v]
    BY <1>3 DEF Fifo_write
  <2>2. /\ num' = num + 1 /\ Returns(t, "get")
        /\ UNCHANGED <<first, fifo, asked, locks>>
    BY <1>3 DEF Fifo_write
  <2>3. num \in Int /\ num' \in Int
    BY <1>1, <2>2 DEF ExampleOK
  <2>4. ExampleOK'
    BY <1>1, <2>1, <2>2, <2>3 DEF ExampleOK
  <2>5. LocksOK' /\ OwnerIsInside'
    BY <2>2 DEF ChannelsOK, LocksOK, OwnerIsInside, locks
  <2>6. ChannelsOK' /\ ("read" \in Open' <=> "read" \in Open)
                    /\ ("write" \in Open' <=> "write" \in Open)
    BY <2>2, <2>4, <2>5, SameFifo
  <2>7. num' < Max => num < Max
    BY <2>2, <2>3
  <2>8. Open' \subseteq Open \cup {"get"}
    <3> HIDE SizeFacts, Split, SplitNext
    <3> QED BY <2>2, <2>6, <2>7 DEF Open, CouldGoOn, Call, locks
  <2> QED BY <1>1, <2>2, <2>6, <2>8, ReturnsStep
<1> QED BY <1>2, <1>3

LEMMA Fifo_readStep ==
    ASSUME ChannelsAssumption, IInv, NEW t \in Thread, Fifo_read(t) PROVE IInv'
<1> USE SizeFacts, Split, SplitNext
<1>1. curr = t /\ "get" \in Call /\ ExampleOK
  BY DEF Fifo_read, Calls, Call, ChannelsOK
<1>2. CASE call[t] = "none" /\ num = 0
  <2>1. Blocks(t, "get") /\ "get" \notin Open
    BY <1>2 DEF Fifo_read, Open, CouldGoOn
  <2> QED BY <1>1, <2>1, BlocksStep
<1>3. CASE ~(call[t] = "none" /\ num = 0)
  <2>1. /\ num' = num - 1 /\ first' = (first + 1) % Max /\ Returns(t, "put")
        /\ UNCHANGED <<data, fifo, asked, locks>>
    BY <1>3 DEF Fifo_read
  <2>2. num \in Int /\ num' \in Int
    BY <1>1, <2>1 DEF ExampleOK
  <2>3. first' \in 0..(Max - 1)
    BY <1>1, <2>1, WrapNext DEF ExampleOK
  <2>4. ExampleOK'
    BY <1>1, <2>1, <2>2, <2>3 DEF ExampleOK
  <2>5. LocksOK' /\ OwnerIsInside'
    BY <2>1 DEF ChannelsOK, LocksOK, OwnerIsInside, locks
  <2>6. ChannelsOK' /\ ("read" \in Open' <=> "read" \in Open)
                    /\ ("write" \in Open' <=> "write" \in Open)
    BY <2>1, <2>4, <2>5, SameFifo
  <2>7. num' > 0 => num > 0
    BY <2>1, <2>2
  <2>8. Open' \subseteq Open \cup {"put"}
    <3> HIDE SizeFacts, Split, SplitNext
    <3> QED BY <2>1, <2>6, <2>7 DEF Open, CouldGoOn, Call, locks
  <2> QED BY <1>1, <2>1, <2>6, <2>8, ReturnsStep
<1> QED BY <1>2, <1>3
-------------------------------------------------------------------------------
(* The inductive invariant: types, the counts and the indices of the       *)
(* sc_fifo, the places of the threads, the owner of the mutex, and that a  *)
(* thread asleep must wait.  It holds for any threads and calls.           *)
THEOREM Inductive == Spec => []IInv
<1> USE ChannelsAssumption
<1>1. Init => IInv
  <2> SUFFICES ASSUME Init PROVE IInv
    OBVIOUS
  <2> USE SizeFacts
  <2>1. ThreadsOK /\ ThreadsApart
    BY DEF Init, ThreadsOK, ThreadsApart
  <2>2. SleepersSound
    BY DEF Init, SleepersSound
  <2>3. FifoOK(fifo) /\ CountsOK(fifo)
    BY DEF Init, FifoOK, CountsOK
  <2>4. fifo \in FifoType
    BY <2>3 DEF Init, FifoType, FifoOK, CountsOK
  <2>5. CountsAgree
    BY DEF Init, CountsAgree, Num_available, Num_free
  <2>6. IndicesAgree
    <3>1. (0 + (Size - Size)) % Size = 0
      BY Wrap
    <3> QED BY <3>1 DEF Init, IndicesAgree
  <2>7. LocksOK /\ ExampleOK /\ OwnerIsInside /\ asked \in BOOLEAN
    <3>1. 0 \in 0..MaxPost /\ 0 \in 0..(Max - 1) /\ 0 \in Int
      OBVIOUS
    <3>2. LocksOK /\ OwnerIsInside /\ asked \in BOOLEAN
      BY <3>1 DEF Init, LocksOK, OwnerIsInside
    <3>3. ExampleOK
      BY <3>1 DEF Init, ExampleOK
    <3> QED BY <3>2, <3>3
  <2> QED BY <2>1, <2>2, <2>4, <2>5, <2>6, <2>7, Split DEF ChannelsOK
<1>2. IInv /\ [Next]_vars => IInv'
  <2> SUFFICES ASSUME IInv, [Next]_vars PROVE IInv'
    OBVIOUS
  <2>1. ASSUME NEW t \in Thread, Dispatch(t) \/ Rest(t) PROVE IInv'
    BY <2>1, DispatchStep, RestStep
  <2>2. ASSUME NEW t \in Thread, FifoWrite(t) \/ FifoRead(t) PROVE IInv'
    BY <2>2, FifoWriteStep, FifoReadStep
  <2>3. ASSUME NEW t \in Thread, Lock(t) \/ Unlock(t) PROVE IInv'
    BY <2>3, LockStep, UnlockStep
  <2>4. ASSUME NEW t \in Thread, Take(t) \/ Post(t) PROVE IInv'
    BY <2>4, TakeStep, PostStep
  <2>5. ASSUME NEW t \in Thread, Fifo_write(t) \/ Fifo_read(t) PROVE IInv'
    BY <2>5, Fifo_writeStep, Fifo_readStep
  <2>6. CASE Update \/ AdvanceTime
    BY <2>6, UpdateStep, AdvanceStep
  <2>7. CASE UNCHANGED vars
    <3>1. UNCHANGED <<runnable, curr, call, resting, fifo, asked, owner, inside, value,
                      data, first, num>>
      BY <2>7 DEF vars, threads, locks, example
    <3> QED BY <3>1
        DEF IInv, TypeOK, CountsAgree, IndicesAgree, Num_available, Num_free, ThreadsApart,
            OwnerIsInside, SleepersSound, Open, CouldGoOn
  <2> QED BY <2>1, <2>2, <2>3, <2>4, <2>5, <2>6, <2>7 DEF Next
<1> QED BY <1>1, <1>2, PTL DEF Spec

(* Every variable keeps the type the code gives it; the counts of the      *)
(* sc_fifo stay within its size.                                           *)
THEOREM TypeCorrect == Spec => []TypeOK
<1>1. IInv => TypeOK
  BY DEF IInv
<1> QED BY <1>1, Inductive, PTL

(* No wakeup of a channel is lost: a thread asleep in a call of an         *)
(* sc_fifo, sc_mutex, sc_semaphore or the example's Fifo could not go on.  *)
THEOREM SleepersCorrect == Spec => []SleepersMustWait
<1>1. IInv => SleepersMustWait
  <2> SUFFICES ASSUME IInv, NEW t \in Thread,
                      call[t] # "none", t # curr, t \notin runnable
               PROVE  ~CouldGoOn(call[t])
    BY DEF SleepersMustWait
  <2>1. call[t] \in Call
    BY DEF IInv, TypeOK
  <2>2. call[t] \notin Open
    BY DEF IInv, SleepersSound
  <2> QED BY <2>1, <2>2 DEF Open
<1> QED BY <1>1, Inductive, PTL

(* Two threads are never between the return of lock() and unlock().        *)
THEOREM MutexCorrect == Spec => []MutualExclusion
<1>1. IInv => MutualExclusion
  <2> SUFFICES ASSUME IInv PROVE MutualExclusion
    OBVIOUS
  <2>1. inside \subseteq {owner}
    BY DEF IInv, OwnerIsInside
  <2>2. IsFiniteSet({owner}) /\ Cardinality({owner}) = 1
    BY FS_Singleton
  <2>3. Cardinality(inside) <= 1
    BY <2>1, <2>2, FS_Subset
  <2> QED BY <2>1, <2>3 DEF MutualExclusion
<1> QED BY <1>1, Inductive, PTL
-------------------------------------------------------------------------------
(* The Fifo of the example *)

LEMMA ExampleBlocks ==
    ASSUME ChannelsAssumption, IInv, ExampleInv, NEW t \in Thread, NEW c \in Use[t],
           curr = t, Blocks(t, c)
    PROVE  ExampleInv'
<1>1. ThreadsOK /\ curr \notin runnable /\ None \notin Thread
  BY Split, SizeFacts DEF ThreadsApart
<1>2. num' = num
  BY DEF Blocks, example
<1>3. \A u \in Thread : call'[u] # "none" => call'[u] \in Use[u]
  BY <1>1 DEF Blocks, ThreadsOK, ExampleInv
<1>4. Served'
  <2> SUFFICES ASSUME NEW u \in Thread, u \in runnable' \/ u = curr'
               PROVE  /\ call'[u] = "put" => num' < Max
                      /\ call'[u] = "get" => num' > 0
    BY DEF Served
  <2>1. u \in runnable /\ call'[u] = call[u]
    BY <1>1 DEF Blocks, ThreadsOK
  <2> QED BY <1>2, <2>1 DEF ExampleInv, Served
<1> QED BY <1>2, <1>3, <1>4 DEF ExampleInv

(* A step that leaves the example's Fifo alone and wakes no thread in it.  *)
LEMMA ExampleSame ==
    ASSUME ExampleInv, num' = num,
           \A u \in Thread :
              /\ call'[u] = call[u] \/ call'[u] = "none"
              /\ u \in runnable' \/ u = curr' =>
                    u \in runnable \/ u = curr \/ call[u] \notin {"put", "get"}
    PROVE  ExampleInv'
<1>1. \A u \in Thread : call'[u] # "none" => call'[u] \in Use[u]
  BY DEF ExampleInv
<1>2. Served'
  BY DEF ExampleInv, Served
<1> QED BY <1>1, <1>2 DEF ExampleInv

LEMMA ExampleReturns ==
    ASSUME IInv, ExampleInv, NEW t \in Thread, curr = t, NEW c, c \notin {"put", "get"},
           Returns(t, c), num' = num
    PROVE  ExampleInv'
<1>1. ThreadsOK
  BY Split
<1>2. \A u \in Thread :
         /\ call'[u] = call[u] \/ call'[u] = "none"
         /\ u \in runnable' \/ u = curr' =>
               u \in runnable \/ u = curr \/ call[u] \notin {"put", "get"}
  BY <1>1 DEF Returns, ThreadsOK, Waiters
<1> QED BY <1>2, ExampleSame

LEMMA ExampleSteps ==
    ASSUME ChannelsAssumption, OneOfEach, IInv, ExampleInv, NEW t \in Thread,
           FifoWrite(t) \/ FifoRead(t) \/ Lock(t) \/ Unlock(t) \/ Take(t) \/ Post(t)
    PROVE  ExampleInv'
<1>1. CASE \E c \in Use[t] : curr = t /\ Blocks(t, c)
  BY <1>1, ExampleBlocks
<1>2. CASE \E c \in {"none of them", "lock", "take"} :
              curr = t /\ Returns(t, c) /\ num' = num
  BY <1>2, ExampleReturns
<1> QED BY <1>1, <1>2
    DEF FifoWrite, FifoRead, Lock, Unlock, Take, Post, Calls, locks, example

(* The producer's call finds a free place, and what it writes is appended. *)
LEMMA Fifo_writeFacts ==
    ASSUME ChannelsAssumption, OneOfEach, IInv, ExampleInv, NEW t \in Thread, Fifo_write(t)
    PROVE  ExampleInv' /\ ExampleStep
<1> USE SizeFacts
<1>1. /\ curr = t /\ "put" \in Use[t] /\ call[t] \in {"none", "put"}
      /\ ThreadsOK /\ ThreadsApart /\ ExampleOK
  BY Split DEF Fifo_write, Calls, ChannelsOK
<1>2. CASE call[t] = "none" /\ num = Max
  <2>1. Blocks(t, "put")
    BY <1>2 DEF Fifo_write
  <2>2. Stored' = Stored
    BY <2>1 DEF Blocks, example, Stored, Window
  <2> QED BY <1>1, <2>1, <2>2, ExampleBlocks DEF ExampleStep
<1>3. CASE ~(call[t] = "none" /\ num = Max)
  <2>1. PICK v \in Value : data' = [data EXCEPT ![(first + num) % Max] = v]
    BY <1>3 DEF Fifo_write
  <2>2. num' = num + 1 /\ Returns(t, "get") /\ first' = first
    BY <1>3 DEF Fifo_write
  <2>3. num \in Int /\ 0 <= num /\ num < Max
    <3>1. num \in 0..Max
      BY DEF ExampleInv
    <3>2. call[t] = "put" => num < Max
      BY <1>1 DEF ExampleInv, Served
    <3> QED BY <1>1, <1>3, <3>1, <3>2
  <2>4. num' \in 0..Max /\ num' > 0
    BY <2>2, <2>3
  <2>5. \A u \in Thread : call'[u] # "none" => call'[u] \in Use[u]
    BY <1>1, <2>2 DEF Returns, ThreadsOK, ExampleInv
  <2>6. Served'
    <3> SUFFICES ASSUME NEW u \in Thread PROVE call'[u] # "put"
      BY <2>4 DEF Served
    <3>1. u # t => call'[u] = call[u] /\ call[u] # "put"
      BY <1>1, <2>2 DEF Returns, ThreadsOK, ExampleInv, OneOfEach
    <3>2. call'[t] = "none"
      BY <1>1, <2>2 DEF Returns, ThreadsOK
    <3> QED BY <3>1, <3>2
  <2>7. Stored' = Append(Stored, v)
    <3>1. first \in Int /\ 0 <= first /\ first < Max
      BY <1>1 DEF ExampleOK
    <3>2. (first + num) % Max \in 0..(Max - 1)
      BY <2>3, <3>1, Wrap
    <3>3. DiffersAt(data, data', (first + num) % Max, Max) /\ data'[(first + num) % Max] = v
      BY <1>1, <2>1, <3>2 DEF ExampleOK, DiffersAt
    <3>4. Written(data, data', v, first, num, num', Max)
      BY <2>2, <2>3, <3>1, <3>3 DEF Written
    <3>5. Window(data', first, num', Max) = Append(Window(data, first, num, Max), v)
      BY <3>4, WindowAppend
    <3> QED BY <2>2, <3>5 DEF Stored
  <2> QED BY <2>4, <2>5, <2>6, <2>7 DEF ExampleInv, ExampleStep
<1> QED BY <1>2, <1>3

(* The consumer's call finds a value, and takes the oldest.                *)
LEMMA Fifo_readFacts ==
    ASSUME ChannelsAssumption, OneOfEach, IInv, ExampleInv, NEW t \in Thread, Fifo_read(t)
    PROVE  ExampleInv' /\ ExampleStep
<1> USE SizeFacts
<1>1. /\ curr = t /\ "get" \in Use[t] /\ call[t] \in {"none", "get"}
      /\ ThreadsOK /\ ThreadsApart /\ ExampleOK
  BY Split DEF Fifo_read, Calls, ChannelsOK
<1>2. CASE call[t] = "none" /\ num = 0
  <2>1. Blocks(t, "get")
    BY <1>2 DEF Fifo_read
  <2>2. Stored' = Stored
    BY <2>1 DEF Blocks, example, Stored, Window
  <2> QED BY <1>1, <2>1, <2>2, ExampleBlocks DEF ExampleStep
<1>3. CASE ~(call[t] = "none" /\ num = 0)
  <2>1. /\ num' = num - 1 /\ Returns(t, "put") /\ data' = data
        /\ first' = (first + 1) % Max
    BY <1>3 DEF Fifo_read
  <2>3. num \in Int /\ 1 <= num /\ num <= Max
    <3>1. num \in 0..Max
      BY DEF ExampleInv
    <3>2. call[t] = "get" => num > 0
      BY <1>1 DEF ExampleInv, Served
    <3> QED BY <1>1, <1>3, <3>1, <3>2
  <2>4. num' \in 0..Max /\ num' < Max
    BY <2>1, <2>3
  <2>5. \A u \in Thread : call'[u] # "none" => call'[u] \in Use[u]
    BY <1>1, <2>1 DEF Returns, ThreadsOK, ExampleInv
  <2>6. Served'
    <3> SUFFICES ASSUME NEW u \in Thread PROVE call'[u] # "get"
      BY <2>4 DEF Served
    <3>1. u # t => call'[u] = call[u] /\ call[u] # "get"
      BY <1>1, <2>1 DEF Returns, ThreadsOK, ExampleInv, OneOfEach
    <3>2. call'[t] = "none"
      BY <1>1, <2>1 DEF Returns, ThreadsOK
    <3> QED BY <3>1, <3>2
  <2>7. Stored # <<>> /\ Stored' = Tail(Stored)
    <3>1. first \in Int /\ 0 <= first /\ first < Max
      BY <1>1 DEF ExampleOK
    <3>2. Taken(data, data', first, num, num', Max)
      BY <2>1, <2>3, <3>1 DEF Taken, DiffersAt
    <3>3. /\ Window(data, first, num, Max) # <<>>
          /\ Window(data', (first + 1) % Max, num', Max) = Tail(Window(data, first, num, Max))
      BY <3>2, WindowTail
    <3> QED BY <2>1, <3>3 DEF Stored
  <2> QED BY <2>4, <2>5, <2>6, <2>7 DEF ExampleInv, ExampleStep
<1> QED BY <1>2, <1>3

LEMMA ExampleNext ==
    ASSUME ChannelsAssumption, OneOfEach, IInv, ExampleInv, [Next]_vars
    PROVE  ExampleInv' /\ (ExampleStep \/ UNCHANGED vars)
<1> USE SizeFacts
<1>0. ThreadsOK /\ ThreadsApart
  BY Split
<1>1. UNCHANGED example => Stored' = Stored
  BY DEF example, Stored, Window
<1>2. ASSUME NEW t \in Thread, Dispatch(t) \/ Rest(t)
      PROVE  ExampleInv' /\ UNCHANGED example
  <2>1. UNCHANGED example /\ num' = num /\ call' = call
    BY <1>2 DEF Dispatch, Rest, example
  <2>2. \A u \in Thread : u \in runnable' \/ u = curr' => u \in runnable \/ u = curr
    BY <1>2 DEF Dispatch, Rest
  <2> QED BY <2>1, <2>2, ExampleSame
<1>3. ASSUME Update \/ AdvanceTime PROVE ExampleInv' /\ UNCHANGED example
  <2>1. UNCHANGED example /\ num' = num /\ call' = call /\ curr' = curr
    BY <1>3 DEF Update, AdvanceTime, example
  <2>2. \A u \in runnable' : u \in resting \/ call[u] \in {"write", "read"}
    BY <1>3 DEF Update, AdvanceTime, Waiters
  <2>3. \A u \in runnable' : call[u] \notin {"put", "get"}
    BY <1>0, <2>2 DEF ThreadsApart
  <2> QED BY <2>1, <2>3, ExampleSame
<1>4. ASSUME NEW t \in Thread,
             FifoWrite(t) \/ FifoRead(t) \/ Lock(t) \/ Unlock(t) \/ Take(t) \/ Post(t)
      PROVE  ExampleInv' /\ UNCHANGED example
  <2>1. UNCHANGED example
    BY <1>4 DEF FifoWrite, FifoRead, Lock, Unlock, Take, Post, Blocks
  <2> QED BY <1>4, <2>1, ExampleSteps
<1>5. ASSUME NEW t \in Thread, Fifo_write(t) \/ Fifo_read(t)
      PROVE  ExampleInv' /\ ExampleStep
  BY <1>5, Fifo_writeFacts, Fifo_readFacts
<1>6. CASE UNCHANGED vars
  <2>1. num' = num /\ call' = call /\ runnable' = runnable /\ curr' = curr
    BY <1>6 DEF vars, threads, example
  <2> QED BY <1>6, <2>1, ExampleSame
<1> QED BY <1>1, <1>2, <1>3, <1>4, <1>5, <1>6 DEF Next, ExampleStep

(* With one producer and one consumer the example's calls find what they   *)
(* waited for: then its capacity is never exceeded.                        *)
THEOREM ExampleInductive == OneOfEach /\ Spec => [](OneOfEach /\ IInv /\ ExampleInv)
<1>1. Init => ExampleInv
  BY SizeFacts, ChannelsAssumption DEF Init, ExampleInv, Served
<1>2. OneOfEach /\ IInv /\ ExampleInv /\ [Next]_vars => OneOfEach' /\ ExampleInv'
  <2>1. OneOfEach => OneOfEach'
    BY DEF OneOfEach
  <2> QED BY <2>1, ChannelsAssumption, ExampleNext
<1> QED BY <1>1, <1>2, Inductive, PTL DEF Spec

(* A thread woken in a call of the example's Fifo finds what it waited     *)
(* for, though the code does not test the condition again.                 *)
THEOREM WokenServed == OneOfEach /\ Spec => []WokenIsServed
<1>1. ExampleInv => WokenIsServed
  BY DEF ExampleInv, Served, WokenIsServed, CouldGoOn
<1> QED BY <1>1, ExampleInductive, PTL

(* The example's Fifo neither loses, repeats nor reorders its values.      *)
THEOREM ExampleCorrect == OneOfEach /\ Spec => ExampleIsFifo
<1>1. OneOfEach /\ IInv /\ ExampleInv /\ [Next]_vars => [ExampleStep]_vars
  BY ChannelsAssumption, ExampleNext
<1> QED BY <1>1, ExampleInductive, PTL DEF Spec, ExampleIsFifo
-------------------------------------------------------------------------------
(* The refinement *)

LEMMA SameAbstract == UNCHANGED fifo => UNCHANGED Abstract!vars
BY DEF Abstract!vars, Window, Num_available, Num_free

(* Each step of the code is a step of the abstract fifo, or none: a write  *)
(* or read that succeeds, and the update as its delta cycle.               *)
LEMMA AbstractStep ==
    ASSUME ChannelsAssumption, IInv, [Next]_vars
    PROVE  [Abstract!Next]_(Abstract!vars)
<1>0. fifo \in FifoType /\ CountsAgree /\ IndicesAgree
  BY Split DEF ChannelsOK
<1>00. Num_available >= 0 /\ Num_free >= 0 /\ Num_available \in Int /\ Num_free \in Int
  BY <1>0, SizeFacts DEF CountsAgree, Num_available, Num_free, FifoType
<1>1. ASSUME NEW t \in Thread, FifoWrite(t) PROVE Abstract!Write \/ UNCHANGED fifo
  <2>1. CASE Num_free = 0
    BY <1>1, <2>1 DEF FifoWrite, Blocks
  <2>2. CASE Num_free # 0
    <3>1. PICK v \in Value : Buf_write(v)
      BY <1>1, <2>2 DEF FifoWrite
    <3>2. /\ Num_available' = Num_available /\ Num_free' = Num_free - 1
          /\ fifo'.got = fifo.got
          /\ Window(fifo.buf, fifo.ri, Size - fifo.free, Size)'
                 = Append(Window(fifo.buf, fifo.ri, Size - fifo.free, Size), v)
      BY <1>0, <2>2, <3>1, WriteFacts
    <3>3. Num_free > 0
      BY <1>00, <2>2
    <3> HIDE DEF Window, Num_free, Num_available
    <3> QED BY <3>2, <3>3 DEF Abstract!Write
  <2> QED BY <2>1, <2>2
<1>2. ASSUME NEW t \in Thread, FifoRead(t) PROVE Abstract!Read \/ UNCHANGED fifo
  <2>1. CASE Num_available = 0
    BY <1>2, <2>1 DEF FifoRead, Blocks
  <2>2. CASE Num_available # 0
    <3>1. Buf_read
      BY <1>2, <2>2 DEF FifoRead
    <3>2. /\ Num_available' = Num_available - 1 /\ Num_free' = Num_free
          /\ fifo'.got = Head(Window(fifo.buf, fifo.ri, Size - fifo.free, Size))
          /\ Window(fifo.buf, fifo.ri, Size - fifo.free, Size)'
                 = Tail(Window(fifo.buf, fifo.ri, Size - fifo.free, Size))
      BY <1>0, <2>2, <3>1, ReadFacts
    <3>3. Num_available > 0
      BY <1>00, <2>2
    <3> QED BY <3>2, <3>3 DEF Abstract!Read
  <2> QED BY <2>1, <2>2
<1>3. ASSUME Update PROVE Abstract!DeltaCycle
  <2>1. /\ Num_available' = Size - fifo.free /\ Num_free' = fifo.free
        /\ fifo'.got = fifo.got
        /\ Window(fifo.buf, fifo.ri, Size - fifo.free, Size)'
               = Window(fifo.buf, fifo.ri, Size - fifo.free, Size)
        /\ Len(Window(fifo.buf, fifo.ri, Size - fifo.free, Size)) = Size - fifo.free
    BY <1>0, <1>3, UpdateFacts DEF Update
  <2>2. fifo.free = Size - (Size - fifo.free)
    BY <1>0, SizeFacts DEF FifoType
  <2> QED BY <2>1, <2>2 DEF Abstract!DeltaCycle
<1>4. ASSUME NEW t \in Thread,
             \/ Dispatch(t) \/ Rest(t) \/ Lock(t) \/ Unlock(t)
             \/ Take(t) \/ Post(t) \/ Fifo_write(t) \/ Fifo_read(t)
      PROVE  UNCHANGED fifo
  BY <1>4 DEF Dispatch, Rest, Lock, Unlock, Take, Post, Fifo_write, Fifo_read, Blocks
<1>5. AdvanceTime \/ UNCHANGED vars => UNCHANGED fifo
  BY DEF AdvanceTime, vars
<1> QED BY <1>1, <1>2, <1>3, <1>4, <1>5, SameAbstract DEF Next, Abstract!Next

(* The sc_fifo with its circular buffer and its counts is a fifo whose     *)
(* readers and writers see the state at the start of the delta cycle.      *)
THEOREM Refinement == Spec => ImplementsFifo
<1>1. Init => Abstract!Init
  <2> SUFFICES ASSUME Init PROVE Abstract!Init
    OBVIOUS
  <2>1. /\ Num_available = 0 /\ Num_free = Size /\ fifo.got \in Value
        /\ Size - fifo.free = 0
    BY SizeFacts, ChannelsAssumption DEF Init, Num_available, Num_free
  <2>2. Window(fifo.buf, fifo.ri, Size - fifo.free, Size) = <<>>
    BY <2>1 DEF Window
  <2> QED BY <2>1, <2>2 DEF Abstract!Init
<1>2. IInv /\ [Next]_vars => [Abstract!Next]_(Abstract!vars)
  BY ChannelsAssumption, AbstractStep
<1> QED BY <1>1, <1>2, Inductive, PTL DEF Spec, ImplementsFifo, Abstract!Spec
===============================================================================
