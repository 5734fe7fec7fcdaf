----------------------------- MODULE PipeProofs -----------------------------
(***************************************************************************)
(* A pipe for any sizes of its buffer and of the chunks, and any number of *)
(* readers and of writers: the bytes come out in order and no wake-up of a *)
(* writer is lost, as pipe.c is on its own and as the kernel uses it.      *)
(***************************************************************************)
EXTENDS Pipe, TLAPS, SequenceTheorems, FiniteSetTheorems

-----------------------------------------------------------------------------
(* The inductive invariant.                                                *)

(* What TypeOK leaves out.                                                 *)
CallsTyped ==
    /\ total_read \in [Readers -> BOOLEAN]
    /\ calls \in [Writers -> 0 .. MaxCalls]
    /\ written \in Seq(Byte) /\ taken \in Seq(Byte)

(* The two offsets are count bytes apart.                                  *)
RingClosed == head = (tail + count) % PipeBufSize

(* q holds the threads of S that sleep according to p, each once.          *)
QueueOf(q, S, p) ==
    /\ q \in Seq(S)
    /\ \A i, j \in 1 .. Len(q) : q[i] = q[j] => i = j
    /\ \A t \in S : p[t] = "asleep" <=> \E i \in 1 .. Len(q) : q[i] = t
Queued == QueueOf(r_wq, Readers, pc) /\ QueueOf(w_wq, Writers, pc)

(* An end that a descriptor refers to is open; nobody is inside a call on  *)
(* an end without one.                                                     *)
EndsHeld ==
    /\ "read" \in fp => readers = 1
    /\ "write" \in fp => writers = 1
    /\ "read" \notin fp => \A r \in Readers : pc[r] = "user"
    /\ "write" \notin fp => \A w \in Writers : pc[w] = "user"
    /\ active <=> readers > 0 \/ writers > 0

(* The bytes of a write belong to the call it is.                          *)
WritesCounted == \A w \in Writers : pc[w] # "user" => calls[w] >= 1

(* The part of SleepersJustified that is about writers.                    *)
WritersJustified ==
    /\ w_wq # <<>> => readers > 0
    /\ Len(w_wq) <= Chunks(count)

IInv ==
    /\ TypeOK /\ CallsTyped /\ RingClosed /\ InOrder /\ Queued /\ EndsHeld /\ WritesCounted
    /\ WritersJustified

(* The part of SleepersJustified that is about readers.                    *)
ReadersJustified == r_wq # <<>> => count = 0 /\ writers > 0

(* One thread reads.  A write wakes one reader, however much it puts into  *)
(* the buffer: a second reader can stay asleep beside bytes that the first *)
(* one leaves there.                                                       *)
OneReader == \A r, s \in Readers : r = s

-----------------------------------------------------------------------------
(* Lemmas on the ring.                                                     *)

Wrap(x) == x % PipeBufSize
Wrapped(y, x) ==
    /\ x < PipeBufSize => y = x
    /\ x >= PipeBufSize => y = x - PipeBufSize

(* An offset that goes once round the buffer.                              *)
LEMMA WrapOnce ==
    ASSUME NEW x \in Nat, x < 2 * PipeBufSize
    PROVE  /\ Wrapped(Wrap(x), x)
           /\ Wrap(x) \in 0 .. PipeBufSize - 1
<1>1. PipeBufSize \in Nat \ {0}
  BY SizeAssumption
<1>2. CASE x < PipeBufSize
  BY <1>1, <1>2 DEF Wrap, Wrapped
<1>3. CASE x >= PipeBufSize
  <2>1. Wrap(x) = x - PipeBufSize
    BY <1>1, <1>3 DEF Wrap
  <2> QED BY <1>1, <1>3, <2>1 DEF Wrapped
<1> QED BY <1>1, <1>2, <1>3

(* The smallest of three lengths.                                          *)
LEMMA LeastIsLeast ==
    ASSUME NEW a \in Nat, NEW b \in Nat, NEW c \in Nat
    PROVE  LET n == Least({a, b, c}) IN n \in Nat /\ n \in {a, b, c} /\ n <= a /\ n <= b /\ n <= c
<1>1. \E x \in {a, b, c} : \A y \in {a, b, c} : x <= y
  <2>1. CASE a <= b /\ a <= c
    BY <2>1
  <2>2. CASE b <= a /\ b <= c
    BY <2>2
  <2>3. CASE c <= a /\ c <= b
    BY <2>3
  <2> QED BY <2>1, <2>2, <2>3
<1>2. /\ Least({a, b, c}) \in {a, b, c}
      /\ \A y \in {a, b, c} : Least({a, b, c}) <= y
  BY <1>1 DEF Least
<1> QED BY <1>2

(* The c bytes of ring b from offset t on.                                 *)
Window(b, t, c) == [i \in 1 .. c |-> b[Wrap(t + i - 1)]]

(* They are a sequence of bytes.                                           *)
LEMMA WindowSeq ==
    ASSUME NEW b \in [0 .. PipeBufSize - 1 -> Byte], NEW t \in 0 .. PipeBufSize - 1,
           NEW c \in 0 .. PipeBufSize
    PROVE  /\ Window(b, t, c) \in Seq(Byte) /\ Len(Window(b, t, c)) = c
           /\ \A i \in 1 .. c : Window(b, t, c)[i] = b[Wrap(t + i - 1)]
<1>1. \A i \in 1 .. c : t + i - 1 \in Nat /\ t + i - 1 < 2 * PipeBufSize
  BY SizeAssumption
<1>2. \A i \in 1 .. c : Wrap(t + i - 1) \in 0 .. PipeBufSize - 1
  BY <1>1, WrapOnce
<1>3. \A i \in 1 .. c : b[Wrap(t + i - 1)] \in Byte
  BY <1>2
<1>4. c \in Nat
  BY SizeAssumption
<1> QED BY <1>3, <1>4 DEF Window

(* What is taken is the first part of the window, what is left the rest,   *)
(* wherever the end of the buffer falls.                                   *)
LEMMA WindowTake ==
    ASSUME NEW b \in [0 .. PipeBufSize - 1 -> Byte], NEW t \in 0 .. PipeBufSize - 1,
           NEW c \in 0 .. PipeBufSize, NEW n \in 0 .. c
    PROVE  Window(b, t, c) = Window(b, t, n) \o Window(b, Wrap(t + n), c - n)
<1> DEFINE v == Wrap(t + n)
           s == Window(b, t, n) \o Window(b, v, c - n)
<1>1. /\ t + n \in Nat /\ t + n < 2 * PipeBufSize /\ PipeBufSize \in Nat \ {0}
      /\ n \in 0 .. PipeBufSize /\ c - n \in 0 .. PipeBufSize /\ c \in Nat /\ n \in Nat
  BY SizeAssumption
<1>2. Wrapped(v, t + n) /\ v \in 0 .. PipeBufSize - 1
  BY <1>1, WrapOnce
<1> HIDE DEF v
<1>3. /\ Window(b, t, c) \in Seq(Byte) /\ Len(Window(b, t, c)) = c
      /\ \A i \in 1 .. c : Window(b, t, c)[i] = b[Wrap(t + i - 1)]
  BY WindowSeq
<1>4. /\ Window(b, t, n) \in Seq(Byte) /\ Len(Window(b, t, n)) = n
      /\ \A i \in 1 .. n : Window(b, t, n)[i] = b[Wrap(t + i - 1)]
  BY <1>1, WindowSeq
<1>5. /\ Window(b, v, c - n) \in Seq(Byte) /\ Len(Window(b, v, c - n)) = c - n
      /\ \A i \in 1 .. c - n : Window(b, v, c - n)[i] = b[Wrap(v + i - 1)]
  BY <1>1, <1>2, WindowSeq
<1>6. /\ s \in Seq(Byte) /\ Len(s) = c
      /\ \A i \in 1 .. c : s[i] = IF i <= n THEN Window(b, t, n)[i] ELSE Window(b, v, c - n)[i - n]
  <2>1. /\ s \in Seq(Byte) /\ Len(s) = Len(Window(b, t, n)) + Len(Window(b, v, c - n))
        /\ \A i \in 1 .. Len(Window(b, t, n)) + Len(Window(b, v, c - n)) :
              s[i] = IF i <= Len(Window(b, t, n)) THEN Window(b, t, n)[i]
                     ELSE Window(b, v, c - n)[i - Len(Window(b, t, n))]
    BY <1>4, <1>5, ConcatProperties, Zenon
  <2> HIDE DEF s
  <2> QED BY <1>1, <1>4, <1>5, <2>1
<1> HIDE DEF s
<1>7. ASSUME NEW i \in 1 .. c PROVE Window(b, t, c)[i] = s[i]
  <2>1. CASE i <= n
    BY <1>1, <1>3, <1>4, <1>6, <2>1
  <2>2. CASE i > n
    <3>1. i - n \in 1 .. c - n
      BY <1>1, <2>2
    <3>2. v + (i - n) - 1 \in Nat /\ v + (i - n) - 1 < 2 * PipeBufSize
      BY <1>1, <1>2, <3>1
    <3>3. t + i - 1 \in Nat /\ t + i - 1 < 2 * PipeBufSize
      BY <1>1
    <3>4. Wrap(v + (i - n) - 1) = Wrap(t + i - 1)
      <4>1. Wrapped(Wrap(v + (i - n) - 1), v + (i - n) - 1)
        BY <3>2, WrapOnce
      <4>2. Wrapped(Wrap(t + i - 1), t + i - 1)
        BY <3>3, WrapOnce
      <4> QED BY <1>1, <1>2, <3>1, <4>1, <4>2 DEF Wrapped
    <3>5. s[i] = b[Wrap(v + (i - n) - 1)]
      <4>1. s[i] = Window(b, v, c - n)[i - n]
        BY <1>1, <1>6, <2>2
      <4> QED BY <1>5, <3>1, <4>1
    <3> QED BY <1>3, <3>4, <3>5
  <2> QED BY <1>1, <2>1, <2>2
<1>8. Window(b, t, c) = s
  BY <1>3, <1>6, <1>7, SeqEqual
<1> QED BY <1>8 DEF s, v

(* Ring b with n bytes x put in from offset h on.                          *)
Put(b, h, n, x) ==
    [i \in DOMAIN b |-> IF \E k \in 0 .. n - 1 : i = Wrap(h + k) THEN x ELSE b[i]]

(* The same byte n times.                                                  *)
Copies(x, n) == [i \in 1 .. n |-> x]

(* What is put behind a window that leaves room for it extends it, and     *)
(* overwrites nothing of it.                                               *)
LEMMA WindowPut ==
    ASSUME NEW b \in [0 .. PipeBufSize - 1 -> Byte], NEW t \in 0 .. PipeBufSize - 1,
           NEW c \in 0 .. PipeBufSize, NEW n \in 0 .. PipeBufSize - c, NEW x \in Byte
    PROVE  /\ Put(b, Wrap(t + c), n, x) \in [0 .. PipeBufSize - 1 -> Byte]
           /\ Window(Put(b, Wrap(t + c), n, x), t, c + n) =
                 Window(b, t, c) \o Copies(x, n)
<1> DEFINE h == Wrap(t + c)
           d == Put(b, h, n, x)
           xs == Copies(x, n)
           s == Window(b, t, c) \o xs
<1>1. /\ t + c \in Nat /\ t + c < 2 * PipeBufSize /\ PipeBufSize \in Nat \ {0}
      /\ c + n \in 0 .. PipeBufSize /\ c \in Nat /\ n \in Nat
  BY SizeAssumption
<1>2. Wrapped(h, t + c) /\ h \in 0 .. PipeBufSize - 1
  BY <1>1, WrapOnce
<1> HIDE DEF h
<1>3. /\ d \in [0 .. PipeBufSize - 1 -> Byte]
      /\ \A i \in 0 .. PipeBufSize - 1 :
            d[i] = IF \E k \in 0 .. n - 1 : i = Wrap(h + k) THEN x ELSE b[i]
  BY DEF Put
<1> HIDE DEF d
<1>4. /\ Window(d, t, c + n) \in Seq(Byte) /\ Len(Window(d, t, c + n)) = c + n
      /\ \A i \in 1 .. c + n : Window(d, t, c + n)[i] = d[Wrap(t + i - 1)]
  BY <1>1, <1>3, WindowSeq
<1>5. /\ Window(b, t, c) \in Seq(Byte) /\ Len(Window(b, t, c)) = c
      /\ \A i \in 1 .. c : Window(b, t, c)[i] = b[Wrap(t + i - 1)]
  BY WindowSeq
<1>6. xs \in Seq(Byte) /\ Len(xs) = n /\ \A i \in 1 .. n : xs[i] = x
  BY <1>1 DEF Copies
<1> HIDE DEF xs
<1>7. /\ s \in Seq(Byte) /\ Len(s) = c + n
      /\ \A i \in 1 .. c + n : s[i] = IF i <= c THEN Window(b, t, c)[i] ELSE xs[i - c]
  <2>1. /\ s \in Seq(Byte) /\ Len(s) = Len(Window(b, t, c)) + Len(xs)
        /\ \A i \in 1 .. Len(Window(b, t, c)) + Len(xs) :
              s[i] = IF i <= Len(Window(b, t, c)) THEN Window(b, t, c)[i]
                     ELSE xs[i - Len(Window(b, t, c))]
    BY <1>5, <1>6, ConcatProperties, Zenon
  <2> HIDE DEF s
  <2> QED BY <1>1, <1>5, <1>6, <2>1
<1> HIDE DEF s
<1>8. ASSUME NEW k \in 0 .. n - 1
      PROVE  /\ h + k \in Nat /\ h + k < 2 * PipeBufSize
             /\ Wrapped(Wrap(h + k), h + k)
  <2>1. h + k \in Nat /\ h + k < 2 * PipeBufSize
    BY <1>1, <1>2
  <2> QED BY <2>1, WrapOnce
<1>9. ASSUME NEW i \in 1 .. c + n
      PROVE  /\ Wrapped(Wrap(t + i - 1), t + i - 1)
             /\ Wrap(t + i - 1) \in 0 .. PipeBufSize - 1
  <2>1. t + i - 1 \in Nat /\ t + i - 1 < 2 * PipeBufSize
    BY <1>1
  <2> QED BY <2>1, WrapOnce
<1>10. ASSUME NEW i \in 1 .. c + n PROVE Window(d, t, c + n)[i] = s[i]
  <2>1. CASE i <= c
    <3>1. ASSUME NEW k \in 0 .. n - 1 PROVE Wrap(h + k) # Wrap(t + i - 1)
      <4>1. Wrapped(Wrap(h + k), h + k) /\ Wrapped(Wrap(t + i - 1), t + i - 1)
        BY <1>8, <1>9
      <4> QED BY <1>1, <1>2, <2>1, <4>1 DEF Wrapped
    <3>2. d[Wrap(t + i - 1)] = b[Wrap(t + i - 1)]
      BY <1>3, <1>9, <3>1
    <3> QED BY <1>1, <1>4, <1>5, <1>7, <2>1, <3>2
  <2>2. CASE i > c
    <3>1. i - c - 1 \in 0 .. n - 1 /\ i - c \in 1 .. n
      BY <1>1, <2>2
    <3>2. Wrap(h + (i - c - 1)) = Wrap(t + i - 1)
      <4>1. Wrapped(Wrap(h + (i - c - 1)), h + (i - c - 1))
        BY <1>8, <3>1
      <4> QED BY <1>1, <1>2, <1>9, <3>1, <4>1 DEF Wrapped
    <3>3. d[Wrap(t + i - 1)] = x
      BY <1>3, <1>9, <3>1, <3>2
    <3> QED BY <1>1, <1>4, <1>6, <1>7, <2>2, <3>1, <3>3
  <2> QED BY <1>1, <2>1, <2>2
<1>11. Window(d, t, c + n) = s
  BY <1>4, <1>7, <1>10, SeqEqual
<1> QED BY <1>3, <1>11 DEF d, h, s, xs
-----------------------------------------------------------------------------
(* Lemmas on the queues.                                                   *)

(* A queue whose threads all stay as they are.                             *)
LEMMA QueueKeep ==
    ASSUME NEW S, NEW q, NEW p, NEW p2, QueueOf(q, S, p),
           \A u \in S : p2[u] = "asleep" <=> p[u] = "asleep"
    PROVE  QueueOf(q, S, p2)
BY DEF QueueOf

(* Nobody sleeps.                                                          *)
LEMMA QueueEmpty ==
    ASSUME NEW S, NEW p, \A u \in S : p[u] # "asleep"
    PROVE  QueueOf(<<>>, S, p)
BY DEF QueueOf

(* wait_queue_sleep.                                                       *)
LEMMA QueueSleep ==
    ASSUME NEW S, NEW q, NEW p, NEW p2, QueueOf(q, S, p), NEW t \in S, p[t] # "asleep",
           \A u \in S : p2[u] = IF u = t THEN "asleep" ELSE p[u]
    PROVE  QueueOf(Append(q, t), S, p2)
<1>1. q \in Seq(S) /\ Len(q) \in Nat
  BY DEF QueueOf
<1>2. /\ Append(q, t) \in Seq(S) /\ Len(Append(q, t)) = Len(q) + 1
      /\ \A i \in 1 .. Len(q) : Append(q, t)[i] = q[i]
      /\ Append(q, t)[Len(q) + 1] = t
  BY <1>1, AppendProperties
<1> DEFINE r == Append(q, t)
<1> HIDE DEF r
<1>3. \A i \in 1 .. Len(q) : q[i] # t
  BY DEF QueueOf
<1>4. /\ \A i \in 1 .. Len(q) + 1 : r[i] = IF i = Len(q) + 1 THEN t ELSE q[i]
      /\ Len(r) = Len(q) + 1
  BY <1>1, <1>2 DEF r
<1>5. \A i, j \in 1 .. Len(r) : r[i] = r[j] => i = j
  BY <1>1, <1>3, <1>4 DEF QueueOf
<1>6. ASSUME NEW u \in S PROVE p2[u] = "asleep" <=> \E i \in 1 .. Len(r) : r[i] = u
  <2>1. CASE u = t
    <3>1. Len(q) + 1 \in 1 .. Len(r)
      BY <1>1, <1>4
    <3> QED BY <1>4, <2>1, <3>1
  <2>2. CASE u # t
    <3>1. (\E i \in 1 .. Len(r) : r[i] = u) <=> \E i \in 1 .. Len(q) : q[i] = u
      BY <1>1, <1>4, <2>2
    <3> QED BY <2>2, <3>1 DEF QueueOf
  <2> QED BY <2>1, <2>2
<1> QED BY <1>2, <1>5, <1>6 DEF QueueOf, r

(* wait_queue_wakeup_one.                                                  *)
LEMMA QueueWake ==
    ASSUME NEW S, NEW q, NEW p, NEW p2, QueueOf(q, S, p),
           \A u \in S : p2[u] = IF q # <<>> /\ u = q[1] THEN "loop" ELSE p[u]
    PROVE  QueueOf(Rest(q), S, p2)
<1>1. q \in Seq(S) /\ Len(q) \in Nat
  BY DEF QueueOf
<1>2. CASE q = <<>>
  BY <1>2 DEF QueueOf, Rest
<1>3. CASE q # <<>>
  <2> DEFINE r == Tail(q)
  <2>1. /\ r \in Seq(S) /\ Len(r) = Len(q) - 1 /\ Len(q) >= 1
        /\ \A i \in 1 .. Len(r) : r[i] = q[i + 1]
    BY <1>1, <1>3, HeadTailProperties
  <2> HIDE DEF r
  <2>2. \A i, j \in 1 .. Len(r) : r[i] = r[j] => i = j
    BY <1>1, <2>1 DEF QueueOf
  <2>3. ASSUME NEW u \in S PROVE p2[u] = "asleep" <=> \E i \in 1 .. Len(r) : r[i] = u
    <3>1. CASE u = q[1]
      <4>1. \A i \in 1 .. Len(r) : r[i] # q[1]
        BY <1>1, <2>1 DEF QueueOf
      <4> QED BY <1>3, <3>1, <4>1
    <3>2. CASE u # q[1]
      <4>1. (\E i \in 1 .. Len(q) : q[i] = u) => \E i \in 1 .. Len(r) : r[i] = u
        <5>1. ASSUME NEW i \in 1 .. Len(q), q[i] = u PROVE \E k \in 1 .. Len(r) : r[k] = u
          <6>1. i - 1 \in 1 .. Len(r) /\ (i - 1) + 1 = i
            BY <1>1, <2>1, <3>2, <5>1
          <6> QED BY <2>1, <5>1, <6>1
        <5> QED BY <5>1
      <4>2. (\E i \in 1 .. Len(r) : r[i] = u) => \E i \in 1 .. Len(q) : q[i] = u
        BY <1>1, <2>1
      <4> QED BY <3>2, <4>1, <4>2 DEF QueueOf
    <3> QED BY <3>1, <3>2
  <2> QED BY <1>3, <2>1, <2>2, <2>3 DEF QueueOf, Rest, r
<1> QED BY <1>2, <1>3

(* The first in a queue sleeps.                                            *)
LEMMA HeadSleeps ==
    ASSUME NEW S, NEW q, NEW p, QueueOf(q, S, p), q # <<>>
    PROVE  q[1] \in S /\ p[q[1]] = "asleep"
<1>1. 1 \in 1 .. Len(q) /\ q[1] \in S
  BY HeadTailProperties, LenProperties, EmptySeq DEF QueueOf
<1> QED BY <1>1 DEF QueueOf

(* wait_queue_wakeup_one takes at most one thread from the queue.          *)
LEMMA RestLen ==
    ASSUME NEW S, NEW q \in Seq(S)
    PROVE  /\ Len(q) \in Nat /\ Len(Rest(q)) \in Nat
           /\ q = <<>> => Rest(q) = <<>>
           /\ q # <<>> => Len(Rest(q)) = Len(q) - 1 /\ Len(q) >= 1
           /\ Len(Rest(q)) = 0 => Rest(q) = <<>>
<1>1. CASE q = <<>>
  BY <1>1 DEF Rest
<1>2. CASE q # <<>>
  <2>1. Tail(q) \in Seq(S) /\ Len(Tail(q)) = Len(q) - 1
    BY <1>2, HeadTailProperties
  <2>2. Rest(q) = Tail(q)
    BY <1>2 DEF Rest
  <2>3. Len(q) \in Nat /\ Len(q) # 0
    BY <1>2, EmptySeq, LenProperties
  <2> QED BY <1>2, <2>1, <2>2, <2>3, EmptySeq
<1> QED BY <1>1, <1>2

(* No more threads sleep in a queue than there are.                        *)
LEMMA QueueLen ==
    ASSUME NEW S, NEW q, NEW p, QueueOf(q, S, p), IsFiniteSet(S)
    PROVE  Len(q) \in Nat /\ Len(q) <= Cardinality(S)
<1>1. /\ q \in [1 .. Len(q) -> S] /\ Len(q) \in Nat
      /\ \A i, j \in 1 .. Len(q) : q[i] = q[j] => i = j
  BY LenProperties DEF QueueOf
<1>2. q \in Injection(1 .. Len(q), S)
  BY <1>1 DEF Injection, IsInjective
<1>3. Cardinality(1 .. Len(q)) <= Cardinality(S)
  BY <1>2, FS_Injection
<1>4. Cardinality(1 .. Len(q)) = Len(q)
  <2>1. 1 \in Int /\ Len(q) \in Int
    BY <1>1
  <2>2. Cardinality(1 .. Len(q)) = IF 1 > Len(q) THEN 0 ELSE Len(q) - 1 + 1
    BY <2>1, FS_Interval
  <2> QED BY <1>1, <2>2
<1> QED BY <1>1, <1>3, <1>4

(* The chunks of n bytes grow with n, and by at most one per chunk.        *)
LEMMA ChunksGrow ==
    ASSUME NEW c \in Nat, NEW d \in Nat, c <= d
    PROVE  /\ Chunks(c) \in Nat /\ Chunks(d) \in Nat /\ Chunks(c) <= Chunks(d)
           /\ d <= c + ChunkSize => Chunks(d) <= Chunks(c) + 1
<1>1. ChunkSize \in Nat \ {0}
  BY SizeAssumption
<1>2. c + ChunkSize - 1 \in Nat /\ d + ChunkSize - 1 \in Nat
  BY <1>1
<1>3. Chunks(c) \in Nat /\ Chunks(d) \in Nat
  BY <1>1, <1>2 DEF Chunks
<1>4. \A x, y \in Nat : x <= y => x \div ChunkSize <= y \div ChunkSize
  BY <1>1
<1>5. \A x \in Nat : (x + ChunkSize) \div ChunkSize = (x \div ChunkSize) + 1
  BY <1>1
<1>6. Chunks(c) <= Chunks(d)
  BY <1>1, <1>2, <1>4 DEF Chunks
<1>7. ASSUME d <= c + ChunkSize PROVE Chunks(d) <= Chunks(c) + 1
  <2>1. (d + ChunkSize - 1) \div ChunkSize <= ((c + ChunkSize - 1) + ChunkSize) \div ChunkSize
    BY <1>1, <1>2, <1>4, <1>7
  <2>2. ((c + ChunkSize - 1) + ChunkSize) \div ChunkSize = ((c + ChunkSize - 1) \div ChunkSize) + 1
    BY <1>2, <1>5
  <2> QED BY <2>1, <2>2 DEF Chunks
<1> QED BY <1>3, <1>6, <1>7

-----------------------------------------------------------------------------
(* The steps.                                                              *)

(* The threads of the two ends.                                            *)
LEMMA ThreadFacts ==
    /\ \A t \in Threads : t \in Readers <=> t \notin Writers
    /\ \A r \in Readers : r \in Threads /\ r \notin Writers
    /\ \A w \in Writers : w \in Threads /\ w \notin Readers
BY EndsAssumption DEF Threads

(* A thread enters or leaves a call, or goes on in it, and moves no byte.  *)
LEMMA MoveStep ==
    ASSUME IInv, NEW t \in Threads, NEW l \in {"user", "loop", "copy"}, pc[t] # "asleep",
           pc' = [pc EXCEPT ![t] = l],
           pc[t] = "user" /\ l # "user" => /\ t \in Readers => "read" \in fp
                                           /\ t \in Writers => "write" \in fp,
           uio_resid' \in [Threads -> 0 .. MaxLen], total_read' \in [Readers -> BOOLEAN],
           calls' \in [Writers -> 0 .. MaxCalls],
           \A w \in Writers : calls'[w] >= calls[w] /\ (w = t /\ l # "user" => calls'[w] >= 1),
           UNCHANGED <<pipeVars, endVars, r_wq, w_wq>>
    PROVE  IInv'
<1> USE DEF pipeVars, endVars
<1>1. \A u \in Threads : pc'[u] = IF u = t THEN l ELSE pc[u]
  BY DEF IInv, TypeOK
<1>2. TypeOK' /\ CallsTyped'
  BY DEF IInv, TypeOK, CallsTyped
<1>3. RingClosed' /\ InOrder' /\ WritersJustified'
  BY DEF IInv, RingClosed, InOrder, WritersJustified
<1>4. QueueOf(r_wq, Readers, pc') /\ QueueOf(w_wq, Writers, pc')
  <2>1. \A u \in Readers : pc'[u] = "asleep" <=> pc[u] = "asleep"
    BY <1>1, ThreadFacts
  <2>2. \A u \in Writers : pc'[u] = "asleep" <=> pc[u] = "asleep"
    BY <1>1, ThreadFacts
  <2> QED BY <2>1, <2>2, QueueKeep DEF IInv, Queued
<1>5. Queued'
  BY <1>4 DEF Queued
<1>6. EndsHeld'
  BY <1>1, ThreadFacts DEF IInv, EndsHeld
<1>7. WritesCounted'
  <2>1. \A w \in Writers : calls[w] \in Nat /\ calls'[w] \in Nat
    BY SizeAssumption DEF IInv, CallsTyped
  <2> QED BY <1>1, <2>1, ThreadFacts DEF IInv, WritesCounted
<1> QED BY <1>2, <1>3, <1>5, <1>6, <1>7 DEF IInv

(* The steps of a reader that move no byte.                                *)
LEMMA ReaderMoves ==
    ASSUME IInv, NEW r \in Readers, Read(r) \/ ReadReturn(r) \/ ReadCopied(r)
    PROVE  IInv'
<1>1. r \in Threads /\ r \notin Writers
  BY ThreadFacts
<1>2. \A w \in Writers : calls[w] >= calls[w]
  BY SizeAssumption DEF IInv, CallsTyped
<1>3. CASE Read(r)
  <2>1. PICK n \in 1 .. MaxLen : uio_resid' = [uio_resid EXCEPT ![r] = n]
    BY <1>3 DEF Read
  <2>2. n \in 0 .. MaxLen
    BY SizeAssumption
  <2>3. uio_resid' \in [Threads -> 0 .. MaxLen] /\ total_read' \in [Readers -> BOOLEAN]
    BY <1>1, <1>3, <2>1, <2>2 DEF Read, IInv, TypeOK, CallsTyped
  <2> QED BY <1>1, <1>2, <1>3, <2>3, MoveStep DEF Read, IInv, CallsTyped
<1>4. CASE ReadReturn(r)
  BY <1>1, <1>2, <1>4, MoveStep DEF ReadReturn, Return, callVars, IInv, TypeOK, CallsTyped
<1>5. CASE ReadCopied(r)
  <2>1. pc' = [pc EXCEPT ![r] = "user"] \/ pc' = [pc EXCEPT ![r] = "loop"]
    BY <1>5 DEF ReadCopied, Return
  <2>2. /\ pc[r] = "copy" /\ calls' = calls /\ calls \in [Writers -> 0 .. MaxCalls]
        /\ uio_resid' \in [Threads -> 0 .. MaxLen] /\ total_read' \in [Readers -> BOOLEAN]
        /\ UNCHANGED <<pipeVars, endVars, r_wq, w_wq>>
    BY <1>5 DEF ReadCopied, callVars, IInv, TypeOK, CallsTyped
  <2> QED BY <1>1, <1>2, <2>1, <2>2, MoveStep
<1> QED BY <1>3, <1>4, <1>5

(* The steps of a writer that move no byte.                                *)
LEMMA WriterMoves ==
    ASSUME IInv, NEW w \in Writers, Write(w) \/ WriteFault(w) \/ WriteBroken(w)
    PROVE  IInv'
<1>1. w \in Threads /\ w \notin Readers
  BY ThreadFacts
<1>2. \A v \in Writers : calls[v] \in 0 .. MaxCalls /\ calls[v] >= calls[v]
  BY SizeAssumption DEF IInv, CallsTyped
<1>3. CASE Write(w)
  <2>1. PICK n \in 1 .. MaxLen : uio_resid' = [uio_resid EXCEPT ![w] = n]
    BY <1>3 DEF Write
  <2>2. n \in 0 .. MaxLen
    BY SizeAssumption
  <2>3. uio_resid' \in [Threads -> 0 .. MaxLen] /\ total_read' \in [Readers -> BOOLEAN]
    BY <1>1, <1>3, <2>1, <2>2 DEF Write, IInv, TypeOK, CallsTyped
  <2>4. calls[w] + 1 \in 0 .. MaxCalls /\ calls[w] + 1 >= 1 /\ calls[w] + 1 >= calls[w]
    BY <1>2, <1>3, SizeAssumption DEF Write
  <2>5. /\ calls' \in [Writers -> 0 .. MaxCalls]
        /\ \A v \in Writers : calls'[v] = IF v = w THEN calls[w] + 1 ELSE calls[v]
    BY <1>3, <2>4 DEF Write, IInv, CallsTyped
  <2>6. \A v \in Writers : calls'[v] >= calls[v] /\ (v = w => calls'[v] >= 1)
    BY <1>2, <2>4, <2>5
  <2> QED BY <1>1, <1>3, <2>3, <2>5, <2>6, MoveStep DEF Write
<1>4. CASE WriteFault(w)
  BY <1>1, <1>2, <1>4, MoveStep DEF WriteFault, Return, callVars, IInv, TypeOK, CallsTyped
<1>5. CASE WriteBroken(w)
  BY <1>1, <1>2, <1>5, MoveStep DEF WriteBroken, Return, callVars, IInv, TypeOK, CallsTyped
<1> QED BY <1>3, <1>4, <1>5

(* A reader goes to sleep on the empty pipe.                               *)
LEMMA ReadSleepStep ==
    ASSUME IInv, NEW r \in Readers, ReadSleep(r)
    PROVE  IInv'
<1> USE DEF pipeVars, endVars, callVars
<1>1. r \in Threads /\ r \notin Writers
  BY ThreadFacts
<1>2. \A u \in Threads : pc'[u] = IF u = r THEN "asleep" ELSE pc[u]
  BY <1>1 DEF IInv, TypeOK, ReadSleep
<1>3. TypeOK' /\ CallsTyped'
  BY DEF IInv, TypeOK, CallsTyped, ReadSleep
<1>4. RingClosed' /\ InOrder' /\ WritersJustified'
  BY DEF IInv, RingClosed, InOrder, WritersJustified, ReadSleep
<1>5. QueueOf(Append(r_wq, r), Readers, pc')
  <2>1. \A u \in Readers : pc'[u] = IF u = r THEN "asleep" ELSE pc[u]
    BY <1>2, ThreadFacts
  <2>2. pc[r] # "asleep" /\ QueueOf(r_wq, Readers, pc)
    BY DEF ReadSleep, IInv, Queued
  <2> QED BY <2>1, <2>2, QueueSleep
<1>6. QueueOf(w_wq, Writers, pc')
  <2>1. \A u \in Writers : pc'[u] = "asleep" <=> pc[u] = "asleep"
    BY <1>1, <1>2, ThreadFacts
  <2> QED BY <2>1, QueueKeep DEF IInv, Queued
<1>7. Queued'
  BY <1>5, <1>6 DEF Queued, ReadSleep
<1>8. EndsHeld'
  BY <1>1, <1>2, ThreadFacts DEF IInv, EndsHeld, ReadSleep
<1>9. WritesCounted'
  BY <1>1, <1>2, ThreadFacts DEF IInv, WritesCounted, ReadSleep
<1> QED BY <1>3, <1>4, <1>7, <1>8, <1>9 DEF IInv

(* A writer goes to sleep on the full pipe, which has a chunk for it.      *)
LEMMA WriteSleepStep ==
    ASSUME IInv, NEW w \in Writers, WriteSleep(w)
    PROVE  IInv'
<1> USE DEF pipeVars, endVars, callVars
<1>1. w \in Threads /\ w \notin Readers
  BY ThreadFacts
<1>2. \A u \in Threads : pc'[u] = IF u = w THEN "asleep" ELSE pc[u]
  BY <1>1 DEF IInv, TypeOK, WriteSleep
<1>3. TypeOK' /\ CallsTyped'
  BY DEF IInv, TypeOK, CallsTyped, WriteSleep
<1>4. RingClosed' /\ InOrder'
  BY DEF IInv, RingClosed, InOrder, WriteSleep
<1>5. QueueOf(Append(w_wq, w), Writers, pc')
  <2>1. \A u \in Writers : pc'[u] = IF u = w THEN "asleep" ELSE pc[u]
    BY <1>2, ThreadFacts
  <2>2. pc[w] # "asleep" /\ QueueOf(w_wq, Writers, pc)
    BY DEF WriteSleep, IInv, Queued
  <2> QED BY <2>1, <2>2, QueueSleep
<1>6. QueueOf(r_wq, Readers, pc')
  <2>1. \A u \in Readers : pc'[u] = "asleep" <=> pc[u] = "asleep"
    BY <1>1, <1>2, ThreadFacts
  <2> QED BY <2>1, QueueKeep DEF IInv, Queued
<1>7. Queued'
  BY <1>5, <1>6 DEF Queued, WriteSleep
<1>8. WritersJustified'
  <2>1. Len(Append(w_wq, w)) <= Cardinality(Writers) /\ Len(Append(w_wq, w)) \in Nat
    BY <1>5, QueueLen, WritersAssumption
  <2>2. count = PipeBufSize
    BY SizeAssumption DEF IInv, TypeOK, WriteSleep
  <2>3. Cardinality(Writers) \in Nat /\ Chunks(PipeBufSize) \in Nat
    BY FS_CardinalityType, WritersAssumption, ChunksGrow, SizeAssumption
  <2>4. Len(Append(w_wq, w)) <= Chunks(count)
    BY <2>1, <2>2, <2>3, WritersAssumption
  <2> QED BY <2>4 DEF WritersJustified, WriteSleep
<1>9. EndsHeld'
  BY <1>1, <1>2, ThreadFacts DEF IInv, EndsHeld, WriteSleep
<1>10. WritesCounted'
  BY <1>1, <1>2, ThreadFacts DEF IInv, WritesCounted, WriteSleep
<1> QED BY <1>3, <1>4, <1>7, <1>8, <1>9, <1>10 DEF IInv

(* InOrder in terms of the window.                                         *)
LEMMA InOrderWindow ==
    /\ InOrder <=> written = taken \o Window(buf, tail, count)
    /\ InOrder' <=> written' = taken' \o Window(buf', tail', count')
BY DEF InOrder, Window, Wrap

(* A reader takes a chunk: it goes from the front of the window to the end *)
(* of what has been taken, and one writer wakes up for it.                 *)
LEMMA ReadTakeStep ==
    ASSUME IInv, NEW r \in Readers, ReadTake(r)
    PROVE  IInv'
<1> USE DEF pipeVars, endVars
<1> DEFINE n == ToRead(r)
<1>1. r \in Threads /\ r \notin Writers
  BY ThreadFacts
<1>2. /\ n \in Nat /\ n <= uio_resid[r] /\ n <= ChunkSize /\ n <= count
      /\ uio_resid[r] \in 0 .. MaxLen /\ uio_resid[r] \in Nat /\ ChunkSize \in Nat /\ count \in Nat
      /\ PipeBufSize \in Nat \ {0}
  <2>1. /\ uio_resid[r] \in 0 .. MaxLen /\ uio_resid[r] \in Nat /\ ChunkSize \in Nat /\ count \in Nat
        /\ PipeBufSize \in Nat \ {0}
    BY <1>1, SizeAssumption DEF IInv, TypeOK
  <2> QED BY <2>1, LeastIsLeast DEF ToRead
<1>3. /\ buf \in [0 .. PipeBufSize - 1 -> Byte] /\ tail \in 0 .. PipeBufSize - 1
      /\ count \in 0 .. PipeBufSize /\ n \in 0 .. count /\ n \in 0 .. PipeBufSize
      /\ count - n \in 0 .. PipeBufSize
  BY <1>2 DEF IInv, TypeOK
<1>4. /\ pc[r] = "loop" /\ taken' = taken \o Window(buf, tail, n)
      /\ tail' = Wrap(tail + n) /\ count' = count - n
      /\ uio_resid' = [uio_resid EXCEPT ![r] = uio_resid[r] - n]
      /\ total_read' = [total_read EXCEPT ![r] = TRUE]
      /\ w_wq' = Rest(w_wq)
      /\ UNCHANGED <<buf, head, written, endVars, r_wq, calls>>
  BY DEF ReadTake, WakeWriter, Window, Wrap, Advance
<1>5. /\ pc' \in [Threads -> {"user", "loop", "copy", "asleep"}]
      /\ \A u \in Threads : pc'[u] = IF u = r THEN "copy"
                                     ELSE IF w_wq # <<>> /\ u = w_wq[1] THEN "loop" ELSE pc[u]
  BY DEF ReadTake, WakeWriter, WakeOne, IInv, TypeOK
<1> HIDE DEF n
<1>6. tail + n \in Nat /\ tail + n < 2 * PipeBufSize
  BY <1>2, <1>3
<1>7. Wrap(tail + n) \in 0 .. PipeBufSize - 1 /\ Wrapped(Wrap(tail + n), tail + n)
  BY <1>6, WrapOnce
<1>8. TypeOK'
  <2>1. uio_resid[r] - n \in 0 .. MaxLen
    BY <1>2, SizeAssumption
  <2>2. uio_resid' \in [Threads -> 0 .. MaxLen]
    BY <1>1, <1>4, <2>1 DEF IInv, TypeOK
  <2> QED BY <1>3, <1>4, <1>5, <1>7, <2>2 DEF IInv, TypeOK
<1>9. CallsTyped'
  <2>1. Window(buf, tail, n) \in Seq(Byte)
    BY <1>3, WindowSeq
  <2>2. taken' \in Seq(Byte)
    BY <1>4, <2>1, ConcatProperties DEF IInv, CallsTyped
  <2> QED BY <1>4, <2>2 DEF IInv, CallsTyped
<1>10. RingClosed'
  <2>1. head = Wrap(tail + count)
    BY DEF IInv, RingClosed, Wrap
  <2>2. tail + count \in Nat /\ tail + count < 2 * PipeBufSize
    BY <1>2, <1>3
  <2>3. Wrapped(Wrap(tail + count), tail + count)
    BY <2>2, WrapOnce
  <2>4. Wrap(tail + n) + (count - n) \in Nat /\ Wrap(tail + n) + (count - n) < 2 * PipeBufSize
    BY <1>2, <1>3, <1>7
  <2>5. Wrapped(Wrap(Wrap(tail + n) + (count - n)), Wrap(tail + n) + (count - n))
    BY <2>4, WrapOnce
  <2>6. Wrap(Wrap(tail + n) + (count - n)) = Wrap(tail + count)
    BY <1>2, <1>3, <1>7, <2>3, <2>5 DEF Wrapped
  <2>7. head' = Wrap(tail' + count')
    BY <1>4, <2>1, <2>6
  <2> QED BY <2>7 DEF RingClosed, Wrap
<1>11. InOrder'
  <2>1. written = taken \o Window(buf, tail, count)
    BY InOrderWindow DEF IInv
  <2>2. Window(buf, tail, count) =
           Window(buf, tail, n) \o Window(buf, Wrap(tail + n), count - n)
    BY <1>3, WindowTake
  <2>3. /\ taken \in Seq(Byte) /\ Window(buf, tail, n) \in Seq(Byte)
        /\ Window(buf, Wrap(tail + n), count - n) \in Seq(Byte)
    BY <1>3, <1>7, WindowSeq DEF IInv, CallsTyped
  <2>4. taken \o (Window(buf, tail, n) \o Window(buf, Wrap(tail + n), count - n)) =
           (taken \o Window(buf, tail, n)) \o Window(buf, Wrap(tail + n), count - n)
    BY <2>3, ConcatAssociative
  <2>5. written' = taken' \o Window(buf', tail', count')
    BY <1>4, <2>1, <2>2, <2>4
  <2> QED BY <2>5, InOrderWindow
<1>woken. w_wq # <<>> => w_wq[1] \in Writers /\ pc[w_wq[1]] = "asleep"
  BY HeadSleeps DEF IInv, Queued
<1>12. Queued'
  <2>1. QueueOf(r_wq, Readers, pc) /\ QueueOf(w_wq, Writers, pc)
    BY DEF IInv, Queued
  <2>3. \A u \in Writers : pc'[u] = IF w_wq # <<>> /\ u = w_wq[1] THEN "loop" ELSE pc[u]
    BY <1>1, <1>5, ThreadFacts
  <2>4. \A u \in Readers : pc'[u] = "asleep" <=> pc[u] = "asleep"
    BY <1>woken, <1>4, <1>5, ThreadFacts
  <2>5. QueueOf(Rest(w_wq), Writers, pc')
    BY <2>1, <2>3, QueueWake
  <2>6. QueueOf(r_wq, Readers, pc')
    BY <2>1, <2>4, QueueKeep
  <2> QED BY <1>4, <2>5, <2>6 DEF Queued
<1>13. WritersJustified'
  <2>1. w_wq \in Seq(Writers)
    BY DEF IInv, Queued, QueueOf
  <2>2. /\ Len(w_wq) \in Nat /\ Len(Rest(w_wq)) \in Nat
        /\ w_wq = <<>> => Rest(w_wq) = <<>>
        /\ w_wq # <<>> => Len(Rest(w_wq)) = Len(w_wq) - 1 /\ Len(w_wq) >= 1
    BY <2>1, RestLen
  <2>3. count - n \in Nat /\ count - n <= count /\ count <= (count - n) + ChunkSize
    BY <1>2
  <2>4. /\ Chunks(count - n) \in Nat /\ Chunks(count) \in Nat
        /\ Chunks(count) <= Chunks(count - n) + 1
    BY <1>2, <2>3, ChunksGrow
  <2>5. Len(Rest(w_wq)) <= Chunks(count - n)
    <3>1. CASE w_wq = <<>>
      <4>1. Len(Rest(w_wq)) = 0
        BY <2>2, <3>1
      <4> QED BY <2>4, <4>1
    <3>2. CASE w_wq # <<>>
      BY <2>2, <2>4, <3>2 DEF IInv, WritersJustified
    <3> QED BY <3>1, <3>2
  <2>6. Rest(w_wq) # <<>> => readers > 0
    BY <2>2 DEF IInv, WritersJustified
  <2> QED BY <1>4, <2>5, <2>6 DEF WritersJustified
<1>14. EndsHeld'
  BY <1>1, <1>4, <1>5, <1>woken, ThreadFacts DEF IInv, EndsHeld
<1>15. WritesCounted'
  BY <1>1, <1>4, <1>5, <1>woken, ThreadFacts DEF IInv, WritesCounted
<1> QED BY <1>8, <1>9, <1>10, <1>11, <1>12, <1>13, <1>14, <1>15 DEF IInv

(* A writer puts a chunk behind the window: it goes to the end of what has *)
(* been written, nothing that waits is overwritten, and one reader wakes.  *)
LEMMA WritePutStep ==
    ASSUME IInv, NEW w \in Writers, WritePut(w)
    PROVE  IInv'
<1> USE DEF pipeVars, endVars
<1> DEFINE n == ToWrite(w)
           b == <<w, calls[w]>>
           l == IF uio_resid[w] = n THEN "user" ELSE "loop"
<1>1. w \in Threads /\ w \notin Readers
  BY ThreadFacts
<1>2. /\ n \in Nat /\ n <= uio_resid[w] /\ n <= PipeBufSize - count
      /\ uio_resid[w] \in 0 .. MaxLen /\ uio_resid[w] \in Nat /\ count \in Nat
      /\ PipeBufSize \in Nat \ {0}
  <2>1. /\ uio_resid[w] \in 0 .. MaxLen /\ uio_resid[w] \in Nat /\ ChunkSize \in Nat /\ count \in Nat
        /\ PipeBufSize \in Nat \ {0} /\ PipeBufSize - count \in Nat
    BY <1>1, SizeAssumption DEF IInv, TypeOK
  <2> QED BY <2>1, LeastIsLeast DEF ToWrite
<1>3. /\ buf \in [0 .. PipeBufSize - 1 -> Byte] /\ tail \in 0 .. PipeBufSize - 1
      /\ count \in 0 .. PipeBufSize /\ n \in 0 .. PipeBufSize - count
      /\ count + n \in 0 .. PipeBufSize
  BY <1>2 DEF IInv, TypeOK
<1>4. b \in Byte
  <2>1. calls[w] >= 1 /\ calls[w] \in 0 .. MaxCalls
    BY DEF IInv, WritesCounted, CallsTyped, WritePut
  <2>2. calls[w] \in 1 .. MaxCalls
    BY <2>1, SizeAssumption
  <2> QED BY <2>2 DEF Byte
<1>5. head = Wrap(tail + count)
  BY DEF IInv, RingClosed, Wrap
<1>6. /\ pc[w] = "loop" /\ count < PipeBufSize
      /\ buf' = Put(buf, head, n, b) /\ written' = written \o Copies(b, n)
      /\ head' = Wrap(head + n) /\ count' = count + n
      /\ uio_resid' = [uio_resid EXCEPT ![w] = uio_resid[w] - n]
      /\ r_wq' = Rest(r_wq)
      /\ UNCHANGED <<tail, taken, endVars, w_wq, total_read, calls>>
  BY DEF WritePut, Put, Wrap, Advance, Copies
<1>7. /\ pc' \in [Threads -> {"user", "loop", "copy", "asleep"}]
      /\ \A u \in Threads : pc'[u] = IF u = w THEN l
                                     ELSE IF r_wq # <<>> /\ u = r_wq[1] THEN "loop" ELSE pc[u]
  BY DEF WritePut, WakeOne, IInv, TypeOK
<1>8. l \in {"user", "loop"}
  OBVIOUS
<1> HIDE DEF n, b, l
<1>9. /\ buf' \in [0 .. PipeBufSize - 1 -> Byte]
      /\ Window(buf', tail, count + n) = Window(buf, tail, count) \o Copies(b, n)
  <2>1. /\ Put(buf, Wrap(tail + count), n, b) \in [0 .. PipeBufSize - 1 -> Byte]
        /\ Window(Put(buf, Wrap(tail + count), n, b), tail, count + n) =
              Window(buf, tail, count) \o Copies(b, n)
    BY <1>3, <1>4, WindowPut
  <2> QED BY <1>5, <1>6, <2>1
<1>10. tail + count \in Nat /\ tail + count < 2 * PipeBufSize
  BY <1>2, <1>3, <1>6
<1>11. Wrapped(Wrap(tail + count), tail + count) /\ Wrap(tail + count) \in 0 .. PipeBufSize - 1
  BY <1>10, WrapOnce
<1>12. head + n \in Nat /\ head + n < 2 * PipeBufSize
  BY <1>2, <1>3, <1>5, <1>6, <1>11 DEF IInv, TypeOK
<1>13. Wrapped(Wrap(head + n), head + n) /\ Wrap(head + n) \in 0 .. PipeBufSize - 1
  BY <1>12, WrapOnce
<1>14. TypeOK'
  <2>1. uio_resid[w] - n \in 0 .. MaxLen
    BY <1>2, SizeAssumption
  <2>2. uio_resid' \in [Threads -> 0 .. MaxLen]
    BY <1>1, <1>6, <2>1 DEF IInv, TypeOK
  <2> QED BY <1>3, <1>6, <1>7, <1>9, <1>13, <2>2 DEF IInv, TypeOK
<1>15. Copies(b, n) \in Seq(Byte) /\ written \in Seq(Byte) /\ taken \in Seq(Byte)
  BY <1>2, <1>4 DEF IInv, CallsTyped, Copies
<1>16. CallsTyped'
  <2>1. written' \in Seq(Byte)
    BY <1>6, <1>15, ConcatProperties
  <2> QED BY <1>6, <2>1 DEF IInv, CallsTyped
<1>17. RingClosed'
  <2>1. tail + (count + n) \in Nat /\ tail + (count + n) < 2 * PipeBufSize
    BY <1>2, <1>3
  <2>2. Wrapped(Wrap(tail + (count + n)), tail + (count + n))
    BY <2>1, WrapOnce
  <2>3. Wrap(head + n) = Wrap(tail + (count + n))
    BY <1>2, <1>3, <1>5, <1>11, <1>13, <2>2 DEF Wrapped
  <2> QED BY <1>6, <2>3 DEF RingClosed, Wrap
<1>18. InOrder'
  <2>1. written = taken \o Window(buf, tail, count)
    BY InOrderWindow DEF IInv
  <2>2. Window(buf, tail, count) \in Seq(Byte)
    BY <1>3, WindowSeq
  <2>3. (taken \o Window(buf, tail, count)) \o Copies(b, n) =
           taken \o (Window(buf, tail, count) \o Copies(b, n))
    BY <1>15, <2>2, ConcatAssociative
  <2>4. written' = taken' \o Window(buf', tail', count')
    BY <1>6, <1>9, <2>1, <2>3
  <2> QED BY <2>4, InOrderWindow
<1>19. r_wq # <<>> => r_wq[1] \in Readers /\ pc[r_wq[1]] = "asleep"
  BY HeadSleeps DEF IInv, Queued
<1>20. Queued'
  <2>1. QueueOf(r_wq, Readers, pc) /\ QueueOf(w_wq, Writers, pc)
    BY DEF IInv, Queued
  <2>2. \A u \in Readers : pc'[u] = IF r_wq # <<>> /\ u = r_wq[1] THEN "loop" ELSE pc[u]
    BY <1>1, <1>7, ThreadFacts
  <2>3. \A u \in Writers : pc'[u] = "asleep" <=> pc[u] = "asleep"
    BY <1>6, <1>7, <1>8, <1>19, ThreadFacts
  <2>4. QueueOf(Rest(r_wq), Readers, pc')
    BY <2>1, <2>2, QueueWake
  <2>5. QueueOf(w_wq, Writers, pc')
    BY <2>1, <2>3, QueueKeep
  <2> QED BY <1>6, <2>4, <2>5 DEF Queued
<1>21. WritersJustified'
  <2>1. w_wq \in Seq(Writers) /\ Len(w_wq) \in Nat
    BY RestLen DEF IInv, Queued, QueueOf
  <2>2. count + n \in Nat /\ count <= count + n
    BY <1>2
  <2>3. Chunks(count) \in Nat /\ Chunks(count + n) \in Nat /\ Chunks(count) <= Chunks(count + n)
    BY <1>2, <2>2, ChunksGrow
  <2> QED BY <1>6, <2>1, <2>3 DEF IInv, WritersJustified
<1>22. EndsHeld'
  BY <1>1, <1>6, <1>7, <1>19, ThreadFacts DEF IInv, EndsHeld
<1>23. WritesCounted'
  BY <1>1, <1>6, <1>7, <1>19, ThreadFacts DEF IInv, WritesCounted
<1> QED BY <1>14, <1>16, <1>17, <1>18, <1>20, <1>21, <1>22, <1>23 DEF IInv

(* The last descriptor of an end goes, and its vnode is left as it is.     *)
LEMMA FpReleaseStep ==
    ASSUME IInv, FpReleaseRead \/ FpReleaseWrite
    PROVE  IInv'
<1> USE DEF pipeVars, endVars, callVars
<1>1. TypeOK' /\ CallsTyped'
  BY DEF IInv, TypeOK, CallsTyped, FpReleaseRead, FpReleaseWrite, LastRelease
<1>2. RingClosed' /\ InOrder' /\ Queued' /\ WritesCounted' /\ WritersJustified'
  BY DEF IInv, RingClosed, InOrder, Queued, WritesCounted, WritersJustified, FpReleaseRead,
     FpReleaseWrite
<1>3. EndsHeld'
  BY DEF IInv, EndsHeld, FpReleaseRead, FpReleaseWrite, LastRelease
<1> QED BY <1>1, <1>2, <1>3 DEF IInv

(* The end of reading: every sleeping writer wakes up.                     *)
LEMMA CloseReadStep ==
    ASSUME IInv, CloseRead
    PROVE  IInv'
<1> USE DEF pipeVars, callVars
<1>1. QueueOf(r_wq, Readers, pc) /\ QueueOf(w_wq, Writers, pc)
  BY DEF IInv, Queued
<1>2. /\ \A u \in Writers : u \in ToSet(w_wq) <=> pc[u] = "asleep"
      /\ \A u \in ToSet(w_wq) : u \in Writers /\ pc[u] = "asleep"
  BY <1>1, LenProperties DEF QueueOf, ToSet
<1>3. \A u \in Threads : pc'[u] = IF u \in ToSet(w_wq) THEN "loop" ELSE pc[u]
  BY DEF CloseRead, WakeAll
<1>4. /\ readers = 1 /\ readers' = 0 /\ writers' = writers /\ writers \in 0 .. 1
      /\ active' \in BOOLEAN /\ (active' <=> readers' > 0 \/ writers' > 0)
      /\ fp' = fp \ {"read"} /\ w_wq' = <<>> /\ r_wq' = r_wq
      /\ \A r \in Readers : pc[r] = "user"
  <2>1. "read" \in fp /\ readers = 1 /\ writers \in 0 .. 1
    BY DEF CloseRead, LastRelease, IInv, EndsHeld, TypeOK
  <2>2. readers' = 0
    BY <2>1 DEF CloseRead
  <2>3. active' \in BOOLEAN /\ (active' <=> readers' > 0 \/ writers' > 0)
    BY DEF CloseRead
  <2> QED BY <2>1, <2>2, <2>3 DEF CloseRead, LastRelease
<1>5. pc' \in [Threads -> {"user", "loop", "copy", "asleep"}]
  BY DEF CloseRead, WakeAll, IInv, TypeOK
<1>6. TypeOK' /\ CallsTyped'
  BY <1>4, <1>5 DEF IInv, TypeOK, CallsTyped, CloseRead
<1>7. RingClosed' /\ InOrder'
  BY DEF IInv, RingClosed, InOrder, CloseRead
<1>8. Queued'
  <2>1. \A u \in Writers : pc'[u] # "asleep"
    BY <1>2, <1>3, ThreadFacts
  <2>2. \A u \in Readers : pc'[u] = "asleep" <=> pc[u] = "asleep"
    BY <1>2, <1>3, ThreadFacts
  <2>3. QueueOf(<<>>, Writers, pc')
    BY <2>1, QueueEmpty
  <2>4. QueueOf(r_wq, Readers, pc')
    BY <1>1, <2>2, QueueKeep
  <2> QED BY <1>4, <2>3, <2>4 DEF Queued
<1>9. EndsHeld'
  BY <1>2, <1>3, <1>4, ThreadFacts DEF IInv, EndsHeld
<1>10. WritesCounted'
  BY <1>2, <1>3, ThreadFacts DEF IInv, WritesCounted, CloseRead
<1>11. WritersJustified'
  <2>1. Chunks(count) \in Nat /\ count' = count
    <3>1. count \in Nat /\ count <= count
      BY SizeAssumption DEF IInv, TypeOK
    <3> QED BY <3>1, ChunksGrow DEF CloseRead
  <2> QED BY <1>4, <2>1 DEF WritersJustified
<1> QED BY <1>6, <1>7, <1>8, <1>9, <1>10, <1>11 DEF IInv

(* The end of writing: every sleeping reader wakes up.                     *)
LEMMA CloseWriteStep ==
    ASSUME IInv, CloseWrite
    PROVE  IInv'
<1> USE DEF pipeVars, callVars
<1>1. QueueOf(r_wq, Readers, pc) /\ QueueOf(w_wq, Writers, pc)
  BY DEF IInv, Queued
<1>2. /\ \A u \in Readers : u \in ToSet(r_wq) <=> pc[u] = "asleep"
      /\ \A u \in ToSet(r_wq) : u \in Readers /\ pc[u] = "asleep"
  BY <1>1, LenProperties DEF QueueOf, ToSet
<1>3. \A u \in Threads : pc'[u] = IF u \in ToSet(r_wq) THEN "loop" ELSE pc[u]
  BY DEF CloseWrite, WakeAll
<1>4. /\ writers = 1 /\ writers' = 0 /\ readers' = readers /\ readers \in 0 .. 1
      /\ active' \in BOOLEAN /\ (active' <=> readers' > 0 \/ writers' > 0)
      /\ fp' = fp \ {"write"} /\ r_wq' = <<>> /\ w_wq' = w_wq
      /\ \A w \in Writers : pc[w] = "user"
  <2>1. "write" \in fp /\ writers = 1 /\ readers \in 0 .. 1
    BY DEF CloseWrite, LastRelease, IInv, EndsHeld, TypeOK
  <2>2. writers' = 0
    BY <2>1 DEF CloseWrite
  <2>3. active' \in BOOLEAN /\ (active' <=> readers' > 0 \/ writers' > 0)
    BY DEF CloseWrite
  <2> QED BY <2>1, <2>2, <2>3 DEF CloseWrite, LastRelease
<1>5. pc' \in [Threads -> {"user", "loop", "copy", "asleep"}]
  BY DEF CloseWrite, WakeAll, IInv, TypeOK
<1>6. TypeOK' /\ CallsTyped'
  BY <1>4, <1>5 DEF IInv, TypeOK, CallsTyped, CloseWrite
<1>7. RingClosed' /\ InOrder'
  BY DEF IInv, RingClosed, InOrder, CloseWrite
<1>8. Queued'
  <2>1. \A u \in Readers : pc'[u] # "asleep"
    BY <1>2, <1>3, ThreadFacts
  <2>2. \A u \in Writers : pc'[u] = "asleep" <=> pc[u] = "asleep"
    BY <1>2, <1>3, ThreadFacts
  <2>3. QueueOf(<<>>, Readers, pc')
    BY <2>1, QueueEmpty
  <2>4. QueueOf(w_wq, Writers, pc')
    BY <1>1, <2>2, QueueKeep
  <2> QED BY <1>4, <2>3, <2>4 DEF Queued
<1>9. EndsHeld'
  BY <1>2, <1>3, <1>4, ThreadFacts DEF IInv, EndsHeld
<1>10. WritesCounted'
  BY <1>2, <1>3, ThreadFacts DEF IInv, WritesCounted, CloseWrite
<1>11. WritersJustified'
  BY <1>4 DEF IInv, WritersJustified, CloseWrite
<1> QED BY <1>6, <1>7, <1>8, <1>9, <1>10, <1>11 DEF IInv

(* What an empty pipe starts from: no bytes, no calls, nobody asleep.      *)
LEMMA EmptyPipe ==
    ASSUME NEW b \in [0 .. PipeBufSize - 1 -> Byte]
    PROVE  /\ 0 = (0 + 0) % PipeBufSize
           /\ <<>> = <<>> \o [i \in 1 .. 0 |-> b[(0 + i - 1) % PipeBufSize]]
           /\ <<>> \in Seq(Byte) /\ Len(<<>>) <= Chunks(0)
           /\ 0 \in 0 .. PipeBufSize - 1 /\ 0 \in 0 .. PipeBufSize
<1>1. PipeBufSize \in Nat \ {0}
  BY SizeAssumption
<1>2. 0 = (0 + 0) % PipeBufSize /\ 0 \in 0 .. PipeBufSize - 1 /\ 0 \in 0 .. PipeBufSize
  BY <1>1
<1>3. Window(b, 0, 0) \in Seq(Byte) /\ Len(Window(b, 0, 0)) = 0
  BY <1>2, WindowSeq
<1>4. Window(b, 0, 0) = <<>>
  BY <1>3, EmptySeq
<1>5. <<>> \o Window(b, 0, 0) = <<>>
  BY <1>4
<1>6. Chunks(0) \in Nat
  BY ChunksGrow
<1> QED BY <1>2, <1>5, <1>6 DEF Window, Wrap

(* pipe_create takes a slot that nobody is in any more.                    *)
LEMMA PipeCreateStep ==
    ASSUME IInv, PipeCreate
    PROVE  IInv'
<1>1. /\ head' = 0 /\ tail' = 0 /\ count' = 0 /\ readers' = 1 /\ writers' = 1 /\ active' = TRUE
      /\ fp' = {"read", "write"} /\ r_wq' = <<>> /\ w_wq' = <<>> /\ written' = <<>>
      /\ taken' = <<>> /\ calls' = [w \in Writers |-> 0]
      /\ UNCHANGED <<buf, pc, uio_resid, total_read>> /\ ~active
  BY DEF PipeCreate
<1>2. \A t \in Threads : pc[t] = "user"
  <2>1. readers = 0 /\ writers = 0
    BY <1>1 DEF IInv, EndsHeld, TypeOK
  <2> QED BY <2>1, ThreadFacts DEF IInv, EndsHeld, Threads
<1>3. buf \in [0 .. PipeBufSize - 1 -> Byte]
  BY DEF IInv, TypeOK
<1>4. TypeOK'
  BY <1>1, <1>3, EmptyPipe DEF IInv, TypeOK
<1>5. CallsTyped'
  BY <1>1, <1>3, EmptyPipe, SizeAssumption DEF IInv, CallsTyped
<1>6. RingClosed' /\ InOrder'
  BY <1>1, <1>3, EmptyPipe DEF RingClosed, InOrder
<1>7. Queued'
  <2>1. QueueOf(<<>>, Readers, pc) /\ QueueOf(<<>>, Writers, pc)
    BY <1>2, QueueEmpty, ThreadFacts
  <2> QED BY <1>1, <2>1 DEF Queued
<1>8. EndsHeld' /\ WritesCounted'
  BY <1>1, <1>2, ThreadFacts DEF EndsHeld, WritesCounted
<1>9. WritersJustified'
  BY <1>1, <1>3, EmptyPipe DEF WritersJustified
<1> QED BY <1>4, <1>5, <1>6, <1>7, <1>8, <1>9 DEF IInv

(* So does a new pipe.                                                     *)
LEMMA InitInv ==
    Init => IInv
<1> SUFFICES ASSUME Init PROVE IInv
  OBVIOUS
<1>1. buf \in [0 .. PipeBufSize - 1 -> Byte]
  <2>1. PICK w \in Writers : TRUE
    BY EndsAssumption
  <2>2. 1 \in 1 .. MaxCalls
    BY SizeAssumption
  <2>3. <<w, 1>> \in Byte
    BY <2>1, <2>2 DEF Byte
  <2>4. (CHOOSE b \in Byte : TRUE) \in Byte
    BY <2>3
  <2> QED BY <2>4 DEF Init
<1>2. \A t \in Threads : pc[t] = "user"
  BY DEF Init
<1>3. TypeOK
  <2>1. 0 \in 0 .. PipeBufSize - 1 /\ 0 \in 0 .. PipeBufSize /\ 0 \in 0 .. MaxLen
    BY <1>1, EmptyPipe, SizeAssumption
  <2>2. uio_resid \in [Threads -> 0 .. MaxLen]
    BY <2>1 DEF Init
  <2> QED BY <1>1, <2>1, <2>2 DEF Init, TypeOK
<1>4. CallsTyped
  BY <1>1, EmptyPipe, SizeAssumption DEF Init, CallsTyped
<1>5. RingClosed /\ InOrder
  BY <1>1, EmptyPipe DEF Init, RingClosed, InOrder
<1>6. Queued
  <2>1. QueueOf(<<>>, Readers, pc) /\ QueueOf(<<>>, Writers, pc)
    BY <1>2, QueueEmpty, ThreadFacts
  <2> QED BY <2>1 DEF Init, Queued
<1>7. EndsHeld /\ WritesCounted
  BY <1>2, ThreadFacts DEF Init, EndsHeld, WritesCounted
<1>8. WritersJustified
  BY <1>1, EmptyPipe DEF Init, WritersJustified
<1> QED BY <1>3, <1>4, <1>5, <1>6, <1>7, <1>8 DEF IInv

(* Every step keeps the invariant, with the closes of pipe.c and without.  *)
LEMMA NextInv ==
    IInv /\ [Next \/ VnodeNext]_vars => IInv'
<1> SUFFICES ASSUME IInv, [Next \/ VnodeNext]_vars PROVE IInv'
  OBVIOUS
<1>1. CASE UNCHANGED vars
  BY <1>1 DEF vars, pipeVars, endVars, callVars, IInv, TypeOK, CallsTyped, RingClosed, InOrder,
     Queued, EndsHeld, WritesCounted, WritersJustified
<1>2. ASSUME NEW r \in Readers, Read(r) \/ ReadStep(r) PROVE IInv'
  BY <1>2, ReaderMoves, ReadSleepStep, ReadTakeStep DEF ReadStep
<1>3. ASSUME NEW w \in Writers, Write(w) \/ WriteStep(w) \/ WriteFault(w) PROVE IInv'
  BY <1>3, WriterMoves, WriteSleepStep, WritePutStep DEF WriteStep
<1> QED BY <1>1, <1>2, <1>3, FpReleaseStep, CloseReadStep, CloseWriteStep, PipeCreateStep
        DEF Next, VnodeNext, Use

-----------------------------------------------------------------------------
(* The invariant holds in every reachable state of the kernel's pipe and   *)
(* of pipe.c on its own.                                                   *)
THEOREM Invariance ==
    Spec \/ VnodeSpec => []IInv
<1>1. Spec => []IInv
  <2>1. IInv /\ [Next]_vars => IInv'
    BY NextInv
  <2> QED BY <2>1, InitInv, PTL DEF Spec
<1>2. VnodeSpec => []IInv
  <2>1. IInv /\ [VnodeNext]_vars => IInv'
    BY NextInv
  <2> QED BY <2>1, InitInv, PTL DEF VnodeSpec
<1> QED BY <1>1, <1>2

(* No offset leaves the ring, no more bytes are in it than fit, and no     *)
(* transfer is longer than what the caller asked for.                      *)
THEOREM TypeCorrect ==
    Spec \/ VnodeSpec => []TypeOK
<1>1. IInv => TypeOK
  BY DEF IInv
<1> QED BY <1>1, Invariance, PTL

(* The bytes come out in the order they went in, none twice and none lost, *)
(* for every size of the ring and of the chunks and any number of threads. *)
THEOREM BytesInOrder ==
    Spec \/ VnodeSpec => []InOrder
<1>1. IInv => InOrder
  BY DEF IInv
<1> QED BY <1>1, Invariance, PTL

(* Sleeping writers never outnumber the chunks left to take, whatever the  *)
(* number of readers.                                                      *)
THEOREM NoWriterForgotten ==
    Spec \/ VnodeSpec => []WritersJustified
<1>1. IInv => WritersJustified
  BY DEF IInv
<1> QED BY <1>1, Invariance, PTL

-----------------------------------------------------------------------------
(* A pipe with one reader.                                                 *)

(* With one reader a wake-up empties the queue.                            *)
LEMMA OneReaderQueue ==
    ASSUME IInv, OneReader
    PROVE  Rest(r_wq) = <<>>
<1>1. /\ r_wq \in Seq(Readers) /\ Len(r_wq) \in Nat
      /\ \A i, j \in 1 .. Len(r_wq) : r_wq[i] = r_wq[j] => i = j
      /\ \A i \in 1 .. Len(r_wq) : r_wq[i] \in Readers
  BY LenProperties, ElementOfSeq DEF IInv, Queued, QueueOf
<1>2. Len(r_wq) <= 1
  <2> SUFFICES ASSUME Len(r_wq) > 1 PROVE FALSE
    BY <1>1
  <2>1. 1 \in 1 .. Len(r_wq) /\ 2 \in 1 .. Len(r_wq)
    BY <1>1
  <2>2. r_wq[1] = r_wq[2]
    BY <1>1, <2>1 DEF OneReader
  <2> QED BY <1>1, <2>1, <2>2
<1>3. CASE r_wq = <<>>
  BY <1>3 DEF Rest
<1>4. CASE r_wq # <<>>
  <2>1. /\ Len(Rest(r_wq)) = Len(r_wq) - 1 /\ Len(r_wq) >= 1
        /\ Len(Rest(r_wq)) = 0 => Rest(r_wq) = <<>>
    BY <1>1, <1>4, RestLen
  <2> QED BY <1>1, <1>2, <2>1
<1> QED BY <1>3, <1>4

(* Every step keeps a sleeping reader's reason to sleep.                   *)
LEMMA ReadersNext ==
    ASSUME OneReader
    PROVE  IInv /\ ReadersJustified /\ [Next \/ VnodeNext]_vars => ReadersJustified'
<1> SUFFICES ASSUME IInv, ReadersJustified, [Next \/ VnodeNext]_vars PROVE ReadersJustified'
  OBVIOUS
<1> USE DEF ReadersJustified, pipeVars, endVars, callVars
<1>1. CASE UNCHANGED vars
  BY <1>1 DEF vars
<1>2. ASSUME NEW r \in Readers, Read(r) \/ ReadStep(r) PROVE ReadersJustified'
  <2>1. CASE Read(r) \/ ReadReturn(r) \/ ReadSleep(r) \/ ReadCopied(r)
    BY <2>1 DEF Read, ReadReturn, ReadSleep, ReadCopied
  <2>2. CASE ReadTake(r)
    <3>1. count > 0 /\ r_wq' = r_wq /\ count \in Nat
      BY <2>2, SizeAssumption DEF ReadTake, IInv, TypeOK
    <3> QED BY <3>1
  <2> QED BY <1>2, <2>1, <2>2 DEF ReadStep
<1>3. ASSUME NEW w \in Writers, Write(w) \/ WriteStep(w) \/ WriteFault(w)
      PROVE  ReadersJustified'
  <2>1. CASE Write(w) \/ WriteFault(w) \/ WriteBroken(w) \/ WriteSleep(w)
    BY <2>1 DEF Write, WriteFault, WriteBroken, WriteSleep
  <2>2. CASE WritePut(w)
    BY <2>2, OneReaderQueue DEF WritePut
  <2> QED BY <1>3, <2>1, <2>2 DEF WriteStep
<1>4. CASE FpReleaseRead \/ FpReleaseWrite \/ CloseRead \/ CloseWrite \/ PipeCreate
  BY <1>4 DEF FpReleaseRead, FpReleaseWrite, CloseRead, CloseWrite, PipeCreate
<1> QED BY <1>1, <1>2, <1>3, <1>4 DEF Next, VnodeNext, Use

(* With one reader, no wake-up is lost in either direction: the reader     *)
(* sleeps only on an empty pipe that can still be written, and writers     *)
(* asleep never outnumber the chunks that are left to take.                *)
THEOREM NoWakeupLost ==
    OneReader => (Spec \/ VnodeSpec => []SleepersJustified)
<1> SUFFICES ASSUME OneReader PROVE Spec \/ VnodeSpec => []SleepersJustified
  OBVIOUS
<1>1. Init => ReadersJustified
  BY DEF Init, ReadersJustified
<1>2. IInv /\ ReadersJustified => SleepersJustified
  BY DEF IInv, WritersJustified, ReadersJustified, SleepersJustified
<1>3. Spec => []SleepersJustified
  <2>1. IInv /\ ReadersJustified /\ [Next]_vars => ReadersJustified'
    BY ReadersNext
  <2> QED BY <1>1, <1>2, <2>1, Invariance, PTL DEF Spec
<1>4. VnodeSpec => []SleepersJustified
  <2>1. IInv /\ ReadersJustified /\ [VnodeNext]_vars => ReadersJustified'
    BY ReadersNext
  <2> QED BY <1>1, <1>2, <2>1, Invariance, PTL DEF VnodeSpec
<1> QED BY <1>3, <1>4

=============================================================================
