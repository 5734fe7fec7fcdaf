-------------------------- MODULE SchedulerProofs --------------------------
(***************************************************************************)
(* Safety of the scheduler for any number of CPUs and threads.             *)
(***************************************************************************)
EXTENDS Scheduler, TLAPS, SequenceTheorems

-----------------------------------------------------------------------------
(* Facts about the queue operations.                                       *)

(* Head and Tail of a non-empty queue, pointwise.                          *)
LEMMA TailPoints ==
    ASSUME NEW q \in Seq(Threads), q # <<>>
    PROVE  /\ Tail(q) \in Seq(Threads) /\ Len(Tail(q)) = Len(q) - 1 /\ Len(q) > 0
           /\ Head(q) = q[1] /\ Head(q) \in Threads
           /\ \A i \in 1 .. Len(q) - 1 : Tail(q)[i] = q[i + 1]
BY HeadTailProperties, EmptySeq

(* Front and Last of a non-empty queue, pointwise.                         *)
LEMMA FrontPoints ==
    ASSUME NEW q \in Seq(Threads), Len(q) > 1
    PROVE  /\ Front(q) \in Seq(Threads) /\ Len(Front(q)) = Len(q) - 1
           /\ Last(q) = q[Len(q)] /\ Last(q) \in Threads
           /\ \A i \in 1 .. Len(q) - 1 : Front(q)[i] = q[i]
<1>1. Front(q) = SubSeq(q, 1, Len(q) - 1) /\ Last(q) = q[Len(q)]
  BY DEF Front, Last
<1>2. Len(q) \in Nat
  OBVIOUS
<1> QED BY <1>1, <1>2, SubSeqProperties

-----------------------------------------------------------------------------
(* What the queue operations do to a queue that holds no thread twice.     *)

In(u, q) == \E i \in 1 .. Len(q) : q[i] = u
NoRepeat(q) == \A i, j \in 1 .. Len(q) : q[i] = q[j] => i = j

(* Inserting a thread that is not in the queue, as runq_enqueue_locked     *)
(* does, adds exactly that thread and repeats none.                        *)
LEMMA InsertInto ==
    ASSUME NEW q \in Seq(Threads), NEW t \in Threads, NEW n \in 1 .. Len(q) + 1,
           NoRepeat(q), ~In(t, q)
    PROVE  /\ InsertAt(q, n, t) \in Seq(Threads)
           /\ NoRepeat(InsertAt(q, n, t))
           /\ \A u : In(u, InsertAt(q, n, t)) <=> u = t \/ In(u, q)
<1> DEFINE r == InsertAt(q, n, t)
<1>1. /\ r \in Seq(Threads) /\ Len(r) = Len(q) + 1
      /\ \A i \in 1 .. Len(q) + 1 :
            r[i] = IF i < n THEN q[i] ELSE IF i = n THEN t ELSE q[i - 1]
  <2> DEFINE a == SubSeq(q, 1, n - 1)
             b == SubSeq(q, n, Len(q))
             ab == a \o <<t>>
  <2>1. a \in Seq(Threads) /\ Len(a) = n - 1 /\ \A i \in 1 .. n - 1 : a[i] = q[i]
    BY SubSeqProperties
  <2>2. b \in Seq(Threads) /\ Len(b) = Len(q) - n + 1
        /\ \A i \in 1 .. Len(q) - n + 1 : b[i] = q[n + i - 1]
    BY SubSeqProperties
  <2>3. <<t>> \in Seq(Threads) /\ Len(<<t>>) = 1 /\ <<t>>[1] = t
    OBVIOUS
  <2>4. /\ ab \in Seq(Threads) /\ Len(ab) = n
        /\ \A i \in 1 .. n : ab[i] = IF i < n THEN q[i] ELSE t
    <3> HIDE DEF a
    <3> QED BY <2>1, <2>3, ConcatProperties
  <2>5. r = ab \o b
    BY DEF InsertAt
  <2> HIDE DEF ab, b, r
  <2>6. /\ ab \o b \in Seq(Threads) /\ Len(ab \o b) = Len(q) + 1
        /\ \A i \in 1 .. Len(q) + 1 :
              (ab \o b)[i] = IF i <= n THEN ab[i] ELSE b[i - n]
    BY <2>2, <2>4, ConcatProperties
  <2>7. \A i \in 1 .. Len(q) + 1 : (ab \o b)[i] =
            IF i < n THEN q[i] ELSE IF i = n THEN t ELSE q[i - 1]
    BY <2>2, <2>4, <2>6
  <2> QED BY <2>5, <2>6, <2>7
<1>2. Len(q) \in Nat
  OBVIOUS
<1> HIDE DEF r
<1>3. NoRepeat(r)
  <2> SUFFICES ASSUME NEW i \in 1 .. Len(q) + 1, NEW j \in 1 .. Len(q) + 1, r[i] = r[j]
               PROVE  i = j
    BY <1>1 DEF NoRepeat
  <2>1. CASE i = n \/ j = n
    BY <1>1, <1>2, <2>1 DEF In
  <2>2. CASE i < n /\ j < n
    BY <1>1, <1>2, <2>2 DEF NoRepeat
  <2>3. CASE i > n /\ j > n
    <3>1. i - 1 \in 1 .. Len(q) /\ j - 1 \in 1 .. Len(q) /\ q[i - 1] = q[j - 1]
      BY <1>1, <1>2, <2>3
    <3>2. i - 1 = j - 1
      BY <3>1, Zenon DEF NoRepeat
    <3> QED BY <3>2
  <2>4. CASE i < n /\ j > n
    BY <1>1, <1>2, <2>4 DEF NoRepeat
  <2>5. CASE i > n /\ j < n
    BY <1>1, <1>2, <2>5 DEF NoRepeat
  <2> QED BY <1>2, <2>1, <2>2, <2>3, <2>4, <2>5
<1>4. In(t, r)
  BY <1>1, <1>2 DEF In
<1>5. ASSUME NEW u, In(u, q) PROVE In(u, r)
  <2>1. PICK i \in 1 .. Len(q) : q[i] = u
    BY <1>5 DEF In
  <2>2. CASE i < n
    BY <1>1, <1>2, <2>1, <2>2 DEF In
  <2>3. CASE i >= n
    <3>1. i + 1 \in 1 .. Len(q) + 1 /\ r[i + 1] = q[i]
      BY <1>1, <1>2, <2>3
    <3> QED BY <1>1, <2>1, <3>1 DEF In
  <2> QED BY <2>2, <2>3
<1>6. ASSUME NEW u, In(u, r), u # t PROVE In(u, q)
  <2>1. PICK i \in 1 .. Len(q) + 1 : r[i] = u
    BY <1>1, <1>6 DEF In
  <2>2. CASE i < n
    BY <1>1, <1>2, <2>1, <2>2 DEF In
  <2>3. CASE i > n
    BY <1>1, <1>2, <2>1, <2>3 DEF In
  <2> QED BY <1>1, <1>2, <1>6, <2>1, <2>2, <2>3
<1> QED BY <1>1, <1>3, <1>4, <1>5, <1>6 DEF r

(* runq_dequeue_locked removes exactly the head: it is in the queue no     *)
(* more, and everyone else still is.                                       *)
LEMMA TakeHead ==
    ASSUME NEW q \in Seq(Threads), NoRepeat(q), q # <<>>
    PROVE  /\ Tail(q) \in Seq(Threads) /\ Head(q) \in Threads
           /\ NoRepeat(Tail(q)) /\ ~In(Head(q), Tail(q))
           /\ \A u : In(u, q) <=> u = Head(q) \/ In(u, Tail(q))
<1> DEFINE r == Tail(q)
           h == Head(q)
<1>1. /\ r \in Seq(Threads) /\ Len(r) = Len(q) - 1 /\ Len(q) > 0
      /\ h = q[1] /\ h \in Threads
      /\ \A i \in 1 .. Len(q) - 1 : r[i] = q[i + 1]
  BY TailPoints
<1>2. Len(q) \in Nat
  OBVIOUS
<1> HIDE DEF r, h
<1>3. NoRepeat(r) /\ ~In(h, r)
  BY <1>1, <1>2 DEF NoRepeat, In
<1>4. ASSUME NEW u, In(u, q), u # h PROVE In(u, r)
  <2>1. PICK i \in 1 .. Len(q) : q[i] = u
    BY <1>4 DEF In
  <2>2. i - 1 \in 1 .. Len(r) /\ r[i - 1] = q[i]
    BY <1>1, <1>2, <1>4, <2>1
  <2> QED BY <2>1, <2>2 DEF In
<1>5. In(h, q) /\ \A u : In(u, r) => In(u, q)
  BY <1>1, <1>2 DEF In
<1> QED BY <1>1, <1>3, <1>4, <1>5 DEF r, h

(* The pop of scheduler_steal_work removes exactly the last thread of its  *)
(* victim's queue.                                                         *)
LEMMA TakeLast ==
    ASSUME NEW q \in Seq(Threads), NoRepeat(q), Len(q) > 1
    PROVE  /\ Front(q) \in Seq(Threads) /\ Last(q) \in Threads
           /\ NoRepeat(Front(q)) /\ ~In(Last(q), Front(q))
           /\ \A u : In(u, q) <=> u = Last(q) \/ In(u, Front(q))
<1> DEFINE r == Front(q)
           h == Last(q)
<1>1. /\ r \in Seq(Threads) /\ Len(r) = Len(q) - 1
      /\ h = q[Len(q)] /\ h \in Threads
      /\ \A i \in 1 .. Len(q) - 1 : r[i] = q[i]
  BY FrontPoints
<1>2. Len(q) \in Nat
  OBVIOUS
<1> HIDE DEF r, h
<1>3. NoRepeat(r) /\ ~In(h, r)
  BY <1>1, <1>2 DEF NoRepeat, In
<1>4. \A u : In(u, q) <=> u = h \/ In(u, r)
  BY <1>1, <1>2 DEF In
<1> QED BY <1>1, <1>3, <1>4 DEF r, h

-----------------------------------------------------------------------------
(* Where threads are kept: run queues rq and hands h hold every thread of  *)
(* S in exactly one place and no other thread in any.                      *)
Placed(rq, h, S) ==
    /\ rq \in [Cpus -> Seq(Threads)]
    /\ h \in [Cpus -> Threads \cup {Idle, None}]
    /\ \A c \in Cpus : NoRepeat(rq[c])
    /\ \A c, d \in Cpus : \A t \in Threads : In(t, rq[c]) /\ In(t, rq[d]) => c = d
    /\ \A c, d \in Cpus : h[c] \in Threads =>
          (h[d] = h[c] => c = d) /\ ~In(h[c], rq[d])
    /\ \A t \in Threads : t \in S <=> \E c \in Cpus : h[c] = t \/ In(t, rq[c])

Ready == {t \in Threads : th_state[t] = "READY"}

ReadyPlaced == Placed(runq, hand, Ready)

(* Placed, which the lemmas below preserve, says what ReadyInOnePlace says *)
(* of runq_enqueue_locked and its callers.                                 *)
LEMMA PlacedIsReady == TypeOK => (ReadyInOnePlace <=> ReadyPlaced)
<1> SUFFICES ASSUME TypeOK PROVE ReadyInOnePlace <=> Placed(runq, hand, Ready)
  BY DEF ReadyPlaced
<1>1. \A c \in Cpus : /\ runq[c] \in Seq(Threads)
                      /\ DOMAIN runq[c] = 1 .. Len(runq[c])
                      /\ \A i \in 1 .. Len(runq[c]) : runq[c][i] \in Threads
  <2> SUFFICES ASSUME NEW c \in Cpus
               PROVE  /\ runq[c] \in Seq(Threads)
                      /\ DOMAIN runq[c] = 1 .. Len(runq[c])
                      /\ \A i \in 1 .. Len(runq[c]) : runq[c][i] \in Threads
    OBVIOUS
  <2>1. runq[c] \in Seq(Threads)
    BY DEF TypeOK
  <2> QED BY <2>1
<1>2. /\ runq \in [Cpus -> Seq(Threads)]
      /\ hand \in [Cpus -> Threads \cup {Idle, None}]
  BY DEF TypeOK
<1>3. \A t \in Threads : t \in Ready <=> th_state[t] = "READY"
  BY DEF Ready
<1>4. QueuedOnce <=>
         /\ \A c \in Cpus : NoRepeat(runq[c])
         /\ \A c, d \in Cpus : \A t \in Threads : In(t, runq[c]) /\ In(t, runq[d]) => c = d
  BY <1>1 DEF QueuedOnce, NoRepeat, In
<1>5. HeldOnce <=> \A c, d \in Cpus : hand[c] \in Threads =>
                      (hand[d] = hand[c] => c = d) /\ ~In(hand[c], runq[d])
  BY <1>1 DEF HeldOnce, In
<1>6. \A t \in Threads : Held(t) <=> \E c \in Cpus : hand[c] = t \/ In(t, runq[c])
  BY <1>1 DEF Held, In
<1> QED BY <1>2, <1>3, <1>4, <1>5, <1>6 DEF ReadyInOnePlace, Placed

(* The same in the next state.                                             *)
LEMMA PlacedIsReadyNext == TypeOK' => (ReadyInOnePlace' <=> ReadyPlaced')
BY PlacedIsReady, PTL

(* runq_enqueue_locked of a thread that is in no place.                    *)
LEMMA PlaceInsert ==
    ASSUME NEW rq, NEW h, NEW S, Placed(rq, h, S), NEW c \in Cpus,
           NEW t \in Threads, t \notin S, NEW n \in 1 .. Len(rq[c]) + 1
    PROVE  Placed([rq EXCEPT ![c] = InsertAt(@, n, t)], h, S \cup {t})
<1> DEFINE r == InsertAt(rq[c], n, t)
           rq2 == [rq EXCEPT ![c] = r]
<1>1. rq[c] \in Seq(Threads) /\ NoRepeat(rq[c]) /\ ~In(t, rq[c])
  BY DEF Placed
<1>2. /\ r \in Seq(Threads) /\ NoRepeat(r)
      /\ \A u : In(u, r) <=> u = t \/ In(u, rq[c])
  BY <1>1, InsertInto
<1> HIDE DEF r
<1>3. /\ rq2 \in [Cpus -> Seq(Threads)] /\ rq2[c] = r
      /\ \A d \in Cpus : d # c => rq2[d] = rq[d]
  BY <1>2 DEF Placed
<1>4. \A d \in Cpus : h[d] # t /\ ~In(t, rq[d])
  BY DEF Placed
<1> HIDE DEF rq2
<1>5. \A d \in Cpus : \A u : In(u, rq2[d]) <=> In(u, rq[d]) \/ (u = t /\ d = c)
  BY <1>2, <1>3
<1>6. \A d \in Cpus : NoRepeat(rq2[d])
  BY <1>2, <1>3 DEF Placed
<1>7. Placed(rq2, h, S \cup {t})
  BY <1>3, <1>4, <1>5, <1>6 DEF Placed
<1> QED BY <1>7 DEF rq2, r

(* runq_dequeue_locked and the pop of scheduler_steal_work: thread t moves *)
(* from CPU d's queue into CPU c's empty hands and leaves queue q behind.  *)
LEMMA PlaceTake ==
    ASSUME NEW rq, NEW h, NEW S, Placed(rq, h, S), NEW c \in Cpus, NEW d \in Cpus,
           h[c] \notin Threads, NEW q \in Seq(Threads), NEW t \in Threads,
           NoRepeat(q), ~In(t, q), \A u : In(u, rq[d]) <=> u = t \/ In(u, q)
    PROVE  Placed([rq EXCEPT ![d] = q], [h EXCEPT ![c] = t], S)
<1> DEFINE rq2 == [rq EXCEPT ![d] = q]
           h2 == [h EXCEPT ![c] = t]
<1>1. /\ rq2 \in [Cpus -> Seq(Threads)] /\ rq2[d] = q
      /\ \A e \in Cpus : e # d => rq2[e] = rq[e]
  BY DEF Placed
<1>2. /\ h2 \in [Cpus -> Threads \cup {Idle, None}] /\ h2[c] = t
      /\ \A e \in Cpus : e # c => h2[e] = h[e]
  BY DEF Placed
<1> HIDE DEF rq2, h2
<1>3. \A e \in Cpus : \A u : In(u, rq[e]) <=> In(u, rq2[e]) \/ (u = t /\ e = d)
  BY <1>1
<1>4. \A e \in Cpus : NoRepeat(rq2[e])
  BY <1>1 DEF Placed
<1>5. \A e \in Cpus : ~In(t, rq2[e]) /\ h[e] # t
  BY <1>1, <1>3 DEF Placed
<1>6. \A a, b \in Cpus : \A u \in Threads : In(u, rq2[a]) /\ In(u, rq2[b]) => a = b
  BY <1>3 DEF Placed
<1>7. \A a, b \in Cpus : h2[a] \in Threads =>
          (h2[b] = h2[a] => a = b) /\ ~In(h2[a], rq2[b])
  BY <1>2, <1>3, <1>5 DEF Placed
<1>8. \A u \in Threads : u \in S <=> \E e \in Cpus : h2[e] = u \/ In(u, rq2[e])
  BY <1>2, <1>3 DEF Placed
<1>9. Placed(rq2, h2, S)
  BY <1>1, <1>2, <1>4, <1>6, <1>7, <1>8 DEF Placed
<1> QED BY <1>9 DEF rq2, h2

(* A thread in no place comes into empty hands.                            *)
LEMMA PlaceHold ==
    ASSUME NEW rq, NEW h, NEW S, Placed(rq, h, S), NEW c \in Cpus,
           h[c] \notin Threads, NEW t \in Threads, t \notin S
    PROVE  Placed(rq, [h EXCEPT ![c] = t], S \cup {t})
BY DEF Placed

(* A thread leaves the hands that hold it.                                 *)
LEMMA PlaceDrop ==
    ASSUME NEW rq, NEW h, NEW S, Placed(rq, h, S), NEW c \in Cpus,
           h[c] \in Threads, NEW x \in {Idle, None}
    PROVE  Placed(rq, [h EXCEPT ![c] = x], S \ {h[c]})
BY ThreadAssumption DEF Placed

(* Hands that hold no thread take up another non-thread.                   *)
LEMMA PlaceSame ==
    ASSUME NEW rq, NEW h, NEW S, Placed(rq, h, S), NEW c \in Cpus,
           h[c] \notin Threads, NEW x \in {Idle, None}
    PROVE  Placed(rq, [h EXCEPT ![c] = x], S)
BY ThreadAssumption DEF Placed
-----------------------------------------------------------------------------
(* Type correctness.                                                       *)

(* CPU 0 exists, and 0xFFFFFFFF (no CPU) is not a CPU.                     *)
LEMMA CpuFacts == 0 \in Cpus /\ NoCpu \notin Cpus /\ Cpus \subseteq Int
BY CpuAssumption DEF Cpus, NoCpu

(* The boost of thread_wake and the decay of scheduler_yield give a        *)
(* priority again.                                                         *)
LEMMA PriorityFacts == Boosted \in Nat /\ \A p \in Nat : Decayed(p) \in Nat
BY PriorityAssumption DEF Boosted, Decayed

(* An exiting thread is RUNNING, so it is in no queue: runq_remove_locked  *)
(* finds nothing.                                                          *)
LEMMA ExitKeepsQueues ==
    ASSUME TypeOK, Inv, NEW c \in Cpus, ExitCurrent(c)
    PROVE  /\ cpu_current_thread[c] \in Threads
           /\ th_state[cpu_current_thread[c]] = "RUNNING"
           /\ runq' = runq
<1> DEFINE t == cpu_current_thread[c]
           a == th_assigned_cpu[t]
<1>1. t \in Threads /\ a \in Cpus
  BY DEF ExitCurrent, TypeOK
<1>2. th_state[t] = "RUNNING"
  BY <1>1 DEF ExitCurrent, Inv, CurrentIsRunning
<1>3. ~ \E i \in DOMAIN runq[a] : runq[a][i] = t
  <2>1. ~Held(t)
    BY <1>1, <1>2 DEF Inv, ReadyInOnePlace
  <2> QED BY <1>1, <2>1 DEF Held
<1>4. RunqRemove(runq[a], t) = runq[a]
  BY <1>3 DEF RunqRemove
<1>5. runq' = [runq EXCEPT ![a] = RunqRemove(runq[a], t)]
  BY DEF ExitCurrent
<1> QED BY <1>1, <1>2, <1>4, <1>5 DEF TypeOK

-----------------------------------------------------------------------------
(* Every step of the scheduler keeps the READY threads, and only them, in  *)
(* one place each: one position of one queue or one CPU's hands.           *)
LEMMA PlacesStep ==
    ASSUME TypeOK, Inv, [Next]_vars
    PROVE  Placed(runq', hand', Ready')
<1>0. Placed(runq, hand, Ready)
  BY PlacedIsReady DEF Inv, ReadyPlaced
<1>a. ASSUME runq' = runq, hand' = hand, Ready' = Ready
      PROVE  Placed(runq', hand', Ready')
  BY <1>0, <1>a
<1>b. /\ th_state \in [Threads -> {"UNUSED", "READY", "RUNNING", "WAITING", "HALTED"}]
      /\ \A c \in Cpus : runq[c] \in Seq(Threads) /\ NoRepeat(runq[c])
      /\ \A c \in Cpus : target[c] \in Cpus
  BY <1>0 DEF TypeOK, Placed
<1>c. \A c \in Cpus : pc[c] \notin {"enqueue", "decide", "claim"} => hand[c] \notin Threads
  BY ThreadAssumption DEF Inv, HandOfStep
<1>1. ASSUME NEW c \in Cpus, ApRun(c) PROVE Placed(runq', hand', Ready')
  BY <1>a, <1>1 DEF ApRun, threadVars, Ready
<1>2. ASSUME NEW c \in Cpus, TimerTick(c) PROVE Placed(runq', hand', Ready')
  BY <1>a, <1>2 DEF TimerTick, Ready
<1>3. ASSUME NEW c \in Cpus, IpiSched(c) PROVE Placed(runq', hand', Ready')
  BY <1>a, <1>3 DEF IpiSched, threadVars, Ready
<1>4. ASSUME NEW c \in Cpus, BlockCurrent(c) PROVE Placed(runq', hand', Ready')
  <2>1. cpu_current_thread[c] \in Threads /\ th_state[cpu_current_thread[c]] = "RUNNING"
    BY <1>4 DEF BlockCurrent, Inv, CurrentIsRunning, TypeOK
  <2>2. th_state' = [th_state EXCEPT ![cpu_current_thread[c]] = "WAITING"]
    BY <1>4 DEF BlockCurrent
  <2>3. Ready' = Ready
    BY <1>b, <2>1, <2>2 DEF Ready
  <2> QED BY <1>a, <1>4, <2>3 DEF BlockCurrent
<1>5. ASSUME NEW c \in Cpus, ExitCurrent(c) PROVE Placed(runq', hand', Ready')
  <2>1. /\ cpu_current_thread[c] \in Threads /\ th_state[cpu_current_thread[c]] = "RUNNING"
        /\ runq' = runq
    BY <1>5, ExitKeepsQueues
  <2>2. th_state' = [th_state EXCEPT ![cpu_current_thread[c]] = "HALTED"]
    BY <1>5 DEF ExitCurrent
  <2>3. Ready' = Ready
    BY <1>b, <2>1, <2>2 DEF Ready
  <2> QED BY <1>a, <1>5, <2>1, <2>3 DEF ExitCurrent
<1>6. ASSUME NEW c \in Cpus, NEW t \in Threads, WakeBegin(c, t)
      PROVE  Placed(runq', hand', Ready')
  <2>1. /\ pc[c] = "exec" /\ th_state[t] = "WAITING"
        /\ th_state' = [th_state EXCEPT ![t] = "READY"]
        /\ hand' = [hand EXCEPT ![c] = t] /\ runq' = runq
    BY <1>6 DEF WakeBegin
  <2>2. Ready' = Ready \cup {t} /\ t \notin Ready
    BY <1>b, <2>1 DEF Ready
  <2>3. Placed(runq, [hand EXCEPT ![c] = t], Ready \cup {t})
    BY <1>0, <1>c, <2>1, <2>2, PlaceHold
  <2> QED BY <2>1, <2>2, <2>3
<1>7. ASSUME NEW c \in Cpus, NEW t \in Threads, AddThread(c, t)
      PROVE  Placed(runq', hand', Ready')
  <2>1. /\ pc[c] = "exec" /\ th_state[t] = "UNUSED"
        /\ th_state' = [th_state EXCEPT ![t] = "READY"]
        /\ hand' = [hand EXCEPT ![c] = t] /\ runq' = runq
    BY <1>7 DEF AddThread, SchedulerAdd
  <2>2. Ready' = Ready \cup {t} /\ t \notin Ready
    BY <1>b, <2>1 DEF Ready
  <2>3. Placed(runq, [hand EXCEPT ![c] = t], Ready \cup {t})
    BY <1>0, <1>c, <2>1, <2>2, PlaceHold
  <2> QED BY <2>1, <2>2, <2>3
<1>8. ASSUME NEW c \in Cpus, EnqueueHand(c) PROVE Placed(runq', hand', Ready')
  <2>1. PICK n \in 1 .. Len(runq[target[c]]) + 1 :
            runq' = [runq EXCEPT ![target[c]] = InsertAt(@, n, hand[c])]
    BY <1>8 DEF EnqueueHand, EnqueueAt
  <2>2. hand[c] \in Threads /\ hand' = [hand EXCEPT ![c] = None] /\ th_state' = th_state
    BY <1>8 DEF EnqueueHand, threadVars, Inv, HandOfStep
  <2>3. Placed(runq, [hand EXCEPT ![c] = None], Ready \ {hand[c]})
    BY <1>0, <2>2, PlaceDrop
  <2>4. hand[c] \in Ready
    BY <1>0, <2>2 DEF Placed
  <2>5. Placed([runq EXCEPT ![target[c]] = InsertAt(@, n, hand[c])],
               [hand EXCEPT ![c] = None], (Ready \ {hand[c]}) \cup {hand[c]})
    BY <1>b, <2>2, <2>3, PlaceInsert
  <2>6. (Ready \ {hand[c]}) \cup {hand[c]} = Ready /\ Ready' = Ready
    BY <2>2, <2>4 DEF Ready
  <2> QED BY <2>1, <2>2, <2>5, <2>6
<1>9. ASSUME NEW c \in Cpus, NotifyTarget(c) PROVE Placed(runq', hand', Ready')
  BY <1>a, <1>9 DEF NotifyTarget, threadVars, Ready
<1>10. ASSUME NEW c \in Cpus, YieldRunning(c) PROVE Placed(runq', hand', Ready')
  <2> DEFINE t == cpu_current_thread[c]
  <2>1. /\ t \in Threads /\ th_state[t] = "RUNNING" /\ pc[c] = "yield"
        /\ th_state' = [th_state EXCEPT ![t] = "READY"]
    BY <1>10 DEF YieldRunning, TypeOK
  <2>2. PICK n \in 1 .. Len(runq[c]) + 1 :
            /\ hand' = [hand EXCEPT ![c] = Head(InsertAt(runq[c], n, t))]
            /\ runq' = [runq EXCEPT ![c] = Tail(InsertAt(runq[c], n, t))]
    BY <1>10 DEF YieldRunning, EnqueueAt
  <2> HIDE DEF t
  <2>3. Ready' = Ready \cup {t} /\ t \notin Ready
    BY <1>b, <2>1 DEF Ready
  <2> DEFINE q == InsertAt(runq[c], n, t)
             rq == [runq EXCEPT ![c] = q]
  <2>4. Placed(rq, hand, Ready \cup {t})
    BY <1>0, <2>1, <2>3, PlaceInsert
  <2>5. runq \in [Cpus -> Seq(Threads)] /\ rq[c] = q
    BY <1>0 DEF Placed
  <2>6. q \in Seq(Threads) /\ NoRepeat(q) /\ In(t, q)
    <3>1. ~In(t, runq[c])
      BY <1>0, <2>1, <2>3 DEF Placed
    <3> QED BY <1>b, <2>1, <3>1, InsertInto
  <2>7. hand[c] \notin Threads
    BY <1>c, <2>1
  <2>8. runq' = [rq EXCEPT ![c] = Tail(q)]
    BY <2>2, <2>5
  <2>9. hand' = [hand EXCEPT ![c] = Head(q)]
    BY <2>2
  <2> HIDE DEF q, rq
  <2>10. q # <<>>
    BY <2>6 DEF In
  <2>11. /\ Tail(q) \in Seq(Threads) /\ Head(q) \in Threads
         /\ NoRepeat(Tail(q)) /\ ~In(Head(q), Tail(q))
         /\ \A u : In(u, q) <=> u = Head(q) \/ In(u, Tail(q))
    BY <2>6, <2>10, TakeHead
  <2>12. Placed([rq EXCEPT ![c] = Tail(q)], [hand EXCEPT ![c] = Head(q)], Ready \cup {t})
    BY <2>4, <2>5, <2>7, <2>11, PlaceTake
  <2> QED BY <2>3, <2>8, <2>9, <2>12
<1>11. ASSUME NEW c \in Cpus, YieldStopped(c) PROVE Placed(runq', hand', Ready')
  <2>1. pc[c] = "yield" /\ th_state' = th_state
    BY <1>11 DEF YieldStopped
  <2>2. Ready' = Ready
    BY <2>1 DEF Ready
  <2>3. CASE runq[c] = <<>>
    BY <1>a, <1>11, <2>2, <2>3 DEF YieldStopped
  <2>4. CASE runq[c] # <<>>
    <3>1. runq' = [runq EXCEPT ![c] = Tail(@)] /\ hand' = [hand EXCEPT ![c] = Head(runq[c])]
      BY <1>11, <2>4 DEF YieldStopped
    <3>2. /\ Tail(runq[c]) \in Seq(Threads) /\ Head(runq[c]) \in Threads
          /\ NoRepeat(Tail(runq[c])) /\ ~In(Head(runq[c]), Tail(runq[c]))
          /\ \A u : In(u, runq[c]) <=> u = Head(runq[c]) \/ In(u, Tail(runq[c]))
      BY <1>b, <2>4, TakeHead
    <3>3. Placed([runq EXCEPT ![c] = Tail(runq[c])],
                 [hand EXCEPT ![c] = Head(runq[c])], Ready)
      BY <1>0, <1>c, <2>1, <3>2, PlaceTake
    <3> QED BY <2>2, <3>1, <3>3
  <2> QED BY <2>3, <2>4
<1>12. ASSUME NEW c \in Cpus, PickVictim(c) PROVE Placed(runq', hand', Ready')
  <2>1. /\ pc[c] = "steal" /\ runq' = runq /\ th_state' = th_state
        /\ hand' = hand \/ hand' = [hand EXCEPT ![c] = Idle]
    BY <1>12 DEF PickVictim, threadVars
  <2>2. Ready' = Ready
    BY <2>1 DEF Ready
  <2>3. Placed(runq, [hand EXCEPT ![c] = Idle], Ready)
    BY <1>0, <1>c, <2>1, PlaceSame
  <2> QED BY <1>a, <2>1, <2>2, <2>3
<1>13. ASSUME NEW c \in Cpus, Steal(c) PROVE Placed(runq', hand', Ready')
  <2> DEFINE d == target[c]
             q == runq[d]
  <2>1. pc[c] = "stealing" /\ th_state' = th_state
    BY <1>13 DEF Steal
  <2>2. Ready' = Ready
    BY <2>1 DEF Ready
  <2>3. d \in Cpus /\ q \in Seq(Threads) /\ NoRepeat(q)
    BY <1>b
  <2>4. \/ /\ Len(q) > 1
           /\ hand' = [hand EXCEPT ![c] = Last(q)]
           /\ runq' = [runq EXCEPT ![d] = Front(q)]
        \/ hand' = [hand EXCEPT ![c] = Idle] /\ runq' = runq
    BY <1>13 DEF Steal
  <2>5. \A u : In(u, runq[d]) <=> In(u, q)
    OBVIOUS
  <2> HIDE DEF q
  <2>6. CASE /\ Len(q) > 1
             /\ hand' = [hand EXCEPT ![c] = Last(q)]
             /\ runq' = [runq EXCEPT ![d] = Front(q)]
    <3>1. /\ Front(q) \in Seq(Threads) /\ Last(q) \in Threads
          /\ NoRepeat(Front(q)) /\ ~In(Last(q), Front(q))
          /\ \A u : In(u, q) <=> u = Last(q) \/ In(u, Front(q))
      BY <2>3, <2>6, TakeLast
    <3>2. Placed([runq EXCEPT ![d] = Front(q)], [hand EXCEPT ![c] = Last(q)], Ready)
      <4> HIDE DEF d
      <4> QED BY <1>0, <1>c, <2>1, <2>3, <2>5, <3>1, PlaceTake
    <3> QED BY <2>2, <2>6, <3>2
  <2>7. CASE hand' = [hand EXCEPT ![c] = Idle] /\ runq' = runq
    <3>1. Placed(runq, [hand EXCEPT ![c] = Idle], Ready)
      BY <1>0, <1>c, <2>1, PlaceSame
    <3> QED BY <2>2, <2>7, <3>1
  <2> QED BY <2>4, <2>6, <2>7
<1>14. ASSUME NEW c \in Cpus, ResumeOld(c) PROVE Placed(runq', hand', Ready')
  <2>1. /\ runq' = runq /\ hand' = [hand EXCEPT ![c] = None]
        /\ hand[c] = cpu_current_thread[c]
        /\ hand[c] \in Threads \cup {Idle}
    BY <1>14 DEF ResumeOld, TypeOK
  <2>2. CASE hand[c] = Idle
    <3>1. Ready' = Ready
      BY <1>14, <2>2 DEF ResumeOld, Ready
    <3>2. Placed(runq, [hand EXCEPT ![c] = None], Ready)
      BY <1>0, <2>2, ThreadAssumption, PlaceSame
    <3> QED BY <2>1, <3>1, <3>2
  <2>3. CASE hand[c] \in Threads
    <3>1. th_state' = [th_state EXCEPT ![hand[c]] = "RUNNING"]
      BY <1>14, <2>3, ThreadAssumption DEF ResumeOld
    <3>2. Ready' = Ready \ {hand[c]}
      BY <1>b, <2>3, <3>1 DEF Ready
    <3>3. Placed(runq, [hand EXCEPT ![c] = None], Ready \ {hand[c]})
      BY <1>0, <2>3, PlaceDrop
    <3> QED BY <2>1, <3>2, <3>3
  <2> QED BY <2>1, <2>2, <2>3
<1>15. ASSUME NEW c \in Cpus, PublishIdle(c) PROVE Placed(runq', hand', Ready')
  <2>1. /\ hand[c] = Idle /\ runq' = runq /\ th_state' = th_state
        /\ hand' = [hand EXCEPT ![c] = None]
    BY <1>15 DEF PublishIdle, threadVars
  <2>2. Ready' = Ready
    BY <2>1 DEF Ready
  <2>3. Placed(runq, [hand EXCEPT ![c] = None], Ready)
    BY <1>0, <2>1, ThreadAssumption, PlaceSame
  <2> QED BY <2>1, <2>2, <2>3
<1>16. ASSUME NEW c \in Cpus, SpinDone(c) PROVE Placed(runq', hand', Ready')
  BY <1>a, <1>16 DEF SpinDone, threadVars, Ready
<1>17. ASSUME NEW c \in Cpus, Claim(c) PROVE Placed(runq', hand', Ready')
  <2>1. /\ hand[c] \in Threads /\ runq' = runq /\ hand' = [hand EXCEPT ![c] = None]
        /\ th_state' = [th_state EXCEPT ![hand[c]] = "RUNNING"]
    BY <1>17 DEF Claim, Inv, HandOfStep
  <2>2. Ready' = Ready \ {hand[c]}
    BY <1>b, <2>1 DEF Ready
  <2>3. Placed(runq, [hand EXCEPT ![c] = None], Ready \ {hand[c]})
    BY <1>0, <2>1, PlaceDrop
  <2> QED BY <2>1, <2>2, <2>3
<1>18. ASSUME NEW c \in Cpus, ContextSwitch(c) PROVE Placed(runq', hand', Ready')
  BY <1>a, <1>18 DEF ContextSwitch, Ready
<1>19. CASE UNCHANGED vars
  BY <1>a, <1>19 DEF vars, threadVars, cpuVars, Ready
<1> QED
  BY <1>1, <1>2, <1>3, <1>4, <1>5, <1>6, <1>7, <1>8, <1>9, <1>10, <1>11, <1>12,
     <1>13, <1>14, <1>15, <1>16, <1>17, <1>18, <1>19 DEF Next, KernelStep
-----------------------------------------------------------------------------
(* Type correctness.                                                       *)

(* scheduler_init establishes the types.                                   *)
LEMMA InitType == Init => TypeOK
BY CpuFacts, ThreadAssumption, PriorityAssumption DEF Init, TypeOK, Locations

(* Every step keeps the types; the invariant is needed to know that what a *)
(* CPU takes from its hands is a thread.                                   *)
LEMMA StepType == TypeOK /\ Inv /\ [Next]_vars => TypeOK'
<1> SUFFICES ASSUME TypeOK, Inv, [Next]_vars PROVE TypeOK'
  OBVIOUS
<1>0. runq' \in [Cpus -> Seq(Threads)] /\ hand' \in [Cpus -> Threads \cup {Idle, None}]
  BY PlacesStep DEF Placed
<1> USE <1>0, CpuFacts, PriorityFacts, ThreadAssumption DEF TypeOK, Goto, Locations
<1>1. ASSUME NEW c \in Cpus, ApRun(c) PROVE TypeOK'
  BY <1>1 DEF ApRun, threadVars
<1>2. ASSUME NEW c \in Cpus, TimerTick(c) PROVE TypeOK'
  <2>1. th_priority' \in [Threads -> Nat]
    <3>1. CASE cpu_current_thread[c] = Idle
      BY <1>2, <3>1 DEF TimerTick
    <3>2. CASE cpu_current_thread[c] # Idle
      <4>1. /\ cpu_current_thread[c] \in Threads
            /\ Decayed(th_priority[cpu_current_thread[c]]) \in Nat
        BY <3>2
      <4> QED BY <1>2, <3>2, <4>1 DEF TimerTick
    <3> QED BY <3>1, <3>2
  <2> QED BY <1>2, <2>1 DEF TimerTick
<1>3. ASSUME NEW c \in Cpus, IpiSched(c) PROVE TypeOK'
  BY <1>3 DEF IpiSched, threadVars
<1>4. ASSUME NEW c \in Cpus, BlockCurrent(c) PROVE TypeOK'
  BY <1>4 DEF BlockCurrent
<1>5. ASSUME NEW c \in Cpus, ExitCurrent(c) PROVE TypeOK'
  BY <1>5 DEF ExitCurrent
<1>6. ASSUME NEW c \in Cpus, NEW t \in Threads, WakeBegin(c, t) PROVE TypeOK'
  BY <1>6 DEF WakeBegin
<1>7. ASSUME NEW c \in Cpus, NEW t \in Threads, AddThread(c, t) PROVE TypeOK'
  <2>1. PICK d \in Cpus : /\ th_assigned_cpu' = [th_assigned_cpu EXCEPT ![t] = d]
                          /\ target' = [target EXCEPT ![c] = d]
    BY <1>7 DEF AddThread, SchedulerAdd, LeastLoaded
  <2> QED BY <1>7, <2>1, PriorityAssumption DEF AddThread, SchedulerAdd
<1>8. ASSUME NEW c \in Cpus, EnqueueHand(c) PROVE TypeOK'
  BY <1>8 DEF EnqueueHand, threadVars
<1>9. ASSUME NEW c \in Cpus, NotifyTarget(c) PROVE TypeOK'
  BY <1>9 DEF NotifyTarget, threadVars
<1>10. ASSUME NEW c \in Cpus, YieldRunning(c) PROVE TypeOK'
  <2>1. cpu_current_thread[c] \in Threads
    BY <1>10 DEF YieldRunning
  <2> QED BY <1>10, <2>1 DEF YieldRunning
<1>11. ASSUME NEW c \in Cpus, YieldStopped(c) PROVE TypeOK'
  <2>1. th_priority' \in [Threads -> Nat]
    BY <1>11 DEF YieldStopped
  <2>2. \E l \in {"decide", "steal"} : pc' = [pc EXCEPT ![c] = l]
    BY <1>11 DEF YieldStopped
  <2>3. UNCHANGED <<th_state, th_running_cpu, th_assigned_cpu, cpu_current_thread,
                    cpu_is_active, ipi, old_thread, target>>
    BY <1>11 DEF YieldStopped
  <2>4. pc' \in [Cpus -> Locations]
    BY <2>2
  <2> QED BY <2>1, <2>3, <2>4
<1>12. ASSUME NEW c \in Cpus, PickVictim(c) PROVE TypeOK'
  <2>1. \/ \E d \in Cpus : target' = [target EXCEPT ![c] = d]
        \/ target' = target
    BY <1>12 DEF PickVictim, Busiest
  <2>2. target' \in [Cpus -> Cpus]
    BY <2>1
  <2>3. \E l \in {"decide", "stealing"} : pc' = [pc EXCEPT ![c] = l]
    BY <1>12 DEF PickVictim
  <2>4. pc' \in [Cpus -> Locations]
    BY <2>3
  <2>5. UNCHANGED <<threadVars, cpu_current_thread, cpu_is_active, ipi, old_thread>>
    BY <1>12 DEF PickVictim
  <2> QED BY <2>2, <2>4, <2>5 DEF threadVars
<1>13. ASSUME NEW c \in Cpus, Steal(c) PROVE TypeOK'
  <2>1. th_assigned_cpu' \in [Threads -> Cpus]
    <3>1. \/ th_assigned_cpu' = [th_assigned_cpu EXCEPT ![Last(runq[target[c]])] = c]
          \/ th_assigned_cpu' = th_assigned_cpu
      BY <1>13 DEF Steal
    <3> DEFINE u == Last(runq[target[c]])
    <3> HIDE DEF u
    <3>2. \/ th_assigned_cpu' = [th_assigned_cpu EXCEPT ![u] = c]
          \/ th_assigned_cpu' = th_assigned_cpu
      BY <3>1 DEF u
    <3> QED BY <3>2
  <2>2. /\ pc' = [pc EXCEPT ![c] = "decide"] /\ target' = [target EXCEPT ![c] = 0]
        /\ UNCHANGED <<th_state, th_priority, th_running_cpu, cpu_current_thread,
                       cpu_is_active, ipi, old_thread>>
    BY <1>13 DEF Steal
  <2> QED BY <2>1, <2>2
<1>14. ASSUME NEW c \in Cpus, ResumeOld(c) PROVE TypeOK'
  BY <1>14 DEF ResumeOld
<1>15. ASSUME NEW c \in Cpus, PublishIdle(c) PROVE TypeOK'
  BY <1>15 DEF PublishIdle, threadVars
<1>16. ASSUME NEW c \in Cpus, SpinDone(c) PROVE TypeOK'
  BY <1>16 DEF SpinDone, threadVars
<1>17. ASSUME NEW c \in Cpus, Claim(c) PROVE TypeOK'
  BY <1>17 DEF Claim, Inv, HandOfStep
<1>18. ASSUME NEW c \in Cpus, ContextSwitch(c) PROVE TypeOK'
  BY <1>18 DEF ContextSwitch
<1>19. CASE UNCHANGED vars
  BY <1>19 DEF vars, threadVars, cpuVars
<1> QED
  BY <1>1, <1>2, <1>3, <1>4, <1>5, <1>6, <1>7, <1>8, <1>9, <1>10, <1>11, <1>12,
     <1>13, <1>14, <1>15, <1>16, <1>17, <1>18, <1>19 DEF Next, KernelStep

-----------------------------------------------------------------------------
(* The rest of the inductive invariant.                                    *)

(* After scheduler_init and scheduler_set_initial one thread runs, on CPU  *)
(* 0, and no queue holds anything.                                         *)
LEMMA InitInv == Init => Inv
<1> SUFFICES ASSUME Init PROVE Inv
  OBVIOUS
<1>1. StackOwned /\ CurrentIsRunning /\ HandOfStep /\ FreshUnowned
  BY CpuFacts, ThreadAssumption
  DEF Init, StackOwned, CurrentIsRunning, HandOfStep, FreshUnowned
<1>2. ReadyInOnePlace
  <2>1. \A c \in Cpus : runq[c] = <<>> /\ hand[c] = None
    BY DEF Init
  <2>2. \A t \in Threads : th_state[t] # "READY"
    BY DEF Init
  <2> QED BY <2>1, <2>2, ThreadAssumption DEF ReadyInOnePlace, QueuedOnce, HeldOnce, Held
<1> QED BY <1>1, <1>2 DEF Inv

LocalInv == StackOwned /\ CurrentIsRunning /\ HandOfStep /\ FreshUnowned

(* Every step keeps the invariant: who owns a stack, what the current      *)
(* thread's state is, what a CPU has in hand, where READY threads are.     *)
LEMMA StepInv == TypeOK /\ Inv /\ [Next]_vars => Inv'
<1> SUFFICES ASSUME TypeOK, Inv, [Next]_vars PROVE Inv'
  OBVIOUS
<1>0. ReadyInOnePlace'
  <2>1. TypeOK'
    BY StepType
  <2>2. ReadyPlaced'
    BY PlacesStep DEF ReadyPlaced
  <2> QED BY <2>1, <2>2, PlacedIsReadyNext
<1> SUFFICES LocalInv'
  BY <1>0 DEF Inv, LocalInv
<1>a. \A c \in Cpus : hand[c] \in Threads => th_state[hand[c]] = "READY"
  BY DEF Inv, ReadyInOnePlace, Held
<1>b. \A c, d \in Cpus : hand[c] \in Threads /\ hand[d] = hand[c] => c = d
  BY DEF Inv, ReadyInOnePlace, HeldOnce
<1>c. TypeOK'
  BY StepType
<1> USE CpuFacts, ThreadAssumption DEF Goto
<1>1. ASSUME NEW c \in Cpus, ApRun(c) PROVE LocalInv'
  BY <1>1 DEF ApRun, threadVars, TypeOK, Inv, LocalInv, StackOwned, CurrentIsRunning, HandOfStep, FreshUnowned
<1>2. ASSUME NEW c \in Cpus, TimerTick(c) PROVE LocalInv'
  BY <1>2 DEF TimerTick, TypeOK, Inv, LocalInv, StackOwned, CurrentIsRunning, HandOfStep, FreshUnowned
<1>3. ASSUME NEW c \in Cpus, IpiSched(c) PROVE LocalInv'
  BY <1>3 DEF IpiSched, threadVars, TypeOK, Inv, LocalInv, StackOwned, CurrentIsRunning, HandOfStep, FreshUnowned
<1>4. ASSUME NEW c \in Cpus, BlockCurrent(c) PROVE LocalInv'
  BY <1>4 DEF BlockCurrent, TypeOK, Inv, LocalInv, StackOwned, CurrentIsRunning, HandOfStep, FreshUnowned
<1>5. ASSUME NEW c \in Cpus, ExitCurrent(c) PROVE LocalInv'
  BY <1>5 DEF ExitCurrent, TypeOK, Inv, LocalInv, StackOwned, CurrentIsRunning, HandOfStep, FreshUnowned
<1>6. ASSUME NEW c \in Cpus, NEW t \in Threads, WakeBegin(c, t) PROVE LocalInv'
  BY <1>6 DEF WakeBegin, TypeOK, Inv, LocalInv, StackOwned, CurrentIsRunning, HandOfStep, FreshUnowned
<1>7. ASSUME NEW c \in Cpus, NEW t \in Threads, AddThread(c, t) PROVE LocalInv'
  BY <1>7 DEF AddThread, SchedulerAdd, TypeOK, Inv, LocalInv, StackOwned, CurrentIsRunning, HandOfStep, FreshUnowned
<1>8. ASSUME NEW c \in Cpus, EnqueueHand(c) PROVE LocalInv'
  BY <1>8 DEF EnqueueHand, threadVars, TypeOK, Inv, LocalInv, StackOwned, CurrentIsRunning, HandOfStep, FreshUnowned
<1>9. ASSUME NEW c \in Cpus, NotifyTarget(c) PROVE LocalInv'
  BY <1>9 DEF NotifyTarget, threadVars, TypeOK, Inv, LocalInv, StackOwned, CurrentIsRunning, HandOfStep, FreshUnowned
<1>10. ASSUME NEW c \in Cpus, YieldRunning(c) PROVE LocalInv'
  BY <1>10, <1>c DEF YieldRunning, TypeOK, Inv, LocalInv, StackOwned, CurrentIsRunning, HandOfStep, FreshUnowned
<1>11. ASSUME NEW c \in Cpus, YieldStopped(c) PROVE LocalInv'
  <2>1. CASE runq[c] = <<>>
    BY <1>11, <2>1 DEF YieldStopped, TypeOK, Inv, LocalInv, StackOwned, CurrentIsRunning, HandOfStep, FreshUnowned
  <2>2. CASE runq[c] # <<>>
    <3>1. Head(runq[c]) \in Threads
      BY <2>2, TailPoints DEF TypeOK
    <3>2. PICK x \in Threads : hand' = [hand EXCEPT ![c] = x]
      BY <1>11, <2>2, <3>1 DEF YieldStopped
    <3>3. /\ pc[c] = "yield" /\ pc' = [pc EXCEPT ![c] = "decide"]
          /\ UNCHANGED <<th_state, th_running_cpu, cpu_current_thread, old_thread>>
      BY <1>11, <2>2 DEF YieldStopped
    <3> QED BY <3>2, <3>3 DEF TypeOK, Inv, LocalInv, StackOwned, CurrentIsRunning, HandOfStep, FreshUnowned
  <2> QED BY <2>1, <2>2
<1>12. ASSUME NEW c \in Cpus, PickVictim(c) PROVE LocalInv'
  BY <1>12 DEF PickVictim, threadVars, TypeOK, Inv, LocalInv, StackOwned, CurrentIsRunning, HandOfStep, FreshUnowned
<1>13. ASSUME NEW c \in Cpus, Steal(c) PROVE LocalInv'
  <2> DEFINE x == hand'[c]
  <2>1. x # None /\ hand' = [hand EXCEPT ![c] = x]
    <3>1. CASE Len(runq[target[c]]) > 1
      <4>1. runq[target[c]] \in Seq(Threads)
        BY DEF TypeOK
      <4>2. Last(runq[target[c]]) \in Threads
        BY <3>1, <4>1, FrontPoints
      <4> QED BY <1>13, <3>1, <4>2 DEF Steal, TypeOK
    <3>2. CASE ~(Len(runq[target[c]]) > 1)
      BY <1>13, <3>2 DEF Steal, TypeOK
    <3> QED BY <3>1, <3>2
  <2>2. /\ pc[c] = "stealing" /\ pc' = [pc EXCEPT ![c] = "decide"]
        /\ UNCHANGED <<th_state, th_running_cpu, cpu_current_thread, old_thread>>
    BY <1>13 DEF Steal
  <2> HIDE DEF x
  <2> QED BY <2>1, <2>2 DEF TypeOK, Inv, LocalInv, StackOwned, CurrentIsRunning, HandOfStep, FreshUnowned
<1>14. ASSUME NEW c \in Cpus, ResumeOld(c) PROVE LocalInv'
  BY <1>14 DEF ResumeOld, TypeOK, Inv, LocalInv, StackOwned, CurrentIsRunning, HandOfStep, FreshUnowned
<1>15. ASSUME NEW c \in Cpus, PublishIdle(c) PROVE LocalInv'
  BY <1>15 DEF PublishIdle, threadVars, TypeOK, Inv, LocalInv, StackOwned, CurrentIsRunning, HandOfStep, FreshUnowned
<1>16. ASSUME NEW c \in Cpus, SpinDone(c) PROVE LocalInv'
  BY <1>16 DEF SpinDone, threadVars, TypeOK, Inv, LocalInv, StackOwned, CurrentIsRunning, HandOfStep, FreshUnowned
<1>17. ASSUME NEW c \in Cpus, Claim(c) PROVE LocalInv'
  <2> DEFINE t == hand[c]
             u == cpu_current_thread[c]
  <2>1. /\ pc[c] = "claim" /\ t \in Threads /\ th_running_cpu[t] = NoCpu
        /\ th_state[t] = "READY" /\ u \in Threads \cup {Idle}
    BY <1>17, <1>a DEF Claim, Inv, HandOfStep, TypeOK
  <2>2. /\ \A d \in Cpus : cpu_current_thread[d] # t
        /\ \A d \in Cpus : pc[d] = "switch" => old_thread[d] # t
    BY <2>1 DEF Inv, StackOwned
  <2>3. /\ th_state' = [th_state EXCEPT ![t] = "RUNNING"]
        /\ th_running_cpu' = [th_running_cpu EXCEPT ![t] = c]
        /\ old_thread' = [old_thread EXCEPT ![c] = u]
        /\ cpu_current_thread' = [cpu_current_thread EXCEPT ![c] = t]
        /\ hand' = [hand EXCEPT ![c] = None]
        /\ pc' = [pc EXCEPT ![c] = "switch"]
    BY <1>17 DEF Claim
  <2>4. u \in Threads => th_running_cpu[u] = c
    BY DEF Inv, StackOwned
  <2>5. u # t
    BY <2>2
  <2>6. \A d \in Cpus : d # c => hand[d] # t
    BY <1>b, <2>1
  <2> HIDE DEF t, u
  <2>7. StackOwned'
    BY <2>1, <2>2, <2>3, <2>4, <2>5 DEF TypeOK, Inv, StackOwned
  <2>8. CurrentIsRunning'
    BY <2>1, <2>2, <2>3 DEF TypeOK, Inv, CurrentIsRunning
  <2>9. HandOfStep'
    BY <2>1, <2>3, <2>6 DEF TypeOK, Inv, HandOfStep
  <2>10. FreshUnowned'
    BY <2>1, <2>3 DEF TypeOK, Inv, FreshUnowned
  <2> QED BY <2>7, <2>8, <2>9, <2>10 DEF LocalInv
<1>18. ASSUME NEW c \in Cpus, ContextSwitch(c) PROVE LocalInv'
  <2> DEFINE u == old_thread[c]
  <2>1. /\ pc[c] = "switch" /\ u \in Threads \cup {Idle} /\ u # cpu_current_thread[c]
        /\ u \in Threads => th_running_cpu[u] = c
    BY <1>18 DEF ContextSwitch, Inv, StackOwned
  <2>2. \A d \in Cpus : d # c =>
          /\ u \in Threads => cpu_current_thread[d] # u
          /\ u \in Threads /\ pc[d] = "switch" => old_thread[d] # u
    BY <2>1 DEF Inv, StackOwned
  <2>3. /\ th_running_cpu' = IF u = Idle THEN th_running_cpu
                              ELSE [th_running_cpu EXCEPT ![u] = NoCpu]
        /\ old_thread' = [old_thread EXCEPT ![c] = None]
        /\ pc' = [pc EXCEPT ![c] = "exec"]
        /\ UNCHANGED <<th_state, cpu_current_thread, hand>>
    BY <1>18 DEF ContextSwitch
  <2> HIDE DEF u
  <2>4. \A t \in Threads : th_running_cpu'[t] = IF t = u THEN NoCpu ELSE th_running_cpu[t]
    BY <2>1, <2>3 DEF TypeOK
  <2>5. StackOwned'
    BY <2>1, <2>2, <2>3, <2>4 DEF TypeOK, Inv, StackOwned
  <2>6. CurrentIsRunning'
    BY <2>1, <2>3 DEF TypeOK, Inv, CurrentIsRunning
  <2>7. HandOfStep'
    BY <2>1, <2>3, <2>4 DEF TypeOK, Inv, HandOfStep
  <2>8. FreshUnowned'
    BY <2>3, <2>4 DEF TypeOK, Inv, FreshUnowned
  <2> QED BY <2>5, <2>6, <2>7, <2>8 DEF LocalInv
<1>19. CASE UNCHANGED vars
  <2>1. /\ th_state' = th_state /\ th_running_cpu' = th_running_cpu
        /\ cpu_current_thread' = cpu_current_thread /\ pc' = pc
        /\ hand' = hand /\ old_thread' = old_thread
    BY <1>19 DEF vars, threadVars, cpuVars
  <2>2. StackOwned'
    BY <2>1 DEF TypeOK, Inv, StackOwned
  <2>3. CurrentIsRunning'
    BY <2>1 DEF TypeOK, Inv, CurrentIsRunning
  <2>4. HandOfStep' /\ FreshUnowned'
    BY <2>1 DEF TypeOK, Inv, HandOfStep, FreshUnowned
  <2> QED BY <2>2, <2>3, <2>4 DEF LocalInv
<1> QED
  BY <1>1, <1>2, <1>3, <1>4, <1>5, <1>6, <1>7, <1>8, <1>9, <1>10, <1>11, <1>12,
     <1>13, <1>14, <1>15, <1>16, <1>17, <1>18, <1>19 DEF Next, KernelStep

-----------------------------------------------------------------------------
(* The theorems.                                                           *)

(* The types and Inv hold in every reachable state of the scheduler.       *)
THEOREM InductiveInvariant == Spec => [](TypeOK /\ Inv)
<1>1. Init => TypeOK /\ Inv
  BY InitType, InitInv
<1>2. (TypeOK /\ Inv) /\ [Next]_vars => (TypeOK /\ Inv)'
  BY StepType, StepInv
<1> QED BY <1>1, <1>2, PTL DEF Spec

(* Type correctness, for any number of CPUs and threads.                   *)
THEOREM TypeCorrect == Spec => []TypeOK
BY InductiveInvariant, PTL

(* Two CPUs never execute on one thread's kernel stack: the spin on        *)
(* th_running_cpu, the claim after it and the release in switch.S are      *)
(* enough, although the read and the claim are separate.                   *)
THEOREM StacksExclusive == Spec => []OneCpuPerThread
<1>1. TypeOK /\ Inv => OneCpuPerThread
  <2> SUFFICES ASSUME TypeOK, Inv, NEW c \in Cpus, NEW d \in Cpus, c # d,
                      NEW t \in {StackOf(c), cpu_current_thread[c]},
                      t \in {StackOf(d), cpu_current_thread[d]}
               PROVE  t = Idle
    BY DEF OneCpuPerThread
  <2>1. ASSUME NEW e \in Cpus, NEW u \in {StackOf(e), cpu_current_thread[e]}
        PROVE  u \in Threads \cup {Idle} /\ (u \in Threads => th_running_cpu[u] = e)
    BY <2>1 DEF StackOf, TypeOK, Inv, StackOwned
  <2> QED BY <2>1
<1> QED BY <1>1, InductiveInvariant, PTL

(* A READY thread is in exactly one queue position or one CPU's hands, and *)
(* no other thread is in any.                                              *)
THEOREM NoThreadLostOrDoubled == Spec => []ReadyInOnePlace
<1>1. Inv => ReadyInOnePlace
  BY DEF Inv
<1> QED BY <1>1, InductiveInvariant, PTL

(* No later wake-up, yield or queue operation revives an exited thread.    *)
THEOREM ExitIsFinal == Spec => HaltedIsFinal
<1> DEFINE Dead == \A t \in Threads : th_state[t] = "HALTED" => th_state'[t] = "HALTED"
<1>1. TypeOK /\ Inv /\ [Next]_vars => [Dead]_vars
  <2> SUFFICES ASSUME TypeOK, Inv, Next PROVE Dead
    OBVIOUS
  <2>a. \A c \in Cpus : hand[c] \in Threads => th_state[hand[c]] = "READY"
    BY DEF Inv, ReadyInOnePlace, Held
  <2>b. th_state \in [Threads -> {"UNUSED", "READY", "RUNNING", "WAITING", "HALTED"}]
    BY DEF TypeOK
  <2>1. \A c \in Cpus : pc[c] = "exec" /\ cpu_current_thread[c] # Idle
           => cpu_current_thread[c] \in Threads /\ th_state[cpu_current_thread[c]] = "RUNNING"
    BY DEF TypeOK, Inv, CurrentIsRunning
  <2>2. PICK c \in Cpus :
          \/ ApRun(c) \/ TimerTick(c) \/ IpiSched(c) \/ BlockCurrent(c) \/ ExitCurrent(c)
          \/ \E t \in Threads : WakeBegin(c, t) \/ AddThread(c, t)
          \/ KernelStep(c)
    BY DEF Next
  <2>3. CASE ApRun(c) \/ TimerTick(c) \/ IpiSched(c)
    BY <2>3 DEF ApRun, TimerTick, IpiSched, threadVars
  <2>4. CASE BlockCurrent(c) \/ ExitCurrent(c)
    BY <2>b, <2>1, <2>4 DEF BlockCurrent, ExitCurrent
  <2>5. CASE \E t \in Threads : WakeBegin(c, t) \/ AddThread(c, t)
    BY <2>b, <2>5 DEF WakeBegin, AddThread, SchedulerAdd
  <2>6. CASE EnqueueHand(c) \/ NotifyTarget(c) \/ PickVictim(c) \/ PublishIdle(c) \/ SpinDone(c)
    BY <2>6 DEF EnqueueHand, NotifyTarget, PickVictim, PublishIdle, SpinDone, threadVars
  <2>7. CASE YieldStopped(c) \/ Steal(c) \/ ContextSwitch(c)
    BY <2>7 DEF YieldStopped, Steal, ContextSwitch
  <2>8. CASE YieldRunning(c)
    BY <2>b, <2>8 DEF YieldRunning
  <2>9. CASE ResumeOld(c)
    BY <2>a, <2>b, <2>9 DEF ResumeOld, TypeOK
  <2>10. CASE Claim(c)
    BY <2>a, <2>b, <2>10 DEF Claim, Inv, HandOfStep
  <2> QED BY <2>2, <2>3, <2>4, <2>5, <2>6, <2>7, <2>8, <2>9, <2>10 DEF KernelStep
<1> QED BY <1>1, InductiveInvariant, PTL DEF Spec, HaltedIsFinal
=============================================================================
