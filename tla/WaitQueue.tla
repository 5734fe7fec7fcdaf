----------------------------- MODULE WaitQueue -----------------------------
(***************************************************************************)
(* Blocking: kernel/mach/wait_queue.c and the timer sleep list of          *)
(* kernel/arch/x86_64/scheduler.c.                                         *)
(*                                                                         *)
(* Wait queues, the sleep list and the chain of expired sleepers are all   *)
(* linked through one field, th_wait_next.  The module keeps the pointers. *)
(* What the code does under wq_lock or s_sleep_lock is one step; a waker   *)
(* walks the chain it took outside those locks, one thread per step.       *)
(***************************************************************************)
EXTENDS Integers, Sequences, SequencesExt, FiniteSets

CONSTANTS
    Threads,
    Queues,   \* wait queues: pipe ends, message queues, ...
    Cpus,     \* CPUs that wake: each runs one wake-up at a time
    Null

ASSUME ThreadAssumption == Null \notin Threads /\ IsFiniteSet(Threads)
ASSUME QueueAssumption == Null \notin Queues /\ "deadline" \notin Queues

VARIABLES
    th_state,
    th_wait_next,
    th_due,        \* th_sleep_deadline - now <= 0
    wq_head, wq_tail,
    s_sleep_list,
    adding,        \* the queue whose wq_lock a thread holds on its way to the
                   \* sleep list (wait_queue_sleep_until_irqrestore)
    walk,          \* per CPU: the chain it still has to wake
    blocked_on     \* what a thread asked for: a queue, a deadline or both

threadVars == <<th_state, th_due, adding, blocked_on>>
vars == <<threadVars, th_wait_next, wq_head, wq_tail, s_sleep_list, walk>>

-----------------------------------------------------------------------------
(* The threads linked from p on, to the end or to where the links come     *)
(* round.                                                                  *)
ListFrom(next, p) ==
    IF p = Null THEN <<>>
    ELSE CHOOSE s \in SeqOf(Threads, Cardinality(Threads)) :
            /\ s # <<>> /\ s[1] = p
            /\ IsInjective(s)
            /\ \A i \in 1 .. Len(s) - 1 : next[s[i]] = s[i + 1]
            /\ next[Last(s)] \in {Null} \cup ToSet(s)

List(p) == ListFrom(th_wait_next, p)

On(p) == ToSet(List(p))

First(s) == IF s = <<>> THEN Null ELSE s[1]

(* The elements of s that are in S, in the order they have in s.           *)
Those(s, S) ==
    CHOOSE r \in SeqOf(S, Len(s)) :
        /\ ToSet(r) = ToSet(s) \cap S
        /\ \A i, j \in DOMAIN r : i < j =>
              \E k, l \in DOMAIN s : k < l /\ s[k] = r[i] /\ s[l] = r[j]

Due == {t \in Threads : th_due[t]}

(* th_wait_next once the threads of s are chained in that order.           *)
Chain(next, s) ==
    [t \in Threads |->
        IF \E i \in DOMAIN s : s[i] = t
        THEN LET i == CHOOSE i \in DOMAIN s : s[i] = t
             IN  IF i = Len(s) THEN Null ELSE s[i + 1]
        ELSE next[t]]

(* Mutant: th is pushed at the head.                                       *)
LinkAtHead(t, q) ==
    /\ th_wait_next' = [th_wait_next EXCEPT ![t] = wq_head[q]]
    /\ wq_head' = [wq_head EXCEPT ![q] = t]
    /\ wq_tail' = IF wq_tail[q] = Null THEN [wq_tail EXCEPT ![q] = t] ELSE wq_tail

(* th joins the tail of wq: the store to its own th_wait_next comes first. *)
Link(t, q) ==
    LET next == [th_wait_next EXCEPT ![t] = Null]
    IN  /\ th_wait_next' = IF wq_tail[q] = Null THEN next
                           ELSE [next EXCEPT ![wq_tail[q]] = t]
        /\ wq_head' = IF wq_tail[q] = Null THEN [wq_head EXCEPT ![q] = t] ELSE wq_head
        /\ wq_tail' = [wq_tail EXCEPT ![q] = t]

(* sleep_list_remove, then the push of both of its callers.                *)
SleepListPush(t) ==
    LET s == <<t>> \o Those(List(s_sleep_list), Threads \ {t})
    IN  /\ th_wait_next' = Chain(th_wait_next, s)
        /\ s_sleep_list' = t

Unlocked(q) == \A t \in Threads : adding[t] # q

(* thread_wake: only a WAITING thread becomes READY.                       *)
ThreadWake(t) ==
    th_state' = IF th_state[t] = "WAITING" THEN [th_state EXCEPT ![t] = "READY"]
                                           ELSE th_state

-----------------------------------------------------------------------------
Init ==
    /\ th_state = [t \in Threads |-> "RUNNING"]
    /\ th_wait_next = [t \in Threads |-> Null]
    /\ th_due = [t \in Threads |-> FALSE]
    /\ wq_head = [q \in Queues |-> Null]
    /\ wq_tail = [q \in Queues |-> Null]
    /\ s_sleep_list = Null
    /\ adding = [t \in Threads |-> Null]
    /\ walk = [c \in Cpus |-> Null]
    /\ blocked_on = [t \in Threads |-> {}]

(* wait_queue_sleep and wait_queue_sleep_irqrestore up to the yield.       *)
WaitQueueSleep(t, q) ==
    /\ th_state[t] = "RUNNING" /\ adding[t] = Null
    /\ Unlocked(q)
    /\ th_state' = [th_state EXCEPT ![t] = "WAITING"]
    /\ blocked_on' = [blocked_on EXCEPT ![t] = {q}]
    /\ Link(t, q)
    /\ UNCHANGED <<th_due, s_sleep_list, adding, walk>>

(* wait_queue_sleep_until_irqrestore up to thread_sleep_list_add.          *)
WaitQueueSleepUntil(t, q) ==
    /\ th_state[t] = "RUNNING" /\ adding[t] = Null
    /\ Unlocked(q)
    /\ th_state' = [th_state EXCEPT ![t] = "WAITING"]
    /\ blocked_on' = [blocked_on EXCEPT ![t] = {q, "deadline"}]
    /\ Link(t, q)
    /\ adding' = [adding EXCEPT ![t] = q]
    /\ UNCHANGED <<th_due, s_sleep_list, walk>>

(* thread_sleep_list_add and the release of wq_lock.                       *)
ThreadSleepListAdd(t) ==
    /\ adding[t] # Null
    /\ SleepListPush(t)
    /\ th_due' = [th_due EXCEPT ![t] = FALSE]
    /\ adding' = [adding EXCEPT ![t] = Null]
    /\ UNCHANGED <<th_state, blocked_on, wq_head, wq_tail, walk>>

(* thread_sleep_until up to the yield.                                     *)
ThreadSleepUntil(t) ==
    /\ th_state[t] = "RUNNING" /\ adding[t] = Null
    /\ SleepListPush(t)
    /\ th_due' = [th_due EXCEPT ![t] = FALSE]
    /\ th_state' = [th_state EXCEPT ![t] = "WAITING"]
    /\ blocked_on' = [blocked_on EXCEPT ![t] = {"deadline"}]
    /\ UNCHANGED <<wq_head, wq_tail, adding, walk>>

(* Mutant: the tail is left behind when the queue empties.                 *)
WakeupOneKeepsTail(c, q) ==
    LET t == wq_head[q] IN
    /\ walk[c] = Null /\ Unlocked(q)
    /\ t # Null
    /\ wq_head' = [wq_head EXCEPT ![q] = th_wait_next[t]]
    /\ th_wait_next' = [th_wait_next EXCEPT ![t] = Null]
    /\ walk' = [walk EXCEPT ![c] = t]
    /\ UNCHANGED <<threadVars, wq_tail, s_sleep_list>>

(* The locked part of wait_queue_wakeup_one.                               *)
WakeupOne(c, q) ==
    LET t == wq_head[q] IN
    /\ walk[c] = Null /\ Unlocked(q)
    /\ t # Null
    /\ wq_head' = [wq_head EXCEPT ![q] = th_wait_next[t]]
    /\ wq_tail' = IF th_wait_next[t] = Null THEN [wq_tail EXCEPT ![q] = Null] ELSE wq_tail
    /\ th_wait_next' = [th_wait_next EXCEPT ![t] = Null]
    /\ walk' = [walk EXCEPT ![c] = t]
    /\ UNCHANGED <<threadVars, s_sleep_list>>

(* The locked part of wait_queue_wakeup_all.                               *)
WakeupAll(c, q) ==
    /\ walk[c] = Null /\ Unlocked(q)
    /\ wq_head[q] # Null
    /\ walk' = [walk EXCEPT ![c] = wq_head[q]]
    /\ wq_head' = [wq_head EXCEPT ![q] = Null]
    /\ wq_tail' = [wq_tail EXCEPT ![q] = Null]
    /\ UNCHANGED <<threadVars, th_wait_next, s_sleep_list>>

(* Mutant: the expired threads are unlinked but not chained.               *)
TimerExpireUnchained(c) ==
    LET stay == Those(List(s_sleep_list), Threads \ Due)
        expired == Those(List(s_sleep_list), Due)
    IN  /\ walk[c] = Null
        /\ expired # <<>>
        /\ s_sleep_list' = First(stay)
        /\ th_wait_next' = [t \in Threads |-> IF t \in ToSet(expired) THEN Null
                                              ELSE Chain(th_wait_next, stay)[t]]
        /\ walk' = [walk EXCEPT ![c] = Last(expired)]
        /\ UNCHANGED <<threadVars, wq_head, wq_tail>>

(* Mutant: the scan starts at the second sleeper.                          *)
TimerExpireSkipsHead(c) ==
    LET all == List(s_sleep_list)
        late == IF all = <<>> THEN all ELSE Those(Tail(all), Due)
        stay == Those(all, Threads \ ToSet(late))
    IN  /\ walk[c] = Null
        /\ late # <<>>
        /\ s_sleep_list' = First(stay)
        /\ th_wait_next' = Chain(Chain(th_wait_next, stay), Reverse(late))
        /\ walk' = [walk EXCEPT ![c] = Last(late)]
        /\ UNCHANGED <<threadVars, wq_head, wq_tail>>

(* The locked part of timer_wake_sleepers: the expired threads leave the   *)
(* list and are chained in reverse.                                        *)
TimerExpire(c) ==
    LET stay == Those(List(s_sleep_list), Threads \ Due)
        expired == Reverse(Those(List(s_sleep_list), Due))
    IN  /\ walk[c] = Null
        /\ expired # <<>>
        /\ s_sleep_list' = First(stay)
        /\ th_wait_next' = Chain(Chain(th_wait_next, stay), expired)
        /\ walk' = [walk EXCEPT ![c] = First(expired)]
        /\ UNCHANGED <<threadVars, wq_head, wq_tail>>

(* Mutant: th_wait_next is cleared before it is followed.                  *)
WakeNextDropsRest(c) ==
    LET t == walk[c] IN
    /\ t # Null
    /\ walk' = [walk EXCEPT ![c] = Null]
    /\ th_wait_next' = [th_wait_next EXCEPT ![t] = Null]
    /\ ThreadWake(t)
    /\ UNCHANGED <<th_due, adding, blocked_on, wq_head, wq_tail, s_sleep_list>>

(* One iteration of the waking loops, outside the locks.                   *)
WakeNext(c) ==
    LET t == walk[c] IN
    /\ t # Null
    /\ walk' = [walk EXCEPT ![c] = th_wait_next[t]]
    /\ th_wait_next' = [th_wait_next EXCEPT ![t] = Null]
    /\ ThreadWake(t)
    /\ UNCHANGED <<th_due, adding, blocked_on, wq_head, wq_tail, s_sleep_list>>

(* proc_signal: thread_wake of whatever the process's thread waits for.    *)
Signal(t) ==
    /\ th_state[t] = "WAITING"
    /\ ThreadWake(t)
    /\ UNCHANGED <<th_due, adding, blocked_on, th_wait_next, wq_head, wq_tail,
                   s_sleep_list, walk>>

(* The scheduler runs a woken thread, which returns from its sleep.        *)
Resume(t) ==
    /\ th_state[t] = "READY" /\ adding[t] = Null
    /\ th_state' = [th_state EXCEPT ![t] = "RUNNING"]
    /\ blocked_on' = [blocked_on EXCEPT ![t] = {}]
    /\ UNCHANGED <<th_due, adding, th_wait_next, wq_head, wq_tail, s_sleep_list, walk>>

(* Time reaches a sleeper's deadline.                                      *)
DeadlinePasses(t) ==
    /\ ~th_due[t] /\ t \in On(s_sleep_list)
    /\ th_due' = [th_due EXCEPT ![t] = TRUE]
    /\ UNCHANGED <<th_state, adding, blocked_on, th_wait_next, wq_head, wq_tail,
                   s_sleep_list, walk>>

-----------------------------------------------------------------------------
(* Threads that wait for a queue or for a deadline, not for both, and are  *)
(* woken by nothing else.                                                  *)
Next ==
    \/ \E t \in Threads :
          \/ Resume(t) \/ ThreadSleepUntil(t) \/ DeadlinePasses(t)
          \/ \E q \in Queues : WaitQueueSleep(t, q)
    \/ \E c \in Cpus :
          \/ WakeNext(c) \/ TimerExpire(c)
          \/ \E q \in Queues : WakeupOne(c, q) \/ WakeupAll(c, q)

(* As the kernel uses them: message queues wait for a queue and a deadline *)
(* at once, and signals reach threads that wait, which go round their loop *)
(* and wait again.                                                         *)
KernelNext ==
    \/ Next
    \/ \E t \in Threads :
          \/ Signal(t) \/ ThreadSleepListAdd(t)
          \/ \E q \in Queues : WaitQueueSleepUntil(t, q)

Spec == Init /\ [][Next]_vars
KernelSpec == Init /\ [][KernelNext]_vars

(* The timer interrupt comes periodically, deadlines pass, a waking loop   *)
(* runs to its end and woken threads are scheduled.  A CPU that is in a    *)
(* waking loop takes the timer interrupt when it is through with it.       *)
FairSpec ==
    /\ Spec
    /\ \A t \in Threads : WF_vars(Resume(t)) /\ WF_vars(DeadlinePasses(t))
    /\ \A c \in Cpus : WF_vars(WakeNext(c))
    /\ SF_vars(\E c \in Cpus : TimerExpire(c))

-----------------------------------------------------------------------------
(* Types, and the two pointers of a queue are both set or both null.       *)
TypeOK ==
    /\ th_state \in [Threads -> {"RUNNING", "WAITING", "READY"}]
    /\ th_wait_next \in [Threads -> Threads \cup {Null}]
    /\ th_due \in [Threads -> BOOLEAN]
    /\ wq_head \in [Queues -> Threads \cup {Null}]
    /\ wq_tail \in [Queues -> Threads \cup {Null}]
    /\ \A q \in Queues : wq_head[q] = Null <=> wq_tail[q] = Null
    /\ s_sleep_list \in Threads \cup {Null}
    /\ adding \in [Threads -> Queues \cup {Null}]
    /\ walk \in [Cpus -> Threads \cup {Null}]
    /\ blocked_on \in [Threads -> SUBSET (Queues \cup {"deadline"})]

(* A thread on a chain some CPU is waking.                                 *)
BeingWoken(t) == \E c \in Cpus : t \in On(walk[c])

(* A thread blocked on a wait queue can be found from the queue's head, or *)
(* is being woken: otherwise no wake-up of that queue reaches it.          *)
WaitersReachable ==
    \A t \in Threads, q \in Queues :
        th_state[t] = "WAITING" /\ q \in blocked_on[t] =>
            t \in On(wq_head[q]) \/ BeingWoken(t)

(* A thread blocked with a deadline can be found from the sleep list, or   *)
(* is being woken: otherwise its wait never times out.                     *)
SleepersReachable ==
    \A t \in Threads :
        th_state[t] = "WAITING" /\ "deadline" \in blocked_on[t] /\ adding[t] = Null =>
            t \in On(s_sleep_list) \/ BeingWoken(t)

(* A sleeper whose deadline has passed gets back to run.                   *)
SleepersWake ==
    \A t \in Threads :
        th_state[t] = "WAITING" /\ "deadline" \in blocked_on[t] /\ th_due[t]
            ~> th_state[t] = "RUNNING"

(* What a queue holds, who has been taken out of one and not been made     *)
(* runnable yet, and who is not runnable.                                  *)
Queued == [q \in Queues |-> List(wq_head[q])]
Woken == {t \in Threads : BeingWoken(t)}
Blocked == {t \in Threads : th_state[t] = "WAITING"}

(* The queues implement the promise of wait_queue.h.                       *)
Fifo == INSTANCE WaitFifo
    WITH queue <- Queued, waking <- Woken, blocked <- Blocked
ImplementsFifo == Fifo!Spec
=============================================================================
