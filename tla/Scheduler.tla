----------------------------- MODULE Scheduler -----------------------------
(***************************************************************************)
(* The per-CPU thread scheduler: kernel/arch/x86_64/scheduler.c with the   *)
(* hand-off of switch.S and the timer and reschedule vectors of idt.c.     *)
(*                                                                         *)
(* Every CPU owns one run queue behind a spinlock.  What the code does     *)
(* while it holds that lock is one step here; what it does outside it      *)
(* (choosing a steal victim, spinning on th_running_cpu, publishing the    *)
(* new thread, leaving the old stack) are steps of their own, so that      *)
(* wakers and thieves on other CPUs run in between.  Kernel code runs with *)
(* interrupts off (MSR_FMASK clears IF on syscall entry, vectors are       *)
(* interrupt gates), so one CPU executes one scheduler path at a time.     *)
(***************************************************************************)
EXTENDS Integers, Sequences, SequencesExt, FiniteSets

CONSTANTS
    NCpus,        \* smp_get_cpu_count(): CPU 0 is the boot processor
    Threads,      \* the chimera_thread_t slots other than the idle threads
    InitThread,   \* the thread scheduler_set_initial() installs on CPU 0
    BasePriority, \* th_base_priority (32 in the code)
    Boost,        \* the wake-up boost (16 in the code)
    MaxPriority,  \* its clamp (95 in the code)
    Idle,         \* the idle thread of whichever CPU it is seen on
    None          \* a null thread pointer

Cpus == 0 .. NCpus - 1

(* th_running_cpu = 0xFFFFFFFF: nobody executes on the thread's stack.     *)
NoCpu == -1

ASSUME CpuAssumption == NCpus \in Nat \ {0}
ASSUME ThreadAssumption ==
    /\ InitThread \in Threads
    /\ Idle \notin Threads /\ None \notin Threads /\ Idle # None
ASSUME PriorityAssumption ==
    BasePriority \in Nat \ {0} /\ Boost \in Nat /\ MaxPriority \in Nat

VARIABLES
    th_state,           \* per thread; "UNUSED" is a slot never handed out
    th_priority,        \* = th_sched_priority: every writer sets both
    th_running_cpu,     \* the CPU whose stack pointer is on the thread's stack
    th_assigned_cpu,    \* the CPU whose queue a wake-up uses
    runq,               \* s_cpu_runq[c]: head first
    cpu_current_thread, \* %gs:0
    cpu_is_active,
    ipi,                \* a VECTOR_IPI_SCHED is pending at the local APIC
    pc,                 \* where CPU c is in the scheduler code
    hand,               \* the thread held in a local of that code
    old_thread,         \* scheduler_yield's old_thread, once current changed
    target              \* best_target of a steal, target_cpu of a wake

threadVars == <<th_state, th_priority, th_running_cpu, th_assigned_cpu>>
cpuVars == <<cpu_current_thread, cpu_is_active, ipi, pc, hand, old_thread, target>>
vars == <<threadVars, runq, cpuVars>>

-----------------------------------------------------------------------------
(* Helpers.                                                                *)

(* Mutant: the priority decays without a floor.                            *)
DecayedUnbounded(p) == p - 1

(* th_sched_priority after one tick or one yield of CPU use.               *)
Decayed(p) == IF p > BasePriority \div 2 THEN p - 1 ELSE p

(* The priority thread_wake gives.                                         *)
Boosted == IF BasePriority + Boost > MaxPriority THEN MaxPriority
                                                 ELSE BasePriority + Boost

(* Mutant: a thread is linked in front of its equals, not behind them.     *)
EnqueueAtFront(q, p, prio) ==
    { n \in 1 .. Len(q) + 1 :
        /\ \A j \in 1 .. n - 1 : prio[q[j]] > p
        /\ n <= Len(q) => prio[q[n]] <= p }

(* The places runq_enqueue_locked may link a thread of priority p into q:  *)
(* in front of the first queued thread of lower priority (there is one     *)
(* such place).                                                            *)
EnqueueAt(q, p, prio) ==
    { n \in 1 .. Len(q) + 1 :
        /\ \A j \in 1 .. n - 1 : prio[q[j]] >= p
        /\ n <= Len(q) => prio[q[n]] < p }

(* runq_remove_locked.                                                     *)
RunqRemove(q, t) ==
    IF \E i \in DOMAIN q : q[i] = t
    THEN RemoveAt(q, CHOOSE i \in DOMAIN q : q[i] = t)
    ELSE q

(* The choice of scheduler_add_thread: the shortest queue of an active CPU *)
(* (the boot CPU always counts), the first one if there are several.       *)
LeastLoaded ==
    LET S == {c \in Cpus : cpu_is_active[c] \/ c = 0}
    IN  {c \in S : \A d \in S : \/ Len(runq[c]) < Len(runq[d])
                                \/ Len(runq[c]) = Len(runq[d]) /\ c <= d}

(* The choice of scheduler_steal_work: the longest queue of another active *)
(* CPU that holds more than one thread, the first one if there are several.*)
Busiest(c) ==
    LET S == {d \in Cpus \ {c} : cpu_is_active[d] /\ Len(runq[d]) > 1}
    IN  {d \in S : \A e \in S : \/ Len(runq[d]) > Len(runq[e])
                                \/ Len(runq[d]) = Len(runq[e]) /\ d <= e}

Goto(c, l) == pc' = [pc EXCEPT ![c] = l]

-----------------------------------------------------------------------------
(* scheduler_init, scheduler_set_initial, scheduler_run: the boot CPU runs *)
(* the first thread, the others have not reached scheduler_ap_run yet.     *)
Init ==
    /\ th_state = [t \in Threads |-> IF t = InitThread THEN "RUNNING" ELSE "UNUSED"]
    /\ th_priority = [t \in Threads |-> BasePriority]
    /\ th_running_cpu = [t \in Threads |-> IF t = InitThread THEN 0 ELSE NoCpu]
    /\ th_assigned_cpu = [t \in Threads |-> 0]
    /\ runq = [c \in Cpus |-> <<>>]
    /\ cpu_current_thread = [c \in Cpus |-> IF c = 0 THEN InitThread ELSE Idle]
    /\ cpu_is_active = [c \in Cpus |-> c = 0]
    /\ ipi = [c \in Cpus |-> FALSE]
    /\ pc = [c \in Cpus |-> IF c = 0 THEN "exec" ELSE "offline"]
    /\ hand = [c \in Cpus |-> None]
    /\ old_thread = [c \in Cpus |-> None]
    /\ target = [c \in Cpus |-> 0]

-----------------------------------------------------------------------------
(* What a CPU does outside the scheduler: run a thread, take interrupts.   *)

(* scheduler_ap_run: an AP joins, marks itself active and yields from its  *)
(* idle thread.                                                            *)
ApRun(c) ==
    /\ pc[c] = "offline"
    /\ cpu_is_active' = [cpu_is_active EXCEPT ![c] = TRUE]
    /\ Goto(c, "yield")
    /\ UNCHANGED <<threadVars, runq, cpu_current_thread, ipi, hand, old_thread, target>>

(* VECTOR_LAPIC_TIMER / VECTOR_PIT_TIMER: charge the running thread and    *)
(* reschedule.  An idle CPU leaves hlt and calls scheduler_yield.          *)
TimerTick(c) ==
    /\ pc[c] = "exec"
    /\ LET t == cpu_current_thread[c] IN
       IF t # Idle /\ th_state[t] = "RUNNING"
       THEN th_priority' = [th_priority EXCEPT ![t] = Decayed(@)]
       ELSE UNCHANGED th_priority
    /\ Goto(c, "yield")
    /\ UNCHANGED <<th_state, th_running_cpu, th_assigned_cpu, runq,
                   cpu_current_thread, cpu_is_active, ipi, hand, old_thread, target>>

(* VECTOR_IPI_SCHED.                                                       *)
IpiSched(c) ==
    /\ pc[c] = "exec"
    /\ ipi[c]
    /\ ipi' = [ipi EXCEPT ![c] = FALSE]
    /\ Goto(c, "yield")
    /\ UNCHANGED <<threadVars, runq, cpu_current_thread, cpu_is_active,
                   hand, old_thread, target>>

(* A thread parks itself (a wait queue or thread_sleep_until): it is       *)
(* WAITING, and can be woken, before it has called scheduler_yield.        *)
BlockCurrent(c) ==
    /\ pc[c] = "exec"
    /\ cpu_current_thread[c] # Idle
    /\ th_state' = [th_state EXCEPT ![cpu_current_thread[c]] = "WAITING"]
    /\ Goto(c, "yield")
    /\ UNCHANGED <<th_priority, th_running_cpu, th_assigned_cpu, runq,
                   cpu_current_thread, cpu_is_active, ipi, hand, old_thread, target>>

(* sys_exit_direct: HALTED, unlinked from its queue, and off to yield.     *)
ExitCurrent(c) ==
    /\ pc[c] = "exec"
    /\ cpu_current_thread[c] # Idle
    /\ LET t == cpu_current_thread[c] IN
       /\ th_state' = [th_state EXCEPT ![t] = "HALTED"]
       /\ runq' = [runq EXCEPT ![th_assigned_cpu[t]] = RunqRemove(@, t)]
    /\ Goto(c, "yield")
    /\ UNCHANGED <<th_priority, th_running_cpu, th_assigned_cpu,
                   cpu_current_thread, cpu_is_active, ipi, hand, old_thread, target>>

(* Mutant: th_state is set READY without the compare-exchange.             *)
WakeAnyStopped(c, t) ==
    /\ pc[c] = "exec"
    /\ th_state[t] \notin {"RUNNING", "UNUSED", "HALTED"}
    /\ th_state' = [th_state EXCEPT ![t] = "READY"]
    /\ th_priority' = [th_priority EXCEPT ![t] = Boosted]
    /\ target' = [target EXCEPT ![c] = th_assigned_cpu[t]]
    /\ hand' = [hand EXCEPT ![c] = t]
    /\ Goto(c, "enqueue")
    /\ UNCHANGED <<th_running_cpu, th_assigned_cpu, runq, cpu_current_thread,
                   cpu_is_active, ipi, old_thread>>

(* thread_wake up to its run-queue lock: the compare-exchange on th_state  *)
(* lets one waker through, which boosts the thread and owns it until it is *)
(* queued.  Interrupt handlers wake threads too, so the CPU may be idle.   *)
WakeBegin(c, t) ==
    /\ pc[c] = "exec"
    /\ th_state[t] = "WAITING"
    /\ th_state' = [th_state EXCEPT ![t] = "READY"]
    /\ th_priority' = [th_priority EXCEPT ![t] = Boosted]
    /\ LET a == th_assigned_cpu[t]
           d == IF a # 0 /\ ~cpu_is_active[a] THEN c ELSE a
       IN  /\ th_assigned_cpu' = [th_assigned_cpu EXCEPT ![t] = d]
           /\ target' = [target EXCEPT ![c] = d]
    /\ hand' = [hand EXCEPT ![c] = t]
    /\ Goto(c, "enqueue")
    /\ UNCHANGED <<th_running_cpu, runq, cpu_current_thread, cpu_is_active,
                   ipi, old_thread>>

(* scheduler_add_thread up to its run-queue lock.                          *)
SchedulerAdd(c, t) ==
    /\ th_state' = [th_state EXCEPT ![t] = "READY"]
    /\ th_priority' = [th_priority EXCEPT ![t] = BasePriority]
    /\ th_running_cpu' = [th_running_cpu EXCEPT ![t] = NoCpu]
    /\ \E d \in LeastLoaded :
          /\ th_assigned_cpu' = [th_assigned_cpu EXCEPT ![t] = d]
          /\ target' = [target EXCEPT ![c] = d]
    /\ hand' = [hand EXCEPT ![c] = t]
    /\ Goto(c, "enqueue")
    /\ UNCHANGED <<runq, cpu_current_thread, cpu_is_active, ipi, old_thread>>

(* A running thread spawns or forks one, on a slot that was never used.    *)
AddThread(c, t) ==
    /\ pc[c] = "exec"
    /\ cpu_current_thread[c] # Idle
    /\ th_state[t] = "UNUSED"
    /\ SchedulerAdd(c, t)

(* The locked part of thread_wake and scheduler_add_thread.                *)
EnqueueHand(c) ==
    /\ pc[c] = "enqueue"
    /\ \E n \in EnqueueAt(runq[target[c]], th_priority[hand[c]], th_priority) :
          runq' = [runq EXCEPT ![target[c]] = InsertAt(@, n, hand[c])]
    /\ hand' = [hand EXCEPT ![c] = None]
    /\ Goto(c, "notify")
    /\ UNCHANGED <<threadVars, cpu_current_thread, cpu_is_active, ipi,
                   old_thread, target>>

(* Their tail: an IPI to the target if it is another CPU and looks idle.   *)
NotifyTarget(c) ==
    /\ pc[c] = "notify"
    /\ LET d == target[c] IN
       IF cpu_current_thread[d] = Idle /\ d # c /\ cpu_is_active[d]
       THEN ipi' = [ipi EXCEPT ![d] = TRUE]
       ELSE UNCHANGED ipi
    /\ target' = [target EXCEPT ![c] = 0]
    /\ Goto(c, "exec")
    /\ UNCHANGED <<threadVars, runq, cpu_current_thread, cpu_is_active,
                   hand, old_thread>>

-----------------------------------------------------------------------------
(* scheduler_yield.                                                        *)

(* Mutant: whatever the old thread's state, it is requeued.                *)
YieldAny(c) ==
    LET t == cpu_current_thread[c]
        p == Decayed(th_priority[t])
    IN
    /\ pc[c] = "yield"
    /\ t # Idle /\ th_state[t] \in {"RUNNING", "HALTED"}
    /\ th_priority' = [th_priority EXCEPT ![t] = p]
    /\ th_state' = [th_state EXCEPT ![t] = "READY"]
    /\ \E n \in EnqueueAt(runq[c], p, th_priority) :
          LET q == InsertAt(runq[c], n, t)
          IN  /\ hand' = [hand EXCEPT ![c] = Head(q)]
              /\ runq' = [runq EXCEPT ![c] = Tail(q)]
    /\ Goto(c, "decide")
    /\ UNCHANGED <<th_running_cpu, th_assigned_cpu, cpu_current_thread,
                   cpu_is_active, ipi, old_thread, target>>

(* Its critical section, old thread still RUNNING: requeue it, take the    *)
(* head (which may be the same thread).                                    *)
YieldRunning(c) ==
    LET t == cpu_current_thread[c]
        p == Decayed(th_priority[t])
    IN
    /\ pc[c] = "yield"
    /\ t # Idle /\ th_state[t] = "RUNNING"
    /\ th_priority' = [th_priority EXCEPT ![t] = p]
    /\ th_state' = [th_state EXCEPT ![t] = "READY"]
    /\ \E n \in EnqueueAt(runq[c], p, th_priority) :
          LET q == InsertAt(runq[c], n, t)
          IN  /\ hand' = [hand EXCEPT ![c] = Head(q)]
              /\ runq' = [runq EXCEPT ![c] = Tail(q)]
    /\ Goto(c, "decide")
    /\ UNCHANGED <<th_running_cpu, th_assigned_cpu, cpu_current_thread,
                   cpu_is_active, ipi, old_thread, target>>

(* The same section when the old thread is idle, blocked, already woken    *)
(* again or halted: nothing to requeue.                                    *)
YieldStopped(c) ==
    LET t == cpu_current_thread[c] IN
    /\ pc[c] = "yield"
    /\ t # Idle => th_state[t] # "RUNNING"
    /\ th_priority' = IF t = Idle THEN th_priority
                      ELSE [th_priority EXCEPT ![t] = Decayed(@)]
    /\ \/ /\ runq[c] # <<>>
          /\ hand' = [hand EXCEPT ![c] = Head(runq[c])]
          /\ runq' = [runq EXCEPT ![c] = Tail(@)]
          /\ Goto(c, "decide")
       \/ /\ runq[c] = <<>>
          /\ Goto(c, "steal")
          /\ UNCHANGED <<hand, runq>>
    /\ UNCHANGED <<th_state, th_running_cpu, th_assigned_cpu, cpu_current_thread,
                   cpu_is_active, ipi, old_thread, target>>

(* scheduler_steal_work, unlocked scan of the queue lengths.               *)
PickVictim(c) ==
    /\ pc[c] = "steal"
    /\ \/ /\ \E d \in Busiest(c) : target' = [target EXCEPT ![c] = d]
          /\ Goto(c, "stealing")
          /\ UNCHANGED hand
       \/ /\ Busiest(c) = {}
          /\ hand' = [hand EXCEPT ![c] = Idle]
          /\ Goto(c, "decide")
          /\ UNCHANGED target
    /\ UNCHANGED <<threadVars, runq, cpu_current_thread, cpu_is_active, ipi, old_thread>>

(* scheduler_steal_work under the victim's lock: the tail of its queue, if *)
(* it still holds more than one thread.                                    *)
Steal(c) ==
    LET q == runq[target[c]] IN
    /\ pc[c] = "stealing"
    /\ \/ /\ Len(q) > 1
          /\ hand' = [hand EXCEPT ![c] = Last(q)]
          /\ runq' = [runq EXCEPT ![target[c]] = Front(q)]
          /\ th_assigned_cpu' = [th_assigned_cpu EXCEPT ![Last(q)] = c]
       \/ /\ Len(q) <= 1
          /\ hand' = [hand EXCEPT ![c] = Idle]
          /\ UNCHANGED <<runq, th_assigned_cpu>>
    /\ target' = [target EXCEPT ![c] = 0]
    /\ Goto(c, "decide")
    /\ UNCHANGED <<th_state, th_priority, th_running_cpu, cpu_current_thread,
                   cpu_is_active, ipi, old_thread>>

(* new_thread == old_thread: back to the caller without a switch.          *)
ResumeOld(c) ==
    /\ pc[c] = "decide"
    /\ hand[c] = cpu_current_thread[c]
    /\ th_state' = IF hand[c] = Idle THEN th_state
                   ELSE [th_state EXCEPT ![hand[c]] = "RUNNING"]
    /\ hand' = [hand EXCEPT ![c] = None]
    /\ Goto(c, "exec")
    /\ UNCHANGED <<th_priority, th_running_cpu, th_assigned_cpu, runq,
                   cpu_current_thread, cpu_is_active, ipi, old_thread, target>>

(* Mutant: th_running_cpu is released before the stack has been left.      *)
PublishIdleReleasing(c) ==
    /\ pc[c] = "decide"
    /\ hand[c] = Idle /\ cpu_current_thread[c] # Idle
    /\ th_running_cpu' = [th_running_cpu EXCEPT ![cpu_current_thread[c]] = NoCpu]
    /\ old_thread' = [old_thread EXCEPT ![c] = cpu_current_thread[c]]
    /\ cpu_current_thread' = [cpu_current_thread EXCEPT ![c] = Idle]
    /\ hand' = [hand EXCEPT ![c] = None]
    /\ Goto(c, "switch")
    /\ UNCHANGED <<th_state, th_priority, th_assigned_cpu, runq, cpu_is_active,
                   ipi, target>>

(* No work anywhere: publish the idle thread.                              *)
PublishIdle(c) ==
    /\ pc[c] = "decide"
    /\ hand[c] = Idle /\ cpu_current_thread[c] # Idle
    /\ old_thread' = [old_thread EXCEPT ![c] = cpu_current_thread[c]]
    /\ cpu_current_thread' = [cpu_current_thread EXCEPT ![c] = Idle]
    /\ hand' = [hand EXCEPT ![c] = None]
    /\ Goto(c, "switch")
    /\ UNCHANGED <<threadVars, runq, cpu_is_active, ipi, target>>

(* Mutant: no spin on th_running_cpu.                                      *)
SpinNever(c) ==
    /\ pc[c] = "decide"
    /\ hand[c] \in Threads /\ hand[c] # cpu_current_thread[c]
    /\ Goto(c, "claim")
    /\ UNCHANGED <<threadVars, runq, cpu_current_thread, cpu_is_active, ipi,
                   hand, old_thread, target>>

(* The spin on th_running_cpu ends: nobody is on the new thread's stack.   *)
SpinDone(c) ==
    /\ pc[c] = "decide"
    /\ hand[c] \in Threads /\ hand[c] # cpu_current_thread[c]
    /\ th_running_cpu[hand[c]] = NoCpu
    /\ Goto(c, "claim")
    /\ UNCHANGED <<threadVars, runq, cpu_current_thread, cpu_is_active, ipi,
                   hand, old_thread, target>>

(* The stores that follow the spin: the read and the claim are not one     *)
(* atomic operation.                                                       *)
Claim(c) ==
    /\ pc[c] = "claim"
    /\ th_state' = [th_state EXCEPT ![hand[c]] = "RUNNING"]
    /\ th_running_cpu' = [th_running_cpu EXCEPT ![hand[c]] = c]
    /\ th_assigned_cpu' = [th_assigned_cpu EXCEPT ![hand[c]] = c]
    /\ old_thread' = [old_thread EXCEPT ![c] = cpu_current_thread[c]]
    /\ cpu_current_thread' = [cpu_current_thread EXCEPT ![c] = hand[c]]
    /\ hand' = [hand EXCEPT ![c] = None]
    /\ Goto(c, "switch")
    /\ UNCHANGED <<th_priority, runq, cpu_is_active, ipi, target>>

(* context_switch: the stack pointer leaves the old thread's stack and     *)
(* only then its th_running_cpu is released.                               *)
ContextSwitch(c) ==
    /\ pc[c] = "switch"
    /\ th_running_cpu' = IF old_thread[c] = Idle THEN th_running_cpu
                         ELSE [th_running_cpu EXCEPT ![old_thread[c]] = NoCpu]
    /\ old_thread' = [old_thread EXCEPT ![c] = None]
    /\ Goto(c, "exec")
    /\ UNCHANGED <<th_state, th_priority, th_assigned_cpu, runq,
                   cpu_current_thread, cpu_is_active, ipi, hand, target>>

-----------------------------------------------------------------------------
(* The steps of a CPU that is inside scheduler code; it runs to the end.   *)
KernelStep(c) ==
    \/ EnqueueHand(c) \/ NotifyTarget(c)
    \/ YieldRunning(c) \/ YieldStopped(c)
    \/ PickVictim(c) \/ Steal(c)
    \/ ResumeOld(c) \/ PublishIdle(c) \/ SpinDone(c) \/ Claim(c)
    \/ ContextSwitch(c)

Next ==
    \E c \in Cpus :
        \/ ApRun(c) \/ TimerTick(c) \/ IpiSched(c)
        \/ BlockCurrent(c) \/ ExitCurrent(c)
        \/ \E t \in Threads : WakeBegin(c, t) \/ AddThread(c, t)
        \/ KernelStep(c)

Spec == Init /\ [][Next]_vars

(* Kernel code runs to completion, and the periodic timer interrupts every *)
(* online CPU: a tick that comes while interrupts are off stays pending    *)
(* and is taken as soon as they are on again, hence strong fairness.       *)
Fairness ==
    \A c \in Cpus : /\ WF_vars(KernelStep(c))
                    /\ SF_vars(TimerTick(c))

FairSpec == Spec /\ Fairness

-----------------------------------------------------------------------------
(* Properties.                                                             *)

Locations == {"offline", "exec", "enqueue", "notify", "yield", "steal",
              "stealing", "decide", "claim", "switch"}

TypeOK ==
    /\ th_state \in [Threads -> {"UNUSED", "READY", "RUNNING", "WAITING", "HALTED"}]
    /\ th_priority \in [Threads -> Nat]
    /\ th_running_cpu \in [Threads -> Cpus \cup {NoCpu}]
    /\ th_assigned_cpu \in [Threads -> Cpus]
    /\ runq \in [Cpus -> Seq(Threads)]
    /\ cpu_current_thread \in [Cpus -> Threads \cup {Idle}]
    /\ cpu_is_active \in [Cpus -> BOOLEAN]
    /\ ipi \in [Cpus -> BOOLEAN]
    /\ pc \in [Cpus -> Locations]
    /\ hand \in [Cpus -> Threads \cup {Idle, None}]
    /\ old_thread \in [Cpus -> Threads \cup {Idle, None}]
    /\ target \in [Cpus -> Cpus]

(* The stack CPU c executes on: scheduler_yield publishes the new thread   *)
(* before context_switch leaves the old one's stack.                       *)
StackOf(c) == IF pc[c] = "switch" THEN old_thread[c] ELSE cpu_current_thread[c]

(* Two CPUs never execute on one thread's kernel stack, nor do they both   *)
(* have it as current thread: the purpose of th_running_cpu and of its     *)
(* release in switch.S after the stack pointer has moved.                  *)
OneCpuPerThread ==
    \A c, d \in Cpus :
        c # d => {StackOf(c), cpu_current_thread[c]} \cap
                 {StackOf(d), cpu_current_thread[d]} \subseteq {Idle}

(* A READY thread is in exactly one place: one position of one run queue,  *)
(* or one CPU's hands on its way into or out of a queue.  It is never      *)
(* queued twice (runq_enqueue_locked does not check) and never lost, and   *)
(* no thread of another state is ever in such a place.                     *)
QueuedOnce ==
    \A c, d \in Cpus : \A i \in DOMAIN runq[c], j \in DOMAIN runq[d] :
        runq[c][i] = runq[d][j] => c = d /\ i = j
HeldOnce ==
    \A c, d \in Cpus : hand[c] \in Threads =>
        /\ hand[d] = hand[c] => c = d
        /\ \A i \in DOMAIN runq[d] : runq[d][i] # hand[c]
Held(t) == \E c \in Cpus : hand[c] = t \/ \E i \in DOMAIN runq[c] : runq[c][i] = t
ReadyInOnePlace ==
    /\ QueuedOnce /\ HeldOnce
    /\ \A t \in Threads : th_state[t] = "READY" <=> Held(t)

(* The inductive strengthening of both: who owns a stack, which state the  *)
(* current thread has, and what the locals of a CPU hold at each place.    *)
StackOwned ==
    \A c \in Cpus :
        /\ cpu_current_thread[c] \in Threads => th_running_cpu[cpu_current_thread[c]] = c
        /\ pc[c] = "switch" =>
              /\ old_thread[c] \in (Threads \cup {Idle}) \ {cpu_current_thread[c]}
              /\ old_thread[c] \in Threads => th_running_cpu[old_thread[c]] = c
CurrentIsRunning ==
    \A c \in Cpus :
        /\ pc[c] \in {"exec", "enqueue", "notify", "switch"}
        /\ cpu_current_thread[c] \in Threads
        => th_state[cpu_current_thread[c]] = "RUNNING"
HandOfStep ==
    \A c \in Cpus :
        /\ pc[c] \in {"enqueue", "claim"} => hand[c] \in Threads
        /\ pc[c] = "decide" => hand[c] # None
        /\ pc[c] = "claim" => th_running_cpu[hand[c]] = NoCpu
        /\ pc[c] \notin {"enqueue", "decide", "claim"} => hand[c] = None
FreshUnowned ==
    \A t \in Threads : th_state[t] = "UNUSED" => th_running_cpu[t] = NoCpu
Inv == StackOwned /\ CurrentIsRunning /\ HandOfStep /\ FreshUnowned /\ ReadyInOnePlace

(* A thread that has exited is never made runnable again by a late wake-up *)
(* or by its own last yield.                                               *)
HaltedIsFinal ==
    [][\A t \in Threads : th_state[t] = "HALTED" => th_state'[t] = "HALTED"]_vars

(* No two CPUs spin in scheduler_yield for each other's stack.  They can:  *)
(* both stop a thread, both find their queue empty, and a timer interrupt  *)
(* elsewhere wakes both threads (and two more) before either steals.       *)
SpinsFor(c, d) ==
    pc[c] = "decide" /\ hand[c] \in Threads /\ th_running_cpu[hand[c]] = d
NoMutualSpin ==
    \A c, d \in Cpus : c # d => ~(SpinsFor(c, d) /\ SpinsFor(d, c))

(* Once threads stop blocking (so that no wake-up boost can overtake it    *)
(* for ever) every runnable thread gets a CPU.                             *)
EveryReadyThreadRuns ==
    <>[][\A c \in Cpus : ~BlockCurrent(c)]_vars
        => \A t \in Threads : th_state[t] = "READY" ~> th_state[t] # "READY"
=============================================================================
