---------------------------- MODULE KernelStacks ---------------------------
(***************************************************************************)
(* The kernel stacks under the scheduler: which stack each CPU's stack     *)
(* pointer is on, where each thread's context is saved, and two things     *)
(* Scheduler leaves out.                                                   *)
(*                                                                         *)
(* Slots are reused.  An exiting thread halts itself twice:                *)
(* proc_mark_exited marks it HALTED, unlinks it and clears th_signature,   *)
(* then tears the process down, and sys_exit_direct does the same once     *)
(* more before the final yield.  All that time it runs on the slot's       *)
(* stack, and sys_spawn and sys_fork may take the slot.                    *)
(*                                                                         *)
(* One scheduler_yield runs with interrupts on: the idle loop's            *)
(* (idle_thread_entry: sti; hlt; scheduler_yield).  Between publishing the *)
(* new thread in %gs:0 and the cli of context_switch a timer interrupt     *)
(* sees that thread as current and RUNNING, and yields on its behalf: the  *)
(* nested context_switch stores a pointer into the idle stack as that      *)
(* thread's th_saved_sp.                                                   *)
(***************************************************************************)
EXTENDS Scheduler

VARIABLES
    sp,        \* the stack CPU c's stack pointer is on
    saved_on,  \* the stack th_saved_sp points into
    irq_on,    \* CPU c is inside the idle loop's own yield
    nested,    \* an interrupt's yield runs on top of it
    exiting    \* CPUs between the two halts of an exiting thread

idleVars  == <<irq_on, nested>>
stackVars == <<sp, saved_on, idleVars, exiting>>

IdleStack(c) == <<Idle, c>>

StackInit ==
    /\ Init
    /\ sp = [c \in Cpus |-> IF c = 0 THEN InitThread ELSE IdleStack(c)]
    /\ saved_on = [t \in Threads |-> t]
    /\ irq_on = [c \in Cpus |-> FALSE]
    /\ nested = [c \in Cpus |-> FALSE]
    /\ exiting = {}

(* The interrupted frame is not finished: a thread resumed on an idle      *)
(* stack first returns from the interrupt into the idle loop's yield.      *)
Unfinished(c) == pc[c] = "exec" /\ cpu_current_thread[c] # Idle
                                /\ sp[c] # cpu_current_thread[c]

(* A tick on an idle CPU: hlt returns and the idle loop yields, IF = 1.    *)
Tick(c) ==
    /\ ~Unfinished(c)
    /\ TimerTick(c)
    /\ irq_on' = [irq_on EXCEPT ![c] = cpu_current_thread[c] = Idle]
    /\ UNCHANGED <<sp, saved_on, nested, exiting>>

(* A tick between the store to %gs:0 and the cli of context_switch.        *)
TickAfterPublish(c) ==
    /\ pc[c] = "switch" /\ irq_on[c]
    /\ LET t == cpu_current_thread[c] IN
       /\ t # Idle
       /\ th_priority' = [th_priority EXCEPT ![t] = Decayed(@)]
    /\ old_thread' = [old_thread EXCEPT ![c] = None]
    /\ irq_on' = [irq_on EXCEPT ![c] = FALSE]
    /\ nested' = [nested EXCEPT ![c] = TRUE]
    /\ Goto(c, "yield")
    /\ UNCHANGED <<th_state, th_running_cpu, th_assigned_cpu, runq, sp, saved_on, exiting,
                   cpu_current_thread, cpu_is_active, ipi, hand, target>>

(* The nested yield picked the published thread again: return from the     *)
(* interrupt and go on with the idle loop's context_switch.                *)
ResumeOuter(c) ==
    /\ nested[c]
    /\ pc[c] = "decide" /\ hand[c] = cpu_current_thread[c]
    /\ th_state' = [th_state EXCEPT ![hand[c]] = "RUNNING"]
    /\ hand' = [hand EXCEPT ![c] = None]
    /\ old_thread' = [old_thread EXCEPT ![c] = Idle]
    /\ nested' = [nested EXCEPT ![c] = FALSE]
    /\ irq_on' = [irq_on EXCEPT ![c] = TRUE]
    /\ Goto(c, "switch")
    /\ UNCHANGED <<th_priority, th_running_cpu, th_assigned_cpu, runq, sp, saved_on, exiting,
                   cpu_current_thread, cpu_is_active, ipi, target>>

(* context_switch with its stack pointers: the old thread's context stays  *)
(* on the stack the CPU is on, the new one's is where it was saved.        *)
SwitchStacks(c) ==
    /\ ContextSwitch(c)
    /\ saved_on' = IF old_thread[c] = Idle THEN saved_on
                   ELSE [saved_on EXCEPT ![old_thread[c]] = sp[c]]
    /\ sp' = [sp EXCEPT ![c] = IF cpu_current_thread[c] = Idle THEN IdleStack(c)
                               ELSE saved_on[cpu_current_thread[c]]]
    /\ irq_on' = [irq_on EXCEPT ![c] = FALSE]
    /\ nested' = [nested EXCEPT ![c] = FALSE]
    /\ UNCHANGED exiting

(* A thread resumed on an idle stack gets through the interrupted yield to *)
(* its own stack.                                                          *)
FinishOuter(c) ==
    /\ Unfinished(c)
    /\ sp' = [sp EXCEPT ![c] = cpu_current_thread[c]]
    /\ UNCHANGED <<vars, saved_on, idleVars, exiting>>

Halt(c) ==
    LET t == cpu_current_thread[c] IN
    /\ th_state' = [th_state EXCEPT ![t] = "HALTED"]
    /\ runq' = [runq EXCEPT ![th_assigned_cpu[t]] = RunqRemove(@, t)]

(* A thread in a system call on its own stack.                             *)
InSyscall(c) == pc[c] = "exec" /\ cpu_current_thread[c] # Idle /\ ~Unfinished(c)

(* proc_mark_exited, up to th_signature = 0.                               *)
ExitBegin(c) ==
    /\ InSyscall(c) /\ c \notin exiting
    /\ Halt(c)
    /\ exiting' = exiting \cup {c}
    /\ UNCHANGED <<th_priority, th_running_cpu, th_assigned_cpu, cpuVars,
                   sp, saved_on, idleVars>>

(* The rest of sys_exit_direct.                                            *)
ExitEnd(c) ==
    /\ pc[c] = "exec" /\ c \in exiting
    /\ Halt(c)
    /\ exiting' = exiting \ {c}
    /\ Goto(c, "yield")
    /\ UNCHANGED <<th_priority, th_running_cpu, th_assigned_cpu, cpu_current_thread,
                   cpu_is_active, ipi, hand, old_thread, target, sp, saved_on, idleVars>>

(* sys_spawn and sys_fork take the first slot whose th_signature is        *)
(* cleared or whose thread is HALTED; thread_init_stack puts the new       *)
(* thread's context on the slot's stack and scheduler_add_thread resets    *)
(* th_running_cpu.  The first thread is not in their pools.                *)
ReuseSlot(c, t) ==
    /\ InSyscall(c) /\ c \notin exiting
    /\ t # InitThread /\ th_state[t] = "HALTED"
    /\ SchedulerAdd(c, t)
    /\ saved_on' = [saved_on EXCEPT ![t] = t]
    /\ UNCHANGED <<sp, idleVars, exiting>>

(* A CPU in the scheduler, or a thread that wakes another one: an exiting  *)
(* one its parent (SIGCHLD).                                               *)
Proceed(c) ==
    \/ \E t \in Threads : WakeBegin(c, t)
    \/ EnqueueHand(c) \/ NotifyTarget(c) \/ YieldRunning(c) \/ YieldStopped(c)
    \/ PickVictim(c) \/ Steal(c) \/ PublishIdle(c) \/ SpinDone(c) \/ Claim(c)

StackNext ==
    \E c \in Cpus :
        \/ TickAfterPublish(c) \/ ResumeOuter(c) \/ SwitchStacks(c) \/ FinishOuter(c)
        \/ ExitBegin(c) \/ ExitEnd(c)
        \/ \E t \in Threads : ReuseSlot(c, t)
        \/ c \notin exiting /\ Tick(c)
        \/ /\ ResumeOld(c) /\ ~nested[c]
           /\ irq_on' = [irq_on EXCEPT ![c] = FALSE]
           /\ UNCHANGED <<sp, saved_on, nested, exiting>>
        \/ /\ ~Unfinished(c)
           /\ \/ Proceed(c)
              \/ /\ c \notin exiting
                 /\ \/ ApRun(c) \/ IpiSched(c) \/ BlockCurrent(c)
                    \/ \E t \in Threads : AddThread(c, t)
           /\ UNCHANGED stackVars

StackSpec == StackInit /\ [][StackNext]_<<vars, stackVars>>

(* Two CPUs never have their stack pointers on one kernel stack, idle      *)
(* stacks included: what th_running_cpu is there to prevent.               *)
StacksExclusive == \A c, d \in Cpus : c # d => sp[c] # sp[d]
=============================================================================
