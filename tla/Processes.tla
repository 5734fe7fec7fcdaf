----------------------------- MODULE Processes -----------------------------
(***************************************************************************)
(* The life of a process: kernel/bsd/proc.c and sys_fork, sys_spawn,       *)
(* sys_exit_direct, sys_wait4 and sys_kill of kernel/bsd/syscall.c.        *)
(*                                                                         *)
(* A process is a slot of s_proc_pool.  Its one thread is named by its pid *)
(* and outlives the slot: between the store of PROC_STATE_EXITED and the   *)
(* end of proc_mark_exited the parent, on another CPU, can reap the slot   *)
(* and fork into it, while the exiting thread still reads the slot through *)
(* its pointer.  Steps of one thread are separated where another CPU can   *)
(* see the difference; what s_proc_pool_lock covers is one step.           *)
(*                                                                         *)
(* Of a signal only the thread_wake matters here: a process that it kills  *)
(* exits at some later return to user space, as any process may.  Every    *)
(* fork and spawn succeeds or fails where the code cleans up: a failure in *)
(* task_create, or of sys_spawn to load the image, leaves the slot as it   *)
(* is and is not part of the model.                                        *)
(***************************************************************************)
EXTENDS Integers, FiniteSets

CONSTANTS
    NSlots,    \* slots of s_proc_pool (255: slot 0 is never used)
    MaxPid     \* bound: processes ever created

ASSUME BoundsAssumption == NSlots \in Nat \ {0} /\ MaxPid \in Nat \ {0}

Slots == 1 .. NSlots
Pids == 1 .. MaxPid
Launchd == 1   \* the slot and the pid of the first process
Null == 0      \* no slot (proc_kernel, which is outside the pool, included)
AnyPid == -1   \* wait4's pid argument -1

VARIABLES
    p_state,                  \* "FREE": p_signature is not CHIMERA_PROC_MAGIC
    p_pid, p_ppid, p_parent,
    s_pid_seq,
    pc, ta_proc,              \* of a thread: where it is, the slot it runs for
    proc,                     \* of a thread: the slot its system call works on
    target,                   \* of a thread: the slot it signals
    want,                     \* of a thread: the argument of its wait4
    collected                 \* history: how often wait4 has returned a pid

slotVars == <<p_state, p_pid, p_ppid, p_parent, s_pid_seq>>
vars == <<slotVars, pc, ta_proc, proc, target, want, collected>>

Goto(n, l) == pc' = [pc EXCEPT ![n] = l]

(* The locals of a system call end with it.                                *)
locals == <<proc, target, want>>
EndLocals(n) ==
    /\ proc' = [proc EXCEPT ![n] = Null]
    /\ target' = [target EXCEPT ![n] = Null]
    /\ want' = [want EXCEPT ![n] = AnyPid]
Return(n) == Goto(n, "user") /\ EndLocals(n)

InUse(s) == p_state[s] # "FREE"
Children(s) ==
    {c \in Slots : InUse(c) /\ (p_parent[c] = s \/ p_ppid[c] = p_pid[s])}
Waited(n) == {c \in Children(ta_proc[n]) : want[n] \in {AnyPid, p_pid[c]}}
FindWaitableChild(n) == {c \in Waited(n) : p_state[c] = "EXITED"}
Lowest(S) == CHOOSE s \in S : \A t \in S : s <= t

-----------------------------------------------------------------------------
(* PID 1 runs; it is the kernel's only child.                              *)
Init ==
    /\ p_state = [s \in Slots |-> IF s = Launchd THEN "RUNNING" ELSE "FREE"]
    /\ p_pid = [s \in Slots |-> IF s = Launchd THEN Launchd ELSE 0]
    /\ p_ppid = [s \in Slots |-> 0]
    /\ p_parent = [s \in Slots |-> Null]
    /\ s_pid_seq = Launchd + 1
    /\ pc = [n \in Pids |-> IF n = Launchd THEN "user" ELSE "none"]
    /\ ta_proc = [n \in Pids |-> IF n = Launchd THEN Launchd ELSE Null]
    /\ proc = [n \in Pids |-> Null]
    /\ target = [n \in Pids |-> Null]
    /\ want = [n \in Pids |-> AnyPid]
    /\ collected = [n \in Pids |-> 0]

(* Mutant: a full pool is not noticed.                                     *)
FreeSlotUnchecked ==
    IF \A s \in Slots : InUse(s) THEN NSlots + 1
    ELSE Lowest({s \in Slots : ~InUse(s)})

(* The first slot with no process in it.                                   *)
FreeSlot ==
    IF \A s \in Slots : InUse(s) THEN Null
    ELSE Lowest({s \in Slots : ~InUse(s)})

(* proc_create: with a full pool the call fails and nothing changes.       *)
ProcCreate(n, parent) ==
    /\ s_pid_seq <= MaxPid /\ FreeSlot # Null
    /\ p_state' = [p_state EXCEPT ![FreeSlot] = "RUNNING"]
    /\ p_pid' = [p_pid EXCEPT ![FreeSlot] = s_pid_seq]
    /\ p_ppid' = [p_ppid EXCEPT ![FreeSlot] = p_pid[parent]]
    /\ p_parent' = [p_parent EXCEPT ![FreeSlot] = parent]
    /\ s_pid_seq' = s_pid_seq + 1
    /\ proc' = [proc EXCEPT ![n] = FreeSlot]
    /\ Goto(n, "start")
    /\ UNCHANGED <<ta_proc, target, want, collected>>

(* The child of a fork is the caller's, that of a spawn is launchd's.      *)
Fork(n) == pc[n] = "user" /\ ProcCreate(n, ta_proc[n])
Spawn(n) == pc[n] = "user" /\ ProcCreate(n, Launchd)

(* scheduler_add_thread makes the child's thread runnable.                 *)
StartThread(n) ==
    /\ pc[n] = "start"
    /\ pc' = [pc EXCEPT ![n] = "user", ![p_pid[proc[n]]] = "user"]
    /\ ta_proc' = [ta_proc EXCEPT ![p_pid[proc[n]]] = proc[n]]
    /\ EndLocals(n)
    /\ UNCHANGED <<slotVars, collected>>

(* No thread slot, kernel stack or queue entry: proc_mark_exited(child).   *)
NoThread(n) ==
    /\ pc[n] = "start"
    /\ Goto(n, "reparent")
    /\ UNCHANGED <<slotVars, ta_proc, proc, target, want, collected>>

-----------------------------------------------------------------------------
(* sys_exit_direct, of its own accord or for a signal, up to the end of    *)
(* step 3 of proc_mark_exited.  launchd does not exit and is not killed.   *)
ExitCurrent(n) ==
    /\ pc[n] = "user" /\ n # Launchd
    /\ proc' = [proc EXCEPT ![n] = ta_proc[n]]
    /\ Goto(n, "reparent")
    /\ UNCHANGED <<slotVars, ta_proc, target, want, collected>>

(* Mutant: children that have already exited keep their parent.            *)
ReparentRunning(n) ==
    /\ pc[n] = "reparent"
    /\ LET live == {s \in Children(proc[n]) : p_state[s] = "RUNNING"} IN
         /\ p_parent' = [s \in Slots |-> IF s \in live THEN Launchd ELSE p_parent[s]]
         /\ p_ppid' = [s \in Slots |-> IF s \in live THEN p_pid[Launchd] ELSE p_ppid[s]]
    /\ Goto(n, "mark")
    /\ UNCHANGED <<p_state, p_pid, s_pid_seq, ta_proc, proc, target, want, collected>>

(* Step 4: every child, exited or not, goes to launchd.                    *)
Reparent(n) ==
    /\ pc[n] = "reparent"
    /\ p_parent' = [s \in Slots |-> IF s \in Children(proc[n]) THEN Launchd
                                    ELSE p_parent[s]]
    /\ p_ppid' = [s \in Slots |-> IF s \in Children(proc[n]) THEN p_pid[Launchd]
                                  ELSE p_ppid[s]]
    /\ Goto(n, "mark")
    /\ UNCHANGED <<p_state, p_pid, s_pid_seq, ta_proc, proc, target, want, collected>>

MarkExited(n) ==
    /\ pc[n] = "mark"
    /\ p_state' = [p_state EXCEPT ![proc[n]] = "EXITED"]
    /\ Goto(n, "notify")
    /\ UNCHANGED <<p_pid, p_ppid, p_parent, s_pid_seq, ta_proc, proc, target,
                   want, collected>>

(* The slot may be free again by now, or another process's.                *)
ReadParent(n) ==
    /\ pc[n] = "notify"
    /\ target' = [target EXCEPT ![n] = p_parent[proc[n]]]
    /\ Goto(n, "signal")
    /\ UNCHANGED <<slotVars, ta_proc, proc, want, collected>>

(* proc_signal: thread_wake of the thread of the slot, if there is one and *)
(* the process does not ignore the signal.  A thread that has marked its   *)
(* own slot ends after that, in scheduler_yield.                           *)
ProcSignal(n) ==
    /\ pc[n] = "signal"
    /\ LET sleeper == {m \in Pids : /\ target[n] # Null /\ m = p_pid[target[n]]
                                    /\ pc[m] = "asleep"}
           end == IF proc[n] = ta_proc[n] THEN "dead" ELSE "user"
       IN  \E woken \in {sleeper, {}} :
             pc' = [m \in Pids |-> IF m = n THEN end
                                   ELSE IF m \in woken THEN "scan" ELSE pc[m]]
    /\ EndLocals(n)
    /\ UNCHANGED <<slotVars, ta_proc, collected>>

(* sys_kill, after proc_find_by_pid has found the slot.                    *)
Kill(n, s) ==
    /\ pc[n] = "user" /\ InUse(s)
    /\ target' = [target EXCEPT ![n] = s]
    /\ Goto(n, "signal")
    /\ UNCHANGED <<slotVars, ta_proc, proc, want, collected>>

-----------------------------------------------------------------------------
(* sys_wait4: without children it fails at once.                           *)
Wait4(n, pid) ==
    /\ pc[n] = "user" /\ Children(ta_proc[n]) # {}
    /\ want' = [want EXCEPT ![n] = pid]
    /\ Goto(n, "scan")
    /\ UNCHANGED <<slotVars, ta_proc, proc, target, collected>>

WaitFind(n) ==
    /\ pc[n] = "scan" /\ FindWaitableChild(n) # {}
    /\ proc' = [proc EXCEPT ![n] = Lowest(FindWaitableChild(n))]
    /\ Goto(n, "reap")
    /\ UNCHANGED <<slotVars, ta_proc, target, want, collected>>

(* No waitable child: return 0 under WNOHANG, go on otherwise.             *)
WaitNone(n) ==
    /\ pc[n] = "scan" /\ FindWaitableChild(n) = {}
    /\ \/ Return(n)
       \/ Goto(n, "recheck") /\ UNCHANGED locals
    /\ UNCHANGED <<slotVars, ta_proc, collected>>

(* ECHILD if there is no child left, sleep for 200 ms otherwise.           *)
WaitSleep(n) ==
    /\ pc[n] = "recheck"
    /\ IF Children(ta_proc[n]) = {} THEN Return(n)
       ELSE Goto(n, "asleep") /\ UNCHANGED locals
    /\ UNCHANGED <<slotVars, ta_proc, collected>>

(* Mutant: wait4 sleeps without a deadline.                                *)
WaitNoTimeout(n) ==
    /\ pc[n] = "asleep" /\ FALSE
    /\ Goto(n, "scan")
    /\ UNCHANGED <<slotVars, ta_proc, proc, target, want, collected>>

(* The deadline of thread_sleep_until.                                     *)
WaitTimeout(n) ==
    /\ pc[n] = "asleep"
    /\ Goto(n, "scan")
    /\ UNCHANGED <<slotVars, ta_proc, proc, target, want, collected>>

(* Mutant: the slot is not given back.                                     *)
WaitReapKeepsSlot(n) ==
    /\ pc[n] = "reap"
    /\ collected' = [collected EXCEPT ![p_pid[proc[n]]] = @ + 1]
    /\ Return(n)
    /\ UNCHANGED <<slotVars, ta_proc>>

(* proc_reap and the return of the child's pid and status.                 *)
WaitReap(n) ==
    /\ pc[n] = "reap"
    /\ p_state' = [p_state EXCEPT ![proc[n]] = "FREE"]
    /\ p_pid' = [p_pid EXCEPT ![proc[n]] = 0]
    /\ p_ppid' = [p_ppid EXCEPT ![proc[n]] = 0]
    /\ p_parent' = [p_parent EXCEPT ![proc[n]] = Null]
    /\ collected' = [collected EXCEPT ![p_pid[proc[n]]] = @ + 1]
    /\ Return(n)
    /\ UNCHANGED <<s_pid_seq, ta_proc>>

-----------------------------------------------------------------------------
(* A thread inside a system call goes on; a sleeping one has its deadline. *)
KernelStep(n) ==
    \/ StartThread(n) \/ NoThread(n)
    \/ Reparent(n) \/ MarkExited(n) \/ ReadParent(n) \/ ProcSignal(n)
    \/ WaitFind(n) \/ WaitNone(n) \/ WaitSleep(n) \/ WaitTimeout(n) \/ WaitReap(n)

Call(n) ==
    \/ Fork(n) \/ Spawn(n) \/ ExitCurrent(n)
    \/ \E s \in Slots : Kill(n, s)
    \/ \E pid \in Pids \cup {AnyPid} : Wait4(n, pid)

Next == \E n \in Pids : Call(n) \/ KernelStep(n)

Fairness == \A n \in Pids : WF_vars(KernelStep(n))

Spec == Init /\ [][Next]_vars
FairSpec == Spec /\ Fairness

-----------------------------------------------------------------------------
(* Properties.                                                             *)

TypeOK ==
    /\ p_state \in [Slots -> {"FREE", "RUNNING", "EXITED"}]
    /\ p_pid \in [Slots -> 0 .. MaxPid]
    /\ p_ppid \in [Slots -> 0 .. MaxPid]
    /\ p_parent \in [Slots -> Slots \cup {Null}]
    /\ s_pid_seq \in 2 .. MaxPid + 1
    /\ pc \in [Pids -> {"none", "user", "start", "reparent", "mark", "notify",
                        "signal", "dead", "scan", "recheck", "asleep", "reap"}]
    /\ ta_proc \in [Pids -> Slots \cup {Null}]
    /\ proc \in [Pids -> Slots \cup {Null}]
    /\ target \in [Pids -> Slots \cup {Null}]
    /\ want \in [Pids -> Pids \cup {AnyPid}]
    /\ collected \in [Pids -> Nat]

(* The thread of slot s has given up its children for good.                *)
PastReparent(s) ==
    LET n == p_pid[s] IN
        \/ pc[n] = "dead"
        \/ pc[n] \in {"mark", "notify", "signal"} /\ proc[n] = s

(* A process never loses the parent that can collect it: p_parent points   *)
(* to a slot that is in use, by the process p_ppid names, which has not    *)
(* yet passed the loop of proc_mark_exited that hands its children over.   *)
ParentAlive ==
    \A s \in Slots \ {Launchd} : InUse(s) =>
        /\ p_parent[s] # Null
        /\ p_state[p_parent[s]] = "RUNNING"
        /\ p_pid[p_parent[s]] = p_ppid[s]
        /\ ~PastReparent(p_parent[s])

(* wait4 returns a process at most once, and only after its exit: a reaped *)
(* slot, reused or not, is not found again, and neither the old nor the    *)
(* new parent finds a child the other has collected.                       *)
CollectedOnce ==
    \A n \in Pids :
        /\ collected[n] <= 1
        /\ collected[n] = 1 => pc[n] \in {"none", "notify", "signal", "dead"}

(* wait4 comes back once none of the children it waits for has a thread    *)
(* left or is being given one, whatever the order of the child's exit, the *)
(* SIGCHLD that finds the parent awake or asleep, and the parent's own     *)
(* check and sleep.                                                        *)
InWait(n) == pc[n] \in {"scan", "recheck", "asleep", "reap"}
HasThread(s) ==
    \/ pc[p_pid[s]] \notin {"none", "dead"}
    \/ \E m \in Pids : pc[m] \in {"start", "reparent", "mark"} /\ proc[m] = s
WaitEnds ==
    \A n \in Pids :
        (InWait(n) /\ Waited(n) # {} /\ \A s \in Waited(n) : ~HasThread(s))
            ~> ~InWait(n)
=============================================================================
