-------------------------- MODULE MCSchedulerSpin --------------------------
(***************************************************************************)
(* Three CPUs in steady state: CPU 0 idle, the threads a and b running on  *)
(* CPUs 1 and 2, the threads c and d asleep and last run there.  Any such  *)
(* state is reached by spawning four threads that go to sleep in turn.     *)
(***************************************************************************)
EXTENDS Scheduler
CONSTANTS th_a, th_b, th_c, th_d
MCThreads == {th_a, th_b, th_c, th_d}

SteadyInit ==
    /\ th_state = [t \in Threads |-> IF t \in {th_a, th_b} THEN "RUNNING" ELSE "WAITING"]
    /\ th_priority = [t \in Threads |-> BasePriority]
    /\ th_running_cpu = [t \in Threads |-> IF t = th_a THEN 1 ELSE IF t = th_b THEN 2 ELSE NoCpu]
    /\ th_assigned_cpu = [t \in Threads |-> IF t \in {th_a, th_c} THEN 1 ELSE 2]
    /\ runq = [i \in Cpus |-> <<>>]
    /\ cpu_current_thread = [i \in Cpus |-> IF i = 1 THEN th_a ELSE IF i = 2 THEN th_b ELSE Idle]
    /\ cpu_is_active = [i \in Cpus |-> TRUE]
    /\ ipi = [i \in Cpus |-> FALSE]
    /\ pc = [i \in Cpus |-> "exec"]
    /\ hand = [i \in Cpus |-> None]
    /\ old_thread = [i \in Cpus |-> None]
    /\ target = [i \in Cpus |-> 0]

SteadySpec == SteadyInit /\ [][Next]_vars
=============================================================================
