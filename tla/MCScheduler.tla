---------------------------- MODULE MCScheduler ----------------------------
(* Two CPUs, the initial thread and one that is spawned.                   *)
EXTENDS Scheduler
CONSTANTS t1, t2
MCThreads == {t1, t2}
=============================================================================
