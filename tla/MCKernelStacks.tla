--------------------------- MODULE MCKernelStacks --------------------------
(* Two CPUs and three threads.                                             *)
EXTENDS KernelStacks, TLC
CONSTANTS t1, t2, t3
MCThreads == {t1, t2, t3}
Spawned == Permutations({t2, t3})
=============================================================================
