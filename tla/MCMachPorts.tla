---------------------------- MODULE MCMachPorts ----------------------------
(* Symmetric: the tasks that are not the daemon, and the arena slots.      *)
EXTENDS MachPorts, TLC

Symmetry == Permutations(Tasks \ {Daemon}) \cup Permutations(Ports)
=============================================================================
