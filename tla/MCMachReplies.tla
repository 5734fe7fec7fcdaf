--------------------------- MODULE MCMachReplies ---------------------------
(* Symmetric: the arena slots.                                             *)
EXTENDS MachReplies, TLC

Symmetry == Permutations(Ports)
=============================================================================
