--------------------------- MODULE MCCopyOnWrite ---------------------------
(* Two or three processes, the pages of one address space, few frames.     *)
EXTENDS CopyOnWrite, TLC

Symmetry == Permutations(Spaces \ {Boot}) \cup Permutations(Frames)
=============================================================================
