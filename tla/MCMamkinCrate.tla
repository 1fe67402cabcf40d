--------------------------- MODULE MCMamkinCrate ---------------------------
(* Instances of MamkinCrate for TLC.                                       *)
EXTENDS MamkinCrate, TLC

Symmetry == Permutations(Threads)

(* A function of each kind, and the -1 of AF().                            *)
MCFunctions == {-1, 0, 16, 26}

MCDescriptors == 3..5
=============================================================================
