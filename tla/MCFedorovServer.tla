-------------------------- MODULE MCFedorovServer --------------------------
(* Instances of FedorovServer for TLC.                                     *)
EXTENDS FedorovServer, TLC

Symmetry == Permutations(Threads)
=============================================================================
