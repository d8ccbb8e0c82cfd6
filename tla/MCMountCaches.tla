--------------------------- MODULE MCMountCaches ---------------------------
(* Instances of MountCaches for TLC. *)
EXTENDS MountCaches, TLC

TaskSymmetry == Permutations(Tasks)
=============================================================================
