---------------------------- MODULE MCPathLocks ----------------------------
(* Instances of PathLocks for TLC. *)
EXTENDS PathLocks, TLC

PathLocksSymmetry == Permutations(Procs) \cup Permutations(Ids)
=============================================================================
