---------------------------- MODULE MCLocalStore ----------------------------
(* Instances of LocalStore for TLC. *)
EXTENDS LocalStore, TLC

StoreSymmetry == Permutations(Procs)
=============================================================================
