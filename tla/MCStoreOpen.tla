---------------------------- MODULE MCStoreOpen ----------------------------
(* Instances of StoreOpen for TLC. *)
EXTENDS StoreOpen, TLC

OpenSymmetry == Permutations(Openers) \cup Permutations(Files)
=============================================================================
