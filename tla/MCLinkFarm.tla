----------------------------- MODULE MCLinkFarm -----------------------------
(* Instances of LinkFarm for TLC. *)
EXTENDS LinkFarm, TLC

CONSTANTS n1, n2, a, b

\* Two files with one content.
MCWant == n1 :> a @@ n2 :> a
\* What a file is changed to has another size ...
MCSize == a :> 1 @@ b :> 2

\* ... or the same.
MCSameSize == a :> 1 @@ b :> 1

FarmSymmetry == Permutations(Procs) \cup Permutations(Inodes)
=============================================================================
