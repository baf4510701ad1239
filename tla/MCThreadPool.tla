---------------------------- MODULE MCThreadPool ----------------------------
(* The instance of ThreadPool for TLC.  No symmetry: PoolEnds is liveness. *)
EXTENDS ThreadPool
=============================================================================
