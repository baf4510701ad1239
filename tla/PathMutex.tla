----------------------------- MODULE PathMutex -----------------------------
(***************************************************************************)
(* What PathLocks (src/src/libstore/pathlocks.hh) promises the importers:  *)
(* at most one holder per store path.  The promise is per path and it is   *)
(* void for a path in `broken': one whose lock file was unlinked by a      *)
(* process that ended before it could mark the file as deleted.            *)
(***************************************************************************)

CONSTANTS Procs, Paths

VARIABLES
  holders,  \* [Paths -> SUBSET Procs]: who may touch the store path
  broken    \* paths whose lock no longer excludes anybody

vars == <<holders, broken>>

Init ==
  /\ holders = [q \in Paths |-> {}]
  /\ broken = {}

Acquire(p, q) ==
  /\ holders[q] = {} \/ q \in broken
  /\ holders' = [holders EXCEPT ![q] = @ \cup {p}]
  /\ UNCHANGED broken

Release(p, q) ==
  /\ p \in holders[q]
  /\ holders' = [holders EXCEPT ![q] = @ \ {p}]
  /\ UNCHANGED broken

\* A lock file went away without its mark.
Break(q) ==
  /\ broken' = broken \cup {q}
  /\ UNCHANGED holders

\* The kernel closes every descriptor of a process that ends, wherever it was.
Exit(p) ==
  /\ holders' = [q \in Paths |-> holders[q] \ {p}]
  /\ \E S \in SUBSET Paths : broken' = broken \cup S

Next ==
  \/ \E p \in Procs, q \in Paths : Acquire(p, q) \/ Release(p, q)
  \/ \E q \in Paths : Break(q)
  \/ \E p \in Procs : Exit(p)

Spec == Init /\ [][Next]_vars
=============================================================================
