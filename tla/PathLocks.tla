----------------------------- MODULE PathLocks -----------------------------
(***************************************************************************)
(* The lock-file protocol of src/src/libstore/pathlocks.cc, one action per *)
(* system call: importers of one store path exclude each other with a      *)
(* flock on `<path>.lock', and the last holder removes that file.          *)
(*                                                                         *)
(* A lock file is an inode i of the files made under the name of path q    *)
(* (lock files are never renamed or linked elsewhere).  An inode nothing   *)
(* refers to is gone, so its number may be used again.                     *)
(***************************************************************************)
EXTENDS Integers

CONSTANTS
  Procs,          \* processes that lock store paths
  Paths,          \* store paths, as integers: their order is the set's order
  Ids,            \* inode numbers
  None,           \* "no inode", "no process"
  MaxRounds       \* bound: lockPaths calls per process

ASSUME PathsAssumption == Paths \subseteq Int
ASSUME NoneAssumption == None \notin Ids /\ None \notin Procs /\ None \notin Paths
ASSUME BoundAssumption == MaxRounds \in Nat

VARIABLES
  dir,       \* dir[q]: inode the name q.lock refers to, or None
  marked,    \* marked[q]: inodes with st_size # 0, the "d" token of deleteLockFile
  holder,    \* holder[q][i]: process with the exclusive flock, or None
  pc,        \* where each process is in lockPaths / unlock
  todo,      \* paths lockPaths has still to lock
  cur,       \* the path being locked or unlocked
  fd,        \* local `fd' of lockPaths: inode opened, not yet in `fds'
  fds,       \* fds[p][q]: member `fds', the inode held for q, or None
  wait,      \* argument `wait' of lockPaths
  deletion,  \* member `deletePaths'
  torn,      \* history: paths whose lock file was unlinked but never marked
  rounds     \* calls made so far

vars == <<dir, marked, holder, pc, todo, cur, fd, fds, wait, deletion, torn, rounds>>

PCs == {"idle", "open", "try", "wait", "check", "held",
        "unlock", "token", "close", "leaked"}

TypeOK ==
  /\ dir \in [Paths -> Ids \cup {None}]
  /\ marked \in [Paths -> SUBSET Ids]
  /\ holder \in [Paths -> [Ids -> Procs \cup {None}]]
  /\ pc \in [Procs -> PCs]
  /\ todo \in [Procs -> SUBSET Paths]
  /\ cur \in [Procs -> Paths \cup {None}]
  /\ fd \in [Procs -> Ids \cup {None}]
  /\ fds \in [Procs -> [Paths -> Ids \cup {None}]]
  /\ wait \in [Procs -> BOOLEAN]
  /\ deletion \in [Procs -> BOOLEAN]
  /\ torn \in SUBSET Paths
  /\ rounds \in [Procs -> Nat]

-----------------------------------------------------------------------------
(* Helpers *)

\* std::set iterates in order; unlock() walks `fds' in the order it was built.
FirstOf(q, S) == q \in S /\ \A r \in S : q <= r

Held(p) == {q \in Paths : fds[p][q] # None}

\* No name and no descriptor refers to the inode: the kernel has freed it.
Unused(q, i) ==
  /\ dir[q] # i
  /\ \A p \in Procs : fds[p][q] # i /\ ~(cur[p] = q /\ fd[p] = i)

NoFds == [q \in Paths |-> None]

Init ==
  /\ dir = [q \in Paths |-> None]
  /\ marked = [q \in Paths |-> {}]
  /\ holder = [q \in Paths |-> [i \in Ids |-> None]]
  /\ pc = [p \in Procs |-> "idle"]
  /\ todo = [p \in Procs |-> {}]
  /\ cur = [p \in Procs |-> None]
  /\ fd = [p \in Procs |-> None]
  /\ fds = [p \in Procs |-> NoFds]
  /\ wait = [p \in Procs |-> TRUE]
  /\ deletion = [p \in Procs |-> FALSE]
  /\ torn = {}
  /\ rounds = [p \in Procs |-> 0]

-----------------------------------------------------------------------------
(* PathLocks::lockPaths *)

LockPaths(p) ==
  /\ pc[p] = "idle"
  /\ rounds[p] < MaxRounds
  /\ \E ps \in SUBSET Paths \ {{}}, w \in BOOLEAN, q \in Paths :
       /\ FirstOf(q, ps)
       /\ todo' = [todo EXCEPT ![p] = ps]
       /\ cur' = [cur EXCEPT ![p] = q]
       /\ wait' = [wait EXCEPT ![p] = w]
  /\ pc' = [pc EXCEPT ![p] = "open"]
  /\ rounds' = [rounds EXCEPT ![p] = @ + 1]
  /\ UNCHANGED <<dir, marked, holder, fd, fds, deletion, torn>>

\* openLockFile(lockPath, true): the named inode, or a new empty one under that
\* name.  Assigning to `fd' closes the stale file of the previous round, if any.
OpenLockFile(p) ==
  /\ pc[p] = "open"
  /\ LET q == cur[p]
         released == IF fd[p] = None THEN holder
                     ELSE [holder EXCEPT ![q][fd[p]] = None]
     IN \/ /\ dir[q] # None
           /\ fd' = [fd EXCEPT ![p] = dir[q]]
           /\ holder' = released
           /\ UNCHANGED <<dir, marked>>
        \/ /\ dir[q] = None
           /\ \E i \in Ids :
                /\ Unused(q, i)
                /\ dir' = [dir EXCEPT ![q] = i]
                /\ marked' = [marked EXCEPT ![q] = @ \ {i}]
                /\ fd' = [fd EXCEPT ![p] = i]
                /\ holder' = [released EXCEPT ![q][i] = None]
  /\ pc' = [pc EXCEPT ![p] = "try"]
  /\ UNCHANGED <<todo, cur, fds, wait, deletion, torn, rounds>>

\* lockFile(fd, ltWrite, false): got it; or wait; or give up, which releases
\* what was locked before and returns false.
TryLock(p) ==
  /\ pc[p] = "try"
  /\ LET q == cur[p]
         i == fd[p]
     IN \/ /\ holder[q][i] = None
           /\ holder' = [holder EXCEPT ![q][i] = p]
           /\ pc' = [pc EXCEPT ![p] = "check"]
           /\ UNCHANGED <<fd, todo>>
        \/ /\ holder[q][i] # None
           /\ wait[p]
           /\ pc' = [pc EXCEPT ![p] = "wait"]
           /\ UNCHANGED <<holder, fd, todo>>
        \/ /\ holder[q][i] # None
           /\ ~wait[p]
           /\ fd' = [fd EXCEPT ![p] = None]
           /\ todo' = [todo EXCEPT ![p] = {}]
           /\ pc' = [pc EXCEPT ![p] = IF Held(p) = {} THEN "idle" ELSE "unlock"]
           /\ UNCHANGED holder
  /\ UNCHANGED <<dir, marked, cur, fds, wait, deletion, torn, rounds>>

\* Mutant: a lock that had to be waited for is not checked for staleness.
GrantedUnchecked(p) ==
  /\ pc[p] = "wait"
  /\ holder[cur[p]][fd[p]] = None
  /\ holder' = [holder EXCEPT ![cur[p]][fd[p]] = p]
  /\ fds' = [fds EXCEPT ![p][cur[p]] = fd[p]]
  /\ fd' = [fd EXCEPT ![p] = None]
  /\ todo' = [todo EXCEPT ![p] = {}]
  /\ pc' = [pc EXCEPT ![p] = "held"]
  /\ UNCHANGED <<dir, marked, cur, wait, deletion, torn, rounds>>

\* lockFile(fd, ltWrite, true): the blocking flock is granted.
FlockGranted(p) ==
  /\ pc[p] = "wait"
  /\ holder[cur[p]][fd[p]] = None
  /\ holder' = [holder EXCEPT ![cur[p]][fd[p]] = p]
  /\ pc' = [pc EXCEPT ![p] = "check"]
  /\ UNCHANGED <<dir, marked, todo, cur, fd, fds, wait, deletion, torn, rounds>>

\* fstat: a marked file was deleted while we waited, so start over; otherwise
\* the path is ours and the next one follows.
CheckStale(p) ==
  /\ pc[p] = "check"
  /\ LET q == cur[p]
         rest == todo[p] \ {q}
     IN \/ /\ fd[p] \in marked[q]
           /\ pc' = [pc EXCEPT ![p] = "open"]
           /\ UNCHANGED <<todo, cur, fd, fds>>
        \/ /\ fd[p] \notin marked[q]
           /\ fds' = [fds EXCEPT ![p][q] = fd[p]]
           /\ fd' = [fd EXCEPT ![p] = None]
           /\ todo' = [todo EXCEPT ![p] = rest]
           /\ \/ /\ rest = {}
                 /\ pc' = [pc EXCEPT ![p] = "held"]
                 /\ UNCHANGED cur
              \/ \E r \in rest :
                 /\ FirstOf(r, rest)
                 /\ pc' = [pc EXCEPT ![p] = "open"]
                 /\ cur' = [cur EXCEPT ![p] = r]
  /\ UNCHANGED <<dir, marked, holder, wait, deletion, torn, rounds>>

-----------------------------------------------------------------------------
(* PathLocks::setDeletion, PathLocks::unlock and deleteLockFile *)

SetDeletion(p) ==
  /\ pc[p] = "held"
  /\ ~deletion[p]
  /\ deletion' = [deletion EXCEPT ![p] = TRUE]
  /\ UNCHANGED <<dir, marked, holder, pc, todo, cur, fd, fds, wait, torn, rounds>>

\* The destructor, or an exception unwinding past the lock.
Unlock(p) ==
  /\ pc[p] = "held"
  /\ pc' = [pc EXCEPT ![p] = "unlock"]
  /\ UNCHANGED <<dir, marked, holder, todo, cur, fd, fds, wait, deletion, torn, rounds>>

\* tryUnlink(path) removes whatever has the name now, or is refused, which is ignored.
UnlinkLockFile(p) ==
  /\ pc[p] = "unlock"
  /\ deletion[p]
  /\ \E q \in Paths :
       /\ FirstOf(q, Held(p))
       /\ cur' = [cur EXCEPT ![p] = q]
       /\ \/ dir' = [dir EXCEPT ![q] = None]
          \/ UNCHANGED dir
  /\ pc' = [pc EXCEPT ![p] = "token"]
  /\ UNCHANGED <<marked, holder, todo, fd, fds, wait, deletion, torn, rounds>>

\* Mutant: the file is unlinked but not marked.
TokenForgotten(p) ==
  /\ pc[p] = "token"
  /\ pc' = [pc EXCEPT ![p] = "close"]
  /\ UNCHANGED <<dir, marked, holder, todo, cur, fd, fds, wait, deletion, torn, rounds>>

\* writeFull(desc, "d")
WriteToken(p) ==
  /\ pc[p] = "token"
  /\ marked' = [marked EXCEPT ![cur[p]] = @ \cup {fds[p][cur[p]]}]
  /\ pc' = [pc EXCEPT ![p] = "close"]
  /\ UNCHANGED <<dir, holder, todo, cur, fd, fds, wait, deletion, torn, rounds>>

\* writeFull polls checkInterrupt() and can meet a full disk: it throws, which
\* skips every close() that was to follow.  The descriptors live on until exit.
TokenFails(p) ==
  /\ pc[p] = "token"
  /\ torn' = torn \cup {cur[p]}
  /\ pc' = [pc EXCEPT ![p] = "leaked"]
  /\ UNCHANGED <<dir, marked, holder, todo, cur, fd, fds, wait, deletion, rounds>>

\* close(): the flock goes with the descriptor.
CloseLockFile(p) ==
  /\ \E q \in Paths :
       /\ \/ pc[p] = "unlock" /\ ~deletion[p] /\ FirstOf(q, Held(p))
          \/ pc[p] = "close" /\ q = cur[p]
       /\ holder' = [holder EXCEPT ![q][fds[p][q]] = None]
       /\ fds' = [fds EXCEPT ![p][q] = None]
       /\ \/ /\ Held(p) = {q}
             /\ pc' = [pc EXCEPT ![p] = "idle"]
             /\ deletion' = [deletion EXCEPT ![p] = FALSE]
          \/ /\ Held(p) # {q}
             /\ pc' = [pc EXCEPT ![p] = "unlock"]
             /\ UNCHANGED deletion
  /\ UNCHANGED <<dir, marked, todo, cur, fd, wait, torn, rounds>>

\* The process ends (crash, kill, exit after an exception): the kernel closes
\* its descriptors.  Between the unlink and the token nobody marks the file.
Exit(p) ==
  /\ pc[p] # "idle"
  /\ torn' = IF pc[p] = "token" THEN torn \cup {cur[p]} ELSE torn
  /\ holder' = [q \in Paths |-> [i \in Ids |-> IF holder[q][i] = p THEN None ELSE holder[q][i]]]
  /\ pc' = [pc EXCEPT ![p] = "idle"]
  /\ todo' = [todo EXCEPT ![p] = {}]
  /\ fd' = [fd EXCEPT ![p] = None]
  /\ fds' = [fds EXCEPT ![p] = NoFds]
  /\ deletion' = [deletion EXCEPT ![p] = FALSE]
  /\ UNCHANGED <<dir, marked, cur, wait, rounds>>

-----------------------------------------------------------------------------

Acquiring(p) ==
  OpenLockFile(p) \/ TryLock(p) \/ FlockGranted(p) \/ CheckStale(p)

Releasing(p) ==
  Unlock(p) \/ UnlinkLockFile(p) \/ WriteToken(p) \/ TokenFails(p) \/ CloseLockFile(p)

Next ==
  \E p \in Procs :
    \/ LockPaths(p) \/ Acquiring(p)
    \/ SetDeletion(p) \/ Releasing(p)
    \/ Exit(p)

Spec == Init /\ [][Next]_vars

-----------------------------------------------------------------------------
(* Properties *)

\* p believes it owns q: from the stale check until it gives the name up.
Owns(p, q) ==
  /\ fds[p][q] # None
  /\ ~(cur[p] = q /\ pc[p] \in {"token", "close", "leaked"})

\* Two processes never own one path, whatever the interleaving of open, flock,
\* fstat, unlink and token, unless a delete of that lock file was torn.
MutualExclusion ==
  \A q \in Paths \ torn : \A p1, p2 \in Procs :
    Owns(p1, q) /\ Owns(p2, q) => p1 = p2

\* deleteLockFile unlinks by name; the name it removes is that of the very
\* file it holds, never the fresh lock file of a later holder.
OnlyOwnLockFileUnlinked ==
  [][\A q \in Paths \ torn :
       dir[q] # None /\ dir'[q] = None =>
         \E p \in Procs : pc[p] = "unlock" /\ Owns(p, q) /\ fds[p][q] = dir[q]]_vars

\* The protocol implements the abstract lock.
Mutex == INSTANCE PathMutex WITH
  holders <- [q \in Paths |-> {p \in Procs : Owns(p, q)}],
  broken <- torn

ImplementsPathMutex == Mutex!Spec
-----------------------------------------------------------------------------
(* The inductive invariant behind MutualExclusion *)

Locking(p) == pc[p] \in {"open", "try", "wait", "check"}

Leaving(p) == pc[p] \in {"token", "close", "leaked"}

\* The program counter says which descriptors a process has.
DescriptorInv ==
  \A p \in Procs :
    /\ Locking(p) => cur[p] \in todo[p] /\ todo[p] \cap Held(p) = {}
    /\ pc[p] \in {"try", "wait", "check"} => fd[p] # None
    /\ ~Locking(p) => fd[p] = None
    /\ Leaving(p) => cur[p] \in Held(p)
    /\ pc[p] = "idle" => Held(p) = {}

\* Every file in `fds', and one that passed flock, is locked by its process.
FlockInv ==
  \A p \in Procs :
    /\ \A q \in Held(p) : holder[q][fds[p][q]] = p
    /\ pc[p] = "check" \/ (pc[p] = "open" /\ fd[p] # None)
         => holder[cur[p]][fd[p]] = p

\* The lock file of an owned path is still the one its name refers to.
NameInv ==
  \A q \in Paths \ torn : \A p \in Procs :
    Owns(p, q) => dir[q] = fds[p][q] /\ fds[p][q] \notin marked[q]

\* An unmarked file somebody waits for has its name, or its holder is between
\* the unlink and the token.
PendingInv ==
  \A p \in Procs :
    pc[p] \in {"try", "wait", "check"} /\ cur[p] \notin torn /\ fd[p] \notin marked[cur[p]]
      => \/ dir[cur[p]] = fd[p]
         \/ \E h \in Procs : pc[h] = "token" /\ cur[h] = cur[p] /\ fds[h][cur[p]] = fd[p]

IInv == TypeOK /\ DescriptorInv /\ FlockInv /\ NameInv /\ PendingInv
=============================================================================
