-------------------------- MODULE PathLocksProofs --------------------------
(***************************************************************************)
(* Mutual exclusion of the lock-file protocol for any number of processes, *)
(* paths and inodes: IInv is inductive, it implies MutualExclusion, and    *)
(* every step of the protocol is a step of PathMutex.                      *)
(***************************************************************************)
EXTENDS PathLocks, TLAPS

Actions(p) ==
  \/ LockPaths(p) \/ OpenLockFile(p) \/ TryLock(p) \/ FlockGranted(p) \/ CheckStale(p)
  \/ SetDeletion(p) \/ Unlock(p) \/ UnlinkLockFile(p) \/ WriteToken(p) \/ TokenFails(p)
  \/ CloseLockFile(p) \/ Exit(p)

\* A step of the system is a step of one process, by one of the twelve actions.
LEMMA NextActions == Next <=> \E p \in Procs : Actions(p)
BY DEF Next, Acquiring, Releasing, Actions

\* The initial states satisfy the invariant: no lock file exists.
LEMMA InitIInv == Init => IInv
<1> SUFFICES ASSUME Init PROVE IInv
  OBVIOUS
<1> USE NoneAssumption
<1>1. TypeOK
  BY DEF Init, TypeOK, NoFds, PCs
<1>2. DescriptorInv
  BY DEF Init, DescriptorInv, Locking, Leaving, Held, NoFds
<1>3. FlockInv
  BY DEF Init, FlockInv, Held, NoFds
<1>4. NameInv
  BY DEF Init, NameInv, Owns, NoFds
<1>5. PendingInv
  BY DEF Init, PendingInv
<1> QED BY <1>1, <1>2, <1>3, <1>4, <1>5 DEF IInv


\* What the program counter says about a process's current path and files.
LEMMA CurrentFile ==
  ASSUME TypeOK, DescriptorInv, NEW p \in Procs
  PROVE  /\ Locking(p) => cur[p] \in Paths /\ fds[p][cur[p]] = None
         /\ pc[p] \in {"try", "wait", "check"} => fd[p] \in Ids
         /\ Leaving(p) => cur[p] \in Paths /\ fds[p][cur[p]] \in Ids
BY NoneAssumption DEF TypeOK, DescriptorInv, Locking, Leaving, Held


\* Every action keeps the variables in their types.
LEMMA TypeStep == ASSUME TypeOK, DescriptorInv, NEW p \in Procs, Actions(p) PROVE TypeOK'
<1> USE NoneAssumption, BoundAssumption
<1>a. dir \in [Paths -> Ids \cup {None}] /\ marked \in [Paths -> SUBSET Ids]
  BY DEF TypeOK
<1>b. holder \in [Paths -> [Ids -> Procs \cup {None}]]
  BY DEF TypeOK
<1>c. pc \in [Procs -> PCs] /\ todo \in [Procs -> SUBSET Paths]
  BY DEF TypeOK
<1>d. cur \in [Procs -> Paths \cup {None}] /\ fd \in [Procs -> Ids \cup {None}]
  BY DEF TypeOK
<1>e. fds \in [Procs -> [Paths -> Ids \cup {None}]]
  BY DEF TypeOK
<1>f. Locking(p) => cur[p] \in Paths
  BY CurrentFile
<1>g. Leaving(p) => cur[p] \in Paths /\ fds[p][cur[p]] \in Ids
  BY CurrentFile
<1>h. pc[p] \in {"try", "wait", "check"} => fd[p] \in Ids
  BY CurrentFile
<1>1. CASE LockPaths(p)
  BY <1>1 DEF LockPaths, TypeOK, PCs
<1>2. CASE OpenLockFile(p)
  <2>1. cur[p] \in Paths
    BY <1>2, <1>f DEF OpenLockFile, Locking
  <2>2. holder' \in [Paths -> [Ids -> Procs \cup {None}]]
    <3> DEFINE released == IF fd[p] = None THEN holder
                           ELSE [holder EXCEPT ![cur[p]][fd[p]] = None]
    <3>1. released \in [Paths -> [Ids -> Procs \cup {None}]]
      BY <1>b, <1>d, <2>1
    <3>2. holder' = released \/ \E i \in Ids : holder' = [released EXCEPT ![cur[p]][i] = None]
      BY <1>2 DEF OpenLockFile
    <3> HIDE DEF released
    <3>3. ASSUME NEW i \in Ids
          PROVE  [released EXCEPT ![cur[p]][i] = None] \in [Paths -> [Ids -> Procs \cup {None}]]
      BY <2>1, <3>1
    <3> QED BY <3>1, <3>2, <3>3
  <2>3. dir' \in [Paths -> Ids \cup {None}]
    BY <1>2, <1>a, <2>1 DEF OpenLockFile
  <2>4. marked' \in [Paths -> SUBSET Ids]
    <3>1. marked' = marked \/ \E i \in Ids : marked' = [marked EXCEPT ![cur[p]] = @ \ {i}]
      BY <1>2 DEF OpenLockFile
    <3> QED BY <1>a, <2>1, <3>1
  <2>5. fd' \in [Procs -> Ids \cup {None}]
    BY <1>2, <1>a, <1>d, <2>1 DEF OpenLockFile
  <2>6. pc' \in [Procs -> PCs]
    BY <1>2, <1>c DEF OpenLockFile, PCs
  <2> QED BY <1>2, <2>2, <2>3, <2>4, <2>5, <2>6 DEF OpenLockFile, TypeOK
<1>3. CASE TryLock(p)
  <2>1. cur[p] \in Paths /\ fd[p] \in Ids
    BY <1>3, <1>f, <1>h DEF TryLock, Locking
  <2>2. holder' \in [Paths -> [Ids -> Procs \cup {None}]]
    BY <1>3, <1>b, <2>1 DEF TryLock
  <2>3. fd' \in [Procs -> Ids \cup {None}]
    BY <1>3, <1>d DEF TryLock
  <2>4. todo' \in [Procs -> SUBSET Paths]
    BY <1>3, <1>c DEF TryLock
  <2>5. pc' \in [Procs -> PCs]
    BY <1>3, <1>c DEF TryLock, PCs
  <2> QED BY <1>3, <2>2, <2>3, <2>4, <2>5 DEF TryLock, TypeOK
<1>4. CASE FlockGranted(p)
  BY <1>4 DEF FlockGranted, TypeOK, PCs
<1>5. CASE CheckStale(p)
  <2>1. cur[p] \in Paths /\ fd[p] \in Ids
    BY <1>5, <1>f, <1>h DEF CheckStale, Locking
  <2>2. fds' \in [Procs -> [Paths -> Ids \cup {None}]]
    BY <1>5, <1>e, <2>1 DEF CheckStale
  <2>3. todo' \in [Procs -> SUBSET Paths]
    BY <1>5, <1>c DEF CheckStale
  <2>4. fd' \in [Procs -> Ids \cup {None}]
    BY <1>5, <1>d DEF CheckStale
  <2>5. cur' \in [Procs -> Paths \cup {None}]
    BY <1>5, <1>c, <1>d DEF CheckStale
  <2>6. pc' \in [Procs -> PCs]
    BY <1>5, <1>c DEF CheckStale, PCs
  <2> QED BY <1>5, <2>2, <2>3, <2>4, <2>5, <2>6 DEF CheckStale, TypeOK
<1>6. CASE SetDeletion(p)
  BY <1>6 DEF SetDeletion, TypeOK
<1>7. CASE Unlock(p)
  BY <1>7 DEF Unlock, TypeOK, PCs
<1>8. CASE UnlinkLockFile(p)
  <2>1. dir' \in [Paths -> Ids \cup {None}]
    BY <1>8, <1>a DEF UnlinkLockFile
  <2>2. cur' \in [Procs -> Paths \cup {None}]
    BY <1>8, <1>d DEF UnlinkLockFile
  <2>3. pc' \in [Procs -> PCs]
    BY <1>8, <1>c DEF UnlinkLockFile, PCs
  <2> QED BY <1>8, <2>1, <2>2, <2>3 DEF UnlinkLockFile, TypeOK
<1>9. CASE WriteToken(p)
  <2>1. cur[p] \in Paths /\ fds[p][cur[p]] \in Ids
    BY <1>9, <1>g DEF WriteToken, Leaving
  <2> QED BY <1>9, <2>1 DEF WriteToken, TypeOK, PCs
<1>10. CASE TokenFails(p)
  <2>1. cur[p] \in Paths
    BY <1>10, <1>g DEF TokenFails, Leaving
  <2> QED BY <1>10, <2>1 DEF TokenFails, TypeOK, PCs
<1>11. CASE CloseLockFile(p)
  <2>1. holder' \in [Paths -> [Ids -> Procs \cup {None}]]
    <3>1. PICK q \in Paths :
            /\ q \in Held(p) \/ (pc[p] = "close" /\ q = cur[p])
            /\ holder' = [holder EXCEPT ![q][fds[p][q]] = None]
      BY <1>11 DEF CloseLockFile, FirstOf
    <3>2. fds[p][q] \in Ids
      BY <3>1, <1>e, <1>g DEF Held, Leaving
    <3> QED BY <1>b, <3>1, <3>2
  <2>2. fds' \in [Procs -> [Paths -> Ids \cup {None}]]
    BY <1>11, <1>e DEF CloseLockFile
  <2>3. pc' \in [Procs -> PCs]
    BY <1>11, <1>c DEF CloseLockFile, PCs
  <2>4. deletion' \in [Procs -> BOOLEAN]
    BY <1>11 DEF CloseLockFile, TypeOK
  <2> QED BY <1>11, <2>1, <2>2, <2>3, <2>4 DEF CloseLockFile, TypeOK
<1>12. CASE Exit(p)
  <2>1. pc[p] = "token" => cur[p] \in Paths
    BY <1>g DEF Leaving
  <2>2. torn' \in SUBSET Paths
    BY <1>12, <2>1 DEF Exit, TypeOK
  <2>3. fds' \in [Procs -> [Paths -> Ids \cup {None}]]
    BY <1>12, <1>e DEF Exit, NoFds
  <2>4. holder' \in [Paths -> [Ids -> Procs \cup {None}]]
    BY <1>12, <1>b DEF Exit
  <2>5. pc' \in [Procs -> PCs] /\ todo' \in [Procs -> SUBSET Paths] /\ fd' \in [Procs -> Ids \cup {None}]
    BY <1>12, <1>c, <1>d DEF Exit, PCs
  <2> QED BY <1>12, <2>2, <2>3, <2>4, <2>5 DEF Exit, TypeOK
<1> QED
  BY <1>1, <1>2, <1>3, <1>4, <1>5, <1>6, <1>7, <1>8, <1>9, <1>10, <1>11, <1>12 DEF Actions

-----------------------------------------------------------------------------

\* A process changes nobody else's program counter, path or descriptors.
LEMMA OthersUnchanged ==
  ASSUME TypeOK, NEW p \in Procs, Actions(p), NEW r \in Procs, r # p
  PROVE  /\ pc'[r] = pc[r] /\ cur'[r] = cur[r] /\ todo'[r] = todo[r]
         /\ fd'[r] = fd[r] /\ fds'[r] = fds[r]
<1>1. pc'[r] = pc[r]
  BY DEF Actions, TypeOK, LockPaths, OpenLockFile, TryLock, FlockGranted, CheckStale, SetDeletion,
         Unlock, UnlinkLockFile, WriteToken, TokenFails, CloseLockFile, Exit
<1>2. cur'[r] = cur[r]
  BY DEF Actions, TypeOK, LockPaths, OpenLockFile, TryLock, FlockGranted, CheckStale, SetDeletion,
         Unlock, UnlinkLockFile, WriteToken, TokenFails, CloseLockFile, Exit
<1>3. todo'[r] = todo[r]
  BY DEF Actions, TypeOK, LockPaths, OpenLockFile, TryLock, FlockGranted, CheckStale, SetDeletion,
         Unlock, UnlinkLockFile, WriteToken, TokenFails, CloseLockFile, Exit
<1>4. fd'[r] = fd[r]
  BY DEF Actions, TypeOK, LockPaths, OpenLockFile, TryLock, FlockGranted, CheckStale, SetDeletion,
         Unlock, UnlinkLockFile, WriteToken, TokenFails, CloseLockFile, Exit
<1>5. fds'[r] = fds[r]
  BY DEF Actions, TypeOK, LockPaths, OpenLockFile, TryLock, FlockGranted, CheckStale, SetDeletion,
         Unlock, UnlinkLockFile, WriteToken, TokenFails, CloseLockFile, Exit
<1> QED BY <1>1, <1>2, <1>3, <1>4, <1>5

\* The descriptors follow the program counter.
LEMMA DescriptorStep ==
  ASSUME TypeOK, DescriptorInv, NEW p \in Procs, Actions(p)
  PROVE  DescriptorInv'
<1> DEFINE D(r) == /\ Locking(r) => cur[r] \in todo[r] /\ todo[r] \cap Held(r) = {}
                   /\ pc[r] \in {"try", "wait", "check"} => fd[r] # None
                   /\ ~Locking(r) => fd[r] = None
                   /\ Leaving(r) => cur[r] \in Held(r)
                   /\ pc[r] = "idle" => Held(r) = {}
<1>1. SUFFICES D(p)'
  <2> SUFFICES ASSUME NEW r \in Procs PROVE D(r)'
    BY DEF DescriptorInv
  <2>1. CASE r = p
    BY <1>1, <2>1
  <2>2. CASE r # p
    BY <2>2, OthersUnchanged DEF DescriptorInv, Locking, Leaving, Held
  <2> QED BY <2>1, <2>2
<1>2. D(p)
  BY DEF DescriptorInv
<1> USE NoneAssumption DEF Locking, Leaving, Held
<1>3. CASE LockPaths(p)
  BY <1>2, <1>3 DEF LockPaths, TypeOK, FirstOf
<1>4. CASE OpenLockFile(p)
  <2>1. fd'[p] # None /\ pc'[p] = "try"
    <3>1. (fd'[p] = dir[cur[p]] /\ dir[cur[p]] # None) \/ \E i \in Ids : fd'[p] = i
      BY <1>4 DEF OpenLockFile, TypeOK
    <3> QED BY <1>4, <3>1 DEF OpenLockFile, TypeOK
  <2> QED BY <1>2, <1>4, <2>1 DEF OpenLockFile
<1>5. CASE TryLock(p)
  <2>1. pc[p] = "try" /\ cur'[p] = cur[p] /\ fds' = fds
    BY <1>5 DEF TryLock
  <2>2. \/ pc'[p] \in {"check", "wait"} /\ fd' = fd /\ todo' = todo
        \/ pc'[p] = "idle" /\ fd'[p] = None /\ Held(p) = {}
        \/ pc'[p] = "unlock" /\ fd'[p] = None
    BY <1>5 DEF TryLock, TypeOK
  <2> QED BY <1>2, <2>1, <2>2
<1>6. CASE FlockGranted(p)
  BY <1>2, <1>6 DEF FlockGranted, TypeOK
<1>7. CASE CheckStale(p)
  <2>1. pc[p] = "check" /\ cur[p] \in todo[p] /\ todo[p] \in SUBSET Paths
    BY <1>2, <1>7 DEF CheckStale, TypeOK
  <2>2. CASE pc'[p] = "open" /\ UNCHANGED <<todo, cur, fd, fds>>
    BY <1>2, <2>1, <2>2
  <2>3. CASE /\ fd'[p] = None /\ todo'[p] = todo[p] \ {cur[p]}
             /\ fds' = [fds EXCEPT ![p][cur[p]] = fd[p]]
             /\ \/ pc'[p] = "held"
                \/ pc'[p] = "open" /\ cur'[p] \in todo'[p]
    <3>1. \A q \in Paths : q # cur[p] => fds'[p][q] = fds[p][q]
      BY <2>3 DEF TypeOK
    <3> QED BY <1>2, <2>1, <2>3, <3>1
  <2> QED BY <1>7, <2>2, <2>3 DEF CheckStale, TypeOK, FirstOf
<1>8. CASE SetDeletion(p)
  BY <1>2, <1>8 DEF SetDeletion
<1>9. CASE Unlock(p)
  BY <1>2, <1>9 DEF Unlock, TypeOK
<1>10. CASE UnlinkLockFile(p)
  BY <1>2, <1>10 DEF UnlinkLockFile, TypeOK, FirstOf
<1>11. CASE WriteToken(p)
  BY <1>2, <1>11 DEF WriteToken, TypeOK
<1>12. CASE TokenFails(p)
  BY <1>2, <1>12 DEF TokenFails, TypeOK
<1>13. CASE CloseLockFile(p)
  <2>1. PICK q \in Paths : /\ fds' = [fds EXCEPT ![p][q] = None]
                           /\ \/ Held(p) = {q} /\ pc' = [pc EXCEPT ![p] = "idle"]
                              \/ pc' = [pc EXCEPT ![p] = "unlock"]
    BY <1>13 DEF CloseLockFile
  <2>2. fds'[p][q] = None /\ \A r \in Paths : r # q => fds'[p][r] = fds[p][r]
    BY <2>1 DEF TypeOK
  <2>3. fd'[p] = None /\ pc'[p] \in {"idle", "unlock"} /\ (pc'[p] = "idle" => Held(p) = {q})
    BY <1>2, <1>13, <2>1 DEF CloseLockFile, TypeOK
  <2> QED BY <2>2, <2>3
<1>14. CASE Exit(p)
  BY <1>14 DEF Exit, NoFds, TypeOK
<1> QED
  BY <1>3, <1>4, <1>5, <1>6, <1>7, <1>8, <1>9, <1>10, <1>11, <1>12, <1>13, <1>14 DEF Actions

-----------------------------------------------------------------------------

\* The flock follows the descriptors: a lock in `fds' is never lost to another
\* process, because only an inode without a holder is ever granted.
LEMMA FlockStep ==
  ASSUME TypeOK, DescriptorInv, FlockInv, NEW p \in Procs, Actions(p)
  PROVE  FlockInv'
<1> USE NoneAssumption
<1> DEFINE F(r) == /\ \A q \in Held(r) : holder[q][fds[r][q]] = r
                   /\ pc[r] = "check" \/ (pc[r] = "open" /\ fd[r] # None)
                        => holder[cur[r]][fd[r]] = r
<1>1. \A r \in Procs : F(r)
  BY DEF FlockInv
<1>2. \A r \in Procs, q \in Paths : fds[r][q] \in Ids \cup {None}
  BY DEF TypeOK
<1>3. \A r \in Procs : /\ Locking(r) => cur[r] \in Paths /\ fds[r][cur[r]] = None
                       /\ Leaving(r) => cur[r] \in Paths /\ fds[r][cur[r]] \in Ids
                       /\ fd[r] \in Ids \cup {None}
  BY CurrentFile DEF TypeOK
<1>s. SUFFICES ASSUME NEW r \in Procs PROVE F(r)'
  BY DEF FlockInv
<1>4. r # p => /\ pc'[r] = pc[r] /\ cur'[r] = cur[r] /\ fd'[r] = fd[r]
               /\ fds'[r] = fds[r] /\ Held(r)' = Held(r)
  BY OthersUnchanged DEF Held
<1>5. CASE UNCHANGED <<holder, fds, fd>> /\ pc'[p] \notin {"check", "open"}
  BY <1>1, <1>4, <1>5 DEF Held
<1>6. CASE LockPaths(p)
  <2>1. UNCHANGED <<holder, fds, fd>> /\ pc'[p] = "open" /\ fd[p] = None
    BY <1>6 DEF LockPaths, DescriptorInv, Locking, TypeOK
  <2> QED BY <1>1, <1>4, <2>1 DEF Held
<1>7. CASE OpenLockFile(p)
  <2>1. pc[p] = "open" /\ pc'[p] = "try" /\ cur[p] \in Paths /\ fds[p][cur[p]] = None /\ fds' = fds
    BY <1>3, <1>7 DEF OpenLockFile, Locking, TypeOK
  <2>2. ASSUME NEW q \in Paths, NEW i \in Ids, holder[q][i] # holder'[q][i]
        PROVE  q = cur[p] /\ (i = fd[p] \/ Unused(q, i))
    <3> DEFINE rel == IF fd[p] = None THEN holder ELSE [holder EXCEPT ![cur[p]][fd[p]] = None]
    <3>1. holder' = rel \/ \E j \in Ids : Unused(cur[p], j) /\ holder' = [rel EXCEPT ![cur[p]][j] = None]
      BY <1>7 DEF OpenLockFile
    <3>2. rel \in [Paths -> [Ids -> Procs \cup {None}]]
      BY <1>3, <2>1 DEF TypeOK
    <3>3. rel[q][i] = holder[q][i] \/ (q = cur[p] /\ i = fd[p])
      BY <1>3, <2>1 DEF TypeOK
    <3> HIDE DEF rel
    <3>4. ASSUME NEW j \in Ids, Unused(cur[p], j), holder' = [rel EXCEPT ![cur[p]][j] = None]
          PROVE  holder'[q][i] = rel[q][i] \/ (q = cur[p] /\ i = j)
      BY <2>1, <3>2, <3>4
    <3> QED BY <2>2, <3>1, <3>3, <3>4
  <2>3. fd[p] # None => holder[cur[p]][fd[p]] = p
    BY <1>1, <2>1
  <2>4. ASSUME NEW q \in Held(r) PROVE holder'[q][fds[r][q]] = r
    <3>1. fds[r][q] \in Ids /\ q \in Paths /\ holder[q][fds[r][q]] = r
      BY <1>1, <1>2 DEF Held
    <3>2. ~Unused(q, fds[r][q])
      BY <3>1 DEF Unused
    <3>3. ~(q = cur[p] /\ fds[r][q] = fd[p])
      BY <2>1, <2>3, <3>1
    <3> QED BY <2>2, <3>1, <3>2, <3>3
  <2>5. ASSUME r # p, pc[r] = "check" \/ (pc[r] = "open" /\ fd[r] # None)
        PROVE  holder'[cur[r]][fd[r]] = r
    <3>1. cur[r] \in Paths /\ fd[r] \in Ids /\ holder[cur[r]][fd[r]] = r
      BY <1>1, <1>3, <2>5, CurrentFile DEF Locking
    <3>2. ~Unused(cur[r], fd[r])
      BY <3>1 DEF Unused
    <3>3. ~(cur[r] = cur[p] /\ fd[r] = fd[p])
      BY <2>3, <2>5, <3>1
    <3> QED BY <2>2, <3>1, <3>2, <3>3
  <2> QED BY <1>4, <2>1, <2>4, <2>5 DEF Held
<1>8. CASE TryLock(p) /\ pc'[p] # "check"
  <2>1. holder' = holder /\ fds' = fds /\ pc'[p] # "open"
    BY <1>8 DEF TryLock, TypeOK
  <2> QED BY <1>1, <1>4, <1>8, <2>1 DEF Held
<1>9. CASE FlockGranted(p) \/ (TryLock(p) /\ pc'[p] = "check")
  <2>1. /\ cur[p] \in Paths /\ fd[p] \in Ids /\ holder[cur[p]][fd[p]] = None
        /\ holder' = [holder EXCEPT ![cur[p]][fd[p]] = p]
        /\ UNCHANGED <<fds, fd, cur>>
    BY <1>9, CurrentFile DEF FlockGranted, TryLock, Locking, TypeOK
  <2>2. ASSUME NEW q \in Paths, NEW i \in Ids, holder[q][i] # None PROVE holder'[q][i] = holder[q][i]
    BY <2>1, <2>2 DEF TypeOK
  <2>3. holder'[cur[p]][fd[p]] = p
    BY <2>1 DEF TypeOK
  <2>4. \A q \in Held(r) : holder'[q][fds[r][q]] = r
    BY <1>1, <1>2, <2>2 DEF Held
  <2>5. r # p /\ (pc[r] = "check" \/ (pc[r] = "open" /\ fd[r] # None)) => holder'[cur[r]][fd[r]] = r
    BY <1>1, <1>3, <2>2, CurrentFile DEF Locking
  <2> QED BY <1>4, <2>1, <2>3, <2>4, <2>5 DEF Held
<1>10. CASE CheckStale(p)
  <2>1. holder' = holder /\ pc[p] = "check" /\ holder[cur[p]][fd[p]] = p /\ cur[p] \in Paths
    BY <1>1, <1>3, <1>10 DEF CheckStale, Locking
  <2>2. CASE UNCHANGED <<fds, fd, cur>>
    BY <1>1, <1>4, <2>1, <2>2 DEF Held
  <2>3. CASE fd'[p] = None /\ fds' = [fds EXCEPT ![p][cur[p]] = fd[p]]
    <3>1. fds'[p][cur[p]] = fd[p] /\ \A q \in Paths : q # cur[p] => fds'[p][q] = fds[p][q]
      BY <2>1, <2>3 DEF TypeOK
    <3>2. pc'[p] # "check"
      BY <1>10 DEF CheckStale, TypeOK
    <3> QED BY <1>1, <1>4, <2>1, <2>3, <3>1, <3>2 DEF Held
  <2> QED BY <1>10, <2>2, <2>3 DEF CheckStale, TypeOK
<1>11. CASE CloseLockFile(p)
  <2>1. PICK q \in Paths : /\ q \in Held(p) \/ (pc[p] = "close" /\ q = cur[p])
                           /\ holder' = [holder EXCEPT ![q][fds[p][q]] = None]
                           /\ fds' = [fds EXCEPT ![p][q] = None]
    BY <1>11 DEF CloseLockFile, FirstOf
  <2>2. fds[p][q] \in Ids /\ holder[q][fds[p][q]] = p
    BY <1>1, <1>2, <1>3, <2>1 DEF Held, Leaving
  <2>3. ASSUME NEW q2 \in Paths, NEW i \in Ids, ~(q2 = q /\ i = fds[p][q])
        PROVE  holder'[q2][i] = holder[q2][i]
    BY <2>1, <2>2, <2>3 DEF TypeOK
  <2>4. fds'[p][q] = None /\ \A q2 \in Paths : q2 # q => fds'[p][q2] = fds[p][q2]
    BY <2>1 DEF TypeOK
  <2>5. pc'[p] \in {"idle", "unlock"}
    BY <1>11 DEF CloseLockFile, TypeOK
  <2>6. CASE r = p
    BY <1>1, <1>2, <2>3, <2>4, <2>5, <2>6 DEF Held
  <2>7. CASE r # p
    <3>1. \A q2 \in Held(r) : holder'[q2][fds[r][q2]] = r
      BY <1>1, <1>2, <2>2, <2>3, <2>7 DEF Held
    <3>2. pc[r] = "check" \/ (pc[r] = "open" /\ fd[r] # None) => holder'[cur[r]][fd[r]] = r
      BY <1>1, <1>3, <2>2, <2>3, <2>7, CurrentFile DEF Locking
    <3> QED BY <1>4, <2>7, <3>1, <3>2
  <2> QED BY <2>6, <2>7
<1>12. CASE Exit(p)
  <2>1. \A q \in Paths, i \in Ids : holder[q][i] # p => holder'[q][i] = holder[q][i]
    BY <1>12 DEF Exit, TypeOK
  <2>2. CASE r = p
    BY <1>12, <2>2 DEF Exit, NoFds, Held, TypeOK
  <2>3. CASE r # p
    <3>1. \A q \in Held(r) : holder'[q][fds[r][q]] = r
      BY <1>1, <1>2, <2>1, <2>3 DEF Held
    <3>2. pc[r] = "check" \/ (pc[r] = "open" /\ fd[r] # None) => holder'[cur[r]][fd[r]] = r
      BY <1>1, <1>3, <2>1, <2>3, CurrentFile DEF Locking
    <3> QED BY <1>4, <2>3, <3>1, <3>2
  <2> QED BY <2>2, <2>3
<1>13. CASE SetDeletion(p) \/ Unlock(p) \/ UnlinkLockFile(p) \/ WriteToken(p) \/ TokenFails(p)
  <2>1. UNCHANGED <<holder, fds, fd>> /\ pc'[p] \notin {"check", "open"}
    BY <1>13 DEF SetDeletion, Unlock, UnlinkLockFile, WriteToken, TokenFails, TypeOK
  <2> QED BY <1>5, <2>1
<1> QED
  BY <1>6, <1>7, <1>8, <1>9, <1>10, <1>11, <1>12, <1>13 DEF Actions

-----------------------------------------------------------------------------

\* An owned inode has one flock holder, and the name refers to one inode.
LEMMA InvMutex == ASSUME FlockInv, NameInv PROVE MutualExclusion
<1> SUFFICES ASSUME NEW q \in Paths \ torn, NEW p1 \in Procs, NEW p2 \in Procs,
                    Owns(p1, q), Owns(p2, q)
             PROVE  p1 = p2
  BY DEF MutualExclusion
<1>1. fds[p1][q] = dir[q] /\ fds[p2][q] = dir[q]
  BY DEF NameInv
<1>2. q \in Held(p1) /\ q \in Held(p2)
  BY DEF Owns, Held
<1> QED BY <1>1, <1>2 DEF FlockInv

\* A process that passed the stale check has the file its name refers to: the
\* only other possibility is a holder about to mark it, and there is none.
LEMMA CheckedFile ==
  ASSUME IInv, NEW p \in Procs, pc[p] = "check", cur[p] \notin torn, fd[p] \notin marked[cur[p]]
  PROVE  dir[cur[p]] = fd[p]
<1> SUFFICES ASSUME NEW h \in Procs, pc[h] = "token", cur[h] = cur[p], fds[h][cur[p]] = fd[p]
             PROVE  FALSE
  BY DEF IInv, PendingInv
<1>1. holder[cur[p]][fd[p]] = p
  BY DEF IInv, FlockInv
<1>2. cur[h] \in Held(h)
  BY DEF IInv, DescriptorInv, Leaving
<1>3. holder[cur[p]][fd[p]] = h
  BY <1>2 DEF IInv, FlockInv
<1> QED BY <1>1, <1>3

\* Only the owner removes the name or marks the file, and it gives the path up.
LEMMA NameStep ==
  ASSUME IInv, NEW p \in Procs, Actions(p)
  PROVE  NameInv'
<1> USE NoneAssumption
<1>1. TypeOK /\ DescriptorInv /\ FlockInv /\ NameInv /\ PendingInv
  BY DEF IInv
<1>s. SUFFICES ASSUME NEW q \in Paths, q \notin torn', NEW r \in Procs, Owns(r, q)'
               PROVE  dir'[q] = fds'[r][q] /\ fds'[r][q] \notin marked'[q]
  BY DEF NameInv
<1>2. q \notin torn
  BY <1>s, <1>1 DEF Actions, LockPaths, OpenLockFile, TryLock, FlockGranted, CheckStale, SetDeletion,
         Unlock, UnlinkLockFile, WriteToken, TokenFails, CloseLockFile, Exit
<1>3. r # p => /\ pc'[r] = pc[r] /\ cur'[r] = cur[r] /\ fds'[r] = fds[r] /\ Owns(r, q)
  BY <1>1, <1>s, OthersUnchanged DEF Owns
<1>4. Owns(r, q) => /\ dir[q] = fds[r][q] /\ fds[r][q] \notin marked[q]
                    /\ fds[r][q] \in Ids /\ holder[q][fds[r][q]] = r
  BY <1>1, <1>2 DEF NameInv, FlockInv, Held, Owns, TypeOK
<1>5. CASE UNCHANGED <<dir, marked, fds>> /\ (Owns(p, q)' => Owns(p, q))
  BY <1>3, <1>4, <1>5, <1>s DEF Owns
<1>6. CASE LockPaths(p)
  <2>1. pc[p] = "idle" /\ UNCHANGED <<dir, marked, fds>>
    BY <1>6 DEF LockPaths
  <2> QED BY <1>5, <2>1 DEF Owns
<1>7. CASE OpenLockFile(p)
  <2>1. pc[p] = "open" /\ UNCHANGED <<fds, cur>> /\ Owns(r, q)
    BY <1>3, <1>7, <1>s DEF OpenLockFile, Owns
  <2>2. \/ UNCHANGED <<dir, marked>>
        \/ \E i \in Ids : /\ dir[cur[p]] = None
                          /\ dir' = [dir EXCEPT ![cur[p]] = i]
                          /\ marked' = [marked EXCEPT ![cur[p]] = @ \ {i}]
    BY <1>7 DEF OpenLockFile
  <2>3. cur[p] = q => dir[q] # None
    BY <1>4, <2>1
  <2> QED BY <1>1, <1>4, <2>1, <2>2, <2>3 DEF TypeOK
<1>8. CASE TryLock(p)
  <2>1. pc[p] = "try" /\ UNCHANGED <<dir, marked, fds, cur>>
    BY <1>8 DEF TryLock
  <2> QED BY <1>5, <2>1 DEF Owns
<1>9. CASE FlockGranted(p)
  <2>1. pc[p] = "wait" /\ UNCHANGED <<dir, marked, fds, cur>>
    BY <1>9 DEF FlockGranted
  <2> QED BY <1>5, <2>1 DEF Owns
<1>10. CASE CheckStale(p)
  <2>1. pc[p] = "check" /\ UNCHANGED <<dir, marked, torn>> /\ cur[p] \in Paths
    BY <1>1, <1>10, CurrentFile DEF CheckStale, Locking
  <2>2. CASE fds' = fds
    BY <1>5, <2>1, <2>2 DEF Owns
  <2>3. CASE fds' = [fds EXCEPT ![p][cur[p]] = fd[p]] /\ fd[p] \notin marked[cur[p]]
    <3>1. CASE r = p /\ q = cur[p]
      BY <1>1, <1>2, <2>1, <2>3, <3>1, CheckedFile DEF TypeOK
    <3>2. CASE r # p \/ q # cur[p]
      <4>1. fds'[r][q] = fds[r][q]
        BY <1>1, <2>1, <2>3, <3>2 DEF TypeOK
      <4> QED BY <1>3, <1>4, <1>s, <2>1, <4>1 DEF Owns
    <3> QED BY <3>1, <3>2
  <2> QED BY <1>10, <2>2, <2>3 DEF CheckStale
<1>11. CASE SetDeletion(p) \/ Unlock(p)
  <2>1. pc[p] = "held" /\ UNCHANGED <<dir, marked, fds, cur>>
    BY <1>11 DEF SetDeletion, Unlock
  <2> QED BY <1>5, <2>1 DEF Owns
<1>12. CASE UnlinkLockFile(p)
  <2>1. PICK q2 \in Paths : /\ FirstOf(q2, Held(p))
                            /\ cur' = [cur EXCEPT ![p] = q2]
                            /\ dir' = [dir EXCEPT ![q2] = None] \/ dir' = dir
    BY <1>12 DEF UnlinkLockFile
  <2>2. pc[p] = "unlock" /\ pc'[p] = "token" /\ UNCHANGED <<marked, fds>>
    BY <1>1, <1>12 DEF UnlinkLockFile, TypeOK
  <2>3. Owns(p, q2) /\ Owns(r, q)
    BY <1>3, <1>s, <2>1, <2>2 DEF Owns, FirstOf, Held
  <2>4. q # q2
    <3> SUFFICES ASSUME q = q2 PROVE FALSE
      OBVIOUS
    <3>1. r = p
      BY <1>1, <1>2, <2>3, InvMutex DEF MutualExclusion
    <3>2. cur'[p] = q
      BY <1>1, <2>1 DEF TypeOK
    <3> QED BY <1>s, <2>2, <3>1, <3>2 DEF Owns
  <2> QED BY <1>1, <1>4, <2>1, <2>2, <2>3, <2>4 DEF TypeOK
<1>13. CASE WriteToken(p)
  <2>1. /\ pc[p] = "token" /\ pc'[p] = "close" /\ UNCHANGED <<dir, fds, cur>>
        /\ marked' = [marked EXCEPT ![cur[p]] = @ \cup {fds[p][cur[p]]}]
    BY <1>1, <1>13 DEF WriteToken, TypeOK
  <2>2. Owns(r, q)
    BY <1>3, <1>s, <2>1 DEF Owns
  <2>3. ~(q = cur[p] /\ fds[r][q] = fds[p][q])
    <3> SUFFICES ASSUME q = cur[p], fds[r][q] = fds[p][q] PROVE FALSE
      OBVIOUS
    <3>1. holder[q][fds[p][q]] = p
      BY <1>1, <2>1 DEF FlockInv, DescriptorInv, Leaving
    <3>2. r = p
      BY <1>4, <2>2, <3>1
    <3> QED BY <2>1, <2>2, <3>2 DEF Owns
  <2> QED BY <1>1, <1>4, <2>1, <2>2, <2>3 DEF TypeOK
<1>14. CASE TokenFails(p)
  <2>1. pc[p] = "token" /\ pc'[p] = "leaked" /\ UNCHANGED <<dir, marked, fds, cur>>
    BY <1>1, <1>14 DEF TokenFails, TypeOK
  <2> QED BY <1>5, <2>1 DEF Owns
<1>15. CASE CloseLockFile(p)
  <2>1. PICK q2 \in Paths : /\ fds' = [fds EXCEPT ![p][q2] = None]
                            /\ pc[p] = "unlock" \/ (pc[p] = "close" /\ q2 = cur[p])
    BY <1>15 DEF CloseLockFile
  <2>2. UNCHANGED <<dir, marked, cur>>
    BY <1>15 DEF CloseLockFile
  <2>3. ~(r = p /\ q = q2)
    BY <1>1, <1>s, <2>1 DEF Owns, TypeOK
  <2>4. fds'[r][q] = fds[r][q]
    BY <1>1, <2>1, <2>3 DEF TypeOK
  <2>5. Owns(r, q)
    BY <1>3, <1>s, <2>1, <2>2, <2>3, <2>4 DEF Owns
  <2> QED BY <1>4, <2>2, <2>4, <2>5
<1>16. CASE Exit(p)
  <2>1. r # p
    BY <1>1, <1>16, <1>s DEF Exit, Owns, NoFds, TypeOK
  <2> QED BY <1>3, <1>4, <1>16, <2>1 DEF Exit
<1> QED
  BY <1>6, <1>7, <1>8, <1>9, <1>10, <1>11, <1>12, <1>13, <1>14, <1>15, <1>16 DEF Actions

\* An unmarked file that is waited for loses its name only to a holder that is
\* then about to mark it; a holder that stops before that tears the path.
LEMMA PendingStep ==
  ASSUME IInv, NEW p \in Procs, Actions(p)
  PROVE  PendingInv'
<1> USE NoneAssumption
<1>1. TypeOK /\ DescriptorInv /\ FlockInv /\ NameInv /\ PendingInv
  BY DEF IInv
<1> DEFINE Marks(h, w) == pc[h] = "token" /\ cur[h] = cur[w] /\ fds[h][cur[w]] = fd[w]
<1>s. SUFFICES ASSUME NEW r \in Procs, pc'[r] \in {"try", "wait", "check"},
                      cur'[r] \notin torn', fd'[r] \notin marked'[cur'[r]]
               PROVE  \/ dir'[cur'[r]] = fd'[r]
                      \/ \E h \in Procs : Marks(h, r)'
  BY DEF PendingInv
<1>2. torn \subseteq torn'
  BY <1>1 DEF Actions, LockPaths, OpenLockFile, TryLock, FlockGranted, CheckStale, SetDeletion,
         Unlock, UnlinkLockFile, WriteToken, TokenFails, CloseLockFile, Exit
<1>3. \A h \in Procs : h # p => pc'[h] = pc[h] /\ cur'[h] = cur[h] /\ fd'[h] = fd[h] /\ fds'[h] = fds[h]
  BY <1>1, OthersUnchanged
<1>4. pc[r] \in {"try", "wait", "check"} => cur[r] \in Paths /\ fd[r] \in Ids
  BY <1>1, CurrentFile DEF Locking
\* the waiter's own view is that of the state before
<1>5. ASSUME pc[r] \in {"try", "wait", "check"}, cur'[r] = cur[r], fd'[r] = fd[r],
             fd[r] \notin marked[cur[r]]
      PROVE  dir[cur[r]] = fd[r] \/ \E h \in Procs : Marks(h, r)
  BY <1>1, <1>2, <1>5, <1>s DEF PendingInv
\* a step that touches neither names nor marks, and is not a step of a marker
<1>6. ASSUME UNCHANGED <<dir, marked>>, pc[p] # "token",
             r = p => pc[p] \in {"try", "wait", "check"} /\ cur'[p] = cur[p] /\ fd'[p] = fd[p]
      PROVE  \/ dir'[cur'[r]] = fd'[r]
             \/ \E h \in Procs : Marks(h, r)'
  <2>1. pc[r] \in {"try", "wait", "check"} /\ cur'[r] = cur[r] /\ fd'[r] = fd[r]
    BY <1>3, <1>6, <1>s
  <2>2. dir[cur[r]] = fd[r] \/ \E h \in Procs : Marks(h, r)
    BY <1>5, <1>6, <1>s, <2>1
  <2>3. \A h \in Procs : Marks(h, r) => Marks(h, r)'
    BY <1>3, <1>6, <2>1
  <2> QED BY <1>6, <2>1, <2>2, <2>3
<1>7. CASE LockPaths(p)
  BY <1>1, <1>6, <1>7, <1>s DEF LockPaths, TypeOK
<1>8. CASE OpenLockFile(p)
  <2>0. pc[p] = "open" /\ cur' = cur /\ fds' = fds /\ cur[p] \in Paths
    BY <1>1, <1>8, CurrentFile DEF OpenLockFile, Locking
  <2>1. CASE r = p
    BY <1>1, <1>8, <2>0, <2>1 DEF OpenLockFile, TypeOK
  <2>2. CASE r # p /\ UNCHANGED <<dir, marked>>
    BY <1>6, <2>0, <2>2
  <2>3. CASE r # p /\ dir[cur[p]] = None
    <3>1. PICK i \in Ids : /\ Unused(cur[p], i)
                           /\ dir' = [dir EXCEPT ![cur[p]] = i]
                           /\ marked' = [marked EXCEPT ![cur[p]] = @ \ {i}]
      BY <1>8, <2>3 DEF OpenLockFile
    <3>2. pc[r] \in {"try", "wait", "check"} /\ cur'[r] = cur[r] /\ fd'[r] = fd[r]
      BY <1>3, <1>s, <2>3
    <3>3. ~(cur[r] = cur[p] /\ fd[r] = i)
      BY <3>1 DEF Unused
    <3>4. fd[r] \notin marked[cur[r]]
      BY <1>1, <1>4, <1>s, <3>1, <3>2, <3>3 DEF TypeOK
    <3>5. CASE dir[cur[r]] = fd[r]
      <4>1. cur[r] # cur[p]
        BY <1>4, <2>3, <3>2, <3>5
      <4> QED BY <1>1, <1>4, <3>1, <3>2, <3>5, <4>1 DEF TypeOK
    <3>6. CASE \E h \in Procs : Marks(h, r)
      BY <1>3, <2>0, <3>2, <3>6
    <3> QED BY <1>5, <3>2, <3>4, <3>5, <3>6
  <2> QED BY <1>8, <2>1, <2>2, <2>3 DEF OpenLockFile
<1>9. CASE TryLock(p)
  <2>1. pc[p] = "try" /\ UNCHANGED <<dir, marked, cur>>
    BY <1>9 DEF TryLock
  <2>2. pc'[p] \in {"check", "wait"} => fd' = fd
    BY <1>1, <1>9 DEF TryLock, TypeOK
  <2>3. pc'[p] # "try"
    BY <1>1, <1>9 DEF TryLock, TypeOK
  <2> QED BY <1>6, <1>s, <2>1, <2>2, <2>3
<1>10. CASE FlockGranted(p)
  BY <1>6, <1>10 DEF FlockGranted
<1>11. CASE CheckStale(p)
  <2>1. pc[p] = "check" /\ UNCHANGED <<dir, marked>> /\ pc'[p] \in {"open", "held"}
    BY <1>1, <1>11 DEF CheckStale, TypeOK
  <2> QED BY <1>6, <1>s, <2>1
<1>12. CASE SetDeletion(p) \/ Unlock(p)
  <2>1. pc[p] = "held" /\ UNCHANGED <<dir, marked>> /\ pc'[p] \in {"held", "unlock"}
    BY <1>1, <1>12 DEF SetDeletion, Unlock, TypeOK
  <2> QED BY <1>6, <1>s, <2>1
<1>13. CASE UnlinkLockFile(p)
  <2>1. PICK q \in Paths : /\ q \in Held(p)
                           /\ cur' = [cur EXCEPT ![p] = q]
                           /\ dir' = [dir EXCEPT ![q] = None] \/ dir' = dir
    BY <1>13 DEF UnlinkLockFile, FirstOf
  <2>2. pc[p] = "unlock" /\ pc'[p] = "token" /\ UNCHANGED <<marked, fds, torn>>
    BY <1>1, <1>13 DEF UnlinkLockFile, TypeOK
  <2>3. r # p /\ pc[r] \in {"try", "wait", "check"} /\ cur'[r] = cur[r] /\ fd'[r] = fd[r]
    BY <1>3, <1>s, <2>2
  <2>4. CASE \E h \in Procs : Marks(h, r)
    BY <1>3, <2>2, <2>3, <2>4
  <2>5. CASE dir[cur[r]] = fd[r] /\ cur[r] # q
    BY <1>1, <1>4, <2>1, <2>3, <2>5 DEF TypeOK
  <2>6. CASE dir[cur[r]] = fd[r] /\ cur[r] = q
    <3>1. Owns(p, q)
      BY <2>1, <2>2 DEF Owns, Held
    <3>2. fds[p][q] = fd[r]
      BY <1>1, <1>2, <1>s, <2>3, <2>6, <3>1 DEF NameInv
    <3>3. Marks(p, r)'
      BY <1>1, <2>1, <2>2, <2>3, <2>6, <3>2 DEF TypeOK
    <3> QED BY <2>3, <3>3
  <2> QED BY <1>5, <1>s, <2>2, <2>3, <2>4, <2>5, <2>6
<1>14. CASE WriteToken(p)
  <2>1. /\ pc[p] = "token" /\ pc'[p] = "close" /\ UNCHANGED <<dir, fds, cur, fd>>
        /\ marked' = [marked EXCEPT ![cur[p]] = @ \cup {fds[p][cur[p]]}]
    BY <1>1, <1>14 DEF WriteToken, TypeOK
  <2>2. r # p /\ pc[r] \in {"try", "wait", "check"}
    BY <1>3, <1>s, <2>1
  <2>3. fd[r] \notin marked[cur[r]] /\ ~(cur[r] = cur[p] /\ fd[r] = fds[p][cur[p]])
    BY <1>1, <1>4, <1>s, <2>1, <2>2 DEF TypeOK
  <2>4. \A h \in Procs : Marks(h, r) => Marks(h, r)'
    BY <1>3, <2>1, <2>3
  <2> QED BY <1>5, <2>1, <2>2, <2>3, <2>4
<1>15. CASE TokenFails(p)
  <2>1. /\ pc[p] = "token" /\ pc'[p] = "leaked" /\ UNCHANGED <<dir, marked, fds, cur, fd>>
        /\ torn' = torn \cup {cur[p]}
    BY <1>1, <1>15 DEF TokenFails, TypeOK
  <2>2. r # p /\ pc[r] \in {"try", "wait", "check"} /\ cur[r] # cur[p]
    BY <1>3, <1>s, <2>1
  <2>3. \A h \in Procs : Marks(h, r) => Marks(h, r)'
    BY <1>3, <2>1, <2>2
  <2> QED BY <1>5, <1>s, <2>1, <2>2, <2>3
<1>16. CASE CloseLockFile(p)
  <2>1. pc[p] \in {"unlock", "close"} /\ UNCHANGED <<dir, marked>> /\ pc'[p] \in {"idle", "unlock"}
    BY <1>1, <1>16 DEF CloseLockFile, TypeOK
  <2> QED BY <1>6, <1>s, <2>1
<1>17. CASE Exit(p)
  <2>1. UNCHANGED <<dir, marked>> /\ pc'[p] = "idle"
    BY <1>1, <1>17 DEF Exit, TypeOK
  <2>2. CASE pc[p] # "token"
    BY <1>6, <1>s, <2>1, <2>2
  <2>3. CASE pc[p] = "token"
    <3>1. r # p /\ pc[r] \in {"try", "wait", "check"} /\ cur[r] # cur[p] /\ cur'[r] = cur[r] /\ fd'[r] = fd[r]
      BY <1>3, <1>17, <1>s, <2>1, <2>3 DEF Exit
    <3>2. \A h \in Procs : Marks(h, r) => Marks(h, r)'
      BY <1>3, <3>1
    <3> QED BY <1>5, <1>s, <2>1, <3>1, <3>2
  <2> QED BY <2>2, <2>3
<1> QED
  BY <1>7, <1>8, <1>9, <1>10, <1>11, <1>12, <1>13, <1>14, <1>15, <1>16, <1>17 DEF Actions

-----------------------------------------------------------------------------

\* IInv is inductive.
LEMMA NextIInv == IInv /\ [Next]_vars => IInv'
<1>1. ASSUME IInv, Next PROVE IInv'
  <2>1. PICK p \in Procs : Actions(p)
    BY <1>1, NextActions
  <2>2. TypeOK /\ DescriptorInv /\ FlockInv
    BY <1>1 DEF IInv
  <2>3. TypeOK' /\ DescriptorInv' /\ FlockInv'
    BY <2>1, <2>2, TypeStep, DescriptorStep, FlockStep
  <2>4. NameInv' /\ PendingInv'
    BY <1>1, <2>1, NameStep, PendingStep
  <2> QED BY <2>3, <2>4 DEF IInv
<1>2. ASSUME IInv, UNCHANGED vars PROVE IInv'
  BY <1>2 DEF vars, IInv, TypeOK, DescriptorInv, FlockInv, NameInv, PendingInv,
              Locking, Leaving, Held, Owns
<1> QED BY <1>1, <1>2

\* The protocol of pathlocks.cc keeps its inductive invariant for any number
\* of processes, paths and lock files.
THEOREM InvariantHolds == Spec => []IInv
BY InitIInv, NextIInv, PTL DEF Spec

\* Every variable keeps its type, in particular a current path and a current
\* descriptor exist wherever the code uses them.
THEOREM TypeCorrect == Spec => []TypeOK
<1>1. IInv => TypeOK
  BY DEF IInv
<1> QED BY <1>1, InvariantHolds, PTL

\* PathLocks excludes: no two processes own a path whose lock file was never
\* unlinked without its mark.
THEOREM LocksExclude == Spec => []MutualExclusion
<1>1. IInv => MutualExclusion
  BY InvMutex DEF IInv
<1> QED BY <1>1, InvariantHolds, PTL

-----------------------------------------------------------------------------

\* deleteLockFile unlinks by name, and the name is its own file's.
THEOREM UnlinksOwnFile == Spec => OnlyOwnLockFileUnlinked
<1> DEFINE Own == \A q \in Paths \ torn :
                    dir[q] # None /\ dir'[q] = None =>
                      \E p \in Procs : pc[p] = "unlock" /\ Owns(p, q) /\ fds[p][q] = dir[q]
<1>1. ASSUME IInv, [Next]_vars PROVE [Own]_vars
  <2> SUFFICES ASSUME Next, NEW q \in Paths \ torn, dir[q] # None, dir'[q] = None
               PROVE  \E p \in Procs : pc[p] = "unlock" /\ Owns(p, q) /\ fds[p][q] = dir[q]
    BY <1>1
  <2>1. TypeOK /\ NameInv
    BY <1>1 DEF IInv
  <2>2. PICK p \in Procs : Actions(p)
    BY NextActions
  <2>3. ~OpenLockFile(p)
    BY <2>1, NoneAssumption DEF OpenLockFile, TypeOK
  <2>4. UnlinkLockFile(p)
    BY <2>2, <2>3 DEF Actions, LockPaths, TryLock, FlockGranted, CheckStale, SetDeletion,
           Unlock, WriteToken, TokenFails, CloseLockFile, Exit
  <2>5. pc[p] = "unlock" /\ q \in Held(p)
    BY <2>1, <2>4 DEF UnlinkLockFile, FirstOf, TypeOK
  <2>6. Owns(p, q)
    BY <2>5 DEF Owns, Held
  <2> QED BY <2>1, <2>5, <2>6 DEF NameInv
<1>2. IInv /\ [Next]_vars => [Own]_vars
  BY <1>1
<1> QED BY <1>2, InvariantHolds, PTL DEF Spec, OnlyOwnLockFileUnlinked

\* What a step does to the owners of the paths: nothing, or one acquisition,
\* one release, one broken path, or the end of the process.
LEMMA OwnershipStep ==
  ASSUME IInv, NEW p \in Procs, Actions(p)
  PROVE  Mutex!Next \/ UNCHANGED Mutex!vars
<1> DEFINE H == [q \in Paths |-> {r \in Procs : Owns(r, q)}]
<1> USE NoneAssumption
<1>1. TypeOK /\ DescriptorInv /\ FlockInv /\ NameInv
  BY DEF IInv
<1>2. \A r \in Procs : r # p => \A q \in Paths : Owns(r, q)' = Owns(r, q)
  BY <1>1, OthersUnchanged DEF Owns
<1>3. ASSUME torn' = torn, \A q \in Paths : Owns(p, q)' = Owns(p, q)
      PROVE  UNCHANGED Mutex!vars
  <2>1. H' = H
    BY <1>2, <1>3
  <2> QED BY <1>3, <2>1 DEF Mutex!vars
<1>4. ASSUME NEW q \in Paths, torn' = torn, Owns(p, q)', \A x \in Paths \ {q} : Owns(p, x)' = Owns(p, x),
             q \in torn \/ \A r \in Procs : ~Owns(r, q)
      PROVE  Mutex!Next
  <2>1. H[q] = {} \/ q \in torn
    BY <1>4
  <2>2. H' = [H EXCEPT ![q] = @ \cup {p}]
    BY <1>2, <1>4
  <2>3. Mutex!Acquire(p, q)
    BY <1>4, <2>1, <2>2 DEF Mutex!Acquire
  <2> QED BY <2>3 DEF Mutex!Next
<1>5. ASSUME NEW q \in Paths, torn' = torn, Owns(p, q), ~Owns(p, q)',
             \A x \in Paths \ {q} : Owns(p, x)' = Owns(p, x)
      PROVE  Mutex!Next
  <2>1. p \in H[q]
    BY <1>5
  <2>2. H' = [H EXCEPT ![q] = @ \ {p}]
    BY <1>2, <1>5
  <2>3. Mutex!Release(p, q)
    BY <1>5, <2>1, <2>2 DEF Mutex!Release
  <2> QED BY <2>3 DEF Mutex!Next
<1>6. CASE LockPaths(p) \/ OpenLockFile(p) \/ TryLock(p) \/ FlockGranted(p) \/ SetDeletion(p) \/ Unlock(p)
           \/ WriteToken(p)
  <2>1. torn' = torn /\ fds' = fds
    BY <1>6 DEF LockPaths, OpenLockFile, TryLock, FlockGranted, SetDeletion, Unlock, WriteToken
  <2>2. \A q \in Paths : Owns(p, q)' = Owns(p, q)
    <3>1. CASE WriteToken(p)
      BY <1>1, <2>1, <3>1 DEF WriteToken, Owns, TypeOK
    <3>2. CASE ~WriteToken(p)
      <4>1. pc[p] \notin {"token", "close", "leaked"} /\ pc'[p] \notin {"token", "close", "leaked"}
        BY <1>1, <1>6, <3>2 DEF LockPaths, OpenLockFile, TryLock, FlockGranted, SetDeletion, Unlock, TypeOK
      <4> QED BY <2>1, <4>1 DEF Owns
    <3> QED BY <3>1, <3>2
  <2> QED BY <1>3, <2>1, <2>2
<1>7. CASE CheckStale(p)
  <2>1. /\ pc[p] = "check" /\ torn' = torn /\ pc'[p] \in {"open", "held"}
        /\ cur[p] \in Paths /\ fds[p][cur[p]] = None /\ fd[p] \in Ids
    BY <1>1, <1>7, CurrentFile DEF CheckStale, Locking, TypeOK
  <2>2. CASE fds' = fds
    BY <1>3, <2>1, <2>2 DEF Owns
  <2>3. CASE fds' = [fds EXCEPT ![p][cur[p]] = fd[p]] /\ fd[p] \notin marked[cur[p]]
    <3>0. PICK q \in Paths : q = cur[p]
      BY <2>1
    <3>1. fds'[p][q] = fd[p] /\ \A x \in Paths \ {q} : fds'[p][x] = fds[p][x]
      BY <1>1, <2>3, <3>0 DEF TypeOK
    <3>2. Owns(p, q)' /\ \A x \in Paths \ {q} : Owns(p, x)' = Owns(p, x)
      BY <2>1, <3>1 DEF Owns
    <3>3. ASSUME q \notin torn, NEW r \in Procs, Owns(r, q) PROVE FALSE
      <4>1. fds[r][q] = fd[p]
        BY <1>1, <2>1, <2>3, <3>0, <3>3, CheckedFile DEF NameInv
      <4>2. holder[q][fd[p]] = r
        BY <1>1, <3>3, <4>1 DEF FlockInv, Owns, Held
      <4>3. r = p
        BY <1>1, <2>1, <3>0, <4>2 DEF FlockInv
      <4> QED BY <2>1, <3>0, <3>3, <4>3 DEF Owns
    <3> QED BY <1>4, <2>1, <3>2, <3>3
  <2> QED BY <1>7, <2>2, <2>3 DEF CheckStale
<1>8. CASE UnlinkLockFile(p)
  <2>1. PICK q \in Paths : q \in Held(p) /\ cur' = [cur EXCEPT ![p] = q]
    BY <1>8 DEF UnlinkLockFile, FirstOf
  <2>2. pc[p] = "unlock" /\ pc'[p] = "token" /\ torn' = torn /\ fds' = fds
    BY <1>1, <1>8 DEF UnlinkLockFile, TypeOK
  <2>3. cur'[p] = q
    BY <1>1, <2>1 DEF TypeOK
  <2>4. Owns(p, q) /\ ~Owns(p, q)' /\ \A x \in Paths \ {q} : Owns(p, x)' = Owns(p, x)
    BY <2>1, <2>2, <2>3 DEF Owns, Held
  <2> QED BY <1>5, <2>2, <2>4
<1>9. CASE TokenFails(p)
  <2>1. cur[p] \in Paths /\ torn' = torn \cup {cur[p]}
    BY <1>1, <1>9, CurrentFile DEF TokenFails, Leaving
  <2>2. \A q \in Paths : Owns(p, q)' = Owns(p, q)
    BY <1>1, <1>9 DEF TokenFails, Owns, TypeOK
  <2>3. H' = H
    BY <1>2, <2>2
  <2>4. Mutex!Break(cur[p])
    BY <2>1, <2>3 DEF Mutex!Break
  <2> QED BY <2>1, <2>4 DEF Mutex!Next
<1>10. CASE CloseLockFile(p)
  <2>1. PICK q \in Paths : /\ fds' = [fds EXCEPT ![p][q] = None]
                           /\ \/ pc[p] = "unlock" /\ q \in Held(p)
                              \/ pc[p] = "close" /\ q = cur[p]
    BY <1>10 DEF CloseLockFile, FirstOf
  <2>2. torn' = torn /\ cur' = cur /\ pc'[p] \in {"idle", "unlock"}
    BY <1>1, <1>10 DEF CloseLockFile, TypeOK
  <2>3. fds'[p][q] = None /\ \A x \in Paths \ {q} : fds'[p][x] = fds[p][x]
    BY <1>1, <2>1 DEF TypeOK
  <2>4. ~Owns(p, q)' /\ \A x \in Paths \ {q} : Owns(p, x)' = Owns(p, x)
    BY <2>1, <2>2, <2>3 DEF Owns
  <2>5. CASE Owns(p, q)
    BY <1>5, <2>2, <2>4, <2>5
  <2>6. CASE ~Owns(p, q)
    BY <1>3, <2>2, <2>4, <2>6 DEF Owns
  <2> QED BY <2>5, <2>6
<1>11. CASE Exit(p)
  <2>1. \A q \in Paths : ~Owns(p, q)'
    BY <1>1, <1>11 DEF Exit, Owns, NoFds, TypeOK
  <2>2. H' = [q \in Paths |-> H[q] \ {p}]
    BY <1>2, <2>1
  <2>3. \E S \in SUBSET Paths : torn' = torn \cup S
    <3>1. pc[p] = "token" => cur[p] \in Paths
      BY <1>1, CurrentFile DEF Leaving
    <3>2. CASE pc[p] = "token"
      <4>1. torn' = torn \cup {cur[p]} /\ {cur[p]} \in SUBSET Paths
        BY <1>11, <3>1, <3>2 DEF Exit
      <4> QED BY <4>1
    <3>3. CASE pc[p] # "token"
      <4>1. torn' = torn \cup {} /\ {} \in SUBSET Paths
        BY <1>11, <3>3 DEF Exit
      <4> QED BY <4>1
    <3> QED BY <3>2, <3>3
  <2>4. Mutex!Exit(p)
    BY <2>2, <2>3 DEF Mutex!Exit
  <2> QED BY <2>4 DEF Mutex!Next
<1> QED BY <1>6, <1>7, <1>8, <1>9, <1>10, <1>11 DEF Actions

\* The system calls of pathlocks.cc implement the abstract lock of PathMutex,
\* owner by owner, for every interleaving and every crash.
THEOREM RefinesPathMutex == Spec => ImplementsPathMutex
<1>1. Init => Mutex!Init
  BY NoneAssumption DEF Init, Mutex!Init, Owns, NoFds
<1>2. IInv /\ [Next]_vars => [Mutex!Next]_Mutex!vars
  <2>1. ASSUME IInv, Next PROVE Mutex!Next \/ UNCHANGED Mutex!vars
    BY <2>1, NextActions, OwnershipStep
  <2>2. ASSUME UNCHANGED vars PROVE UNCHANGED Mutex!vars
    BY <2>2 DEF vars, Mutex!vars, Owns
  <2> QED BY <2>1, <2>2
<1> QED BY <1>1, <1>2, InvariantHolds, PTL DEF Spec, ImplementsPathMutex, Mutex!Spec
=============================================================================
