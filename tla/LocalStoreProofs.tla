-------------------------- MODULE LocalStoreProofs --------------------------
(***************************************************************************)
(* What is registered is complete, what an importer prints is stored, what *)
(* is pinned survives and what verify-store reports is true or early; for  *)
(* any number of processes, paths and runs.                                *)
(*                                                                         *)
(* A step of process p is described once, by the lemmas on what it leaves  *)
(* alone (Frame, Reach) and on where it leaves p itself (OwnStep, ...).    *)
(* The invariants of the other processes then follow without looking at    *)
(* the actions again.                                                      *)
(***************************************************************************)
EXTENDS LocalStore, TLAPS

ProcStep(p) ==
  Starting(p) \/ ImportStep(p) \/ GcStep(p) \/ VerifyStep(p) \/ Fail(p)

\* What a step of p leaves alone.
Frame(p) ==
  /\ \A r \in Procs : r # p =>
       /\ pc'[r] = pc[r]
       /\ job'[r] = job[r]
       /\ tool'[r] = tool[r]
       /\ queue'[r] = queue[r]
       /\ done'[r] = done[r]
  /\ \A r \in Procs : \A q \in Paths : r # p /\ lock[q] = r => lock'[q] = r
  /\ \A q \in Paths : q \in valid' => q \in valid \/ (pc[p] = "register" /\ q = job[p])
  /\ \A q \in Paths : disk'[q] = disk[q] \/ (pc[p] \in WritePCs /\ q = job[p])
  /\ \A q \in Paths : q \in raced => q \in raced'

\* The disjuncts of a step, one by one.
LEMMA StepActions ==
  ASSUME NEW p \in Procs, ProcStep(p)
  PROVE  \/ StartImportDir(p) \/ StartImportPath(p) \/ StartRmPath(p) \/ StartVerify(p)
         \/ RestoreToTemp(p) \/ MoveIntoPlace(p) \/ QueryInfo(p)
         \/ ReceiveNext(p) \/ ReceiveEnd(p) \/ RestorePath(p) \/ PathRestored(p)
         \/ CheckValid(p) \/ LockPath(p) \/ RecheckValid(p) \/ ClearTarget(p)
         \/ TargetCleared(p) \/ Canonicalise(p) \/ RegisterValidPath(p) \/ UnlockPath(p)
         \/ AddPermRoot(p) \/ FinishImport(p)
         \/ Unroot(p) \/ CollectGarbage(p) \/ LockGc(p) \/ FindRoots(p) \/ RootsFound(p)
         \/ CollectNext(p) \/ RefuseRoot(p)
         \/ InvalidatePath(p) \/ DeleteStorePath(p) \/ StorePathDeleted(p) \/ FinishGc(p)
         \/ LockGcShared(p) \/ ListStoreDir(p) \/ StoreDirListed(p) \/ ComparePaths(p)
         \/ CheckContents(p) \/ FinishVerify(p) \/ Fail(p)
  BY DEF ProcStep, Starting, ImportStep, GcStep, VerifyStep

\* A step of p leaves the rest of the store alone, as Frame says.
LEMMA FrameStep ==
  ASSUME TypeOK, NEW p \in Procs, HoldsLock(p), ProcStep(p)
  PROVE  Frame(p)
<1> USE DEF Goto, Start, Release, storeVars, localVars, counters
<1>1. /\ pc \in [Procs -> PCs]
      /\ tool \in [Procs -> Tools]
      /\ job \in [Procs -> Paths \cup {None}]
      /\ queue \in [Procs -> SUBSET Paths]
      /\ done \in [Procs -> SUBSET Paths]
      /\ lock \in [Paths -> Procs \cup {None}]
      /\ disk \in [Paths -> Trees]
  BY DEF TypeOK
<1>2. CASE StartImportDir(p)
  BY <1>2, <1>1 DEF Frame, StartImportDir
<1>3. CASE StartImportPath(p)
  BY <1>3, <1>1 DEF Frame, StartImportPath
<1>4. CASE StartRmPath(p)
  BY <1>4, <1>1 DEF Frame, StartRmPath
<1>5. CASE StartVerify(p)
  BY <1>5, <1>1 DEF Frame, StartVerify
<1>6. CASE RestoreToTemp(p)
  BY <1>6, <1>1 DEF Frame, RestoreToTemp, RecordImport
<1>7. CASE MoveIntoPlace(p)
  BY <1>7, <1>1 DEF Frame, MoveIntoPlace, WritePCs
<1>9. CASE QueryInfo(p)
  BY <1>9, <1>1 DEF Frame, QueryInfo
<1>10. CASE ReceiveNext(p)
  BY <1>10, <1>1 DEF Frame, ReceiveNext, RecordImport
<1>11. CASE ReceiveEnd(p)
  BY <1>11, <1>1 DEF Frame, ReceiveEnd
<1>12. CASE RestorePath(p)
  BY <1>12, <1>1 DEF Frame, RestorePath, WritePCs
<1>13. CASE PathRestored(p)
  BY <1>13, <1>1 DEF Frame, PathRestored, WritePCs
<1>14. CASE CheckValid(p)
  BY <1>14, <1>1 DEF Frame, CheckValid
<1>15. CASE LockPath(p)
  BY <1>15, <1>1, NoneAssumption DEF Frame, LockPath
<1>16. CASE RecheckValid(p)
  BY <1>16, <1>1 DEF Frame, RecheckValid
<1>17. CASE ClearTarget(p)
  BY <1>17, <1>1 DEF Frame, ClearTarget, BeginDelete, WritePCs
<1>18. CASE TargetCleared(p)
  BY <1>18, <1>1 DEF Frame, TargetCleared, EndDelete, WritePCs
<1>19. CASE Canonicalise(p)
  BY <1>19, <1>1 DEF Frame, Canonicalise, WritePCs
<1>20. CASE RegisterValidPath(p)
  BY <1>20, <1>1 DEF Frame, RegisterValidPath
<1>21. CASE UnlockPath(p)
  BY <1>21, <1>1 DEF Frame, UnlockPath, HoldsLock, LockedPCs
<1>22. CASE AddPermRoot(p)
  BY <1>22, <1>1 DEF Frame, AddPermRoot
<1>23. CASE FinishImport(p)
  BY <1>23, <1>1 DEF Frame, FinishImport
<1>24. CASE Unroot(p)
  BY <1>24, <1>1 DEF Frame, Unroot
<1>25. CASE CollectGarbage(p)
  BY <1>25, <1>1 DEF Frame, CollectGarbage
<1>26. CASE LockGc(p)
  BY <1>26, <1>1 DEF Frame, LockGc, RecordGc
<1>27. CASE FindRoots(p)
  BY <1>27, <1>1 DEF Frame, FindRoots
<1>28. CASE RootsFound(p)
  BY <1>28, <1>1 DEF Frame, RootsFound
<1>29. CASE CollectNext(p)
  BY <1>29, <1>1 DEF Frame, CollectNext
<1>30. CASE RefuseRoot(p)
  BY <1>30, <1>1 DEF Frame, RefuseRoot
<1>31. CASE InvalidatePath(p)
  BY <1>31, <1>1 DEF Frame, InvalidatePath
<1>32. CASE DeleteStorePath(p)
  BY <1>32, <1>1 DEF Frame, DeleteStorePath, BeginDelete, WritePCs
<1>33. CASE StorePathDeleted(p)
  BY <1>33, <1>1 DEF Frame, StorePathDeleted, EndDelete, WritePCs
<1>34. CASE FinishGc(p)
  BY <1>34, <1>1 DEF Frame, FinishGc
<1>35. CASE LockGcShared(p)
  BY <1>35, <1>1 DEF Frame, LockGcShared
<1>36. CASE ListStoreDir(p)
  BY <1>36, <1>1 DEF Frame, ListStoreDir
<1>37. CASE StoreDirListed(p)
  BY <1>37, <1>1 DEF Frame, StoreDirListed
<1>38. CASE ComparePaths(p)
  BY <1>38, <1>1 DEF Frame, ComparePaths
<1>39. CASE CheckContents(p)
  BY <1>39, <1>1 DEF Frame, CheckContents
<1>40. CASE FinishVerify(p)
  BY <1>40, <1>1 DEF Frame, FinishVerify
<1>41. CASE Fail(p)
  BY <1>41, <1>1 DEF Frame, Fail
<1>43. QED
  BY <1>2, <1>3, <1>4, <1>5, <1>6, <1>7, <1>9, <1>10, <1>11, <1>12,
     <1>13, <1>14, <1>15, <1>16, <1>17, <1>18, <1>19, <1>20, <1>21, <1>22,
     <1>23, <1>24, <1>25, <1>26, <1>27, <1>28, <1>29, <1>30, <1>31, <1>32,
     <1>33, <1>34, <1>35, <1>36, <1>37, <1>38, <1>39, <1>40, <1>41,
     StepActions

\* The invariant of the process that moves.
LEMMA OwnStep ==
  ASSUME TypeOK, NEW p \in Procs, ProcStep(p),
         HasJob(p), HoldsLock(p), ToolFits(p)
  PROVE  HasJob(p)' /\ HoldsLock(p)' /\ ToolFits(p)'
<1> USE DEF Goto, Start, Release, storeVars, localVars, counters,
            HasJob, HoldsLock, ToolFits, ImportPCs, LockedPCs, DeletePCs, Importers
<1>1. /\ pc \in [Procs -> PCs]
      /\ tool \in [Procs -> Tools]
      /\ job \in [Procs -> Paths \cup {None}]
      /\ queue \in [Procs -> SUBSET Paths]
      /\ done \in [Procs -> SUBSET Paths]
      /\ lock \in [Paths -> Procs \cup {None}]
      /\ disk \in [Paths -> Trees]
  BY DEF TypeOK
<1>2. CASE StartImportDir(p)
  BY <1>2, <1>1 DEF StartImportDir
<1>3. CASE StartImportPath(p)
  BY <1>3, <1>1 DEF StartImportPath
<1>4. CASE StartRmPath(p)
  BY <1>4, <1>1 DEF StartRmPath
<1>5. CASE StartVerify(p)
  BY <1>5, <1>1 DEF StartVerify
<1>6. CASE RestoreToTemp(p)
  BY <1>6, <1>1 DEF RestoreToTemp, RecordImport
<1>7. CASE MoveIntoPlace(p)
  BY <1>7, <1>1 DEF MoveIntoPlace
<1>9. CASE QueryInfo(p)
  BY <1>9, <1>1 DEF QueryInfo
<1>10. CASE ReceiveNext(p)
  BY <1>10, <1>1 DEF ReceiveNext, RecordImport
<1>11. CASE ReceiveEnd(p)
  BY <1>11, <1>1 DEF ReceiveEnd
<1>12. CASE RestorePath(p)
  BY <1>12, <1>1 DEF RestorePath
<1>13. CASE PathRestored(p)
  BY <1>13, <1>1 DEF PathRestored
<1>14. CASE CheckValid(p)
  BY <1>14, <1>1 DEF CheckValid, Returned
<1>15. CASE LockPath(p)
  BY <1>15, <1>1 DEF LockPath
<1>16. CASE RecheckValid(p)
  BY <1>16, <1>1 DEF RecheckValid
<1>17. CASE ClearTarget(p)
  BY <1>17, <1>1 DEF ClearTarget, BeginDelete
<1>18. CASE TargetCleared(p)
  BY <1>18, <1>1 DEF TargetCleared, EndDelete
<1>19. CASE Canonicalise(p)
  BY <1>19, <1>1 DEF Canonicalise
<1>20. CASE RegisterValidPath(p)
  BY <1>20, <1>1 DEF RegisterValidPath
<1>21. CASE UnlockPath(p)
  BY <1>21, <1>1 DEF UnlockPath, Returned
<1>22. CASE AddPermRoot(p)
  BY <1>22, <1>1 DEF AddPermRoot
<1>23. CASE FinishImport(p)
  BY <1>23, <1>1 DEF FinishImport
<1>24. CASE Unroot(p)
  BY <1>24, <1>1 DEF Unroot
<1>25. CASE CollectGarbage(p)
  BY <1>25, <1>1 DEF CollectGarbage
<1>26. CASE LockGc(p)
  BY <1>26, <1>1 DEF LockGc, RecordGc
<1>27. CASE FindRoots(p)
  BY <1>27, <1>1 DEF FindRoots
<1>28. CASE RootsFound(p)
  BY <1>28, <1>1 DEF RootsFound
<1>29. CASE CollectNext(p)
  BY <1>29, <1>1 DEF CollectNext
<1>30. CASE RefuseRoot(p)
  BY <1>30, <1>1 DEF RefuseRoot
<1>31. CASE InvalidatePath(p)
  BY <1>31, <1>1 DEF InvalidatePath
<1>32. CASE DeleteStorePath(p)
  BY <1>32, <1>1 DEF DeleteStorePath, BeginDelete
<1>33. CASE StorePathDeleted(p)
  BY <1>33, <1>1 DEF StorePathDeleted, EndDelete
<1>34. CASE FinishGc(p)
  BY <1>34, <1>1 DEF FinishGc
<1>35. CASE LockGcShared(p)
  BY <1>35, <1>1 DEF LockGcShared
<1>36. CASE ListStoreDir(p)
  BY <1>36, <1>1 DEF ListStoreDir
<1>37. CASE StoreDirListed(p)
  BY <1>37, <1>1 DEF StoreDirListed
<1>38. CASE ComparePaths(p)
  BY <1>38, <1>1 DEF ComparePaths
<1>39. CASE CheckContents(p)
  BY <1>39, <1>1 DEF CheckContents
<1>40. CASE FinishVerify(p)
  BY <1>40, <1>1 DEF FinishVerify
<1>41. CASE Fail(p)
  BY <1>41, <1>1 DEF Fail
<1>43. QED
  BY <1>2, <1>3, <1>4, <1>5, <1>6, <1>7, <1>9, <1>10, <1>11, <1>12,
     <1>13, <1>14, <1>15, <1>16, <1>17, <1>18, <1>19, <1>20, <1>21, <1>22,
     <1>23, <1>24, <1>25, <1>26, <1>27, <1>28, <1>29, <1>30, <1>31, <1>32,
     <1>33, <1>34, <1>35, <1>36, <1>37, <1>38, <1>39, <1>40, <1>41,
     StepActions

\* The process that moves writes only under a path that is not valid.
LEMMA FreshStep ==
  ASSUME TypeOK, NEW p \in Procs, ProcStep(p), HasJob(p), IsFresh(p)
  PROVE  IsFresh(p)'
<1> USE DEF Goto, Start, Release, storeVars, localVars, counters,
            HasJob, IsFresh, WritePCs, ImportPCs, LockedPCs, DeletePCs
<1>1. /\ pc \in [Procs -> PCs]
      /\ tool \in [Procs -> Tools]
      /\ job \in [Procs -> Paths \cup {None}]
      /\ queue \in [Procs -> SUBSET Paths]
      /\ done \in [Procs -> SUBSET Paths]
      /\ lock \in [Paths -> Procs \cup {None}]
      /\ disk \in [Paths -> Trees]
  BY DEF TypeOK
<1>2. CASE StartImportDir(p)
  BY <1>2, <1>1 DEF StartImportDir
<1>3. CASE StartImportPath(p)
  BY <1>3, <1>1 DEF StartImportPath
<1>4. CASE StartRmPath(p)
  BY <1>4, <1>1 DEF StartRmPath
<1>5. CASE StartVerify(p)
  BY <1>5, <1>1 DEF StartVerify
<1>6. CASE RestoreToTemp(p)
  BY <1>6, <1>1 DEF RestoreToTemp, RecordImport
<1>7. CASE MoveIntoPlace(p)
  BY <1>7, <1>1 DEF MoveIntoPlace
<1>9. CASE QueryInfo(p)
  BY <1>9, <1>1 DEF QueryInfo
<1>10. CASE ReceiveNext(p)
  BY <1>10, <1>1 DEF ReceiveNext, RecordImport
<1>11. CASE ReceiveEnd(p)
  BY <1>11, <1>1 DEF ReceiveEnd
<1>12. CASE RestorePath(p)
  BY <1>12, <1>1 DEF RestorePath
<1>13. CASE PathRestored(p)
  BY <1>13, <1>1 DEF PathRestored
<1>14. CASE CheckValid(p)
  BY <1>14, <1>1 DEF CheckValid, Returned
<1>15. CASE LockPath(p)
  BY <1>15, <1>1 DEF LockPath
<1>16. CASE RecheckValid(p)
  BY <1>16, <1>1 DEF RecheckValid
<1>17. CASE ClearTarget(p)
  BY <1>17, <1>1 DEF ClearTarget, BeginDelete
<1>18. CASE TargetCleared(p)
  BY <1>18, <1>1 DEF TargetCleared, EndDelete
<1>19. CASE Canonicalise(p)
  BY <1>19, <1>1 DEF Canonicalise
<1>20. CASE RegisterValidPath(p)
  BY <1>20, <1>1 DEF RegisterValidPath
<1>21. CASE UnlockPath(p)
  BY <1>21, <1>1 DEF UnlockPath, Returned
<1>22. CASE AddPermRoot(p)
  BY <1>22, <1>1 DEF AddPermRoot
<1>23. CASE FinishImport(p)
  BY <1>23, <1>1 DEF FinishImport
<1>24. CASE Unroot(p)
  BY <1>24, <1>1 DEF Unroot
<1>25. CASE CollectGarbage(p)
  BY <1>25, <1>1 DEF CollectGarbage
<1>26. CASE LockGc(p)
  BY <1>26, <1>1 DEF LockGc, RecordGc
<1>27. CASE FindRoots(p)
  BY <1>27, <1>1 DEF FindRoots
<1>28. CASE RootsFound(p)
  BY <1>28, <1>1 DEF RootsFound
<1>29. CASE CollectNext(p)
  BY <1>29, <1>1 DEF CollectNext
<1>30. CASE RefuseRoot(p)
  BY <1>30, <1>1 DEF RefuseRoot
<1>31. CASE InvalidatePath(p)
  BY <1>31, <1>1 DEF InvalidatePath
<1>32. CASE DeleteStorePath(p)
  BY <1>32, <1>1 DEF DeleteStorePath, BeginDelete
<1>33. CASE StorePathDeleted(p)
  BY <1>33, <1>1 DEF StorePathDeleted, EndDelete
<1>34. CASE FinishGc(p)
  BY <1>34, <1>1 DEF FinishGc
<1>35. CASE LockGcShared(p)
  BY <1>35, <1>1 DEF LockGcShared
<1>36. CASE ListStoreDir(p)
  BY <1>36, <1>1 DEF ListStoreDir
<1>37. CASE StoreDirListed(p)
  BY <1>37, <1>1 DEF StoreDirListed
<1>38. CASE ComparePaths(p)
  BY <1>38, <1>1 DEF ComparePaths
<1>39. CASE CheckContents(p)
  BY <1>39, <1>1 DEF CheckContents
<1>40. CASE FinishVerify(p)
  BY <1>40, <1>1 DEF FinishVerify
<1>41. CASE Fail(p)
  BY <1>41, <1>1 DEF Fail
<1>43. QED
  BY <1>2, <1>3, <1>4, <1>5, <1>6, <1>7, <1>9, <1>10, <1>11, <1>12,
     <1>13, <1>14, <1>15, <1>16, <1>17, <1>18, <1>19, <1>20, <1>21, <1>22,
     <1>23, <1>24, <1>25, <1>26, <1>27, <1>28, <1>29, <1>30, <1>31, <1>32,
     <1>33, <1>34, <1>35, <1>36, <1>37, <1>38, <1>39, <1>40, <1>41,
     StepActions

\* The process that moves finds on disk what its program point promises.
LEMMA TargetStep ==
  ASSUME TypeOK, NEW p \in Procs, ProcStep(p), HasJob(p), TargetFits(p), RacedInv
  PROVE  TargetFits(p)'
<1> USE DEF Goto, Start, Release, storeVars, localVars, counters,
            HasJob, TargetFits, ImportPCs, LockedPCs, DeletePCs
<1>1. /\ pc \in [Procs -> PCs]
      /\ tool \in [Procs -> Tools]
      /\ job \in [Procs -> Paths \cup {None}]
      /\ queue \in [Procs -> SUBSET Paths]
      /\ done \in [Procs -> SUBSET Paths]
      /\ lock \in [Paths -> Procs \cup {None}]
      /\ disk \in [Paths -> Trees]
  BY DEF TypeOK
<1>2. CASE StartImportDir(p)
  BY <1>2, <1>1 DEF StartImportDir
<1>3. CASE StartImportPath(p)
  BY <1>3, <1>1 DEF StartImportPath
<1>4. CASE StartRmPath(p)
  BY <1>4, <1>1 DEF StartRmPath
<1>5. CASE StartVerify(p)
  BY <1>5, <1>1 DEF StartVerify
<1>6. CASE RestoreToTemp(p)
  BY <1>6, <1>1 DEF RestoreToTemp, RecordImport
<1>7. CASE MoveIntoPlace(p)
  BY <1>7, <1>1 DEF MoveIntoPlace
<1>9. CASE QueryInfo(p)
  BY <1>9, <1>1 DEF QueryInfo
<1>10. CASE ReceiveNext(p)
  BY <1>10, <1>1 DEF ReceiveNext, RecordImport
<1>11. CASE ReceiveEnd(p)
  BY <1>11, <1>1 DEF ReceiveEnd
<1>12. CASE RestorePath(p)
  BY <1>12, <1>1 DEF RestorePath
<1>13. CASE PathRestored(p)
  BY <1>13, <1>1 DEF PathRestored, RacedInv, Importing, Collecting
<1>14. CASE CheckValid(p)
  BY <1>14, <1>1 DEF CheckValid, Returned
<1>15. CASE LockPath(p)
  BY <1>15, <1>1 DEF LockPath
<1>16. CASE RecheckValid(p)
  BY <1>16, <1>1 DEF RecheckValid
<1>17. CASE ClearTarget(p)
  BY <1>17, <1>1 DEF ClearTarget, BeginDelete
<1>18. CASE TargetCleared(p)
  BY <1>18, <1>1 DEF TargetCleared, EndDelete
<1>19. CASE Canonicalise(p)
  BY <1>19, <1>1 DEF Canonicalise
<1>20. CASE RegisterValidPath(p)
  BY <1>20, <1>1 DEF RegisterValidPath
<1>21. CASE UnlockPath(p)
  BY <1>21, <1>1 DEF UnlockPath, Returned
<1>22. CASE AddPermRoot(p)
  BY <1>22, <1>1 DEF AddPermRoot
<1>23. CASE FinishImport(p)
  BY <1>23, <1>1 DEF FinishImport
<1>24. CASE Unroot(p)
  BY <1>24, <1>1 DEF Unroot
<1>25. CASE CollectGarbage(p)
  BY <1>25, <1>1 DEF CollectGarbage
<1>26. CASE LockGc(p)
  BY <1>26, <1>1 DEF LockGc, RecordGc
<1>27. CASE FindRoots(p)
  BY <1>27, <1>1 DEF FindRoots
<1>28. CASE RootsFound(p)
  BY <1>28, <1>1 DEF RootsFound
<1>29. CASE CollectNext(p)
  BY <1>29, <1>1 DEF CollectNext
<1>30. CASE RefuseRoot(p)
  BY <1>30, <1>1 DEF RefuseRoot
<1>31. CASE InvalidatePath(p)
  BY <1>31, <1>1 DEF InvalidatePath
<1>32. CASE DeleteStorePath(p)
  BY <1>32, <1>1 DEF DeleteStorePath, BeginDelete
<1>33. CASE StorePathDeleted(p)
  BY <1>33, <1>1 DEF StorePathDeleted, EndDelete
<1>34. CASE FinishGc(p)
  BY <1>34, <1>1 DEF FinishGc
<1>35. CASE LockGcShared(p)
  BY <1>35, <1>1 DEF LockGcShared
<1>36. CASE ListStoreDir(p)
  BY <1>36, <1>1 DEF ListStoreDir
<1>37. CASE StoreDirListed(p)
  BY <1>37, <1>1 DEF StoreDirListed
<1>38. CASE ComparePaths(p)
  BY <1>38, <1>1 DEF ComparePaths
<1>39. CASE CheckContents(p)
  BY <1>39, <1>1 DEF CheckContents
<1>40. CASE FinishVerify(p)
  BY <1>40, <1>1 DEF FinishVerify
<1>41. CASE Fail(p)
  BY <1>41, <1>1 DEF Fail
<1>43. QED
  BY <1>2, <1>3, <1>4, <1>5, <1>6, <1>7, <1>9, <1>10, <1>11, <1>12,
     <1>13, <1>14, <1>15, <1>16, <1>17, <1>18, <1>19, <1>20, <1>21, <1>22,
     <1>23, <1>24, <1>25, <1>26, <1>27, <1>28, <1>29, <1>30, <1>31, <1>32,
     <1>33, <1>34, <1>35, <1>36, <1>37, <1>38, <1>39, <1>40, <1>41,
     StepActions

\* Where an overlap of an import and a collection can begin, it is recorded.
LEMMA RaceStep ==
  ASSUME TypeOK, NEW p \in Procs, ProcStep(p), ToolFits(p), NEW q \in Paths
  PROVE  /\ Importing(p, q)' =>
              Importing(p, q) \/ \A g \in Procs : Collecting(g, q) => q \in raced'
         /\ Collecting(p, q)' =>
              Collecting(p, q) \/ \A i \in Procs : Importing(i, q) => q \in raced'
<1> USE DEF Goto, Start, Release, storeVars, localVars, counters,
            ToolFits, Importers, ImportPCs, LockedPCs, DeletePCs
<1>1. /\ pc \in [Procs -> PCs]
      /\ tool \in [Procs -> Tools]
      /\ job \in [Procs -> Paths \cup {None}]
      /\ queue \in [Procs -> SUBSET Paths]
      /\ done \in [Procs -> SUBSET Paths]
      /\ lock \in [Paths -> Procs \cup {None}]
      /\ disk \in [Paths -> Trees]
  BY DEF TypeOK
<1>2. CASE StartImportDir(p)
  BY <1>2, <1>1 DEF Importing, Collecting, StartImportDir
<1>3. CASE StartImportPath(p)
  BY <1>3, <1>1 DEF Importing, Collecting, StartImportPath
<1>4. CASE StartRmPath(p)
  BY <1>4, <1>1 DEF Importing, Collecting, StartRmPath
<1>5. CASE StartVerify(p)
  BY <1>5, <1>1 DEF Importing, Collecting, StartVerify
<1>6. CASE RestoreToTemp(p)
  BY <1>6, <1>1 DEF Importing, Collecting, RestoreToTemp, RecordImport
<1>7. CASE MoveIntoPlace(p)
  BY <1>7, <1>1 DEF Importing, Collecting, MoveIntoPlace
<1>9. CASE QueryInfo(p)
  BY <1>9, <1>1 DEF Importing, Collecting, QueryInfo
<1>10. CASE ReceiveNext(p)
  BY <1>10, <1>1 DEF Importing, Collecting, ReceiveNext, RecordImport
<1>11. CASE ReceiveEnd(p)
  BY <1>11, <1>1 DEF Importing, Collecting, ReceiveEnd
<1>12. CASE RestorePath(p)
  BY <1>12, <1>1 DEF Importing, Collecting, RestorePath
<1>13. CASE PathRestored(p)
  BY <1>13, <1>1 DEF Importing, Collecting, PathRestored
<1>14. CASE CheckValid(p)
  BY <1>14, <1>1 DEF Importing, Collecting, CheckValid, Returned, Received
<1>15. CASE LockPath(p)
  BY <1>15, <1>1 DEF Importing, Collecting, LockPath
<1>16. CASE RecheckValid(p)
  BY <1>16, <1>1 DEF Importing, Collecting, RecheckValid
<1>17. CASE ClearTarget(p)
  BY <1>17, <1>1 DEF Importing, Collecting, ClearTarget, BeginDelete
<1>18. CASE TargetCleared(p)
  BY <1>18, <1>1 DEF Importing, Collecting, TargetCleared, EndDelete
<1>19. CASE Canonicalise(p)
  BY <1>19, <1>1 DEF Importing, Collecting, Canonicalise
<1>20. CASE RegisterValidPath(p)
  BY <1>20, <1>1 DEF Importing, Collecting, RegisterValidPath
<1>21. CASE UnlockPath(p)
  BY <1>21, <1>1 DEF Importing, Collecting, UnlockPath, Returned, Received
<1>22. CASE AddPermRoot(p)
  BY <1>22, <1>1 DEF Importing, Collecting, AddPermRoot
<1>23. CASE FinishImport(p)
  BY <1>23, <1>1 DEF Importing, Collecting, FinishImport
<1>24. CASE Unroot(p)
  BY <1>24, <1>1 DEF Importing, Collecting, Unroot
<1>25. CASE CollectGarbage(p)
  BY <1>25, <1>1 DEF Importing, Collecting, CollectGarbage
<1>26. CASE LockGc(p)
  BY <1>26, <1>1 DEF Importing, Collecting, LockGc, RecordGc
<1>27. CASE FindRoots(p)
  BY <1>27, <1>1 DEF Importing, Collecting, FindRoots
<1>28. CASE RootsFound(p)
  BY <1>28, <1>1 DEF Importing, Collecting, RootsFound
<1>29. CASE CollectNext(p)
  BY <1>29, <1>1 DEF Importing, Collecting, CollectNext
<1>30. CASE RefuseRoot(p)
  BY <1>30, <1>1 DEF Importing, Collecting, RefuseRoot
<1>31. CASE InvalidatePath(p)
  BY <1>31, <1>1 DEF Importing, Collecting, InvalidatePath
<1>32. CASE DeleteStorePath(p)
  BY <1>32, <1>1 DEF Importing, Collecting, DeleteStorePath, BeginDelete
<1>33. CASE StorePathDeleted(p)
  BY <1>33, <1>1 DEF Importing, Collecting, StorePathDeleted, EndDelete
<1>34. CASE FinishGc(p)
  BY <1>34, <1>1 DEF Importing, Collecting, FinishGc
<1>35. CASE LockGcShared(p)
  BY <1>35, <1>1 DEF Importing, Collecting, LockGcShared
<1>36. CASE ListStoreDir(p)
  BY <1>36, <1>1 DEF Importing, Collecting, ListStoreDir
<1>37. CASE StoreDirListed(p)
  BY <1>37, <1>1 DEF Importing, Collecting, StoreDirListed
<1>38. CASE ComparePaths(p)
  BY <1>38, <1>1 DEF Importing, Collecting, ComparePaths
<1>39. CASE CheckContents(p)
  BY <1>39, <1>1 DEF Importing, Collecting, CheckContents
<1>40. CASE FinishVerify(p)
  BY <1>40, <1>1 DEF Importing, Collecting, FinishVerify
<1>41. CASE Fail(p)
  BY <1>41, <1>1 DEF Importing, Collecting, Fail
<1>43. QED
  BY <1>2, <1>3, <1>4, <1>5, <1>6, <1>7, <1>9, <1>10, <1>11, <1>12,
     <1>13, <1>14, <1>15, <1>16, <1>17, <1>18, <1>19, <1>20, <1>21, <1>22,
     <1>23, <1>24, <1>25, <1>26, <1>27, <1>28, <1>29, <1>30, <1>31, <1>32,
     <1>33, <1>34, <1>35, <1>36, <1>37, <1>38, <1>39, <1>40, <1>41,
     StepActions

\* Every step keeps the types.
LEMMA TypeStep ==
  ASSUME TypeOK, NEW p \in Procs, ProcStep(p), HasJob(p)
  PROVE  TypeOK'
<1> USE DEF Goto, Start, Release, storeVars, localVars, counters,
            PCs, Tools, Importers, ImportPCs, LockedPCs, DeletePCs
<1>1. /\ TypeOK
      /\ pc[p] \in ImportPCs \cup DeletePCs \cup {"stage"} => job[p] \in Paths
  BY DEF HasJob
<1>2. CASE StartImportDir(p)
  BY <1>2, <1>1 DEF TypeOK, StartImportDir
<1>3. CASE StartImportPath(p)
  BY <1>3, <1>1 DEF TypeOK, StartImportPath
<1>4. CASE StartRmPath(p)
  BY <1>4, <1>1 DEF TypeOK, StartRmPath
<1>5. CASE StartVerify(p)
  BY <1>5, <1>1 DEF TypeOK, StartVerify
<1>6. CASE RestoreToTemp(p)
  BY <1>6, <1>1 DEF TypeOK, RestoreToTemp, RecordImport
<1>7. CASE MoveIntoPlace(p)
  BY <1>7, <1>1 DEF TypeOK, MoveIntoPlace, Trees
<1>9. CASE QueryInfo(p)
  BY <1>9, <1>1 DEF TypeOK, QueryInfo
<1>10. CASE ReceiveNext(p)
  BY <1>10, <1>1 DEF TypeOK, ReceiveNext, RecordImport
<1>11. CASE ReceiveEnd(p)
  BY <1>11, <1>1 DEF TypeOK, ReceiveEnd
<1>12. CASE RestorePath(p)
  BY <1>12, <1>1 DEF TypeOK, RestorePath, Trees
<1>13. CASE PathRestored(p)
  BY <1>13, <1>1 DEF TypeOK, PathRestored, Trees
<1>14. CASE CheckValid(p)
  BY <1>14, <1>1 DEF TypeOK, CheckValid, Returned, Received
<1>15. CASE LockPath(p)
  BY <1>15, <1>1 DEF TypeOK, LockPath
<1>16. CASE RecheckValid(p)
  BY <1>16, <1>1 DEF TypeOK, RecheckValid
<1>17. CASE ClearTarget(p)
  BY <1>17, <1>1 DEF TypeOK, ClearTarget, BeginDelete, Trees
<1>18. CASE TargetCleared(p)
  BY <1>18, <1>1 DEF TypeOK, TargetCleared, EndDelete, Trees
<1>19. CASE Canonicalise(p)
  BY <1>19, <1>1 DEF TypeOK, Canonicalise, Trees
<1>20. CASE RegisterValidPath(p)
  BY <1>20, <1>1 DEF TypeOK, RegisterValidPath
<1>21. CASE UnlockPath(p)
  BY <1>21, <1>1 DEF TypeOK, UnlockPath, Returned, Received
<1>22. CASE AddPermRoot(p)
  BY <1>22, <1>1 DEF TypeOK, AddPermRoot
<1>23. CASE FinishImport(p)
  BY <1>23, <1>1 DEF TypeOK, FinishImport
<1>24. CASE Unroot(p)
  BY <1>24, <1>1 DEF TypeOK, Unroot
<1>25. CASE CollectGarbage(p)
  BY <1>25, <1>1 DEF TypeOK, CollectGarbage
<1>26. CASE LockGc(p)
  BY <1>26, <1>1 DEF TypeOK, LockGc, RecordGc
<1>27. CASE FindRoots(p)
  BY <1>27, <1>1 DEF TypeOK, FindRoots
<1>28. CASE RootsFound(p)
  BY <1>28, <1>1 DEF TypeOK, RootsFound
<1>29. CASE CollectNext(p)
  BY <1>29, <1>1 DEF TypeOK, CollectNext
<1>30. CASE RefuseRoot(p)
  BY <1>30, <1>1 DEF TypeOK, RefuseRoot
<1>31. CASE InvalidatePath(p)
  BY <1>31, <1>1 DEF TypeOK, InvalidatePath
<1>32. CASE DeleteStorePath(p)
  BY <1>32, <1>1 DEF TypeOK, DeleteStorePath, BeginDelete, Trees
<1>33. CASE StorePathDeleted(p)
  BY <1>33, <1>1 DEF TypeOK, StorePathDeleted, EndDelete, Trees
<1>34. CASE FinishGc(p)
  BY <1>34, <1>1 DEF TypeOK, FinishGc
<1>35. CASE LockGcShared(p)
  BY <1>35, <1>1 DEF TypeOK, LockGcShared
<1>36. CASE ListStoreDir(p)
  BY <1>36, <1>1 DEF TypeOK, ListStoreDir
<1>37. CASE StoreDirListed(p)
  BY <1>37, <1>1 DEF TypeOK, StoreDirListed
<1>38. CASE ComparePaths(p)
  BY <1>38, <1>1 DEF TypeOK, ComparePaths
<1>39. CASE CheckContents(p)
  BY <1>39, <1>1 DEF TypeOK, CheckContents
<1>40. CASE FinishVerify(p)
  BY <1>40, <1>1 DEF TypeOK, FinishVerify
<1>41. CASE Fail(p)
  BY <1>41, <1>1 DEF TypeOK, Fail
<1>43. QED
  BY <1>2, <1>3, <1>4, <1>5, <1>6, <1>7, <1>9, <1>10, <1>11, <1>12,
     <1>13, <1>14, <1>15, <1>16, <1>17, <1>18, <1>19, <1>20, <1>21, <1>22,
     <1>23, <1>24, <1>25, <1>26, <1>27, <1>28, <1>29, <1>30, <1>31, <1>32,
     <1>33, <1>34, <1>35, <1>36, <1>37, <1>38, <1>39, <1>40, <1>41,
     StepActions

\* The empty store satisfies the invariant.
LEMMA InitIInv == Init => IInv
<1> SUFFICES ASSUME Init PROVE IInv
  OBVIOUS
<1>1. TypeOK
  BY StartsAssumption DEF Init, TypeOK, Trees, Tools, PCs
<1>2. ProcInv
  BY DEF Init, ProcInv, HasJob, HoldsLock, ToolFits, IsFresh, TargetFits, WritePCs,
         Importers, ImportPCs, DeletePCs, LockedPCs
<1>3. RacedInv
  BY DEF Init, RacedInv, Importing, Collecting, Importers, ImportPCs, DeletePCs, LockedPCs
<1>4. ValidIsComplete
  BY DEF Init, ValidIsComplete
<1>5. QED
  BY <1>1, <1>2, <1>3, <1>4 DEF IInv

\* A process with the lock of a path and one with another lock, or a collector,
\* do not work on the same path unless that is on record.
LEMMA Apart ==
  ASSUME IInv, NEW p \in Procs, NEW r \in Procs, p # r,
         pc[p] \in WritePCs \cup {"register"}, pc[r] \in WritePCs \cup {"register"},
         ~(pc[p] \in {"delete", "deleting"} /\ pc[r] \in {"delete", "deleting"})
  PROVE  job[p] # job[r] \/ job[p] \in raced
<1>1. HasJob(p) /\ HoldsLock(p) /\ HasJob(r) /\ HoldsLock(r) /\ RacedInv
  BY DEF IInv, ProcInv
<1>2. CASE pc[p] \in LockedPCs /\ pc[r] \in LockedPCs
  BY <1>1, <1>2 DEF HoldsLock
<1>3. CASE pc[p] \notin LockedPCs
  BY <1>1, <1>3
  DEF RacedInv, HasJob, Importing, Collecting, ImportPCs, LockedPCs, DeletePCs, WritePCs
<1>4. CASE pc[r] \notin LockedPCs
  BY <1>1, <1>4
  DEF RacedInv, HasJob, Importing, Collecting, ImportPCs, LockedPCs, DeletePCs, WritePCs
<1>5. QED
  BY <1>2, <1>3, <1>4

\* Every step keeps the invariant: the process that moves by the lemmas on its
\* own step, the others because the step leaves them alone.
LEMMA NextIInv ==
  ASSUME IInv, [Next]_vars
  PROVE  IInv'
<1>1. ASSUME NEW p \in Procs, ProcStep(p)
      PROVE  IInv'
  <2> DEFINE Mine(r) == HasJob(r) /\ HoldsLock(r) /\ ToolFits(r) /\ IsFresh(r) /\ TargetFits(r)
  <2>1. TypeOK /\ RacedInv /\ ValidIsComplete /\ \A r \in Procs : Mine(r)
    BY DEF IInv, ProcInv
  <2>2. TypeOK'
    BY <1>1, <2>1, TypeStep
  <2>3. Frame(p)
    BY <1>1, <2>1, FrameStep
  <2>4. Mine(p)'
    BY <1>1, <2>1, OwnStep, FreshStep, TargetStep
  <2>5. ASSUME NEW r \in Procs, r # p
        PROVE  HasJob(r)' /\ HoldsLock(r)' /\ ToolFits(r)'
    <3>1. HasJob(r) /\ HoldsLock(r) /\ ToolFits(r)
      BY <2>1
    <3>2. HasJob(r)' /\ ToolFits(r)'
      BY <2>3, <2>5, <3>1 DEF Frame, HasJob, ToolFits
    <3>3. HoldsLock(r)'
      BY <2>3, <2>5, <3>1 DEF Frame, HasJob, HoldsLock, ImportPCs
    <3>4. QED
      BY <3>2, <3>3
  <2>6. ASSUME NEW r \in Procs, r # p
        PROVE  IsFresh(r)'
    <3>1. SUFFICES ASSUME pc'[r] \in WritePCs \cup {"register"}, job'[r] \notin raced'
                   PROVE  job'[r] \notin valid'
      BY DEF IsFresh
    <3>2. pc[r] = pc'[r] /\ job[r] = job'[r] /\ job[r] \in Paths
      BY <2>1, <2>3, <2>6, <3>1 DEF Frame, HasJob, WritePCs, ImportPCs, LockedPCs, DeletePCs
    <3>3. job[r] \notin raced /\ job[r] \notin valid
      BY <2>1, <2>3, <3>1, <3>2 DEF Frame, IsFresh
    <3>4. ~(pc[p] = "register" /\ job[r] = job[p])
      BY <2>6, <3>1, <3>2, <3>3, Apart
    <3>5. QED
      BY <2>3, <3>2, <3>3, <3>4 DEF Frame
  <2>7. ASSUME NEW r \in Procs, r # p
        PROVE  TargetFits(r)'
    <3>1. pc[r] = pc'[r] /\ job[r] = job'[r]
      BY <2>3, <2>7 DEF Frame
    <3>2. SUFFICES ASSUME pc[r] \in {"move", "restore", "restoring", "canon", "register"},
                          job[r] \notin raced'
                   PROVE  disk'[job[r]] = disk[job[r]]
      BY <2>1, <2>3, <3>1 DEF Frame, TargetFits, HasJob, ImportPCs, LockedPCs
    <3>3. job[r] \in Paths /\ job[r] \notin raced
      BY <2>1, <2>3, <3>2 DEF Frame, HasJob, ImportPCs, LockedPCs
    <3>4. ~(pc[p] \in WritePCs /\ job[r] = job[p])
      BY <2>7, <3>2, <3>3, Apart DEF WritePCs
    <3>5. QED
      BY <2>3, <3>3, <3>4 DEF Frame
  <2>8. RacedInv'
    <3>1. SUFFICES ASSUME NEW q \in Paths, NEW i \in Procs, NEW g \in Procs,
                          Importing(i, q)', Collecting(g, q)'
                   PROVE  q \in raced'
      BY DEF RacedInv
    <3>2. i # g
      BY <2>4, <2>5, <3>1 DEF ToolFits, Importing, Collecting, Importers, ImportPCs,
                              LockedPCs, DeletePCs
    <3>3. i # p => Importing(i, q)
      BY <2>3, <3>1 DEF Frame, Importing
    <3>4. g # p => Collecting(g, q)
      BY <2>3, <3>1 DEF Frame, Collecting
    <3>5. Importing(i, q) /\ Collecting(g, q) => q \in raced'
      BY <2>1, <2>3 DEF Frame, RacedInv
    <3>6. QED
      BY <1>1, <2>1, <3>1, <3>2, <3>3, <3>4, <3>5, RaceStep
  <2>9. ValidIsComplete'
    <3>1. SUFFICES ASSUME NEW q \in Paths, q \in valid', q \notin raced'
                   PROVE  disk'[q] = "full"
      BY <2>2 DEF ValidIsComplete, TypeOK
    <3>2. q \notin raced
      BY <2>3, <3>1 DEF Frame
    <3>3. CASE q \in valid
      BY <2>1, <2>3, <3>2, <3>3 DEF Frame, ValidIsComplete, IsFresh
    <3>4. CASE q \notin valid
      BY <2>1, <2>3, <3>1, <3>2, <3>4 DEF Frame, TargetFits, WritePCs
    <3>5. QED
      BY <3>3, <3>4
  <2>10. QED
    BY <2>2, <2>4, <2>5, <2>6, <2>7, <2>8, <2>9 DEF IInv, ProcInv
<1>2. CASE UNCHANGED vars
  <2> USE <1>2 DEF vars, storeVars, localVars, counters
  <2>1. TypeOK'
    BY DEF IInv, TypeOK
  <2>2. ProcInv'
    BY DEF IInv, ProcInv, HasJob, HoldsLock, ToolFits, IsFresh, TargetFits
  <2>3. RacedInv' /\ ValidIsComplete'
    BY DEF IInv, RacedInv, Importing, Collecting, ValidIsComplete
  <2>4. QED
    BY <2>1, <2>2, <2>3 DEF IInv
<1>3. QED
  BY <1>1, <1>2 DEF Next, ProcStep

\* The invariant holds of every run of the tools.
THEOREM InvariantHolds == Spec => []IInv
<1>1. IInv /\ [Next]_vars => IInv'
  BY NextIInv
<1>2. QED
  BY InitIInv, <1>1, PTL DEF Spec

\* Type correctness of LocalStore.
THEOREM TypeCorrect == Spec => []TypeOK
<1>1. IInv => TypeOK
  BY DEF IInv
<1>2. QED
  BY InvariantHolds, <1>1, PTL

\* addToStore and addToStoreFromDump register complete trees only: with any
\* number of importers, collectors, failures and kills, a row of ValidPaths
\* whose import no collection of the same path overlapped has its whole,
\* canonical tree on disk.
THEOREM ValidPathsComplete == Spec => []ValidIsComplete
<1>1. IInv => ValidIsComplete
  BY DEF IInv
<1>2. QED
  BY InvariantHolds, <1>1, PTL

-----------------------------------------------------------------------------
(* The action properties *)

\* What a step of p does to gc.lock, to the rows and to what the others have read.
Reach(p) ==
  /\ \A r \in Procs : r # p => snap'[r] = snap[r]
  /\ \A q \in Paths : q \in valid /\ q \notin valid' => pc[p] = "invalidate" /\ q = job[p]
  /\ \/ gcLock' = gcLock \/ gcLock' = gcLock \ {p}
     \/ gcLock = {} /\ gcLock' = {p}
     \/ (\A g \in gcLock : tool[g] = "verify-store") /\ gcLock' = gcLock \cup {p}

LEMMA ReachStep ==
  ASSUME TypeOK, NEW p \in Procs, ProcStep(p)
  PROVE  Reach(p)
<1> USE DEF Goto, Start, Release, storeVars, localVars, counters
<1>1. /\ pc \in [Procs -> PCs] /\ tool \in [Procs -> Tools] /\ job \in [Procs -> Paths \cup {None}]
      /\ queue \in [Procs -> SUBSET Paths] /\ done \in [Procs -> SUBSET Paths]
      /\ snap \in [Procs -> SUBSET Paths] /\ valid \in SUBSET Paths /\ gcLock \in SUBSET Procs
  BY DEF TypeOK
<1>2. CASE StartImportDir(p)
  BY <1>2, <1>1 DEF Reach, StartImportDir
<1>3. CASE StartImportPath(p)
  BY <1>3, <1>1 DEF Reach, StartImportPath
<1>4. CASE StartRmPath(p)
  BY <1>4, <1>1 DEF Reach, StartRmPath
<1>5. CASE StartVerify(p)
  BY <1>5, <1>1 DEF Reach, StartVerify
<1>6. CASE RestoreToTemp(p)
  BY <1>6, <1>1 DEF Reach, RestoreToTemp, RecordImport
<1>7. CASE MoveIntoPlace(p)
  BY <1>7, <1>1 DEF Reach, MoveIntoPlace
<1>8. CASE QueryInfo(p)
  BY <1>8, <1>1 DEF Reach, QueryInfo
<1>9. CASE ReceiveNext(p)
  BY <1>9, <1>1 DEF Reach, ReceiveNext, RecordImport
<1>10. CASE ReceiveEnd(p)
  BY <1>10, <1>1 DEF Reach, ReceiveEnd
<1>11. CASE RestorePath(p)
  BY <1>11, <1>1 DEF Reach, RestorePath
<1>12. CASE PathRestored(p)
  BY <1>12, <1>1 DEF Reach, PathRestored
<1>13. CASE CheckValid(p)
  BY <1>13, <1>1 DEF Reach, CheckValid
<1>14. CASE LockPath(p)
  BY <1>14, <1>1 DEF Reach, LockPath
<1>15. CASE RecheckValid(p)
  BY <1>15, <1>1 DEF Reach, RecheckValid
<1>16. CASE ClearTarget(p)
  BY <1>16, <1>1 DEF Reach, ClearTarget, BeginDelete
<1>17. CASE TargetCleared(p)
  BY <1>17, <1>1 DEF Reach, TargetCleared, EndDelete
<1>18. CASE Canonicalise(p)
  BY <1>18, <1>1 DEF Reach, Canonicalise
<1>19. CASE RegisterValidPath(p)
  BY <1>19, <1>1 DEF Reach, RegisterValidPath
<1>20. CASE UnlockPath(p)
  BY <1>20, <1>1 DEF Reach, UnlockPath
<1>21. CASE AddPermRoot(p)
  BY <1>21, <1>1 DEF Reach, AddPermRoot
<1>22. CASE FinishImport(p)
  BY <1>22, <1>1 DEF Reach, FinishImport
<1>23. CASE Unroot(p)
  BY <1>23, <1>1 DEF Reach, Unroot
<1>24. CASE CollectGarbage(p)
  BY <1>24, <1>1 DEF Reach, CollectGarbage
<1>25. CASE LockGc(p)
  BY <1>25, <1>1 DEF Reach, LockGc, RecordGc
<1>26. CASE FindRoots(p)
  BY <1>26, <1>1 DEF Reach, FindRoots
<1>27. CASE RootsFound(p)
  BY <1>27, <1>1 DEF Reach, RootsFound
<1>28. CASE CollectNext(p)
  BY <1>28, <1>1 DEF Reach, CollectNext
<1>29. CASE RefuseRoot(p)
  BY <1>29, <1>1 DEF Reach, RefuseRoot
<1>30. CASE InvalidatePath(p)
  BY <1>30, <1>1 DEF Reach, InvalidatePath
<1>31. CASE DeleteStorePath(p)
  BY <1>31, <1>1 DEF Reach, DeleteStorePath, BeginDelete
<1>32. CASE StorePathDeleted(p)
  BY <1>32, <1>1 DEF Reach, StorePathDeleted, EndDelete
<1>33. CASE FinishGc(p)
  BY <1>33, <1>1 DEF Reach, FinishGc
<1>34. CASE LockGcShared(p)
  BY <1>34, <1>1 DEF Reach, LockGcShared
<1>35. CASE ListStoreDir(p)
  BY <1>35, <1>1 DEF Reach, ListStoreDir
<1>36. CASE StoreDirListed(p)
  BY <1>36, <1>1 DEF Reach, StoreDirListed
<1>37. CASE ComparePaths(p)
  BY <1>37, <1>1 DEF Reach, ComparePaths
<1>38. CASE CheckContents(p)
  BY <1>38, <1>1 DEF Reach, CheckContents
<1>39. CASE FinishVerify(p)
  BY <1>39, <1>1 DEF Reach, FinishVerify
<1>40. CASE Fail(p)
  BY <1>40, <1>1 DEF Reach, Fail
<1> QED
  BY <1>2, <1>3, <1>4, <1>5, <1>6, <1>7, <1>8, <1>9, <1>10, <1>11, <1>12, <1>13, <1>14,
     <1>15, <1>16, <1>17, <1>18, <1>19, <1>20, <1>21, <1>22, <1>23, <1>24, <1>25, <1>26,
     <1>27, <1>28, <1>29, <1>30, <1>31, <1>32, <1>33, <1>34, <1>35, <1>36, <1>37, <1>38,
     <1>39, <1>40, StepActions

\* The process that moves, each part of its invariant
LEMMA ToolStep ==
  ASSUME TypeOK, NEW p \in Procs, ProcStep(p), HasJob(p), ToolKnown(p), GcLockFits(p)
  PROVE  ToolKnown(p)' /\ GcLockFits(p)'
<1> USE DEF Goto, Start, Release, storeVars, localVars, counters, ToolKnown, GcLockFits,
            ImportPCs, LockedPCs, CollectPCs, DeletePCs, ListPCs, Importers, Returned
<1>1. /\ pc \in [Procs -> PCs] /\ tool \in [Procs -> Tools] /\ job \in [Procs -> Paths \cup {None}]
      /\ queue \in [Procs -> SUBSET Paths] /\ done \in [Procs -> SUBSET Paths]
      /\ snap \in [Procs -> SUBSET Paths] /\ valid \in SUBSET Paths /\ gcLock \in SUBSET Procs
  BY DEF TypeOK
<1>2. CASE StartImportDir(p)
  BY <1>2, <1>1 DEF StartImportDir
<1>3. CASE StartImportPath(p)
  BY <1>3, <1>1 DEF StartImportPath
<1>4. CASE StartRmPath(p)
  BY <1>4, <1>1 DEF StartRmPath
<1>5. CASE StartVerify(p)
  BY <1>5, <1>1 DEF StartVerify
<1>6. CASE RestoreToTemp(p)
  BY <1>6, <1>1 DEF RestoreToTemp, RecordImport
<1>7. CASE MoveIntoPlace(p)
  BY <1>7, <1>1 DEF MoveIntoPlace
<1>8. CASE QueryInfo(p)
  BY <1>8, <1>1 DEF QueryInfo
<1>9. CASE ReceiveNext(p)
  BY <1>9, <1>1 DEF ReceiveNext, RecordImport
<1>10. CASE ReceiveEnd(p)
  BY <1>10, <1>1 DEF ReceiveEnd
<1>11. CASE RestorePath(p)
  BY <1>11, <1>1 DEF RestorePath
<1>12. CASE PathRestored(p)
  BY <1>12, <1>1 DEF PathRestored
<1>13. CASE CheckValid(p)
  BY <1>13, <1>1 DEF CheckValid
<1>14. CASE LockPath(p)
  BY <1>14, <1>1 DEF LockPath
<1>15. CASE RecheckValid(p)
  BY <1>15, <1>1 DEF RecheckValid
<1>16. CASE ClearTarget(p)
  BY <1>16, <1>1 DEF ClearTarget, BeginDelete
<1>17. CASE TargetCleared(p)
  BY <1>17, <1>1 DEF TargetCleared, EndDelete
<1>18. CASE Canonicalise(p)
  BY <1>18, <1>1 DEF Canonicalise
<1>19. CASE RegisterValidPath(p)
  BY <1>19, <1>1 DEF RegisterValidPath
<1>20. CASE UnlockPath(p)
  BY <1>20, <1>1 DEF UnlockPath
<1>21. CASE AddPermRoot(p)
  BY <1>21, <1>1 DEF AddPermRoot
<1>22. CASE FinishImport(p)
  BY <1>22, <1>1 DEF FinishImport
<1>23. CASE Unroot(p)
  BY <1>23, <1>1 DEF Unroot
<1>24. CASE CollectGarbage(p)
  BY <1>24, <1>1 DEF CollectGarbage
<1>25. CASE LockGc(p)
  BY <1>25, <1>1 DEF LockGc, RecordGc
<1>26. CASE FindRoots(p)
  BY <1>26, <1>1 DEF FindRoots
<1>27. CASE RootsFound(p)
  BY <1>27, <1>1 DEF RootsFound
<1>28. CASE CollectNext(p)
  BY <1>28, <1>1 DEF CollectNext
<1>29. CASE RefuseRoot(p)
  BY <1>29, <1>1 DEF RefuseRoot
<1>30. CASE InvalidatePath(p)
  BY <1>30, <1>1 DEF InvalidatePath
<1>31. CASE DeleteStorePath(p)
  BY <1>31, <1>1 DEF DeleteStorePath, BeginDelete
<1>32. CASE StorePathDeleted(p)
  BY <1>32, <1>1 DEF StorePathDeleted, EndDelete
<1>33. CASE FinishGc(p)
  BY <1>33, <1>1 DEF FinishGc
<1>34. CASE LockGcShared(p)
  BY <1>34, <1>1 DEF LockGcShared
<1>35. CASE ListStoreDir(p)
  BY <1>35, <1>1 DEF ListStoreDir
<1>36. CASE StoreDirListed(p)
  BY <1>36, <1>1 DEF StoreDirListed
<1>37. CASE ComparePaths(p)
  BY <1>37, <1>1 DEF ComparePaths
<1>38. CASE CheckContents(p)
  BY <1>38, <1>1 DEF CheckContents
<1>39. CASE FinishVerify(p)
  BY <1>39, <1>1 DEF FinishVerify
<1>40. CASE Fail(p)
  BY <1>40, <1>1 DEF Fail
<1> QED
  BY <1>2, <1>3, <1>4, <1>5, <1>6, <1>7, <1>8, <1>9, <1>10, <1>11, <1>12, <1>13, <1>14,
     <1>15, <1>16, <1>17, <1>18, <1>19, <1>20, <1>21, <1>22, <1>23, <1>24, <1>25, <1>26,
     <1>27, <1>28, <1>29, <1>30, <1>31, <1>32, <1>33, <1>34, <1>35, <1>36, <1>37, <1>38,
     <1>39, <1>40, StepActions

LEMMA StandStep ==
  ASSUME TypeOK, NEW p \in Procs, ProcStep(p), HasJob(p), ToolFits(p), ToolKnown(p),
         ImportsStand(p), ContentsStand(p)
  PROVE  ImportsStand(p)' /\ ContentsStand(p)'
<1> USE DEF Goto, Start, Release, storeVars, localVars, counters, ImportsStand, ContentsStand,
            ToolKnown, ToolFits, HasJob, ImportPCs, LockedPCs, CollectPCs, DeletePCs, ListPCs,
            Importers, Received, Returned
<1>1. /\ pc \in [Procs -> PCs] /\ tool \in [Procs -> Tools] /\ job \in [Procs -> Paths \cup {None}]
      /\ queue \in [Procs -> SUBSET Paths] /\ done \in [Procs -> SUBSET Paths]
      /\ snap \in [Procs -> SUBSET Paths] /\ valid \in SUBSET Paths /\ gcLock \in SUBSET Procs
  BY DEF TypeOK
<1>2. CASE StartImportDir(p)
  BY <1>2, <1>1 DEF StartImportDir
<1>3. CASE StartImportPath(p)
  BY <1>3, <1>1 DEF StartImportPath
<1>4. CASE StartRmPath(p)
  BY <1>4, <1>1 DEF StartRmPath
<1>5. CASE StartVerify(p)
  BY <1>5, <1>1 DEF StartVerify
<1>6. CASE RestoreToTemp(p)
  BY <1>6, <1>1 DEF RestoreToTemp, RecordImport
<1>7. CASE MoveIntoPlace(p)
  BY <1>7, <1>1 DEF MoveIntoPlace
<1>8. CASE QueryInfo(p)
  BY <1>8, <1>1 DEF QueryInfo
<1>9. CASE ReceiveNext(p)
  BY <1>9, <1>1 DEF ReceiveNext, RecordImport
<1>10. CASE ReceiveEnd(p)
  BY <1>10, <1>1 DEF ReceiveEnd
<1>11. CASE RestorePath(p)
  BY <1>11, <1>1 DEF RestorePath
<1>12. CASE PathRestored(p)
  BY <1>12, <1>1 DEF PathRestored
<1>13. CASE CheckValid(p)
  BY <1>13, <1>1 DEF CheckValid
<1>14. CASE LockPath(p)
  BY <1>14, <1>1 DEF LockPath
<1>15. CASE RecheckValid(p)
  BY <1>15, <1>1 DEF RecheckValid
<1>16. CASE ClearTarget(p)
  BY <1>16, <1>1 DEF ClearTarget, BeginDelete
<1>17. CASE TargetCleared(p)
  BY <1>17, <1>1 DEF TargetCleared, EndDelete
<1>18. CASE Canonicalise(p)
  BY <1>18, <1>1 DEF Canonicalise
<1>19. CASE RegisterValidPath(p)
  BY <1>19, <1>1 DEF RegisterValidPath
<1>20. CASE UnlockPath(p)
  BY <1>20, <1>1 DEF UnlockPath
<1>21. CASE AddPermRoot(p)
  BY <1>21, <1>1 DEF AddPermRoot
<1>22. CASE FinishImport(p)
  BY <1>22, <1>1 DEF FinishImport
<1>23. CASE Unroot(p)
  BY <1>23, <1>1 DEF Unroot
<1>24. CASE CollectGarbage(p)
  BY <1>24, <1>1 DEF CollectGarbage
<1>25. CASE LockGc(p)
  BY <1>25, <1>1 DEF LockGc, RecordGc
<1>26. CASE FindRoots(p)
  BY <1>26, <1>1 DEF FindRoots
<1>27. CASE RootsFound(p)
  BY <1>27, <1>1 DEF RootsFound
<1>28. CASE CollectNext(p)
  BY <1>28, <1>1 DEF CollectNext
<1>29. CASE RefuseRoot(p)
  BY <1>29, <1>1 DEF RefuseRoot
<1>30. CASE InvalidatePath(p)
  BY <1>30, <1>1 DEF InvalidatePath
<1>31. CASE DeleteStorePath(p)
  BY <1>31, <1>1 DEF DeleteStorePath, BeginDelete
<1>32. CASE StorePathDeleted(p)
  BY <1>32, <1>1 DEF StorePathDeleted, EndDelete
<1>33. CASE FinishGc(p)
  BY <1>33, <1>1 DEF FinishGc
<1>34. CASE LockGcShared(p)
  BY <1>34, <1>1 DEF LockGcShared
<1>35. CASE ListStoreDir(p)
  BY <1>35, <1>1 DEF ListStoreDir
<1>36. CASE StoreDirListed(p)
  BY <1>36, <1>1 DEF StoreDirListed
<1>37. CASE ComparePaths(p)
  BY <1>37, <1>1 DEF ComparePaths
<1>38. CASE CheckContents(p)
  BY <1>38, <1>1 DEF CheckContents
<1>39. CASE FinishVerify(p)
  BY <1>39, <1>1 DEF FinishVerify
<1>40. CASE Fail(p)
  BY <1>40, <1>1 DEF Fail
<1> QED
  BY <1>2, <1>3, <1>4, <1>5, <1>6, <1>7, <1>8, <1>9, <1>10, <1>11, <1>12, <1>13, <1>14,
     <1>15, <1>16, <1>17, <1>18, <1>19, <1>20, <1>21, <1>22, <1>23, <1>24, <1>25, <1>26,
     <1>27, <1>28, <1>29, <1>30, <1>31, <1>32, <1>33, <1>34, <1>35, <1>36, <1>37, <1>38,
     <1>39, <1>40, StepActions

LEMMA PinsStep ==
  ASSUME TypeOK, NEW p \in Procs, ProcStep(p), HasJob(p), ToolKnown(p), PinsSeen(p)
  PROVE  PinsSeen(p)'
<1> USE DEF Goto, Start, Release, storeVars, localVars, counters, PinsSeen, Collecting,
            ToolKnown, HasJob, ImportPCs, LockedPCs, CollectPCs, DeletePCs, Importers, Returned
<1>1. /\ pc \in [Procs -> PCs] /\ tool \in [Procs -> Tools] /\ job \in [Procs -> Paths \cup {None}]
      /\ queue \in [Procs -> SUBSET Paths] /\ done \in [Procs -> SUBSET Paths]
      /\ snap \in [Procs -> SUBSET Paths] /\ valid \in SUBSET Paths /\ gcLock \in SUBSET Procs
  BY PinsAssumption DEF TypeOK
<1>2. CASE StartImportDir(p)
  BY <1>2, <1>1 DEF StartImportDir
<1>3. CASE StartImportPath(p)
  BY <1>3, <1>1 DEF StartImportPath
<1>4. CASE StartRmPath(p)
  BY <1>4, <1>1 DEF StartRmPath
<1>5. CASE StartVerify(p)
  BY <1>5, <1>1 DEF StartVerify
<1>6. CASE RestoreToTemp(p)
  BY <1>6, <1>1 DEF RestoreToTemp, RecordImport
<1>7. CASE MoveIntoPlace(p)
  BY <1>7, <1>1 DEF MoveIntoPlace
<1>8. CASE QueryInfo(p)
  BY <1>8, <1>1 DEF QueryInfo
<1>9. CASE ReceiveNext(p)
  BY <1>9, <1>1 DEF ReceiveNext, RecordImport
<1>10. CASE ReceiveEnd(p)
  BY <1>10, <1>1 DEF ReceiveEnd
<1>11. CASE RestorePath(p)
  BY <1>11, <1>1 DEF RestorePath
<1>12. CASE PathRestored(p)
  BY <1>12, <1>1 DEF PathRestored
<1>13. CASE CheckValid(p)
  BY <1>13, <1>1 DEF CheckValid
<1>14. CASE LockPath(p)
  BY <1>14, <1>1 DEF LockPath
<1>15. CASE RecheckValid(p)
  BY <1>15, <1>1 DEF RecheckValid
<1>16. CASE ClearTarget(p)
  BY <1>16, <1>1 DEF ClearTarget, BeginDelete
<1>17. CASE TargetCleared(p)
  BY <1>17, <1>1 DEF TargetCleared, EndDelete
<1>18. CASE Canonicalise(p)
  BY <1>18, <1>1 DEF Canonicalise
<1>19. CASE RegisterValidPath(p)
  BY <1>19, <1>1 DEF RegisterValidPath
<1>20. CASE UnlockPath(p)
  BY <1>20, <1>1 DEF UnlockPath
<1>21. CASE AddPermRoot(p)
  BY <1>21, <1>1 DEF AddPermRoot
<1>22. CASE FinishImport(p)
  BY <1>22, <1>1 DEF FinishImport
<1>23. CASE Unroot(p)
  BY <1>23, <1>1 DEF Unroot
<1>24. CASE CollectGarbage(p)
  BY <1>24, <1>1 DEF CollectGarbage
<1>25. CASE LockGc(p)
  BY <1>25, <1>1 DEF LockGc, RecordGc
<1>26. CASE FindRoots(p)
  BY <1>26, <1>1 DEF FindRoots, IsRoot
<1>27. CASE RootsFound(p)
  BY <1>27, <1>1 DEF RootsFound
<1>28. CASE CollectNext(p)
  BY <1>28, <1>1 DEF CollectNext
<1>29. CASE RefuseRoot(p)
  BY <1>29, <1>1 DEF RefuseRoot
<1>30. CASE InvalidatePath(p)
  BY <1>30, <1>1 DEF InvalidatePath
<1>31. CASE DeleteStorePath(p)
  BY <1>31, <1>1 DEF DeleteStorePath, BeginDelete
<1>32. CASE StorePathDeleted(p)
  BY <1>32, <1>1 DEF StorePathDeleted, EndDelete
<1>33. CASE FinishGc(p)
  BY <1>33, <1>1 DEF FinishGc
<1>34. CASE LockGcShared(p)
  BY <1>34, <1>1 DEF LockGcShared
<1>35. CASE ListStoreDir(p)
  BY <1>35, <1>1 DEF ListStoreDir
<1>36. CASE StoreDirListed(p)
  BY <1>36, <1>1 DEF StoreDirListed
<1>37. CASE ComparePaths(p)
  BY <1>37, <1>1 DEF ComparePaths
<1>38. CASE CheckContents(p)
  BY <1>38, <1>1 DEF CheckContents
<1>39. CASE FinishVerify(p)
  BY <1>39, <1>1 DEF FinishVerify
<1>40. CASE Fail(p)
  BY <1>40, <1>1 DEF Fail
<1> QED
  BY <1>2, <1>3, <1>4, <1>5, <1>6, <1>7, <1>8, <1>9, <1>10, <1>11, <1>12, <1>13, <1>14,
     <1>15, <1>16, <1>17, <1>18, <1>19, <1>20, <1>21, <1>22, <1>23, <1>24, <1>25, <1>26,
     <1>27, <1>28, <1>29, <1>30, <1>31, <1>32, <1>33, <1>34, <1>35, <1>36, <1>37, <1>38,
     <1>39, <1>40, StepActions

LEMMA InitToolsInv == Init => ToolsInv
<1> SUFFICES ASSUME Init PROVE ToolsInv
  OBVIOUS
<1> QED
  BY DEF Init, ToolsInv, ToolKnown, GcLockFits, ImportsStand, PinsSeen, ContentsStand, Collecting,
         Importers, ImportPCs, DeletePCs, LockedPCs, CollectPCs, ListPCs

\* The others: a collection that changes what an importer, a collector or a verifier goes by is
\* on record or excluded by gc.lock.
LEMMA NextToolsInv ==
  ASSUME IInv, ToolsInv, IInv', [Next]_vars
  PROVE  ToolsInv'
<1>1. ASSUME NEW p \in Procs, ProcStep(p)
      PROVE  ToolsInv'
  <2>1. /\ TypeOK /\ RacedInv
        /\ \A r \in Procs :
             /\ HasJob(r) /\ HoldsLock(r) /\ ToolFits(r)
             /\ ToolKnown(r) /\ GcLockFits(r) /\ ImportsStand(r) /\ PinsSeen(r) /\ ContentsStand(r)
    BY DEF IInv, ProcInv, ToolsInv
  <2>2. Frame(p) /\ Reach(p)
    BY <1>1, <2>1, FrameStep, ReachStep
  <2>3. ToolKnown(p)' /\ GcLockFits(p)' /\ ImportsStand(p)' /\ PinsSeen(p)' /\ ContentsStand(p)'
    BY <1>1, <2>1, ToolStep, StandStep, PinsStep
  <2>4. /\ valid' \in SUBSET Paths /\ raced \subseteq raced' /\ job[p] \in Paths \cup {None}
        /\ \A r \in Procs : done[r] \in SUBSET Paths /\ queue[r] \in SUBSET Paths
    BY <2>1, <2>2 DEF IInv, TypeOK, Frame
  <2> SUFFICES ASSUME NEW r \in Procs, r # p
               PROVE  /\ ToolKnown(r)' /\ GcLockFits(r)' /\ ImportsStand(r)'
                      /\ PinsSeen(r)' /\ ContentsStand(r)'
    BY <2>3 DEF ToolsInv
  <2>5. /\ pc'[r] = pc[r] /\ job'[r] = job[r] /\ tool'[r] = tool[r] /\ queue'[r] = queue[r]
        /\ done'[r] = done[r] /\ snap'[r] = snap[r]
    BY <2>2 DEF Frame, Reach
  <2>6. ToolKnown(r)'
    BY <2>1, <2>5 DEF ToolKnown
  <2>7. GcLockFits(r)'
    <3>1. CASE pc[r] \in CollectPCs
      <4>1. gcLock = {r} /\ tool[r] # "verify-store"
        BY <2>1, <3>1 DEF GcLockFits, ToolKnown
      <4>2. gcLock' = {r}
        BY <2>2, <4>1 DEF Reach
      <4> QED BY <2>5, <3>1, <4>2 DEF GcLockFits, CollectPCs, DeletePCs, ListPCs
    <3>2. CASE pc[r] \in ListPCs
      <4>1. r \in gcLock
        BY <2>1, <3>2 DEF GcLockFits
      <4>2. r \in gcLock'
        BY <2>2, <4>1 DEF Reach
      <4> QED BY <2>5, <3>2, <4>2 DEF GcLockFits, CollectPCs, DeletePCs, ListPCs
    <3> QED BY <2>5, <3>1, <3>2 DEF GcLockFits
  <2>8. ASSUME NEW q \in Paths, q \in valid, q \notin valid'
        PROVE  Collecting(p, q) /\ gcLock = {p}
    BY <2>1, <2>2, <2>8 DEF Reach, Collecting, GcLockFits, CollectPCs, DeletePCs
  <2>9. ASSUME NEW q \in Paths, q \in valid', q \notin valid
        PROVE  Importing(p, q)
    BY <2>2, <2>9 DEF Frame, Importing, ImportPCs, LockedPCs
  <2>10. ImportsStand(r)'
    <3>1. ASSUME NEW q \in Paths, q \in valid, q \notin raced', Importing(r, q)
          PROVE  q \in valid'
      BY <2>1, <2>4, <2>8, <3>1 DEF RacedInv
    <3>2. ASSUME tool[r] \in Importers, NEW q \in done[r] \ raced' PROVE q \in valid'
      <4>1. q \in Paths /\ Importing(r, q) /\ q \in valid
        BY <2>1, <2>4, <3>2 DEF ImportsStand, Importing
      <4> QED BY <3>1, <3>2, <4>1
    <3>3. ASSUME pc[r] = "unlock", job[r] \notin raced' PROVE job[r] \in valid'
      <4>1. job[r] \in Paths /\ Importing(r, job[r]) /\ job[r] \in valid
        BY <2>1, <2>4, <3>3 DEF ImportsStand, Importing, HasJob, ImportPCs, LockedPCs
      <4> QED BY <3>1, <3>3, <4>1
    <3> QED BY <2>5, <3>2, <3>3 DEF ImportsStand
  <2>11. PinsSeen(r)'
    <3>1. ASSUME NEW q \in (Pins \cap valid') \ raced', Collecting(r, q),
                 pc[r] = "scan" => q \in done[r]
          PROVE  q \in snap[r]
      <4>1. q \in Paths /\ q \notin raced
        BY <2>4, PinsAssumption
      <4>2. q \in valid
        BY <2>1, <2>9, <3>1, <4>1 DEF RacedInv
      <4> QED BY <2>1, <3>1, <4>1, <4>2 DEF PinsSeen
    <3>2. \A q : Collecting(r, q)' <=> Collecting(r, q)
      BY <2>5 DEF Collecting
    <3> QED BY <2>1, <2>5, <3>1, <3>2 DEF PinsSeen
  <2>12. ContentsStand(r)'
    <3>1. ASSUME pc[r] = "contents", NEW q \in queue[r] PROVE q \in valid'
      <4>1. r \in gcLock /\ q \in valid /\ q \in Paths
        BY <2>1, <2>4, <3>1 DEF GcLockFits, ListPCs, ContentsStand
      <4> QED BY <2>8, <4>1
    <3> QED BY <2>5, <3>1 DEF ContentsStand
  <2> QED BY <2>6, <2>7, <2>10, <2>11, <2>12
<1>2. CASE UNCHANGED vars
  BY <1>2 DEF vars, storeVars, localVars, counters, ToolsInv, ToolKnown, GcLockFits, ImportsStand,
              PinsSeen, ContentsStand, Collecting
<1> QED
  BY <1>1, <1>2 DEF Next, ProcStep

\* The programs of a store keep to their own, and what they go by stays true.
THEOREM ToolsKeepToThemselves == Spec => []ToolsInv
<1>1. IInv /\ ToolsInv /\ IInv' /\ [Next]_vars => ToolsInv'
  BY NextToolsInv
<1>2. QED
  BY InvariantHolds, InitToolsInv, <1>1, PTL DEF Spec

\* import-dir and import-path print a path only when it is registered and its
\* whole tree is on disk, also when another process has stored it, whatever
\* failed or was killed meanwhile; paths collected during their import excepted.
THEOREM ImportsDeliver == Spec => ImportDelivers
<1>1. ASSUME IInv, ToolsInv, Next
      PROVE  \A p \in Procs : FinishImport(p) =>
               \A q \in done[p] \ raced : q \in valid /\ disk[q] = "full"
  <2> SUFFICES ASSUME NEW p \in Procs, FinishImport(p), NEW q \in done[p] \ raced
               PROVE  q \in valid /\ disk[q] = "full"
    OBVIOUS
  <2>1. tool[p] \in Importers
    BY <1>1 DEF FinishImport, ToolsInv, ToolKnown
  <2>2. q \in valid
    BY <1>1, <2>1 DEF ToolsInv, ImportsStand
  <2> QED BY <1>1, <2>2 DEF IInv, ValidIsComplete
<1>2. IInv /\ ToolsInv /\ [Next]_vars
        => [\A p \in Procs : FinishImport(p) =>
              \A q \in done[p] \ raced : q \in valid /\ disk[q] = "full"]_vars
  BY <1>1
<1> QED BY <1>2, InvariantHolds, ToolsKeepToThemselves, PTL DEF Spec, ImportDelivers

\* A path with a root that rm-path does not remove stays registered: findRoots
\* has it when the collector comes to it, whichever process imported it and
\* however the links are changed while they are read.
THEOREM PinnedPathsSurvive == Spec => PinnedSurvive
<1>1. ASSUME IInv, ToolsInv, IInv', [Next]_vars
      PROVE  (Pins \cap valid) \ raced' \subseteq valid'
  <2>1. CASE UNCHANGED vars
    BY <2>1 DEF vars, storeVars
  <2>2. ASSUME NEW p \in Procs, ProcStep(p), NEW q \in (Pins \cap valid) \ raced'
        PROVE  q \in valid'
    <3>1. Frame(p) /\ Reach(p) /\ q \in Paths
      BY <1>1, <2>2, FrameStep, ReachStep, PinsAssumption DEF IInv, ProcInv
    <3>2. q \notin raced
      BY <2>2, <3>1 DEF Frame
    <3>3. ~(pc[p] = "invalidate" /\ q = job[p])
      BY <1>1, <2>2, <3>2 DEF ToolsInv, PinsSeen, Collecting, DeletePCs
    <3> QED BY <2>2, <3>1, <3>3 DEF Reach
  <2> QED BY <1>1, <2>1, <2>2 DEF Next, ProcStep
<1>2. IInv /\ ToolsInv /\ IInv' /\ [Next]_vars
        => [(Pins \cap valid) \ raced' \subseteq valid']_vars
  BY <1>1
<1> QED BY <1>2, InvariantHolds, ToolsKeepToThemselves, PTL DEF Spec, PinnedSurvive

\* verify-store reports a path whose tree is intact only when it compares the
\* rows with its listing, and the path was not there when it was listed; what
\* it hashes under its shared gc.lock is registered until it has hashed it.
THEOREM AlarmsAreTrueOrEarly == Spec => AlarmIsTrueOrEarly
<1>1. ASSUME IInv, ToolsInv, [Next]_vars, NEW q \in alarms' \ alarms, disk[q] = "full"
      PROVE  \E p \in Procs : pc[p] = "compare" /\ q \notin snap[p]
  <2>1. PICK p \in Procs : ProcStep(p)
    BY <1>1 DEF Next, ProcStep, vars, storeVars
  <2>2. ComparePaths(p) \/ CheckContents(p)
    <3> USE DEF storeVars
    <3>1. alarms' # alarms
      BY <1>1
    <3>2. ~Starting(p)
      BY <3>1 DEF Starting, Start, StartImportDir, StartImportPath, StartRmPath, StartVerify
    <3>3. ~ImportStep(p)
      BY <3>1 DEF ImportStep, RestoreToTemp, MoveIntoPlace, QueryInfo, ReceiveNext, ReceiveEnd,
                  RestorePath, PathRestored, CheckValid, LockPath, RecheckValid, ClearTarget,
                  TargetCleared, Canonicalise, RegisterValidPath, UnlockPath, AddPermRoot, FinishImport
    <3>4. ~GcStep(p)
      BY <3>1 DEF GcStep, Unroot, CollectGarbage, LockGc, FindRoots, RootsFound, CollectNext,
                  RefuseRoot, InvalidatePath, DeleteStorePath, StorePathDeleted, FinishGc
    <3>5. VerifyStep(p) => ComparePaths(p) \/ CheckContents(p)
      BY <3>1 DEF VerifyStep, LockGcShared, ListStoreDir, StoreDirListed, FinishVerify
    <3>6. ~Fail(p)
      BY <3>1 DEF Fail
    <3> QED BY <2>1, <3>2, <3>3, <3>4, <3>5, <3>6 DEF ProcStep
  <2>3. CASE ComparePaths(p)
    BY <1>1, <2>3 DEF ComparePaths, Goto
  <2>4. CASE CheckContents(p)
    <3>1. PICK r \in queue[p] : alarms' = IF r \in valid /\ disk[r] = "full" THEN alarms
                                          ELSE alarms \cup {r}
      BY <2>4 DEF CheckContents
    <3>2. q = r /\ q \in valid
      BY <1>1, <2>4, <3>1 DEF CheckContents, ToolsInv, ContentsStand
    <3> QED BY <1>1, <3>1, <3>2
  <2> QED BY <2>2, <2>3, <2>4
<1>2. IInv /\ ToolsInv /\ [Next]_vars
        => [\A q \in alarms' \ alarms :
              disk[q] = "full" => \E p \in Procs : pc[p] = "compare" /\ q \notin snap[p]]_vars
  BY <1>1
<1> QED BY <1>2, InvariantHolds, ToolsKeepToThemselves, PTL DEF Spec, AlarmIsTrueOrEarly
=============================================================================
