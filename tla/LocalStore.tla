----------------------------- MODULE LocalStore -----------------------------
(***************************************************************************)
(* The store shared by concurrent tools: import-dir, import-path, rm-path  *)
(* and verify-store (src/arch) over LocalStore (src/src/libstore).  Each   *)
(* process runs one tool at a time; a step is one access to shared state:  *)
(* the valid-path table, the store directory, the gcroots directory, a     *)
(* path lock or gc.lock.                                                   *)
(*                                                                         *)
(* A store path names its content (its hash is in the name), so all that   *)
(* is modelled of a tree is how much of it is on disk.  The path locks are *)
(* those PathMutex promises, of paths that are not broken.                 *)
(***************************************************************************)
EXTENDS Naturals, FiniteSets

CONSTANTS
  Procs,      \* processes
  Paths,      \* store paths
  Pins,       \* paths under a gcroots link that is not named after them
  None,       \* "nobody", "no path"
  MaxStarts   \* bound: tools each process runs

ASSUME NoneAssumption == None \notin Procs /\ None \notin Paths
ASSUME PinsAssumption == Pins \subseteq Paths
ASSUME StartsAssumption == MaxStarts \in Nat

VARIABLES
  valid,    \* rows of ValidPaths
  disk,     \* disk[q]: what <store>/q is
  roots,    \* paths with the link gcroots/<path>
  lock,     \* lock[q]: holder of the PathLocks on q
  gcLock,   \* holders of gc.lock: one collector, or verifiers
  pc,
  tool,     \* the program a process runs
  job,      \* the path it works on
  queue,    \* paths it has still to treat
  done,     \* paths it has treated
  snap,     \* what it has read or written: roots (collector, importers),
            \* directory entries (verifier)
  alarms,   \* paths verify-store has reported
  starts,
  raced     \* history: paths imported during a collection of the same path

storeVars == <<valid, disk, roots, lock, gcLock, alarms>>
localVars == <<tool, job, queue, done, snap>>
counters == <<starts, raced>>
vars == <<storeVars, localVars, pc, counters>>

\* Nothing, part of a tree, all of it, all of it with canonical metadata.
Trees == {"none", "partial", "raw", "full"}
Importers == {"import-dir", "import-path"}
Tools == {"none", "rm-path", "verify-store"} \cup Importers

\* Where the importer holds the path's lock, and the whole of one import.
LockedPCs == {"recheck", "clear", "clearing", "move", "restore", "restoring",
              "canon", "register", "unlock"}
ImportPCs == {"check", "lock", "query"} \cup LockedPCs
DeletePCs == {"invalidate", "delete", "deleting"}
PCs == {"idle", "stage", "recv", "root", "unroot", "gclock", "scan", "next",
        "vlock", "list", "compare", "contents"} \cup ImportPCs \cup DeletePCs

TypeOK ==
  /\ valid \in SUBSET Paths
  /\ disk \in [Paths -> Trees]
  /\ roots \in SUBSET Paths
  /\ lock \in [Paths -> Procs \cup {None}]
  /\ gcLock \in SUBSET Procs
  /\ alarms \in SUBSET Paths
  /\ pc \in [Procs -> PCs]
  /\ tool \in [Procs -> Tools]
  /\ job \in [Procs -> Paths \cup {None}]
  /\ queue \in [Procs -> SUBSET Paths]
  /\ done \in [Procs -> SUBSET Paths]
  /\ snap \in [Procs -> SUBSET Paths]
  /\ starts \in [Procs -> Nat]
  /\ raced \in SUBSET Paths

-----------------------------------------------------------------------------
(* Helpers *)

Goto(p, from, to) ==
  /\ pc[p] = from
  /\ pc' = [pc EXCEPT ![p] = to]

\* p has asked whether q is valid and has not finished with it.
Importing(p, q) ==
  \/ job[p] = q /\ pc[p] \in ImportPCs
  \/ tool[p] \in Importers /\ q \in done[p]

\* p has begun to read the roots and q is still to be deleted.
Collecting(p, q) ==
  \/ pc[p] \in {"scan", "next"} \cup DeletePCs /\ q \in queue[p]
  \/ pc[p] \in DeletePCs /\ q = job[p]

\* An import of q begins, or a collection of the paths S: history variable.
RecordImport(q) == raced' = raced \cup {r \in {q} : \E g \in Procs : Collecting(g, r)}

RecordGc(S) == raced' = raced \cup {r \in S : \E i \in Procs : Importing(i, r)}

\* Mutant: gc.lock is a file whose existence is the lock, not a flock.
ReleaseLeavesGcLock(p) ==
  /\ lock' = [q \in Paths |-> IF lock[q] = p THEN None ELSE lock[q]]
  /\ UNCHANGED gcLock
  /\ pc' = [pc EXCEPT ![p] = "idle"]
  /\ tool' = [tool EXCEPT ![p] = "none"]
  /\ job' = [job EXCEPT ![p] = None]
  /\ queue' = [queue EXCEPT ![p] = {}]
  /\ done' = [done EXCEPT ![p] = {}]
  /\ snap' = [snap EXCEPT ![p] = {}]

\* What every ending releases: path locks, gc.lock and the tool's memory.
Release(p) ==
  /\ lock' = [q \in Paths |-> IF lock[q] = p THEN None ELSE lock[q]]
  /\ gcLock' = gcLock \ {p}
  /\ pc' = [pc EXCEPT ![p] = "idle"]
  /\ tool' = [tool EXCEPT ![p] = "none"]
  /\ job' = [job EXCEPT ![p] = None]
  /\ queue' = [queue EXCEPT ![p] = {}]
  /\ done' = [done EXCEPT ![p] = {}]
  /\ snap' = [snap EXCEPT ![p] = {}]

Init ==
  /\ valid = {}
  /\ disk = [q \in Paths |-> "none"]
  /\ roots = {}
  /\ lock = [q \in Paths |-> None]
  /\ gcLock = {}
  /\ alarms = {}
  /\ pc = [p \in Procs |-> "idle"]
  /\ tool = [p \in Procs |-> "none"]
  /\ job = [p \in Procs |-> None]
  /\ queue = [p \in Procs |-> {}]
  /\ done = [p \in Procs |-> {}]
  /\ snap = [p \in Procs |-> {}]
  /\ starts = [p \in Procs |-> 0]
  /\ raced = {}

\* A process starts tool t at program point `at'.
Start(p, t, at) ==
  /\ starts[p] < MaxStarts
  /\ Goto(p, "idle", at)
  /\ starts' = [starts EXCEPT ![p] = @ + 1]
  /\ tool' = [tool EXCEPT ![p] = t]
  /\ UNCHANGED <<valid, disk, roots, lock, gcLock, alarms, done, snap, raced>>

-----------------------------------------------------------------------------
(* import-dir: LocalStore::addToStoreFromDump *)

\* createTempDirInStore; the dump that will follow has the content of job[p].
\* Nothing but this process looks at its staging directory.
StartImportDir(p) ==
  /\ Start(p, "import-dir", "stage")
  /\ \E q \in Paths : job' = [job EXCEPT ![p] = q]
  /\ UNCHANGED queue

\* restorePathCapturingHashes has filled <tmp>/x and the hash names the path.
RestoreToTemp(p) ==
  /\ Goto(p, "stage", "check")
  /\ RecordImport(job[p])
  /\ UNCHANGED <<storeVars, localVars, starts>>

\* moveFile(tempPath, realPath) swallows every error of rename but EXDEV.
MoveIntoPlace(p) ==
  /\ Goto(p, "move", "canon")
  /\ \/ disk' = [disk EXCEPT ![job[p]] = "raw"]
     \/ UNCHANGED disk
  /\ UNCHANGED <<valid, roots, lock, gcLock, alarms, localVars, counters>>

\* queryPathInfo throws if the path is gone again (see Fail).
QueryInfo(p) ==
  /\ Goto(p, "query", "root")
  /\ job[p] \in valid
  /\ done' = [done EXCEPT ![p] = {job[p]}]
  /\ UNCHANGED <<storeVars, tool, job, queue, snap, counters>>

-----------------------------------------------------------------------------
(* import-path: importVerified and LocalStore::addToStore *)

StartImportPath(p) ==
  /\ Start(p, "import-path", "recv")
  /\ \E S \in SUBSET Paths \ {{}} : queue' = [queue EXCEPT ![p] = S]
  /\ UNCHANGED job

\* One archive was read; its content hashes to the path it claims.
ReceiveNext(p) ==
  /\ Goto(p, "recv", "check")
  /\ \E q \in queue[p] :
       /\ job' = [job EXCEPT ![p] = q]
       /\ queue' = [queue EXCEPT ![p] = @ \ {q}]
       /\ RecordImport(q)
  /\ UNCHANGED <<storeVars, tool, done, snap, starts>>

\* The stream has ended and main() goes on to the rooting loop.
ReceiveEnd(p) ==
  /\ Goto(p, "recv", "root")
  /\ queue[p] = {}
  /\ UNCHANGED <<storeVars, localVars, counters>>

\* restorePath, straight to the real path and node by node: it creates the
\* first node ...
RestorePath(p) ==
  /\ Goto(p, "restore", "restoring")
  /\ disk[job[p]] = "none"
  /\ disk' = [disk EXCEPT ![job[p]] = "partial"]
  /\ UNCHANGED <<valid, roots, lock, gcLock, alarms, localVars, counters>>

\* ... and the last.  A deletion that is under way takes nodes out again.
PathRestored(p) ==
  /\ Goto(p, "restoring", "canon")
  /\ disk[job[p]] = "partial"
  /\ \/ /\ \A g \in Procs : ~(pc[g] = "deleting" /\ job[g] = job[p])
        /\ disk' = [disk EXCEPT ![job[p]] = "raw"]
     \/ /\ \E g \in Procs : pc[g] = "deleting" /\ job[g] = job[p]
        /\ UNCHANGED disk
  /\ UNCHANGED <<valid, roots, lock, gcLock, alarms, localVars, counters>>

-----------------------------------------------------------------------------
(* Both importers *)

\* addToStore returns to the stream, addToStoreFromDump to main().
Returned(p) == IF tool[p] = "import-dir" THEN "query" ELSE "recv"

\* What importVerified has in `res' after this path.
Received(p) == IF tool[p] = "import-dir" THEN {} ELSE done[p] \cup {job[p]}

\* Mutant: what exists on disk is taken for valid.
CheckExists(p) ==
  /\ pc[p] = "check"
  /\ \/ /\ disk[job[p]] # "none"
        /\ pc' = [pc EXCEPT ![p] = Returned(p)]
        /\ done' = [done EXCEPT ![p] = Received(p)]
     \/ /\ disk[job[p]] = "none"
        /\ pc' = [pc EXCEPT ![p] = "lock"]
        /\ UNCHANGED done
  /\ UNCHANGED <<storeVars, tool, job, queue, snap, counters>>

\* isValidPath before the lock
CheckValid(p) ==
  /\ pc[p] = "check"
  /\ \/ /\ job[p] \in valid
        /\ pc' = [pc EXCEPT ![p] = Returned(p)]
        /\ done' = [done EXCEPT ![p] = Received(p)]
     \/ /\ job[p] \notin valid
        /\ pc' = [pc EXCEPT ![p] = "lock"]
        /\ UNCHANGED done
  /\ UNCHANGED <<storeVars, tool, job, queue, snap, counters>>

\* PathLocks outputLock({realPath})
LockPath(p) ==
  /\ Goto(p, "lock", "recheck")
  /\ lock[job[p]] = None
  /\ lock' = [lock EXCEPT ![job[p]] = p]
  /\ UNCHANGED <<valid, disk, roots, gcLock, alarms, localVars, counters>>

\* Mutant: no second check.
RecheckSkipped(p) ==
  /\ Goto(p, "recheck", "clear")
  /\ UNCHANGED <<storeVars, localVars, counters>>

\* isValidPath again, under the lock
RecheckValid(p) ==
  /\ pc[p] = "recheck"
  /\ \/ job[p] \in valid /\ pc' = [pc EXCEPT ![p] = "unlock"]
     \/ job[p] \notin valid /\ pc' = [pc EXCEPT ![p] = "clear"]
  /\ UNCHANGED <<storeVars, localVars, counters>>

\* Deleting a tree, entry by entry: it begins ...
BeginDelete(q) == disk' = [disk EXCEPT ![q] = IF @ = "none" THEN "none" ELSE "partial"]

\* ... and ends, unless entries appeared that were not there before.
EndDelete(q) ==
  /\ disk[q] \in {"none", "partial"}
  /\ disk' = [disk EXCEPT ![q] = "none"]

\* deletePath(realPath): what an interrupted import left goes first.
ClearTarget(p) ==
  /\ Goto(p, "clear", "clearing")
  /\ BeginDelete(job[p])
  /\ UNCHANGED <<valid, roots, lock, gcLock, alarms, localVars, counters>>

TargetCleared(p) ==
  /\ Goto(p, "clearing", IF tool[p] = "import-dir" THEN "move" ELSE "restore")
  /\ EndDelete(job[p])
  /\ UNCHANGED <<valid, roots, lock, gcLock, alarms, localVars, counters>>

\* canonicaliseTimestampAndPermissions throws if the path is not there.
Canonicalise(p) ==
  /\ Goto(p, "canon", "register")
  /\ disk[job[p]] # "none"
  /\ disk' = [disk EXCEPT ![job[p]] = IF @ = "raw" THEN "full" ELSE @]
  /\ UNCHANGED <<valid, roots, lock, gcLock, alarms, localVars, counters>>

\* registerValidPath: one SQLite transaction
RegisterValidPath(p) ==
  /\ Goto(p, "register", "unlock")
  /\ valid' = valid \cup {job[p]}
  /\ UNCHANGED <<disk, roots, lock, gcLock, alarms, localVars, counters>>

\* setDeletion(true) and the end of outputLock's scope
UnlockPath(p) ==
  /\ Goto(p, "unlock", Returned(p))
  /\ lock' = [lock EXCEPT ![job[p]] = None]
  /\ done' = [done EXCEPT ![p] = Received(p)]
  /\ UNCHANGED <<valid, disk, roots, gcLock, alarms, tool, job, queue, snap, counters>>

\* addPermRoot of a path imported: a rename into gcroots, under no lock
AddPermRoot(p) ==
  /\ pc[p] = "root"
  /\ \E q \in done[p] \ snap[p] :
       /\ roots' = roots \cup {q}
       /\ snap' = [snap EXCEPT ![p] = @ \cup {q}]
  /\ UNCHANGED <<valid, disk, lock, gcLock, alarms, pc, tool, job, queue, done, counters>>

\* The importer has rooted everything and prints its paths.
FinishImport(p) ==
  /\ pc[p] = "root"
  /\ done[p] \subseteq snap[p]
  /\ Release(p)
  /\ UNCHANGED <<valid, disk, roots, alarms, counters>>

-----------------------------------------------------------------------------
(* rm-path: main and LocalStore::collectGarbage *)

StartRmPath(p) ==
  /\ Start(p, "rm-path", "unroot")
  /\ \E S \in SUBSET Paths \ {{}} : queue' = [queue EXCEPT ![p] = S]
  /\ UNCHANGED job

\* main() removes the links named after its arguments, one by one ...
Unroot(p) ==
  /\ pc[p] = "unroot"
  /\ \E q \in queue[p] \ done[p] :
       /\ roots' = roots \ {q}
       /\ done' = [done EXCEPT ![p] = @ \cup {q}]
  /\ UNCHANGED <<valid, disk, lock, gcLock, alarms, pc, tool, job, queue, snap, counters>>

\* ... and then collects.
CollectGarbage(p) ==
  /\ Goto(p, "unroot", "gclock")
  /\ done[p] = queue[p]
  /\ done' = [done EXCEPT ![p] = {}]
  /\ UNCHANGED <<storeVars, tool, job, queue, snap, counters>>

\* FdLock gcLock(..., ltWrite, ...)
LockGc(p) ==
  /\ Goto(p, "gclock", "scan")
  /\ gcLock = {}
  /\ gcLock' = {p}
  /\ RecordGc(queue[p])
  /\ UNCHANGED <<valid, disk, roots, lock, alarms, localVars, starts>>

\* Mutant: only the link named after the path is looked at.
IsRootByName(q) == q \in roots \cap valid

\* A link counts if the path it names is valid.
IsRoot(q) == q \in (roots \cup Pins) \cap valid

\* findRoots reads the gcroots directory link by link.
FindRoots(p) ==
  /\ pc[p] = "scan"
  /\ \E q \in Paths \ done[p] :
       /\ snap' = [snap EXCEPT ![p] = IF IsRoot(q) THEN @ \cup {q} ELSE @]
       /\ done' = [done EXCEPT ![p] = @ \cup {q}]
  /\ UNCHANGED <<storeVars, pc, tool, job, queue, counters>>

RootsFound(p) ==
  /\ Goto(p, "scan", "next")
  /\ done[p] = Paths
  /\ done' = [done EXCEPT ![p] = {}]
  /\ UNCHANGED <<storeVars, tool, job, queue, snap, counters>>

\* The next path of options.paths: a root is refused, which ends rm-path.
CollectNext(p) ==
  /\ Goto(p, "next", "invalidate")
  /\ \E q \in queue[p] \ snap[p] :
       /\ job' = [job EXCEPT ![p] = q]
       /\ queue' = [queue EXCEPT ![p] = @ \ {q}]
  /\ UNCHANGED <<storeVars, tool, done, snap, counters>>

RefuseRoot(p) ==
  /\ pc[p] = "next"
  /\ queue[p] \cap snap[p] # {}
  /\ Release(p)
  /\ UNCHANGED <<valid, disk, roots, alarms, counters>>

\* invalidatePathChecked: paths of this store have no referrers.
InvalidatePath(p) ==
  /\ Goto(p, "invalidate", "delete")
  /\ valid' = valid \ {job[p]}
  /\ UNCHANGED <<disk, roots, lock, gcLock, alarms, localVars, counters>>

\* deleteStorePath(realPath), without the path's lock
DeleteStorePath(p) ==
  /\ Goto(p, "delete", "deleting")
  /\ BeginDelete(job[p])
  /\ UNCHANGED <<valid, roots, lock, gcLock, alarms, localVars, counters>>

StorePathDeleted(p) ==
  /\ Goto(p, "deleting", "next")
  /\ EndDelete(job[p])
  /\ UNCHANGED <<valid, roots, lock, gcLock, alarms, localVars, counters>>

FinishGc(p) ==
  /\ pc[p] = "next"
  /\ queue[p] = {}
  /\ Release(p)
  /\ UNCHANGED <<valid, disk, roots, alarms, counters>>

-----------------------------------------------------------------------------
(* verify-store: LocalStore::verifyStore, which reports and repairs nothing *)

StartVerify(p) ==
  /\ Start(p, "verify-store", "vlock")
  /\ UNCHANGED <<job, queue>>

\* Mutant: the verifier does not wait for a collector
LockGcSharedAtOnce(p) ==
  /\ Goto(p, "vlock", "list")
  /\ gcLock' = gcLock \cup {p}
  /\ UNCHANGED <<valid, disk, roots, lock, alarms, localVars, counters>>

\* FdLock gcLock(..., ltRead, ...): shared with other verifiers
LockGcShared(p) ==
  /\ Goto(p, "vlock", "list")
  /\ \A g \in gcLock : tool[g] = "verify-store"
  /\ gcLock' = gcLock \cup {p}
  /\ UNCHANGED <<valid, disk, roots, lock, alarms, localVars, counters>>

\* verifyAllValidPaths reads the store directory, entry by entry ...
ListStoreDir(p) ==
  /\ pc[p] = "list"
  /\ \E q \in Paths \ done[p] :
       /\ snap' = [snap EXCEPT ![p] = IF disk[q] # "none" THEN @ \cup {q} ELSE @]
       /\ done' = [done EXCEPT ![p] = @ \cup {q}]
  /\ UNCHANGED <<storeVars, pc, tool, job, queue, counters>>

StoreDirListed(p) ==
  /\ Goto(p, "list", "compare")
  /\ done[p] = Paths
  /\ UNCHANGED <<storeVars, localVars, counters>>

\* ... and then the database: a row without an entry has "disappeared".  The
\* rows with one are re-hashed under --content.
ComparePaths(p) ==
  /\ Goto(p, "compare", "contents")
  /\ alarms' = alarms \cup (valid \ snap[p])
  /\ \E S \in {{}, valid \cap snap[p]} : queue' = [queue EXCEPT ![p] = S]
  /\ UNCHANGED <<valid, disk, roots, lock, gcLock, tool, job, done, snap, counters>>

CheckContents(p) ==
  /\ pc[p] = "contents"
  /\ \E q \in queue[p] :
       /\ queue' = [queue EXCEPT ![p] = @ \ {q}]
       /\ alarms' = IF q \in valid /\ disk[q] = "full" THEN alarms ELSE alarms \cup {q}
  /\ UNCHANGED <<valid, disk, roots, lock, gcLock, pc, tool, job, done, snap, counters>>

FinishVerify(p) ==
  /\ pc[p] = "contents"
  /\ queue[p] = {}
  /\ Release(p)
  /\ UNCHANGED <<valid, disk, roots, alarms, counters>>

-----------------------------------------------------------------------------
(* Failure *)

\* States in which the code cannot go on: the path is gone, or a tree that was
\* deleted has entries again.
MustThrow(p) ==
  \/ pc[p] = "query" /\ job[p] \notin valid
  \/ pc[p] = "restore" /\ disk[job[p]] # "none"
  \/ pc[p] = "restoring" /\ disk[job[p]] # "partial"
  \/ pc[p] = "canon" /\ disk[job[p]] = "none"
  \/ pc[p] \in {"clearing", "deleting"} /\ disk[job[p]] \in {"raw", "full"}

\* An exception or a kill, anywhere: unwinding or the kernel releases the locks,
\* and what is on disk stays as it is.
Fail(p) ==
  /\ pc[p] # "idle"
  /\ Release(p)
  /\ UNCHANGED <<valid, disk, roots, alarms, counters>>

-----------------------------------------------------------------------------

Starting(p) ==
  StartImportDir(p) \/ StartImportPath(p) \/ StartRmPath(p) \/ StartVerify(p)

ImportStep(p) ==
  \/ RestoreToTemp(p) \/ MoveIntoPlace(p) \/ QueryInfo(p)
  \/ ReceiveNext(p) \/ ReceiveEnd(p) \/ RestorePath(p) \/ PathRestored(p)
  \/ CheckValid(p) \/ LockPath(p) \/ RecheckValid(p) \/ ClearTarget(p) \/ TargetCleared(p)
  \/ Canonicalise(p) \/ RegisterValidPath(p) \/ UnlockPath(p)
  \/ AddPermRoot(p) \/ FinishImport(p)

GcStep(p) ==
  \/ Unroot(p) \/ CollectGarbage(p) \/ LockGc(p) \/ FindRoots(p) \/ RootsFound(p)
  \/ CollectNext(p) \/ RefuseRoot(p)
  \/ InvalidatePath(p) \/ DeleteStorePath(p) \/ StorePathDeleted(p) \/ FinishGc(p)

VerifyStep(p) ==
  \/ LockGcShared(p) \/ ListStoreDir(p) \/ StoreDirListed(p) \/ ComparePaths(p)
  \/ CheckContents(p) \/ FinishVerify(p)

Next ==
  \E p \in Procs :
    Starting(p) \/ ImportStep(p) \/ GcStep(p) \/ VerifyStep(p) \/ Fail(p)

Spec == Init /\ [][Next]_vars

\* A running tool keeps running.  A failure is owed only where the code
\* cannot go on: a waiter does not get away by failing.
Fairness ==
  \A p \in Procs :
    /\ WF_vars(ImportStep(p) \/ GcStep(p) \/ VerifyStep(p))
    /\ WF_vars(MustThrow(p) /\ Fail(p))

FairSpec == Spec /\ Fairness

-----------------------------------------------------------------------------
(* Properties *)

\* A registered path is complete and canonical on disk, whatever crashed or
\* failed before and whoever imports it now, unless a collection of the same
\* path ran during its import.
ValidIsComplete == \A q \in valid \ raced : disk[q] = "full"

\* The same without the exception: src/src/README.md says that "a sweep and an
\* import serialise against each other".
AlwaysValidIsComplete == \A q \in valid : disk[q] = "full"

\* Success means stored: all that an importer prints when it ends is
\* registered and complete, also when another process did the work.
ImportDelivers ==
  [][\A p \in Procs : FinishImport(p) =>
       \A q \in done[p] \ raced : q \in valid /\ disk[q] = "full"]_vars

\* A path with a root that rm-path does not remove is never collected.
PinnedSurvive == [][(Pins \cap valid) \ raced' \subseteq valid']_vars

\* verify-store reports an intact path only if it landed after the directory was
\* listed: under the shared gc.lock no path it has listed is collected before
\* its content is checked.
AlarmIsTrueOrEarly ==
  [][\A q \in alarms' \ alarms :
       disk[q] = "full" => \E p \in Procs : pc[p] = "compare" /\ q \notin snap[p]]_vars

\* Every tool ends: path locks and gc.lock leave no cycle of waiters.
ToolsEnd == \A p \in Procs : pc[p] # "idle" ~> pc[p] = "idle"

-----------------------------------------------------------------------------
(* The inductive invariant behind ValidIsComplete *)

\* Where a process is about to change what is on disk under its path.
WritePCs == {"clear", "clearing", "move", "restore", "restoring", "canon", "delete", "deleting"}

\* A process that imports or deletes has a path to work on.
HasJob(p) == pc[p] \in ImportPCs \cup DeletePCs \cup {"stage"} => job[p] \in Paths

\* Inside its critical section an importer holds the lock of its path.
HoldsLock(p) == pc[p] \in LockedPCs => lock[job[p]] = p

\* Only importers have imports in `done', and an ended tool has nothing there.
ToolFits(p) ==
  /\ pc[p] = "idle" => done[p] = {}
  /\ tool[p] \in Importers => pc[p] \in ImportPCs \cup {"stage", "recv", "root"}

\* Only the holder of its lock makes a path valid, and only in the last step;
\* a path is invalid before it is deleted.
IsFresh(p) ==
  pc[p] \in WritePCs \cup {"register"} /\ job[p] \notin raced => job[p] \notin valid

\* What is on disk at each point of an import nobody interferes with.
TargetFits(p) ==
  job[p] \notin raced =>
    /\ pc[p] \in {"move", "restore"} => disk[job[p]] = "none"
    /\ pc[p] = "restoring" => disk[job[p]] = "partial"
    /\ pc[p] = "canon" => disk[job[p]] \in {"none", "raw"}
    /\ pc[p] = "register" => disk[job[p]] = "full"

ProcInv ==
  \A p \in Procs : HasJob(p) /\ HoldsLock(p) /\ ToolFits(p) /\ IsFresh(p) /\ TargetFits(p)

\* Every overlap of an import and a collection is on record.
RacedInv ==
  \A q \in Paths : \A p, g \in Procs : Importing(p, q) /\ Collecting(g, q) => q \in raced

IInv == TypeOK /\ ProcInv /\ RacedInv /\ ValidIsComplete

-----------------------------------------------------------------------------
(* The inductive invariant behind the action properties *)

CollectPCs == {"scan", "next"} \cup DeletePCs
ListPCs == {"list", "compare", "contents"}

\* Each program has its own program points; a collector starts with nothing read.
ToolKnown(p) ==
  /\ pc[p] \in ImportPCs \cup {"stage", "recv", "root"} => tool[p] \in Importers
  /\ pc[p] \in {"unroot", "gclock"} \cup CollectPCs => tool[p] = "rm-path"
  /\ pc[p] \in {"vlock"} \cup ListPCs => tool[p] = "verify-store"
  /\ pc[p] = "gclock" => done[p] = {}

\* gc.lock belongs to one collector or to verifiers.
GcLockFits(p) ==
  /\ pc[p] \in CollectPCs => gcLock = {p}
  /\ pc[p] \in ListPCs => p \in gcLock

\* What an importer has found or made valid stays so until it ends.
ImportsStand(p) ==
  /\ tool[p] \in Importers => done[p] \ raced \subseteq valid
  /\ pc[p] = "unlock" /\ job[p] \notin raced => job[p] \in valid

\* A collector that has looked at the link of a valid path has it as a root,
\* and does not work on what it has as a root.
PinsSeen(p) ==
  /\ pc[p] \in DeletePCs => job[p] \notin snap[p]
  /\ \A q \in (Pins \cap valid) \ raced :
       Collecting(p, q) /\ (pc[p] = "scan" => q \in done[p]) => q \in snap[p]

\* What a verifier is about to hash stays registered.
ContentsStand(p) == pc[p] = "contents" => queue[p] \subseteq valid

ToolsInv ==
  \A p \in Procs :
    ToolKnown(p) /\ GcLockFits(p) /\ ImportsStand(p) /\ PinsSeen(p) /\ ContentsStand(p)
=============================================================================
