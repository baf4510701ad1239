------------------------------ MODULE Database ------------------------------
(***************************************************************************)
(* Processes that register, invalidate and query store paths               *)
(* (libstore/local-store.cc) through the SQLite wrapper                    *)
(* (libstore/sqlite.cc), on a machine that may lose power.                 *)
(*                                                                         *)
(* SQLite is external: a deferred transaction takes its snapshot at the    *)
(* first select; its first write needs the one write lock and a snapshot   *)
(* that is still the current database, and is SQLITE_BUSY otherwise; a     *)
(* commit in the write-ahead log is not synced until a checkpoint.  The    *)
(* wrapper turns SQLITE_BUSY into an exception that rolls back and runs    *)
(* the whole transaction again.                                            *)
(*                                                                         *)
(* A tree is "none", "torn" or "whole"; after[q] holds what may be found   *)
(* in its place if the power fails now.                                    *)
(***************************************************************************)
EXTENDS Naturals, Sequences

CONSTANTS
    Procs,
    Paths,
    None,
    Scenarios,      \* what the processes do, and the settings
    MaxAttempts,    \* directories createTempDirInStore tries (64 in the code)
    MaxFailures     \* bound: kills and power failures

(* What a process can be asked for.  The tools store generations, which    *)
(* have no references; registerValidPath and the tables take any.          *)
Jobs ==
    {j \in [op : {"import", "remove", "query"}, path : Paths, refs : SUBSET Paths] :
        j.op = "import" \/ j.refs = {}}

ASSUME NoneAssumption == None \notin Procs

ASSUME ScenariosAssumption == \A s \in Scenarios : s.todo \in [Procs -> Seq(Jobs)]

VARIABLES
    log, synced,    \* the database, see StoreTable
    writer,         \* the connection that has SQLite's write lock
    pathLock,       \* holder of the PathLocks on a path
    disk, after,    \* the trees
    staging,        \* temporary directories in the store
    pc, todo, job,
    snap, view,     \* the snapshot of a transaction, what it sees
    own,            \* the staging directory of an import
    made,           \* staging directories a process has made in all
    attempts,       \* by this import
    answer,         \* of queryPathInfo: the path and its references
    settings,
    removed,        \* history: paths invalidated since they were last registered with
                    \* a synced tree
    mishaps,        \* history: has a staging directory been abandoned
    failures

tableVars == <<log, synced>>
diskVars == <<disk, after, removed>>
txnVars == <<writer, snap, view>>
stagingVars == <<staging, own, made, attempts, mishaps>>
fixedVars == <<settings, failures>>
vars == <<tableVars, diskVars, txnVars, stagingVars, fixedVars, pathLock, pc, todo, job, answer>>

Table == INSTANCE StoreTable

Current == Table!Current

NoJob == [op |-> "none", path |-> None, refs |-> {}]

NoAnswer == [path |-> None, refs |-> {}]

Init ==
    /\ log = <<Table!EmptyDb>> /\ synced = 1
    /\ writer = None
    /\ pathLock = [q \in Paths |-> None]
    /\ disk = [q \in Paths |-> "none"]
    /\ after = [q \in Paths |-> {"none"}]
    /\ staging = {}
    /\ pc = [p \in Procs |-> "idle"]
    /\ job = [p \in Procs |-> NoJob]
    /\ snap = [p \in Procs |-> 0]
    /\ view = [p \in Procs |-> Table!EmptyDb]
    /\ own = [p \in Procs |-> 0]
    /\ made = [p \in Procs |-> 0]
    /\ attempts = [p \in Procs |-> 0]
    /\ answer = [p \in Procs |-> NoAnswer]
    /\ removed = {} /\ mishaps = FALSE /\ failures = 0
    /\ \E s \in Scenarios : todo = s.todo /\ settings = s.settings

(* Where a process can be between two of its steps. *)
Labels ==
    {"idle", "mkdir", "check", "lock", "recheck", "place", "sync", "select", "write", "busy", "refs",
     "commit", "delete", "cleanup", "info", "infoRefs"}

Goto(p, to) == pc' = [pc EXCEPT ![p] = to]

Start(p) ==
    /\ pc[p] = "idle" /\ todo[p] # <<>>
    /\ job' = [job EXCEPT ![p] = Head(todo[p])]
    /\ todo' = [todo EXCEPT ![p] = Tail(@)]
    /\ attempts' = [attempts EXCEPT ![p] = 0]
    /\ answer' = [answer EXCEPT ![p] = NoAnswer]
    /\ Goto(p, CASE Head(todo[p]).op = "import" -> "mkdir"
                 [] Head(todo[p]).op = "remove" -> "select"
                 [] Head(todo[p]).op = "query" -> "info")
    /\ UNCHANGED <<tableVars, diskVars, txnVars, fixedVars, pathLock, staging, own, made, mishaps>>

(* Mutant: the transaction's destructor does not roll back. *)
ThrowWithoutRollback(p) ==
    /\ Goto(p, "cleanup")
    /\ UNCHANGED writer

(* An exception leaves the transaction, which is rolled back, and then the *)
(* operation.                                                              *)
Throw(p) ==
    /\ Goto(p, "cleanup")
    /\ writer' = IF writer = p THEN None ELSE writer

--------------------------------------------------------------------------------
(* createTempDirInStore: a directory that cannot be opened stays behind.   *)
MakeDir(p) ==
    /\ pc[p] = "mkdir" /\ attempts[p] < MaxAttempts
    /\ made' = [made EXCEPT ![p] = @ + 1]
    /\ staging' = staging \cup {<<p, made[p] + 1>>}
    /\ \/ /\ own' = [own EXCEPT ![p] = made[p] + 1]
          /\ Goto(p, "check")
          /\ UNCHANGED <<attempts, mishaps>>
       \/ /\ attempts' = [attempts EXCEPT ![p] = @ + 1]
          /\ mishaps' = TRUE
          /\ UNCHANGED <<own, pc>>
    /\ UNCHANGED <<tableVars, diskVars, txnVars, fixedVars, pathLock, todo, job, answer>>

MakeDirFails(p) ==
    /\ pc[p] = "mkdir" /\ attempts[p] = MaxAttempts
    /\ Throw(p)
    /\ UNCHANGED <<tableVars, diskVars, stagingVars, fixedVars, pathLock, snap, view, todo, job, answer>>

(* addToStoreFromDump, once the dump has been restored: isValidPath, the   *)
(* lock, isValidPath again.                                                *)
Check(p) ==
    /\ pc[p] = "check"
    /\ Goto(p, IF Table!IsValid(Current, job[p].path) THEN "cleanup" ELSE "lock")
    /\ UNCHANGED <<tableVars, diskVars, txnVars, stagingVars, fixedVars, pathLock, todo, job, answer>>

Lock(p) ==
    /\ pc[p] = "lock" /\ pathLock[job[p].path] = None
    /\ pathLock' = [pathLock EXCEPT ![job[p].path] = p]
    /\ Goto(p, "recheck")
    /\ UNCHANGED <<tableVars, diskVars, txnVars, stagingVars, fixedVars, todo, job, answer>>

Recheck(p) ==
    /\ pc[p] = "recheck"
    /\ Goto(p, IF Table!IsValid(Current, job[p].path) THEN "cleanup" ELSE "place")
    /\ UNCHANGED <<tableVars, diskVars, txnVars, stagingVars, fixedVars, pathLock, todo, job, answer>>

(* deletePath, moveFile, canonicalisation, optimisePath: none of it is on  *)
(* disk yet.                                                               *)
Place(p) ==
    /\ pc[p] = "place"
    /\ disk' = [disk EXCEPT ![job[p].path] = "whole"]
    /\ after' = [after EXCEPT ![job[p].path] = {"none", "torn", "whole"}]
    /\ Goto(p, "sync")
    /\ UNCHANGED <<tableVars, removed, txnVars, stagingVars, fixedVars, pathLock, todo, job, answer>>

(* Mutant: the files are synced, the directories they are in are not. *)
SyncFiles(p) ==
    /\ pc[p] = "sync"
    /\ Goto(p, "select")
    /\ UNCHANGED <<tableVars, diskVars, txnVars, stagingVars, fixedVars, pathLock, todo, job, answer>>

(* recursiveSync and syncParent if fsyncStorePaths, then sync() if         *)
(* syncBeforeRegistering.  Syncing a tree that has been deleted throws.    *)
SyncTree(p) ==
    LET q == job[p].path
        synced1 == [after EXCEPT ![q] = IF settings.fsyncStorePaths THEN {disk[q]} ELSE @]
    IN  /\ pc[p] = "sync"
        /\ IF settings.fsyncStorePaths /\ disk[q] # "whole"
           THEN Throw(p) /\ UNCHANGED after
           ELSE /\ after' = IF settings.syncBeforeRegistering THEN [r \in Paths |-> {disk[r]}] ELSE synced1
                /\ Goto(p, "select")
                /\ UNCHANGED writer
        /\ UNCHANGED <<tableVars, disk, removed, stagingVars, fixedVars, pathLock, snap, view, todo, job, answer>>

--------------------------------------------------------------------------------
(* registerValidPath and invalidatePathChecked: begin, and the selects     *)
(* that decide what to write.                                              *)
Select(p) ==
    LET q == job[p].path IN
    /\ pc[p] = "select"
    /\ snap' = [snap EXCEPT ![p] = Len(log)]
    /\ view' = [view EXCEPT ![p] = Current]
    /\ CASE job[p].op = "import" -> Goto(p, "write") /\ UNCHANGED writer
         [] job[p].op = "remove" /\ ~Table!IsValid(Current, q) -> Goto(p, "delete") /\ UNCHANGED writer
         [] job[p].op = "remove" /\ Table!IsValid(Current, q) ->
              IF Table!Referrers(Current, q) = {} THEN Goto(p, "write") /\ UNCHANGED writer ELSE Throw(p)
    /\ UNCHANGED <<tableVars, diskVars, stagingVars, fixedVars, pathLock, todo, job, answer>>

(* Mutant: only the statement is tried again, with what was read before. *)
WriteStale(p) ==
    /\ pc[p] = "write" /\ writer = None
    /\ writer' = p
    /\ view' = [view EXCEPT ![p] = IF job[p].op = "import" THEN Table!AddValidPath(@, job[p].path)
                                   ELSE Table!InvalidatePath(@, job[p].path)]
    /\ Goto(p, IF job[p].refs = {} THEN "commit" ELSE "refs")
    /\ UNCHANGED <<tableVars, diskVars, stagingVars, fixedVars, pathLock, snap, todo, job, answer>>

(* The first write: the write lock, or SQLITE_BUSY. *)
Write(p) ==
    /\ pc[p] = "write"
    /\ IF writer = None /\ snap[p] = Len(log)
       THEN /\ writer' = p
            /\ view' = [view EXCEPT ![p] = IF job[p].op = "import" THEN Table!AddValidPath(@, job[p].path)
                                           ELSE Table!InvalidatePath(@, job[p].path)]
            /\ Goto(p, IF job[p].refs = {} THEN "commit" ELSE "refs")
       ELSE Goto(p, "busy") /\ UNCHANGED <<writer, view>>
    /\ UNCHANGED <<tableVars, diskVars, stagingVars, fixedVars, pathLock, snap, todo, job, answer>>

(* handleSQLiteBusy: sleep and start over, unless interrupted. *)
Busy(p) ==
    /\ pc[p] = "busy"
    /\ (Goto(p, "select") /\ UNCHANGED writer) \/ Throw(p)
    /\ UNCHANGED <<tableVars, diskVars, stagingVars, fixedVars, pathLock, snap, view, todo, job, answer>>

(* The references: queryValidPathId throws for a path without a row. *)
AddRefs(p) ==
    /\ pc[p] = "refs"
    /\ IF \A q \in job[p].refs : Table!IsValid(view[p], q)
       THEN /\ view' = [view EXCEPT ![p] = Table!AddReferences(@, job[p].path, job[p].refs)]
            /\ Goto(p, "commit")
            /\ UNCHANGED writer
       ELSE Throw(p) /\ UNCHANGED view
    /\ UNCHANGED <<tableVars, diskVars, stagingVars, fixedVars, pathLock, snap, todo, job, answer>>

(* The tree is there, and still is if the power fails now. *)
Durable(q) == disk[q] = "whole" /\ after[q] = {"whole"}

Commit(p) ==
    /\ pc[p] = "commit"
    /\ log' = Append(log, view[p])
    /\ writer' = None
    /\ removed' = IF job[p].op = "remove" THEN removed \cup {job[p].path}
                  ELSE IF Durable(job[p].path) THEN removed \ {job[p].path} ELSE removed
    /\ Goto(p, IF job[p].op = "remove" THEN "delete" ELSE "cleanup")
    /\ UNCHANGED <<synced, disk, after, stagingVars, fixedVars, pathLock, snap, view, todo, job, answer>>

(* collectGarbage goes on to delete the tree. *)
Delete(p) ==
    /\ pc[p] = "delete"
    /\ disk' = [disk EXCEPT ![job[p].path] = "none"]
    /\ after' = [after EXCEPT ![job[p].path] = @ \cup {"none", "torn"}]
    /\ removed' = removed \cup {job[p].path}
    /\ Goto(p, "cleanup")
    /\ UNCHANGED <<tableVars, txnVars, stagingVars, fixedVars, pathLock, todo, job, answer>>

(* Mutant: the directory is kept when the tree was moved out of it. *)
CleanupKeepsStaging(p) ==
    /\ pc[p] = "cleanup"
    /\ pathLock' = [q \in Paths |-> IF pathLock[q] = p THEN None ELSE pathLock[q]]
    /\ own' = [own EXCEPT ![p] = 0]
    /\ job' = [job EXCEPT ![p] = NoJob]
    /\ snap' = [snap EXCEPT ![p] = 0]
    /\ view' = [view EXCEPT ![p] = Table!EmptyDb]
    /\ Goto(p, "idle")
    /\ UNCHANGED <<tableVars, diskVars, writer, fixedVars, staging, made, attempts, mishaps, todo, answer>>

(* The destructors: the path lock, and AutoDelete on the staging directory. *)
Cleanup(p) ==
    /\ pc[p] = "cleanup"
    /\ pathLock' = [q \in Paths |-> IF pathLock[q] = p THEN None ELSE pathLock[q]]
    /\ staging' = staging \ {<<p, own[p]>>}
    /\ own' = [own EXCEPT ![p] = 0]
    /\ job' = [job EXCEPT ![p] = NoJob]
    /\ snap' = [snap EXCEPT ![p] = 0]
    /\ view' = [view EXCEPT ![p] = Table!EmptyDb]
    /\ Goto(p, "idle")
    /\ UNCHANGED <<tableVars, diskVars, writer, fixedVars, made, attempts, mishaps, todo, answer>>

--------------------------------------------------------------------------------
(* queryPathInfoInternal: the first statement is not reset before the      *)
(* second is run, so that both read one snapshot.                          *)
Info(p) ==
    LET q == job[p].path IN
    /\ pc[p] = "info"
    /\ snap' = [snap EXCEPT ![p] = Len(log)]
    /\ view' = [view EXCEPT ![p] = Current]
    /\ Goto(p, IF Table!IsValid(Current, q) THEN "infoRefs" ELSE "cleanup")
    /\ UNCHANGED <<tableVars, diskVars, stagingVars, fixedVars, writer, pathLock, todo, job, answer>>

RefsOf(db, id) == {r.path : r \in {s \in db.rows : <<id, s.id>> \in db.refs}}

(* Mutant: the second statement takes a snapshot of its own. *)
InfoRefsAfresh(p) ==
    LET q == job[p].path IN
    /\ pc[p] = "infoRefs"
    /\ answer' = [answer EXCEPT ![p] = [path |-> q, refs |-> RefsOf(Current, Table!IdOf(view[p], q))]]
    /\ Goto(p, "cleanup")
    /\ UNCHANGED <<tableVars, diskVars, txnVars, stagingVars, fixedVars, pathLock, todo, job>>

InfoRefs(p) ==
    LET q == job[p].path IN
    /\ pc[p] = "infoRefs"
    /\ answer' = [answer EXCEPT ![p] = [path |-> q, refs |-> RefsOf(view[p], Table!IdOf(view[p], q))]]
    /\ Goto(p, "cleanup")
    /\ UNCHANGED <<tableVars, diskVars, txnVars, stagingVars, fixedVars, pathLock, todo, job>>

--------------------------------------------------------------------------------
(* The processes in dead are gone, with their locks and transactions. *)
Dead(dead) ==
    /\ pc' = [p \in Procs |-> IF p \in dead THEN "idle" ELSE pc[p]]
    /\ job' = [p \in Procs |-> IF p \in dead THEN NoJob ELSE job[p]]
    /\ own' = [p \in Procs |-> IF p \in dead THEN 0 ELSE own[p]]
    /\ writer' = IF writer \in dead THEN None ELSE writer
    /\ snap' = [p \in Procs |-> IF p \in dead THEN 0 ELSE snap[p]]
    /\ view' = [p \in Procs |-> IF p \in dead THEN Table!EmptyDb ELSE view[p]]
    /\ pathLock' = [q \in Paths |-> IF pathLock[q] \in dead THEN None ELSE pathLock[q]]
    /\ mishaps' = TRUE
    /\ failures' = failures + 1

Kill(p) ==
    /\ pc[p] # "idle" /\ failures < MaxFailures
    /\ Dead({p})
    /\ UNCHANGED <<tableVars, diskVars, staging, made, attempts, todo, answer, settings>>

PowerFailure ==
    /\ failures < MaxFailures
    /\ Dead(Procs)
    /\ \E n \in synced .. Len(log) :
         /\ log' = SubSeq(log, 1, n)
         /\ removed' = removed \cup {q \in Paths : /\ Table!IsValid(log[n], q)
                                                 /\ \E i \in n .. Len(log) : ~Table!IsValid(log[i], q)}
    /\ disk' \in {d \in [Paths -> {"none", "torn", "whole"}] : \A q \in Paths : d[q] \in after[q]}
    /\ after' = [q \in Paths |-> {disk'[q]}]
    /\ staging' \in SUBSET staging
    /\ UNCHANGED <<synced, made, attempts, todo, answer, settings>>

(* SQLite copies the log into the database file and syncs it. *)
Checkpoint ==
    /\ synced < Len(log)
    /\ synced' = Len(log)
    /\ UNCHANGED <<log, diskVars, txnVars, stagingVars, fixedVars, pathLock, pc, todo, job, answer>>

Finished ==
    /\ \A p \in Procs : pc[p] = "idle" /\ todo[p] = <<>>
    /\ UNCHANGED vars

Step(p) ==
    \/ MakeDir(p) \/ MakeDirFails(p) \/ Check(p) \/ Lock(p) \/ Recheck(p) \/ Place(p) \/ SyncTree(p)
    \/ Select(p) \/ Write(p) \/ Busy(p) \/ AddRefs(p) \/ Commit(p) \/ Delete(p) \/ Cleanup(p)
    \/ Info(p) \/ InfoRefs(p)

Next ==
    \/ \E p \in Procs : Start(p) \/ Step(p) \/ Kill(p)
    \/ PowerFailure
    \/ Checkpoint
    \/ Finished

(* A process that is not killed keeps running. *)
Spec == Init /\ [][Next]_vars /\ \A p \in Procs : WF_vars(Step(p))

--------------------------------------------------------------------------------
(* The retried transactions of all processes, killed ones and interrupted  *)
(* ones included, amount to whole registrations and invalidations, each    *)
(* decided on the database it is applied to.                               *)
TransactionsAreAtomic == Table!Spec

(* No path has two rows, and no reference points to a row that is gone,    *)
(* in the database and in every earlier one a power failure can bring      *)
(* back.                                                                   *)
DatabaseIsConsistent == \A i \in 1 .. Len(log) : Table!Consistent(log[i])

(* The inductive invariant behind the two: the database has its type ...   *)
LogInv ==
    /\ log \in Seq(Table!Databases) /\ log # <<>>
    /\ synced \in 1 .. Len(log)
    /\ DatabaseIsConsistent

(* ... a process has a job, and not a job done already ...                 *)
JobInv ==
    /\ todo \in [Procs -> Seq(Jobs)]
    /\ job \in [Procs -> Jobs \cup {NoJob}]
    /\ \A p \in Procs : pc[p] \notin {"idle", "cleanup"} => job[p] \in Jobs

(* ... a transaction that reads sees a database there has been, and one    *)
(* that writes, of which there is one, sees the current database and what  *)
(* it has written itself.                                                  *)
TxnOf(p) ==
    LET q == job[p].path
        refs == job[p].refs
    IN  /\ writer = p <=> pc[p] \in {"refs", "commit"}
        /\ pc[p] \in {"mkdir", "check", "lock", "recheck", "place", "sync", "refs"} => job[p].op = "import"
        /\ pc[p] \in {"select", "write", "busy", "commit"} => job[p].op \in {"import", "remove"}
        /\ pc[p] = "write" =>
             /\ snap[p] \in 1 .. Len(log) /\ view[p] = log[snap[p]]
             /\ job[p].op = "remove" => Table!IsValid(view[p], q) /\ Table!Referrers(view[p], q) = {}
        /\ pc[p] = "refs" => view[p] = Table!AddValidPath(Current, q)
        /\ pc[p] = "commit" /\ job[p].op = "import" =>
             /\ \A r \in refs : r = q \/ Table!IsValid(Current, r)
             /\ view[p] = Table!Registered(Current, q, refs)
        /\ pc[p] = "commit" /\ job[p].op = "remove" =>
             /\ Table!IsValid(Current, q) /\ Table!Referrers(Current, q) = {}
             /\ view[p] = Table!InvalidatePath(Current, q)

TxnInv ==
    /\ pc \in [Procs -> Labels] /\ view \in [Procs -> Table!Databases] /\ snap \in [Procs -> Nat]
    /\ \A p \in Procs : TxnOf(p)

IInv == LogInv /\ JobInv /\ TxnInv

(* The snapshot of a query is a database there has been, as long as no     *)
(* power failure has taken it back.                                        *)
InfoInv ==
    /\ failures \in Nat
    /\ answer \in [Procs -> [path : Paths \cup {None}, refs : SUBSET Paths]]
    /\ failures = 0 => \A p \in Procs : pc[p] = "infoRefs" =>
         /\ \E i \in 1 .. Len(log) : view[p] = log[i]
         /\ Table!IsValid(view[p], job[p].path)

TrueOf(db, info) ==
    /\ Table!IsValid(db, info.path)
    /\ info.refs = RefsOf(db, Table!IdOf(db, info.path))

(* What queryPathInfo returns of a path was true of one database.  (A      *)
(* power failure may have taken that one back.)                            *)
InfoIsOneSnapshot ==
    failures = 0 =>
    \A p \in Procs : answer[p].path # None => \E i \in 1 .. Len(log) : TrueOf(log[i], answer[p])

SyncsTrees == settings.fsyncStorePaths \/ settings.syncBeforeRegistering

(* An import that has the lock of its path has it alone ...                *)
HoldsLock(p) ==
    /\ pc[p] \in {"recheck", "place", "sync", "select", "write", "busy", "refs", "commit"}
    /\ job[p].op = "import"

(* ... nobody else registers the path meanwhile, and its tree is synced    *)
(* before its row is written, or a remover has been there.                 *)
TreeOf(p) ==
    LET q == job[p].path
    IN  HoldsLock(p) =>
          /\ pathLock[q] = p
          /\ pc[p] = "place" => ~Table!IsValid(Current, q)
          /\ pc[p] = "sync" => q \in removed \/ disk[q] = "whole"
          /\ SyncsTrees /\ pc[p] \in {"select", "write", "busy", "refs", "commit"} => q \in removed \/ Durable(q)

TreeInv ==
    /\ pathLock \in [Paths -> Procs \cup {None}]
    /\ disk \in [Paths -> {"none", "torn", "whole"}]
    /\ after \in [Paths -> SUBSET {"none", "torn", "whole"}]
    /\ \A p \in Procs : TreeOf(p)
    /\ SyncsTrees => \A q \in Paths : Table!IsValid(Current, q) => q \in removed \/ Durable(q)

(* With fsyncStorePaths or syncBeforeRegistering, a valid path has its     *)
(* tree, also after a power failure; unless it has been invalidated: then  *)
(* the failure can bring back the row and not the tree.                    *)
RowsHaveTrees ==
    SyncsTrees => \A q \in Paths : Table!IsValid(Current, q) => q \in removed \/ disk[q] = "whole"

(* A process that has no staging directory yet has none in the store. *)
StagingInv ==
    /\ staging \subseteq Procs \X Nat
    /\ made \in [Procs -> Nat] /\ own \in [Procs -> Nat]
    /\ ~mishaps => \A d \in staging : pc[d[1]] \notin {"idle", "mkdir"} /\ own[d[1]] = d[2]

(* As long as nobody is killed and every directory can be opened, the      *)
(* staging directories in the store are those of running imports, whichever *)
(* way the others ended.                                                   *)
StagingIsSwept ==
    ~mishaps => \A d \in staging : pc[d[1]] # "idle" /\ own[d[1]] = d[2]

(* Every call ends, however often its transaction has to be run again. *)
CallsEnd == \A p \in Procs : pc[p] # "idle" ~> pc[p] = "idle"
=============================================================================
