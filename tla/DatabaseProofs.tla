--------------------------- MODULE DatabaseProofs ---------------------------
(***************************************************************************)
(* The tables of the store stay consistent, and the retried transactions   *)
(* of Database implement the atomic registrations and invalidations of     *)
(* StoreTable; a query answers from one database, a row has its tree if    *)
(* trees are synced, and imports sweep their staging directories.  All for *)
(* any processes, paths and jobs, with kills and power failures.  And a    *)
(* schema file, once there, vouches for the database that is opened.       *)
(***************************************************************************)
EXTENDS Database, StoreOpen, SequenceTheorems, TLAPS

--------------------------------------------------------------------------------
(* The tables. *)

\* queryValidPathId returns the id of a row of the path.
LEMMA IdOfRow ==
  ASSUME NEW db, NEW p, Table!IsValid(db, p)
  PROVE  \E r \in db.rows : r.path = p /\ Table!IdOf(db, p) = r.id
BY DEF Table!IsValid, Table!IdOf

\* Adding a row keeps the tables consistent, and adds that path alone.
LEMMA AddKeeps ==
  ASSUME NEW db \in Table!Databases, Table!Consistent(db), NEW p \in Paths
  PROVE  LET d == Table!AddValidPath(db, p)
         IN  /\ d \in Table!Databases /\ Table!Consistent(d)
             /\ \A q : Table!IsValid(d, q) <=> q = p \/ Table!IsValid(db, q)
<1> DEFINE d == Table!AddValidPath(db, p)
           new == [id |-> db.seq + 1, path |-> p]
<1>1. CASE Table!IsValid(db, p)
  <2>1. d = db
    BY <1>1 DEF Table!AddValidPath
  <2> QED BY <1>1, <2>1
<1>2. CASE ~Table!IsValid(db, p)
  <2>0. d = [rows |-> db.rows \cup {new}, refs |-> db.refs, seq |-> db.seq + 1]
    <3>1. d = [db EXCEPT !.rows = db.rows \cup {new}, !.seq = db.seq + 1]
      BY <1>2 DEF Table!AddValidPath
    <3>2. db = [rows |-> db.rows, refs |-> db.refs, seq |-> db.seq]
      BY DEF Table!Databases
    <3> QED BY <3>1, <3>2
  <2>1. d.rows = db.rows \cup {new} /\ d.refs = db.refs /\ d.seq = db.seq + 1
    <3> HIDE DEF d, new
    <3> QED BY <2>0
  <2>2. d \in Table!Databases
    <3>1. db.seq + 1 \in Nat /\ db.refs \in SUBSET (Nat \X Nat) /\ db.rows \subseteq [id : Nat, path : Paths]
      BY DEF Table!Databases
    <3>2. new \in [id : Nat, path : Paths]
      BY <3>1
    <3> HIDE DEF d, new
    <3> QED BY <2>0, <3>1, <3>2 DEF Table!Databases
  <2>3. \A r \in db.rows : r.id \in Nat /\ r.id <= db.seq /\ r.path # p
    BY <1>2 DEF Table!Databases, Table!Consistent, Table!IsValid
  <2>4. db.seq \in Nat
    BY DEF Table!Databases
  <2>5. Table!Consistent(d)
    <3>1. \A r, s \in d.rows : r.path = s.path \/ r.id = s.id => r = s
      BY <2>1, <2>3, <2>4 DEF Table!Consistent
    <3>2. \A r \in d.rows : r.id <= d.seq
      BY <2>1, <2>3, <2>4
    <3>3. \A e \in d.refs : \E r, s \in d.rows : e = <<r.id, s.id>>
      BY <2>1 DEF Table!Consistent
    <3> QED BY <3>1, <3>2, <3>3 DEF Table!Consistent
  <2>6. \A q : Table!IsValid(d, q) <=> q = p \/ Table!IsValid(db, q)
    <3>1. new.path = p
      OBVIOUS
    <3> HIDE DEF d, new
    <3> QED BY <2>1, <3>1 DEF Table!IsValid
  <2> QED BY <2>2, <2>5, <2>6
<1> QED BY <1>1, <1>2

\* References between rows that are there keep the tables consistent.
LEMMA RefsKeep ==
  ASSUME NEW db \in Table!Databases, Table!Consistent(db),
         NEW p, Table!IsValid(db, p),
         NEW refs, \A q \in refs : Table!IsValid(db, q)
  PROVE  LET d == Table!AddReferences(db, p, refs)
         IN  d \in Table!Databases /\ Table!Consistent(d)
<1> DEFINE d == Table!AddReferences(db, p, refs)
           new == {<<Table!IdOf(db, p), Table!IdOf(db, q)>> : q \in refs}
<1>1. \A e \in new : \E r, s \in db.rows : e = <<r.id, s.id>>
  BY IdOfRow
<1>2. \A r \in db.rows : r.id \in Nat
  BY DEF Table!Databases
<1>3. new \subseteq Nat \X Nat
  BY <1>1, <1>2
<1>4. d.rows = db.rows /\ d.refs = db.refs \cup new /\ d.seq = db.seq
  BY DEF Table!AddReferences, Table!Databases
<1>5. d \in Table!Databases
  <2> HIDE DEF new
  <2>1. d = [db EXCEPT !.refs = @ \cup new]
    BY DEF Table!AddReferences, new
  <2> QED BY <1>3, <2>1 DEF Table!Databases
<1>6. Table!Consistent(d)
  <2> HIDE DEF new, d
  <2> QED BY <1>1, <1>4 DEF Table!Consistent
<1> QED BY <1>5, <1>6

\* A row nothing refers to can go, with its own references.
LEMMA InvalidateKeeps ==
  ASSUME NEW db \in Table!Databases, Table!Consistent(db),
         NEW p, Table!IsValid(db, p), Table!Referrers(db, p) = {}
  PROVE  LET d == Table!InvalidatePath(db, p)
         IN  d \in Table!Databases /\ Table!Consistent(d)
<1> DEFINE d == Table!InvalidatePath(db, p)
           gone == Table!IdOf(db, p)
<1>1. PICK r0 \in db.rows : r0.path = p /\ gone = r0.id
  BY IdOfRow
<1> HIDE DEF gone
<1>2. /\ d.rows = {r \in db.rows : r.path # p}
      /\ d.refs = {e \in db.refs : e[1] # gone}
      /\ d.seq = db.seq
  BY DEF Table!InvalidatePath, Table!Databases, gone
<1>3. d \in Table!Databases
  BY DEF Table!InvalidatePath, Table!Databases
<1>4. ASSUME NEW e \in d.refs PROVE \E r, s \in d.rows : e = <<r.id, s.id>>
  <2>1. e \in db.refs /\ e[1] # gone
    BY <1>2
  <2>2. PICK r, s \in db.rows : e = <<r.id, s.id>>
    BY <2>1 DEF Table!Consistent
  <2>3. r.path # p
    BY <1>1, <2>1, <2>2 DEF Table!Consistent
  <2>4. s.path # p
    <3> SUFFICES ASSUME s.path = p PROVE FALSE
      OBVIOUS
    <3>1. s = r0
      BY <1>1 DEF Table!Consistent
    <3>2. <<r.id, gone>> \in db.refs
      BY <1>1, <2>1, <2>2, <3>1
    <3> QED BY <2>3, <3>2 DEF Table!Referrers, gone
  <2> QED BY <1>2, <2>2, <2>3, <2>4
<1>5. Table!Consistent(d)
  <2> HIDE DEF d
  <2> QED BY <1>2, <1>4 DEF Table!Consistent
<1> QED BY <1>3, <1>5

\* A registration with its references keeps the tables consistent.
LEMMA RegisterKeeps ==
  ASSUME NEW db \in Table!Databases, Table!Consistent(db), NEW p \in Paths,
         NEW refs, \A q \in refs : q = p \/ Table!IsValid(db, q)
  PROVE  LET d == Table!Registered(db, p, refs)
         IN  d \in Table!Databases /\ Table!Consistent(d)
<1> DEFINE d == Table!AddValidPath(db, p)
<1>1. /\ d \in Table!Databases /\ Table!Consistent(d)
      /\ \A q : Table!IsValid(d, q) <=> q = p \/ Table!IsValid(db, q)
  BY AddKeeps
<1> HIDE DEF d
<1>2. Table!IsValid(d, p) /\ \A q \in refs : Table!IsValid(d, q)
  BY <1>1
<1>3. Table!AddReferences(d, p, refs) \in Table!Databases /\ Table!Consistent(Table!AddReferences(d, p, refs))
  BY <1>1, <1>2, RefsKeep
<1> QED BY <1>1, <1>3 DEF Table!Registered, d

--------------------------------------------------------------------------------
(* The inductive invariant. *)

\* The current database is typed and consistent.
LEMMA CurrentKeeps ==
  ASSUME LogInv
  PROVE  Len(log) \in Nat \ {0} /\ Current \in Table!Databases /\ Table!Consistent(Current)
BY DEF LogInv, DatabaseIsConsistent, Current, Table!Current

\* What holds of a process rests on its own variables, the log and whether
\* it is the writer.
LEMMA TxnOfSame ==
  ASSUME NEW r, TxnOf(r), log' = log, writer' = r <=> writer = r,
         pc'[r] = pc[r], job'[r] = job[r], view'[r] = view[r], snap'[r] = snap[r]
  PROVE  TxnOf(r)'
<1>1. Current' = Current
  BY DEF Current, Table!Current
<1> QED BY <1>1 DEF TxnOf, Table!IsValid, Table!Referrers, Table!AddValidPath, Table!Registered,
                    Table!AddReferences, Table!InvalidatePath, Table!IdOf

\* The database a transaction is going to commit is typed and consistent.
LEMMA ViewKeeps ==
  ASSUME IInv, NEW p \in Procs, pc[p] \in {"refs", "commit"}
  PROVE  view[p] \in Table!Databases /\ Table!Consistent(view[p])
<1>1. Current \in Table!Databases /\ Table!Consistent(Current)
  BY CurrentKeeps DEF IInv
<1>2. job[p] \in Jobs /\ job[p].path \in Paths /\ job[p].refs \subseteq Paths
  BY DEF IInv, JobInv, Jobs
<1>3. CASE pc[p] = "refs"
  <2>1. view[p] = Table!AddValidPath(Current, job[p].path)
    BY <1>3 DEF IInv, TxnInv, TxnOf
  <2> QED BY <1>1, <1>2, <2>1, AddKeeps
<1>4. CASE pc[p] = "commit" /\ job[p].op = "import"
  <2>1. /\ \A r \in job[p].refs : r = job[p].path \/ Table!IsValid(Current, r)
        /\ view[p] = Table!Registered(Current, job[p].path, job[p].refs)
    BY <1>4 DEF IInv, TxnInv, TxnOf
  <2> QED BY <1>1, <1>2, <2>1, RegisterKeeps
<1>5. CASE pc[p] = "commit" /\ job[p].op = "remove"
  <2>1. /\ Table!IsValid(Current, job[p].path) /\ Table!Referrers(Current, job[p].path) = {}
        /\ view[p] = Table!InvalidatePath(Current, job[p].path)
    BY <1>5 DEF IInv, TxnInv, TxnOf
  <2> QED BY <1>1, <1>2, <2>1, InvalidateKeeps
<1> QED BY <1>3, <1>4, <1>5 DEF IInv, TxnInv, TxnOf

\* A step of one process that leaves the database alone.
LEMMA LocalStep ==
  ASSUME IInv, NEW p \in Procs, NEW to \in Labels,
         UNCHANGED tableVars, Goto(p, to),
         \A r \in Procs \ {p} : writer' = r <=> writer = r,
         todo' \in [Procs -> Seq(Jobs)], job' \in [Procs -> Jobs \cup {NoJob}],
         view' \in [Procs -> Table!Databases], snap' \in [Procs -> Nat],
         \A r \in Procs \ {p} : job'[r] = job[r] /\ view'[r] = view[r] /\ snap'[r] = snap[r],
         to \notin {"idle", "cleanup"} => job'[p] \in Jobs,
         TxnOf(p)'
  PROVE  IInv'
<1>1. LogInv'
  BY DEF IInv, LogInv, DatabaseIsConsistent, tableVars
<1>2. pc' \in [Procs -> Labels] /\ pc'[p] = to /\ \A r \in Procs \ {p} : pc'[r] = pc[r]
  BY DEF IInv, TxnInv, Goto
<1>3. JobInv'
  BY <1>2 DEF IInv, JobInv
<1>4. ASSUME NEW r \in Procs PROVE TxnOf(r)'
  <2>1. CASE r # p
    BY <1>2, <2>1, TxnOfSame DEF IInv, TxnInv, tableVars
  <2> QED BY <2>1
<1>5. TxnInv'
  BY <1>2, <1>4 DEF TxnInv
<1> QED BY <1>1, <1>3, <1>5 DEF IInv

\* A step of one process outside of the transactions, or out of one.
LEMMA QuietStep ==
  ASSUME IInv, NEW p \in Procs, NEW to \in Labels,
         pc[p] # "idle", pc' = [pc EXCEPT ![p] = to],
         log' = log, synced' = synced, snap' = snap, view' = view, todo' = todo, job' = job,
         \/ pc[p] \notin {"refs", "commit"} /\ writer' = writer
         \/ writer' = IF writer = p THEN None ELSE writer,
         to \notin {"idle", "write", "refs", "commit"},
         to # "cleanup" => pc[p] # "cleanup",
         to \in {"mkdir", "check", "lock", "recheck", "place", "sync"} => job[p].op = "import",
         to \in {"select", "busy"} => job[p].op \in {"import", "remove"}
  PROVE  IInv'
<1>1. pc'[p] = to /\ Goto(p, to)
  BY DEF IInv, TxnInv, Goto
<1>2. writer' # p
  BY NoneAssumption DEF IInv, TxnInv, TxnOf
<1>3. \A r \in Procs \ {p} : writer' = r <=> writer = r
  BY NoneAssumption
<1>4. TxnOf(p)'
  BY <1>1, <1>2 DEF TxnOf
<1>5. to \notin {"idle", "cleanup"} => job'[p] \in Jobs
  BY DEF IInv, JobInv
<1>6. UNCHANGED tableVars
  BY DEF tableVars
<1>7. /\ todo' \in [Procs -> Seq(Jobs)] /\ job' \in [Procs -> Jobs \cup {NoJob}]
      /\ view' \in [Procs -> Table!Databases] /\ snap' \in [Procs -> Nat]
      /\ \A r \in Procs \ {p} : job'[r] = job[r] /\ view'[r] = view[r] /\ snap'[r] = snap[r]
  BY DEF IInv, JobInv, TxnInv
<1> QED BY <1>1, <1>3, <1>4, <1>5, <1>6, <1>7, LocalStep

\* A process takes a job.
LEMMA StartKeeps == ASSUME IInv, NEW p \in Procs, Start(p) PROVE IInv'
<1> DEFINE j == Head(todo[p])
           to == CASE j.op = "import" -> "mkdir" [] j.op = "remove" -> "select" [] j.op = "query" -> "info"
<1>1. todo[p] \in Seq(Jobs) /\ todo[p] # <<>>
  BY DEF Start, IInv, JobInv
<1>2. j \in Jobs /\ Tail(todo[p]) \in Seq(Jobs)
  BY <1>1
<1> HIDE DEF j
<1>3. j.op \in {"import", "remove", "query"}
  BY <1>2 DEF Jobs
<1>4. to \in Labels /\ Goto(p, to)
  <2>1. to \in Labels
    BY <1>3 DEF Labels
  <2>2. Goto(p, to)
    BY Zenon DEF Start, j
  <2> QED BY <2>1, <2>2
<1>5. to \in {"mkdir", "select", "info"} /\ (to = "mkdir" => j.op = "import") /\ (to = "select" => j.op = "remove")
  BY <1>3
<1> HIDE DEF to
<1>6. /\ job' = [job EXCEPT ![p] = j] /\ job'[p] = j
      /\ todo' = [todo EXCEPT ![p] = Tail(@)]
      /\ pc[p] = "idle" /\ pc'[p] = to
      /\ UNCHANGED <<tableVars, snap, view, writer>>
  BY <1>4 DEF Start, j, IInv, JobInv, TxnInv, Goto, txnVars
<1>7. writer' # p
  BY <1>6 DEF IInv, TxnInv, TxnOf
<1>8. TxnOf(p)'
  BY <1>5, <1>6, <1>7 DEF TxnOf
<1>9. /\ todo' \in [Procs -> Seq(Jobs)] /\ job' \in [Procs -> Jobs \cup {NoJob}]
      /\ view' \in [Procs -> Table!Databases] /\ snap' \in [Procs -> Nat]
      /\ \A r \in Procs \ {p} : /\ job'[r] = job[r] /\ view'[r] = view[r] /\ snap'[r] = snap[r]
                                /\ writer' = r <=> writer = r
  BY <1>2, <1>6 DEF IInv, JobInv, TxnInv
<1>10. UNCHANGED tableVars
  BY <1>6
<1> QED BY <1>2, <1>4, <1>6, <1>8, <1>9, <1>10, LocalStep

\* An import up to its transaction, and what follows the transactions.
LEMMA ImportKeeps ==
  ASSUME IInv, NEW p \in Procs,
         \/ MakeDir(p) \/ MakeDirFails(p) \/ Check(p) \/ Lock(p) \/ Recheck(p) \/ Place(p)
         \/ SyncTree(p) \/ Busy(p) \/ Delete(p) \/ InfoRefs(p)
  PROVE  IInv'
<1>1. /\ pc[p] \in {"mkdir", "check", "lock", "recheck", "place", "sync"} => job[p].op = "import"
      /\ pc[p] = "busy" => job[p].op \in {"import", "remove"}
  BY DEF IInv, TxnInv, TxnOf
<1>2. CASE MakeDir(p)
  <2>1. CASE Goto(p, "check")
    BY <1>1, <1>2, <2>1, QuietStep DEF Goto, Labels, MakeDir, txnVars, tableVars
  <2>2. CASE pc' = pc
    <3>1. Goto(p, "mkdir")
      BY <1>2, <2>2 DEF MakeDir, Goto, IInv, TxnInv
    <3> QED BY <1>1, <1>2, <3>1, QuietStep DEF Goto, Labels, MakeDir, txnVars, tableVars
  <2> QED BY <1>2, <2>1, <2>2 DEF MakeDir
<1>3. CASE MakeDirFails(p)
  BY <1>3, QuietStep DEF Goto, Labels, MakeDirFails, Throw, tableVars
<1>4. CASE Check(p)
  BY <1>1, <1>4, QuietStep DEF Goto, Labels, Check, txnVars, tableVars
<1>5. CASE Lock(p)
  BY <1>1, <1>5, QuietStep DEF Goto, Labels, Lock, txnVars, tableVars
<1>6. CASE Recheck(p)
  BY <1>1, <1>6, QuietStep DEF Goto, Labels, Recheck, txnVars, tableVars
<1>7. CASE Place(p)
  BY <1>1, <1>7, QuietStep DEF Goto, Labels, Place, txnVars, tableVars
<1>8. CASE SyncTree(p)
  <2>1. CASE Throw(p)
    BY <1>8, <2>1, QuietStep DEF Goto, Labels, SyncTree, Throw, tableVars
  <2>2. CASE Goto(p, "select") /\ writer' = writer
    BY <1>1, <1>8, <2>2, QuietStep DEF Goto, Labels, SyncTree, tableVars
  <2> QED BY <1>8, <2>1, <2>2 DEF SyncTree
<1>9. CASE Busy(p)
  <2>1. CASE Throw(p)
    BY <1>9, <2>1, QuietStep DEF Goto, Labels, Busy, Throw, tableVars
  <2>2. CASE Goto(p, "select") /\ writer' = writer
    BY <1>1, <1>9, <2>2, QuietStep DEF Goto, Labels, Busy, tableVars
  <2> QED BY <1>9, <2>1, <2>2 DEF Busy
<1>10. CASE Delete(p)
  BY <1>10, QuietStep DEF Goto, Labels, Delete, txnVars, tableVars
<1>11. CASE InfoRefs(p)
  BY <1>11, QuietStep DEF Goto, Labels, InfoRefs, txnVars, tableVars
<1> QED BY <1>2, <1>3, <1>4, <1>5, <1>6, <1>7, <1>8, <1>9, <1>10, <1>11

\* The selects of a transaction, or of a query.
LEMMA SelectKeeps == ASSUME IInv, NEW p \in Procs, Select(p) \/ Info(p) PROVE IInv'
<1>1. Len(log) \in Nat \ {0} /\ Current \in Table!Databases /\ Current = log[Len(log)]
  BY CurrentKeeps DEF IInv, Current, Table!Current
<1>2. /\ log' = log /\ synced' = synced /\ todo' = todo /\ job' = job
      /\ snap' = [snap EXCEPT ![p] = Len(log)] /\ view' = [view EXCEPT ![p] = Current]
      /\ pc[p] \in {"select", "info"} /\ job[p] \in Jobs
  BY DEF Select, Info, tableVars, IInv, JobInv
<1>3. /\ writer # p
      /\ pc[p] = "select" => job[p].op \in {"import", "remove"}
  BY <1>2 DEF IInv, TxnInv, TxnOf
<1>4. snap'[p] = Len(log) /\ view'[p] = Current
  BY <1>2 DEF IInv, TxnInv
<1>5. \E to \in Labels :
        /\ pc' = [pc EXCEPT ![p] = to] /\ writer' = writer
        /\ to \in {"write", "delete", "cleanup", "infoRefs"}
        /\ to = "write" => job[p].op \in {"import", "remove"}
        /\ to = "write" /\ job[p].op = "remove" =>
             Table!IsValid(Current, job[p].path) /\ Table!Referrers(Current, job[p].path) = {}
  <2>1. CASE Info(p)
    BY <2>1 DEF Info, Goto, Labels
  <2>2. CASE Select(p) /\ job[p].op = "import"
    BY <2>2 DEF Select, Goto, Labels
  <2>3. CASE Select(p) /\ job[p].op = "remove"
    BY <1>3, <2>3 DEF Select, Goto, Labels, Throw
  <2> QED BY <1>3, <2>1, <2>2, <2>3 DEF Select
<1>6. PICK to \in Labels :
        /\ pc' = [pc EXCEPT ![p] = to] /\ writer' = writer
        /\ to \in {"write", "delete", "cleanup", "infoRefs"}
        /\ to = "write" => job[p].op \in {"import", "remove"}
        /\ to = "write" /\ job[p].op = "remove" =>
             Table!IsValid(Current, job[p].path) /\ Table!Referrers(Current, job[p].path) = {}
  BY <1>5
<1>7. pc'[p] = to
  BY <1>6 DEF IInv, TxnInv
<1>8. TxnOf(p)'
  BY <1>1, <1>2, <1>3, <1>4, <1>6, <1>7 DEF TxnOf, Table!IsValid, Table!Referrers, Table!IdOf
<1>9. /\ todo' \in [Procs -> Seq(Jobs)] /\ job' \in [Procs -> Jobs \cup {NoJob}]
      /\ view' \in [Procs -> Table!Databases] /\ snap' \in [Procs -> Nat]
      /\ \A r \in Procs \ {p} : /\ job'[r] = job[r] /\ view'[r] = view[r] /\ snap'[r] = snap[r]
                                /\ writer' = r <=> writer = r
  BY <1>1, <1>2, <1>6 DEF IInv, JobInv, TxnInv
<1>10. UNCHANGED tableVars /\ Goto(p, to) /\ job'[p] \in Jobs
  BY <1>2, <1>6 DEF tableVars, Goto
<1> QED BY <1>8, <1>9, <1>10, LocalStep

\* The first write of a transaction, whose snapshot is the current database.
LEMMA WriteKeeps == ASSUME IInv, NEW p \in Procs, Write(p) PROVE IInv'
<1> DEFINE q == job[p].path
<1>1. /\ log' = log /\ synced' = synced /\ todo' = todo /\ job' = job /\ snap' = snap
      /\ pc[p] = "write" /\ job[p] \in Jobs
  BY DEF Write, tableVars, IInv, JobInv
<1>2. CASE ~(writer = None /\ snap[p] = Len(log))
  <2>1. job[p].op \in {"import", "remove"}
    BY <1>1 DEF IInv, TxnInv, TxnOf
  <2> QED BY <1>1, <1>2, <2>1, QuietStep DEF Write, Goto, Labels
<1>3. CASE writer = None /\ snap[p] = Len(log)
  <2> DEFINE db == IF job[p].op = "import" THEN Table!AddValidPath(Current, q)
                   ELSE Table!InvalidatePath(Current, q)
             to == IF job[p].refs = {} THEN "commit" ELSE "refs"
  <2>1. Current \in Table!Databases /\ Table!Consistent(Current)
    BY CurrentKeeps DEF IInv
  <2>2. /\ view[p] = Current
        /\ job[p].op \in {"import", "remove"}
        /\ job[p].op = "remove" => Table!IsValid(Current, q) /\ Table!Referrers(Current, q) = {}
    BY <1>1, <1>3 DEF IInv, TxnInv, TxnOf, Current, Table!Current
  <2>3. job[p].path \in Paths /\ (job[p].op = "remove" => job[p].refs = {})
    BY <1>1 DEF Jobs
  <2>4. db \in Table!Databases
    BY <2>1, <2>2, <2>3, AddKeeps, InvalidateKeeps
  <2>5. writer' = p /\ view' = [view EXCEPT ![p] = db] /\ Goto(p, to)
    BY <1>3, <2>2 DEF Write
  <2>6. to \in Labels /\ to \in {"commit", "refs"} /\ (to = "refs" => job[p].op = "import")
    BY <2>2, <2>3 DEF Labels
  <2>7. Current' = Current
    BY <1>1 DEF Current, Table!Current
  <2>8. pc'[p] = to /\ view'[p] = db
    BY <2>5 DEF IInv, TxnInv, Goto
  <2>9. TxnOf(p)'
    <3>1. /\ to = "refs" => db = Table!AddValidPath(Current, q)
          /\ to = "commit" /\ job[p].op = "import" => db = Table!Registered(Current, q, job[p].refs)
          /\ to = "commit" /\ job[p].op = "import" => \A r \in job[p].refs : FALSE
          /\ to = "commit" /\ job[p].op = "remove" => db = Table!InvalidatePath(Current, q)
      BY <2>6 DEF Table!Registered
    <3> HIDE DEF db, to
    <3> QED BY <1>1, <2>2, <2>5, <2>6, <2>7, <2>8, <3>1
            DEF TxnOf, Table!IsValid, Table!Referrers, Table!AddValidPath, Table!Registered,
                Table!AddReferences, Table!InvalidatePath, Table!IdOf
  <2> HIDE DEF db, to
  <2>10. /\ todo' \in [Procs -> Seq(Jobs)] /\ job' \in [Procs -> Jobs \cup {NoJob}]
         /\ view' \in [Procs -> Table!Databases] /\ snap' \in [Procs -> Nat]
         /\ \A r \in Procs \ {p} : /\ job'[r] = job[r] /\ view'[r] = view[r] /\ snap'[r] = snap[r]
                                   /\ writer' = r <=> writer = r
    BY <1>1, <1>3, <2>4, <2>5, NoneAssumption DEF IInv, JobInv, TxnInv
  <2>11. UNCHANGED tableVars /\ job'[p] \in Jobs
    BY <1>1 DEF tableVars
  <2> QED BY <2>5, <2>6, <2>9, <2>10, <2>11, LocalStep
<1> QED BY <1>2, <1>3

\* The references of a registration: all of them are rows, or it is given up.
LEMMA AddRefsKeeps == ASSUME IInv, NEW p \in Procs, AddRefs(p) PROVE IInv'
<1> DEFINE q == job[p].path
           refs == job[p].refs
           added == Table!AddValidPath(Current, q)
           db == Table!AddReferences(added, q, refs)
<1>1. /\ log' = log /\ synced' = synced /\ todo' = todo /\ job' = job /\ snap' = snap
      /\ pc[p] = "refs" /\ job[p] \in Jobs
  BY DEF AddRefs, tableVars, IInv, JobInv
<1>2. CASE ~\A r \in refs : Table!IsValid(view[p], r)
  BY <1>1, <1>2, QuietStep DEF AddRefs, Throw, Goto, Labels
<1>3. CASE \A r \in refs : Table!IsValid(view[p], r)
  <2>1. Current \in Table!Databases /\ Table!Consistent(Current)
    BY CurrentKeeps DEF IInv
  <2>2. view[p] = added /\ writer = p /\ job[p].op = "import"
    BY <1>1 DEF IInv, TxnInv, TxnOf
  <2>3. job[p].path \in Paths
    BY <1>1 DEF Jobs
  <2>4. /\ added \in Table!Databases /\ Table!Consistent(added)
        /\ \A r : Table!IsValid(added, r) <=> r = q \/ Table!IsValid(Current, r)
    BY <2>1, <2>3, AddKeeps
  <2> HIDE DEF added
  <2>5. db \in Table!Databases
    BY <1>3, <2>2, <2>4, RefsKeep
  <2>6. \A r \in refs : r = q \/ Table!IsValid(Current, r)
    BY <1>3, <2>2, <2>4
  <2>7. writer' = writer /\ view' = [view EXCEPT ![p] = db] /\ Goto(p, "commit")
    BY <1>3, <2>2 DEF AddRefs
  <2>8. db = Table!Registered(Current, q, refs)
    <3>1. CASE refs = {}
      <4>1. db = [added EXCEPT !.refs = added.refs]
        BY <3>1 DEF Table!AddReferences
      <4>2. db = added
        BY <2>4, <4>1 DEF Table!Databases
      <4> QED BY <3>1, <4>2 DEF Table!Registered, added
    <3>2. CASE refs # {}
      BY <3>2 DEF Table!Registered, added
    <3> QED BY <3>1, <3>2
  <2> HIDE DEF db
  <2>9. Current' = Current
    BY <1>1 DEF Current, Table!Current
  <2>10. pc'[p] = "commit" /\ view'[p] = db
    BY <2>7 DEF IInv, TxnInv, Goto, Labels
  <2>11. TxnOf(p)'
    BY <1>1, <2>2, <2>6, <2>7, <2>8, <2>9, <2>10
    DEF TxnOf, Table!IsValid, Table!AddValidPath, Table!Registered, Table!AddReferences, Table!IdOf
  <2>12. /\ todo' \in [Procs -> Seq(Jobs)] /\ job' \in [Procs -> Jobs \cup {NoJob}]
         /\ view' \in [Procs -> Table!Databases] /\ snap' \in [Procs -> Nat]
         /\ \A r \in Procs \ {p} : /\ job'[r] = job[r] /\ view'[r] = view[r] /\ snap'[r] = snap[r]
                                   /\ writer' = r <=> writer = r
    BY <1>1, <2>5, <2>7 DEF IInv, JobInv, TxnInv
  <2>13. UNCHANGED tableVars /\ job'[p] \in Jobs
    BY <1>1 DEF tableVars
  <2> QED BY <2>7, <2>11, <2>12, <2>13, LocalStep DEF Labels
<1> QED BY <1>2, <1>3

\* A commit: the database it adds is consistent, and no other transaction
\* has written.
LEMMA CommitKeeps == ASSUME IInv, NEW p \in Procs, Commit(p) PROVE IInv'
<1>1. /\ log' = Append(log, view[p]) /\ synced' = synced /\ writer' = None
      /\ UNCHANGED <<snap, view, todo, job>> /\ pc[p] = "commit"
  BY DEF Commit
<1>2. view[p] \in Table!Databases /\ Table!Consistent(view[p])
  BY <1>1, ViewKeeps
<1>3. log \in Seq(Table!Databases) /\ Len(log) \in Nat \ {0} /\ synced \in 1 .. Len(log)
  BY CurrentKeeps DEF IInv, LogInv
<1>4. /\ log' \in Seq(Table!Databases) /\ Len(log') = Len(log) + 1
      /\ \A i \in 1 .. Len(log) : log'[i] = log[i]
      /\ log'[Len(log) + 1] = view[p]
  BY <1>1, <1>2, <1>3
<1>5. LogInv'
  <2>1. \A i \in 1 .. Len(log') : Table!Consistent(log'[i])
    <3>1. ASSUME NEW i \in 1 .. Len(log') PROVE Table!Consistent(log'[i])
      <4>1. CASE i \in 1 .. Len(log)
        <5>1. Table!Consistent(log[i]) /\ log'[i] = log[i]
          BY <1>4, <4>1 DEF IInv, LogInv, DatabaseIsConsistent
        <5> QED BY <5>1
      <4>2. CASE i = Len(log) + 1
        BY <1>2, <1>4, <4>2
      <4> QED BY <1>3, <1>4, <4>1, <4>2
    <3> QED BY <3>1
  <2>2. log' # <<>> /\ synced' \in 1 .. Len(log')
    BY <1>1, <1>3, <1>4
  <2> QED BY <1>4, <2>1, <2>2 DEF LogInv, DatabaseIsConsistent, Table!Consistent, Table!Databases
<1>6. PICK to \in {"delete", "cleanup"} : pc' = [pc EXCEPT ![p] = to]
  BY DEF Commit, Goto
<1>7. pc' \in [Procs -> Labels] /\ pc'[p] = to /\ \A r \in Procs \ {p} : pc'[r] = pc[r]
  BY <1>6 DEF IInv, TxnInv, Labels
<1>8. JobInv'
  BY <1>1, <1>7 DEF IInv, JobInv
<1>9. ASSUME NEW r \in Procs PROVE TxnOf(r)'
  <2>1. writer' # r /\ writer = p
    BY <1>1, NoneAssumption DEF IInv, TxnInv, TxnOf
  <2>2. CASE r = p
    BY <1>6, <1>7, <2>1, <2>2 DEF TxnOf
  <2>3. CASE r # p
    <3>1. TxnOf(r) /\ pc[r] \notin {"refs", "commit"} /\ pc'[r] = pc[r]
      BY <1>7, <2>1, <2>3 DEF IInv, TxnInv, TxnOf
    <3>2. pc[r] = "write" => snap[r] \in 1 .. Len(log') /\ view[r] = log'[snap[r]]
      BY <1>3, <1>4, <3>1 DEF TxnOf
    <3> QED BY <1>1, <2>1, <3>1, <3>2 DEF TxnOf, Table!IsValid, Table!Referrers, Table!IdOf
  <2> QED BY <2>2, <2>3
<1>10. TxnInv'
  BY <1>1, <1>7, <1>9 DEF IInv, TxnInv
<1> QED BY <1>5, <1>8, <1>10 DEF IInv

\* A call returns.
LEMMA CleanupKeeps == ASSUME IInv, NEW p \in Procs, Cleanup(p) PROVE IInv'
<1>1. Table!EmptyDb \in Table!Databases
  BY DEF Table!EmptyDb, Table!Databases
<1>2. /\ log' = log /\ synced' = synced /\ writer' = writer /\ todo' = todo
      /\ job' = [job EXCEPT ![p] = NoJob] /\ snap' = [snap EXCEPT ![p] = 0]
      /\ view' = [view EXCEPT ![p] = Table!EmptyDb]
      /\ pc[p] = "cleanup" /\ pc' = [pc EXCEPT ![p] = "idle"]
  BY DEF Cleanup, Goto, tableVars
<1>3. pc'[p] = "idle" /\ writer # p
  BY <1>2 DEF IInv, TxnInv, TxnOf, Labels
<1>4. TxnOf(p)'
  BY <1>2, <1>3 DEF TxnOf
<1>5. /\ todo' \in [Procs -> Seq(Jobs)] /\ job' \in [Procs -> Jobs \cup {NoJob}]
      /\ view' \in [Procs -> Table!Databases] /\ snap' \in [Procs -> Nat]
      /\ \A r \in Procs \ {p} : /\ job'[r] = job[r] /\ view'[r] = view[r] /\ snap'[r] = snap[r]
                                /\ writer' = r <=> writer = r
  BY <1>1, <1>2 DEF IInv, JobInv, TxnInv
<1>6. UNCHANGED tableVars /\ Goto(p, "idle") /\ "idle" \in Labels
  BY <1>2 DEF tableVars, Goto, Labels
<1> QED BY <1>4, <1>5, <1>6, LocalStep

\* The processes that are gone take their transactions with them.
LEMMA DeadKeeps ==
  ASSUME IInv, NEW dead \in SUBSET Procs, Dead(dead), todo' = todo, log' = log \/ dead = Procs
  PROVE  JobInv' /\ TxnInv'
<1>1. Table!EmptyDb \in Table!Databases
  BY DEF Table!EmptyDb, Table!Databases
<1>2. pc' \in [Procs -> Labels] /\ view' \in [Procs -> Table!Databases] /\ snap' \in [Procs -> Nat]
  BY <1>1 DEF Dead, IInv, TxnInv, Labels
<1>3. \A r \in dead : pc'[r] = "idle"
  BY DEF Dead
<1>4. \A r \in Procs \ dead : /\ pc'[r] = pc[r] /\ job'[r] = job[r] /\ view'[r] = view[r]
                              /\ snap'[r] = snap[r]
  BY DEF Dead
<1>5. JobInv'
  BY <1>3, <1>4 DEF Dead, IInv, JobInv
<1>6. ASSUME NEW r \in Procs PROVE TxnOf(r)'
  <2>1. CASE r \in dead
    <3>1. writer' # r
      BY <2>1, NoneAssumption DEF Dead
    <3> QED BY <1>3, <2>1, <3>1 DEF TxnOf
  <2>2. CASE r \notin dead
    <3>1. writer' = r <=> writer = r
      BY <2>2, NoneAssumption DEF Dead
    <3>2. log' = log /\ TxnOf(r)
      BY <2>2 DEF IInv, TxnInv
    <3> QED BY <1>4, <2>2, <3>1, <3>2, TxnOfSame
  <2> QED BY <2>1, <2>2
<1> QED BY <1>2, <1>5, <1>6 DEF TxnInv

\* What a power failure leaves of the log is a prefix of it.
LEMMA PrefixKeeps ==
  ASSUME LogInv, NEW n \in synced .. Len(log), log' = SubSeq(log, 1, n), synced' = synced
  PROVE  LogInv'
<1>1. log \in Seq(Table!Databases) /\ Len(log) \in Nat /\ synced \in 1 .. Len(log)
  BY DEF LogInv
<1>2. n \in 1 .. Len(log)
  BY <1>1
<1>3. /\ log' \in Seq(Table!Databases) /\ Len(log') = n
      /\ \A i \in 1 .. n : log'[i] = log[i]
  <2>1. \A i \in 1 .. n : log[i] \in Table!Databases
    BY <1>1, <1>2
  <2> QED BY <1>1, <1>2, <2>1, SubSeqProperties
<1>4. ASSUME NEW i \in 1 .. Len(log') PROVE Table!Consistent(log'[i])
  <2>1. Table!Consistent(log[i]) /\ log'[i] = log[i]
    BY <1>1, <1>2, <1>3 DEF LogInv, DatabaseIsConsistent
  <2> QED BY <2>1
<1>5. log' # <<>> /\ synced' \in 1 .. Len(log')
  BY <1>1, <1>2, <1>3
<1> QED BY <1>3, <1>4, <1>5 DEF LogInv, DatabaseIsConsistent, Table!Consistent, Table!Databases

\* The machine: kills, power failures, checkpoints.
LEMMA MachineKeeps ==
  ASSUME IInv, (\E p \in Procs : Kill(p)) \/ PowerFailure \/ Checkpoint \/ UNCHANGED vars
  PROVE  IInv'
<1>1. ASSUME NEW p \in Procs, Kill(p) PROVE IInv'
  <2>1. LogInv' /\ log' = log
    BY <1>1 DEF Kill, tableVars, IInv, LogInv, DatabaseIsConsistent
  <2>2. JobInv' /\ TxnInv'
    BY <1>1, <2>1, DeadKeeps DEF Kill
  <2> QED BY <2>1, <2>2 DEF IInv
<1>2. ASSUME PowerFailure PROVE IInv'
  <2>1. LogInv'
    BY <1>2, PrefixKeeps DEF PowerFailure, IInv
  <2>2. JobInv' /\ TxnInv'
    BY <1>2, DeadKeeps DEF PowerFailure
  <2> QED BY <2>1, <2>2 DEF IInv
<1>3. ASSUME log' = log, synced' \in 1 .. Len(log), UNCHANGED <<txnVars, pc, todo, job>> PROVE IInv'
  <2>1. LogInv'
    BY <1>3 DEF IInv, LogInv, DatabaseIsConsistent
  <2>2. JobInv'
    BY <1>3 DEF IInv, JobInv
  <2>3. \A r \in Procs : TxnOf(r)'
    BY <1>3, TxnOfSame DEF IInv, TxnInv, txnVars
  <2> QED BY <1>3, <2>1, <2>2, <2>3 DEF IInv, TxnInv, txnVars
<1>4. ASSUME Checkpoint PROVE IInv'
  <2>1. Len(log) \in 1 .. Len(log)
    BY CurrentKeeps DEF IInv
  <2> QED BY <1>3, <1>4, <2>1 DEF Checkpoint
<1>5. ASSUME UNCHANGED vars PROVE IInv'
  BY <1>3, <1>5 DEF vars, tableVars, txnVars, IInv, LogInv
<1> QED BY <1>1, <1>2, <1>4, <1>5

\* The invariant is inductive.
LEMMA Invariance == IInv /\ [Next]_vars => IInv'
<1> SUFFICES ASSUME IInv, [Next]_vars PROVE IInv'
  OBVIOUS
<1>1. ASSUME NEW p \in Procs, Start(p) PROVE IInv'
  BY <1>1, StartKeeps
<1>2. ASSUME NEW p \in Procs, Step(p) PROVE IInv'
  BY <1>2, ImportKeeps, SelectKeeps, WriteKeeps, AddRefsKeeps, CommitKeeps, CleanupKeeps DEF Step
<1> QED BY <1>1, <1>2, MachineKeeps DEF Next, Finished

\* It holds when the processes are about to start on a new store.
LEMMA Initially == Init => IInv
<1> SUFFICES ASSUME Init PROVE IInv
  OBVIOUS
<1>1. Table!EmptyDb \in Table!Databases /\ Table!Consistent(Table!EmptyDb)
  BY DEF Table!EmptyDb, Table!Databases, Table!Consistent
<1>2. LogInv
  BY <1>1 DEF Init, LogInv, DatabaseIsConsistent
<1>3. JobInv
  BY ScenariosAssumption DEF Init, JobInv
<1>4. TxnInv
  BY <1>1, NoneAssumption DEF Init, TxnInv, TxnOf, Labels
<1> QED BY <1>2, <1>3, <1>4 DEF IInv

\* Whoever writes sees the current database and what it has written itself.
THEOREM InvariantHolds == Spec => []IInv
BY Initially, Invariance, PTL DEF Spec

\* No path ever has two rows and no reference points to a row that is gone,
\* whatever is killed, retried or lost in a power failure.
THEOREM TablesStayConsistent == Spec => []DatabaseIsConsistent
<1>1. IInv => DatabaseIsConsistent
  BY DEF IInv, LogInv
<1> QED BY <1>1, InvariantHolds, PTL

--------------------------------------------------------------------------------
(* The refinement. *)

\* A commit is a whole registration or a whole invalidation.
LEMMA CommitIsAtomic == ASSUME IInv, NEW p \in Procs, Commit(p) PROVE Table!Next
<1> DEFINE q == job[p].path
           refs == job[p].refs
<1>1. pc[p] = "commit" /\ log' = Append(log, view[p]) /\ synced' = synced
  BY DEF Commit
<1>2. job[p].op \in {"import", "remove"} /\ q \in Paths /\ refs \in SUBSET Paths
  BY <1>1 DEF IInv, JobInv, TxnInv, TxnOf, Jobs
<1>3. CASE job[p].op = "import"
  <2>1. (\A r \in refs : r = q \/ Table!IsValid(Current, r)) /\ view[p] = Table!Registered(Current, q, refs)
    BY <1>1, <1>3 DEF IInv, TxnInv, TxnOf
  <2>2. Table!Register(q, refs)
    BY <1>1, <2>1 DEF Table!Register, Current
  <2> QED BY <1>2, <2>2 DEF Table!Next
<1>4. CASE job[p].op = "remove"
  <2>1. /\ Table!IsValid(Current, q) /\ Table!Referrers(Current, q) = {}
        /\ view[p] = Table!InvalidatePath(Current, q)
    BY <1>1, <1>4 DEF IInv, TxnInv, TxnOf
  <2>2. Table!Invalidate(q)
    BY <1>1, <2>1 DEF Table!Invalidate, Current
  <2> QED BY <1>2, <2>2 DEF Table!Next
<1> QED BY <1>2, <1>3, <1>4

\* The retried transactions of all processes implement the atomic ones of
\* StoreTable, for any kills, interrupts, retries and power failures.
THEOREM TransactionsRefineTable == Spec => TransactionsAreAtomic
<1>1. Init => Table!Init
  BY DEF Init, Table!Init
<1>2. IInv /\ [Next]_vars => [Table!Next]_tableVars
  <2> SUFFICES ASSUME IInv, [Next]_vars PROVE Table!Next \/ UNCHANGED tableVars
    OBVIOUS
  <2>1. ASSUME NEW p \in Procs, Start(p) \/ Kill(p) PROVE UNCHANGED tableVars
    BY <2>1 DEF Start, Kill
  <2>2. ASSUME NEW p \in Procs, Step(p), ~Commit(p) PROVE UNCHANGED tableVars
    BY <2>2 DEF Step, MakeDir, MakeDirFails, Check, Lock, Recheck, Place, SyncTree, Select, Write, Busy,
                AddRefs, Delete, Cleanup, Info, InfoRefs
  <2>3. ASSUME PowerFailure PROVE Table!Next
    BY <2>3 DEF PowerFailure, Table!PowerFailure, Table!Next
  <2>4. ASSUME Checkpoint PROVE Table!Next
    <3>1. synced' \in synced .. Len(log) /\ log' = log
      BY <2>4, CurrentKeeps DEF Checkpoint, IInv, LogInv
    <3> QED BY <3>1 DEF Table!Checkpoint, Table!Next
  <2>5. ASSUME UNCHANGED vars PROVE UNCHANGED tableVars
    BY <2>5 DEF vars
  <2> QED BY <2>1, <2>2, <2>3, <2>4, <2>5, CommitIsAtomic DEF Next, Finished
<1> QED BY <1>1, <1>2, InvariantHolds, PTL DEF Spec, TransactionsAreAtomic, Table!Spec, Table!tableVars, tableVars

--------------------------------------------------------------------------------
(* The staging directories. *)

\* A step of a process that makes and drops no directory.
LEMMA StagingSame ==
  ASSUME IInv, StagingInv, NEW p \in Procs, NEW to \in Labels,
         to \notin {"idle", "mkdir"} \/ pc[p] = "idle",
         Goto(p, to), UNCHANGED <<staging, made, own, mishaps>>
  PROVE  StagingInv'
<1>1. pc' = [pc EXCEPT ![p] = to] /\ pc \in [Procs -> Labels]
  BY DEF Goto, IInv, TxnInv
<1> QED BY <1>1 DEF StagingInv

\* Every step keeps track of the staging directories.
LEMMA StagingKeeps == IInv /\ StagingInv /\ [Next]_vars => StagingInv'
<1> SUFFICES ASSUME IInv, StagingInv, [Next]_vars PROVE StagingInv'
  OBVIOUS
<1>0. pc \in [Procs -> Labels]
  BY DEF IInv, TxnInv
<1>1. ASSUME NEW p \in Procs, Start(p) PROVE StagingInv'
  <2>1. PICK to : pc' = [pc EXCEPT ![p] = to]
    BY <1>1 DEF Start, Goto
  <2>2. \A d \in staging : ~mishaps => d[1] # p
    BY <1>1 DEF Start, StagingInv
  <2>3. \A r \in Procs \ {p} : pc'[r] = pc[r]
    BY <1>0, <2>1
  <2> QED BY <1>1, <2>2, <2>3 DEF Start, StagingInv
<1>2. ASSUME NEW p \in Procs, MakeDir(p) PROVE StagingInv'
  <2>1. /\ made' = [made EXCEPT ![p] = @ + 1] /\ made[p] + 1 \in Nat
        /\ staging' = staging \cup {<<p, made[p] + 1>>}
    BY <1>2 DEF MakeDir, StagingInv
  <2>2. CASE own' = [own EXCEPT ![p] = made[p] + 1] /\ Goto(p, "check") /\ mishaps' = mishaps
    <3>1. \A d \in staging : ~mishaps => d[1] # p
      BY <1>2 DEF MakeDir, StagingInv
    <3>2. pc'[p] = "check" /\ own'[p] = made[p] + 1
      BY <1>0, <2>2 DEF Goto, StagingInv
    <3>3. \A r \in Procs \ {p} : pc'[r] = pc[r] /\ own'[r] = own[r]
      BY <1>0, <2>2 DEF Goto, StagingInv
    <3>4. staging' \subseteq Procs \X Nat /\ made' \in [Procs -> Nat] /\ own' \in [Procs -> Nat]
      BY <2>1, <2>2 DEF StagingInv
    <3>5. ASSUME ~mishaps', NEW d \in staging' PROVE pc'[d[1]] \notin {"idle", "mkdir"} /\ own'[d[1]] = d[2]
      <4>1. CASE d = <<p, made[p] + 1>>
        BY <3>2, <4>1
      <4>2. CASE d \in staging
        BY <2>2, <3>1, <3>3, <3>5, <4>2 DEF StagingInv
      <4> QED BY <2>1, <4>1, <4>2
    <3> QED BY <3>4, <3>5 DEF StagingInv
  <2>3. CASE mishaps' = TRUE /\ own' = own
    BY <2>1, <2>3 DEF StagingInv
  <2> QED BY <1>2, <2>2, <2>3 DEF MakeDir
<1>3. ASSUME NEW p \in Procs, Cleanup(p) PROVE StagingInv'
  <2>1. \A d \in staging' : ~mishaps => d \in staging /\ d[1] # p
    BY <1>3 DEF Cleanup, StagingInv
  <2> QED BY <1>0, <1>3, <2>1 DEF Cleanup, Goto, StagingInv
<1>4. ASSUME NEW p \in Procs,
             \/ MakeDirFails(p) \/ Check(p) \/ Lock(p) \/ Recheck(p) \/ Place(p) \/ SyncTree(p)
             \/ Select(p) \/ Write(p) \/ Busy(p) \/ AddRefs(p) \/ Commit(p) \/ Delete(p) \/ Info(p) \/ InfoRefs(p)
      PROVE StagingInv'
  <2>1. UNCHANGED <<staging, made, own, mishaps>>
    BY <1>4 DEF MakeDirFails, Check, Lock, Recheck, Place, SyncTree, Select, Write, Busy, AddRefs, Commit,
                Delete, Info, InfoRefs, stagingVars
  <2>2. \E to \in Labels \ {"idle", "mkdir"} : Goto(p, to)
    <3>1. CASE Select(p)
      BY <3>1 DEF Select, Throw, Labels, IInv, TxnInv, TxnOf
    <3>2. CASE ~Select(p)
      BY <1>4, <3>2 DEF MakeDirFails, Check, Lock, Recheck, Place, SyncTree, Write, Busy, AddRefs, Commit,
                  Delete, Info, InfoRefs, Throw, Labels
    <3> QED BY <3>1, <3>2
  <2> QED BY <2>1, <2>2, StagingSame
<1>5. ASSUME NEW p \in Procs, Kill(p) PROVE StagingInv'
  BY <1>5 DEF Kill, Dead, StagingInv
<1>6. ASSUME PowerFailure PROVE StagingInv'
  BY <1>6 DEF PowerFailure, Dead, StagingInv
<1>7. ASSUME Checkpoint \/ UNCHANGED vars PROVE StagingInv'
  BY <1>7 DEF Checkpoint, vars, stagingVars, StagingInv
<1> QED BY <1>1, <1>2, <1>3, <1>4, <1>5, <1>6, <1>7 DEF Next, Step, Finished

\* However the other imports ended, the staging directories in the store are
\* those of running imports, as long as nobody was killed.
THEOREM StagingStaysSwept == Spec => []StagingIsSwept
<1>1. Init => StagingInv
  BY DEF Init, StagingInv
<1>2. StagingInv => StagingIsSwept
  BY DEF StagingInv, StagingIsSwept
<1> QED BY <1>1, <1>2, StagingKeeps, InvariantHolds, PTL DEF Spec

--------------------------------------------------------------------------------
(* The queries. *)

\* Nothing is asked or answered, and the databases there have been remain.
LEMMA InfoSame ==
  ASSUME InfoInv, InfoIsOneSnapshot, UNCHANGED <<answer, failures>>,
         Len(log) \in Nat, Len(log') \in Nat, Len(log) <= Len(log'),
         \A i \in 1 .. Len(log) : log'[i] = log[i],
         \A r \in Procs : pc'[r] = "infoRefs" =>
           pc[r] = "infoRefs" /\ view'[r] = view[r] /\ job'[r] = job[r]
  PROVE  InfoInv' /\ InfoIsOneSnapshot'
<1>1. \A i \in 1 .. Len(log) : i \in 1 .. Len(log')
  OBVIOUS
<1>2. ASSUME failures = 0, NEW r \in Procs, pc'[r] = "infoRefs"
      PROVE  (\E i \in 1 .. Len(log') : view'[r] = log'[i]) /\ Table!IsValid(view[r], job[r].path)
  BY <1>1, <1>2 DEF InfoInv
<1>3. InfoInv'
  BY <1>2 DEF InfoInv, Table!IsValid
<1>4. ASSUME failures = 0, NEW r \in Procs, answer[r].path # None
      PROVE  \E i \in 1 .. Len(log') : TrueOf(log'[i], answer[r])
  BY <1>1, <1>4 DEF InfoIsOneSnapshot
<1>5. InfoIsOneSnapshot'
  BY <1>4 DEF InfoIsOneSnapshot
<1> QED BY <1>3, <1>5

\* Both statements of a query read the snapshot of the first.
LEMMA InfoKeeps == IInv /\ InfoInv /\ InfoIsOneSnapshot /\ [Next]_vars => InfoInv' /\ InfoIsOneSnapshot'
<1> SUFFICES ASSUME IInv, InfoInv, InfoIsOneSnapshot, [Next]_vars PROVE InfoInv' /\ InfoIsOneSnapshot'
  OBVIOUS
<1>0. pc \in [Procs -> Labels] /\ Len(log) \in Nat \ {0}
  BY CurrentKeeps DEF IInv, TxnInv
<1>1. ASSUME NEW p \in Procs, Start(p) PROVE InfoInv' /\ InfoIsOneSnapshot'
  <2>1. /\ log' = log /\ view' = view /\ failures' = failures
        /\ job' = [job EXCEPT ![p] = Head(todo[p])] /\ answer' = [answer EXCEPT ![p] = NoAnswer]
    BY <1>1 DEF Start, tableVars, txnVars, fixedVars
  <2>2. pc'[p] # "infoRefs" /\ \A r \in Procs \ {p} : pc'[r] = pc[r]
    <3>1. Head(todo[p]) \in Jobs
      BY <1>1 DEF Start, IInv, JobInv
    <3>2. Head(todo[p]).op \in {"import", "remove", "query"}
      BY <3>1 DEF Jobs
    <3> QED BY <1>0, <1>1, <3>2 DEF Start, Goto
  <2>3. \A r \in Procs \ {p} : job'[r] = job[r] /\ answer'[r] = answer[r]
    BY <2>1 DEF IInv, JobInv, InfoInv
  <2>4. answer' \in [Procs -> [path : Paths \cup {None}, refs : SUBSET Paths]] /\ answer'[p].path = None
    BY <2>1 DEF InfoInv, NoAnswer
  <2>5. InfoInv'
    BY <2>1, <2>2, <2>3, <2>4 DEF InfoInv, Table!IsValid
  <2>6. InfoIsOneSnapshot'
    BY <2>1, <2>3, <2>4 DEF InfoIsOneSnapshot
  <2> QED BY <2>5, <2>6
<1>2. ASSUME NEW p \in Procs, Info(p) PROVE InfoInv' /\ InfoIsOneSnapshot'
  <2>1. /\ log' = log /\ job' = job /\ view' = [view EXCEPT ![p] = Current]
        /\ answer' = answer /\ failures' = failures
        /\ pc' = [pc EXCEPT ![p] = IF Table!IsValid(Current, job[p].path) THEN "infoRefs" ELSE "cleanup"]
    BY <1>2 DEF Info, Goto, tableVars, fixedVars
  <2>2. view'[p] = log[Len(log)]
    BY <2>1 DEF IInv, TxnInv, Current, Table!Current
  <2>3. pc'[p] = "infoRefs" => Table!IsValid(view'[p], job[p].path)
    BY <1>0, <2>1, <2>2 DEF Current, Table!Current
  <2>4. \A r \in Procs \ {p} : pc'[r] = pc[r] /\ view'[r] = view[r]
    BY <1>0, <2>1 DEF IInv, TxnInv
  <2>5. ASSUME failures = 0, NEW r \in Procs, pc'[r] = "infoRefs"
        PROVE  (\E i \in 1 .. Len(log) : view'[r] = log[i]) /\ Table!IsValid(view'[r], job[r].path)
    <3>1. CASE r = p
      BY <1>0, <2>2, <2>3, <2>5, <3>1
    <3>2. CASE r # p
      BY <2>4, <2>5, <3>2 DEF InfoInv
    <3> QED BY <3>1, <3>2
  <2>6. InfoInv'
    BY <2>1, <2>5 DEF InfoInv, Table!IsValid
  <2>7. InfoIsOneSnapshot'
    BY <2>1 DEF InfoIsOneSnapshot
  <2> QED BY <2>6, <2>7
<1>3. ASSUME NEW p \in Procs, InfoRefs(p) PROVE InfoInv' /\ InfoIsOneSnapshot'
  <2> DEFINE q == job[p].path
             a == [path |-> q, refs |-> RefsOf(view[p], Table!IdOf(view[p], q))]
  <2>1. /\ log' = log /\ job' = job /\ view' = view /\ failures' = failures
        /\ answer' = [answer EXCEPT ![p] = a]
        /\ pc[p] = "infoRefs" /\ pc' = [pc EXCEPT ![p] = "cleanup"]
    BY <1>3 DEF InfoRefs, Goto, tableVars, txnVars, fixedVars
  <2>2. q \in Paths /\ view[p] \in Table!Databases
    BY <2>1 DEF IInv, JobInv, TxnInv, Jobs
  <2>3. a \in [path : Paths \cup {None}, refs : SUBSET Paths]
    <3>1. \A id : RefsOf(view[p], id) \subseteq Paths
      BY <2>2 DEF RefsOf, Table!Databases
    <3> QED BY <2>2, <3>1
  <2>4. failures = 0 => \E i \in 1 .. Len(log) : TrueOf(log[i], a)
    BY <2>1 DEF InfoInv, TrueOf
  <2> HIDE DEF a
  <2>5. answer'[p] = a /\ \A r \in Procs \ {p} : answer'[r] = answer[r] /\ pc'[r] = pc[r]
    BY <1>0, <2>1 DEF InfoInv
  <2>6. pc'[p] = "cleanup"
    BY <1>0, <2>1
  <2>7. InfoInv'
    BY <2>1, <2>3, <2>5, <2>6 DEF InfoInv, Table!IsValid
  <2>8. ASSUME failures = 0, NEW r \in Procs, answer'[r].path # None
        PROVE  \E i \in 1 .. Len(log) : TrueOf(log[i], answer'[r])
    <3>1. CASE r = p
      BY <2>4, <2>5, <2>8, <3>1
    <3>2. CASE r # p
      BY <2>5, <2>8, <3>2 DEF InfoIsOneSnapshot
    <3> QED BY <3>1, <3>2
  <2>9. InfoIsOneSnapshot'
    BY <2>1, <2>8 DEF InfoIsOneSnapshot
  <2> QED BY <2>7, <2>9
<1>4. ASSUME NEW p \in Procs, Commit(p) PROVE InfoInv' /\ InfoIsOneSnapshot'
  <2>1. log' = Append(log, view[p]) /\ UNCHANGED <<view, job, answer, failures>>
    BY <1>4 DEF Commit, fixedVars
  <2>2. log \in Seq(Table!Databases) /\ view[p] \in Table!Databases
    BY DEF IInv, LogInv, TxnInv
  <2>3. Len(log') = Len(log) + 1 /\ \A i \in 1 .. Len(log) : log'[i] = log[i]
    BY <2>1, <2>2
  <2>4. \A r \in Procs : pc'[r] = "infoRefs" => pc[r] = "infoRefs"
    BY <1>0, <1>4 DEF Commit, Goto
  <2> QED BY <1>0, <2>1, <2>3, <2>4, InfoSame
<1>5. ASSUME NEW p \in Procs,
             \/ MakeDir(p) \/ MakeDirFails(p) \/ Check(p) \/ Lock(p) \/ Recheck(p) \/ Place(p) \/ SyncTree(p)
             \/ Select(p) \/ Write(p) \/ Busy(p) \/ AddRefs(p) \/ Delete(p) \/ Cleanup(p)
      PROVE InfoInv' /\ InfoIsOneSnapshot'
  <2>1. log' = log /\ UNCHANGED <<answer, failures>>
    BY <1>5 DEF MakeDir, MakeDirFails, Check, Lock, Recheck, Place, SyncTree, Select, Write, Busy, AddRefs,
                Delete, Cleanup, tableVars, fixedVars
  <2>2. \A r \in Procs \ {p} : pc'[r] = pc[r] /\ view'[r] = view[r] /\ job'[r] = job[r]
    <3>1. CASE Select(p)
      BY <1>0, <3>1 DEF Select, Throw, Goto, IInv, TxnInv, TxnOf
    <3>2. CASE ~Select(p)
      BY <1>0, <1>5, <3>2 DEF MakeDir, MakeDirFails, Check, Lock, Recheck, Place, SyncTree, Write, Busy, AddRefs,
                  Delete, Cleanup, Goto, Throw, txnVars, IInv, JobInv, TxnInv
    <3> QED BY <3>1, <3>2
  <2>3. pc'[p] # "infoRefs"
    <3>1. CASE Select(p)
      BY <1>0, <3>1 DEF Select, Throw, Goto, IInv, TxnInv, TxnOf
    <3>2. CASE ~Select(p)
      BY <1>0, <1>5, <3>2 DEF MakeDir, MakeDirFails, Check, Lock, Recheck, Place, SyncTree, Write, Busy, AddRefs,
                  Delete, Cleanup, Goto, Throw
    <3> QED BY <3>1, <3>2
  <2> QED BY <1>0, <2>1, <2>2, <2>3, InfoSame
<1>6. ASSUME failures' = failures + 1, answer' = answer PROVE InfoInv' /\ InfoIsOneSnapshot'
  BY <1>6 DEF InfoInv, InfoIsOneSnapshot
<1>7. ASSUME (\E p \in Procs : Kill(p)) \/ PowerFailure PROVE InfoInv' /\ InfoIsOneSnapshot'
  BY <1>6, <1>7 DEF Kill, PowerFailure, Dead
<1>8. ASSUME Checkpoint \/ UNCHANGED vars PROVE InfoInv' /\ InfoIsOneSnapshot'
  BY <1>0, <1>8, InfoSame DEF Checkpoint, vars, tableVars, fixedVars, txnVars
<1> QED BY <1>1, <1>2, <1>3, <1>4, <1>5, <1>7, <1>8 DEF Next, Step, Finished

\* What a query returns was true of one database, whatever was registered and
\* invalidated while it ran.
THEOREM QueriesAreConsistent == Spec => []InfoIsOneSnapshot
<1>1. Init => InfoInv /\ InfoIsOneSnapshot
  BY DEF Init, InfoInv, InfoIsOneSnapshot, NoAnswer
<1> QED BY <1>1, InfoKeeps, InvariantHolds, PTL DEF Spec

--------------------------------------------------------------------------------
(* The trees of the valid paths. *)

\* A registration makes its path valid and no other.
LEMMA RegisteredIsValid ==
  ASSUME NEW db \in Table!Databases, Table!Consistent(db), NEW p \in Paths, NEW refs
  PROVE  \A q : Table!IsValid(Table!Registered(db, p, refs), q) <=> q = p \/ Table!IsValid(db, q)
<1> DEFINE d == Table!AddValidPath(db, p)
<1>1. d \in Table!Databases /\ \A q : Table!IsValid(d, q) <=> q = p \/ Table!IsValid(db, q)
  BY AddKeeps
<1> HIDE DEF d
<1>2. Table!AddReferences(d, p, refs).rows = d.rows
  BY <1>1 DEF Table!AddReferences, Table!Databases
<1>3. \A q : Table!IsValid(Table!AddReferences(d, p, refs), q) <=> Table!IsValid(d, q)
  BY <1>2 DEF Table!IsValid
<1> QED BY <1>1, <1>3 DEF Table!Registered, d

\* An invalidation makes no path valid.
LEMMA InvalidatedIsValid ==
  ASSUME NEW db \in Table!Databases, NEW p, NEW q, Table!IsValid(Table!InvalidatePath(db, p), q)
  PROVE  Table!IsValid(db, q)
<1>1. Table!InvalidatePath(db, p).rows = {r \in db.rows : r.path # p}
  BY DEF Table!InvalidatePath, Table!Databases
<1> QED BY <1>1 DEF Table!IsValid

\* What holds of an import that does not move rests on its lock, its row and
\* its tree.
LEMMA TreeOfSame ==
  ASSUME NEW r, TreeOf(r), pc'[r] = pc[r], job'[r] = job[r], settings' = settings,
         NEW q, q = job[r].path,
         HoldsLock(r) =>
           /\ pathLock'[q] = pathLock[q]
           /\ Table!IsValid(Current', q) => Table!IsValid(Current, q)
           /\ q \in removed => q \in removed'
           /\ disk[q] = "whole" => q \in removed' \/ disk'[q] = "whole"
           /\ Durable(q) => q \in removed' \/ (disk'[q] = "whole" /\ after'[q] = {"whole"})
  PROVE  TreeOf(r)'
<1>1. HoldsLock(r)' <=> HoldsLock(r)
  BY DEF HoldsLock
<1>2. SyncsTrees' <=> SyncsTrees
  BY DEF SyncsTrees
<1>3. TreeOf(r)' <=>
        (HoldsLock(r)' =>
          /\ pathLock'[q] = r
          /\ pc[r] = "place" => ~Table!IsValid(Current', q)
          /\ pc[r] = "sync" => q \in removed' \/ disk'[q] = "whole"
          /\ SyncsTrees' /\ pc[r] \in {"select", "write", "busy", "refs", "commit"} =>
               q \in removed' \/ (disk'[q] = "whole" /\ after'[q] = {"whole"}))
  BY DEF TreeOf, Durable
<1> QED BY <1>1, <1>2, <1>3 DEF TreeOf, Durable

\* A step of a process that leaves the trees, the rows and the locks alone.
LEMMA TreeSame ==
  ASSUME IInv, TreeInv, NEW p \in Procs,
         UNCHANGED <<log, pathLock, disk, after, removed, settings>>,
         \A r \in Procs \ {p} : pc'[r] = pc[r] /\ job'[r] = job[r],
         TreeOf(p)'
  PROVE  TreeInv'
<1>1. Current' = Current
  BY DEF Current, Table!Current
<1>2. ASSUME NEW r \in Procs PROVE TreeOf(r)'
  <2>1. CASE r # p
    BY <1>1, <2>1, TreeOfSame DEF TreeInv, Durable
  <2> QED BY <2>1
<1>3. SyncsTrees' => \A q \in Paths : Table!IsValid(Current, q) => q \in removed' \/ (disk'[q] = "whole" /\ after'[q] = {"whole"})
  BY DEF TreeInv, SyncsTrees, Durable
<1> QED BY <1>1, <1>2, <1>3 DEF TreeInv, Durable

\* An import that does not hold its lock is not bound to anything.
LEMMA TreeFree ==
  ASSUME NEW p, \/ pc'[p] \in {"idle", "mkdir", "check", "lock", "delete", "cleanup", "info", "infoRefs"}
                \/ job'[p].op # "import"
  PROVE  TreeOf(p)'
BY DEF TreeOf, HoldsLock

\* The steps before the lock is taken, after it is needed, and inside of the
\* transaction.
LEMMA TreeQuiet ==
  ASSUME IInv, TreeInv, NEW p \in Procs,
         \/ Start(p) \/ MakeDir(p) \/ MakeDirFails(p) \/ Check(p) \/ Recheck(p)
         \/ Select(p) \/ Write(p) \/ Busy(p) \/ AddRefs(p) \/ Info(p) \/ InfoRefs(p)
  PROVE  TreeInv'
<1>0. pc \in [Procs -> Labels] /\ job \in [Procs -> Jobs \cup {NoJob}] /\ TxnOf(p) /\ TreeOf(p)
  BY DEF IInv, JobInv, TxnInv, TreeInv
<1>1. UNCHANGED <<log, pathLock, disk, after, removed, settings>>
  BY DEF Start, MakeDir, MakeDirFails, Check, Recheck, Select, Write, Busy, AddRefs, Info, InfoRefs,
         tableVars, diskVars, fixedVars
<1>2. CASE Start(p)
  <2>1. Head(todo[p]) \in Jobs
    BY <1>2 DEF Start, IInv, JobInv
  <2>2. Head(todo[p]).op \in {"import", "remove", "query"}
    BY <2>1 DEF Jobs
  <2>3. \A r \in Procs \ {p} : pc'[r] = pc[r] /\ job'[r] = job[r]
    BY <1>0, <1>2, <2>2 DEF Start, Goto
  <2>4. job'[p] = Head(todo[p])
    BY <1>0, <1>2 DEF Start
  <2>5. pc'[p] \in {"mkdir", "info"} \/ job'[p].op # "import"
    BY <1>0, <1>2, <2>2, <2>4 DEF Start, Goto
  <2> QED BY <1>1, <2>3, <2>5, TreeFree, TreeSame
<1>3. CASE ~Start(p)
  <2> DEFINE inside == {"select", "write", "busy", "refs", "commit"}
  <2>1. job' = job
    BY <1>3 DEF MakeDir, MakeDirFails, Check, Recheck, Select, Write, Busy, AddRefs, Info, InfoRefs
  <2>2. PICK to \in Labels : /\ pc' = [pc EXCEPT ![p] = to]
                             /\ \/ to \in {"mkdir", "check", "lock", "delete", "cleanup", "infoRefs"}
                                \/ pc[p] \in inside /\ to \in inside
                                \/ to = "place" /\ ~Table!IsValid(Current, job[p].path) /\ Recheck(p)
    <3>1. CASE Select(p)
      BY <1>0, <3>1 DEF Select, Throw, Goto, TxnOf, Labels
    <3>2. CASE MakeDir(p)
      <4>1. pc[p] = "mkdir" /\ (pc' = pc \/ pc' = [pc EXCEPT ![p] = "check"])
        BY <3>2 DEF MakeDir, Goto
      <4>2. pc = [pc EXCEPT ![p] = pc[p]]
        BY <1>0
      <4> QED BY <4>1, <4>2 DEF Labels
    <3>3. CASE ~Select(p) /\ ~MakeDir(p)
      BY <1>3, <3>3 DEF MakeDirFails, Check, Recheck, Write, Busy, AddRefs, Info, InfoRefs, Throw, Goto, Labels
    <3> QED BY <3>1, <3>2, <3>3
  <2>3. pc'[p] = to /\ \A r \in Procs \ {p} : pc'[r] = pc[r] /\ job'[r] = job[r]
    BY <1>0, <2>1, <2>2
  <2>4. Current' = Current
    BY <1>1 DEF Current, Table!Current
  <2>5. CASE pc[p] \in inside /\ to \in inside
    <3>1. HoldsLock(p)' => HoldsLock(p)
      BY <2>1, <2>3, <2>5 DEF HoldsLock
    <3>2. SyncsTrees' <=> SyncsTrees
      BY <1>1 DEF SyncsTrees
    <3>3. Durable(job[p].path)' <=> Durable(job[p].path)
      BY <1>1, <2>1 DEF Durable
    <3>4. TreeOf(p)'
      BY <1>0, <1>1, <2>1, <2>3, <2>5, <3>1, <3>2, <3>3 DEF TreeOf
    <3> QED BY <1>1, <2>3, <3>4, TreeSame
  <2>6. CASE to = "place" /\ ~Table!IsValid(Current, job[p].path) /\ Recheck(p)
    <3>1. HoldsLock(p)' => HoldsLock(p)
      BY <2>1, <2>3, <2>6 DEF HoldsLock, Recheck
    <3>2. TreeOf(p)'
      BY <1>0, <1>1, <2>1, <2>3, <2>4, <2>6, <3>1 DEF TreeOf
    <3> QED BY <1>1, <2>3, <3>2, TreeSame
  <2> QED BY <1>1, <2>2, <2>3, <2>5, <2>6, TreeFree, TreeSame
<1> QED BY <1>2, <1>3

\* Two imports that hold their locks are about different paths.
LEMMA OtherPath ==
  ASSUME TreeInv, NEW p \in Procs, HoldsLock(p), NEW r \in Procs \ {p}, HoldsLock(r)
  PROVE  job[r].path # job[p].path
BY DEF TreeInv, TreeOf

\* An import takes its lock, which nobody has.
LEMMA TreeLock == ASSUME IInv, TreeInv, NEW p \in Procs, Lock(p) PROVE TreeInv'
<1> DEFINE q == job[p].path
<1>1. /\ pathLock[q] = None /\ pathLock' = [pathLock EXCEPT ![q] = p]
      /\ pc[p] = "lock" /\ pc' = [pc EXCEPT ![p] = "recheck"]
      /\ UNCHANGED <<log, disk, after, removed, settings, job>>
  BY DEF Lock, Goto, tableVars, diskVars, fixedVars
<1>2. Current' = Current
  BY <1>1 DEF Current, Table!Current
<1>3. q \in Paths
  BY <1>1 DEF IInv, JobInv, Jobs
<1>4. pc'[p] = "recheck" /\ \A r \in Procs \ {p} : pc'[r] = pc[r]
  BY <1>1 DEF IInv, TxnInv
<1>5. ASSUME NEW r \in Procs PROVE TreeOf(r)'
  <2>1. CASE r = p
    <3>1. pathLock'[q] = p
      BY <1>1, <1>3 DEF TreeInv
    <3> QED BY <1>1, <1>4, <2>1, <3>1 DEF TreeOf
  <2>2. CASE r # p
    <3>1. TreeOf(r)
      BY DEF TreeInv
    <3>2. HoldsLock(r) => job[r].path # q
      BY <1>1, <3>1, NoneAssumption DEF TreeOf
    <3>3. HoldsLock(r) => pathLock'[job[r].path] = pathLock[job[r].path]
      BY <1>1, <3>2 DEF TreeInv
    <3> QED BY <1>1, <1>2, <1>4, <2>2, <3>1, <3>3, TreeOfSame DEF Durable
  <2> QED BY <2>1, <2>2
<1>6. pathLock' \in [Paths -> Procs \cup {None}]
  BY <1>1 DEF TreeInv
<1>7. SyncsTrees' => \A x \in Paths : Table!IsValid(Current, x) => x \in removed' \/ Durable(x)'
  BY <1>1 DEF TreeInv, SyncsTrees, Durable
<1> QED BY <1>1, <1>2, <1>5, <1>6, <1>7 DEF TreeInv

\* An import moves its tree to a path that is not valid.
LEMMA TreePlace == ASSUME IInv, TreeInv, NEW p \in Procs, Place(p) PROVE TreeInv'
<1> DEFINE q == job[p].path
<1>1. /\ disk' = [disk EXCEPT ![q] = "whole"] /\ after' = [after EXCEPT ![q] = {"none", "torn", "whole"}]
      /\ pc[p] = "place" /\ pc' = [pc EXCEPT ![p] = "sync"]
      /\ UNCHANGED <<log, removed, pathLock, settings, job>>
  BY DEF Place, Goto, tableVars, fixedVars
<1>2. Current' = Current
  BY <1>1 DEF Current, Table!Current
<1>3. q \in Paths /\ job[p].op = "import"
  BY <1>1 DEF IInv, JobInv, Jobs, TxnInv, TxnOf
<1>4. HoldsLock(p) /\ pathLock[q] = p /\ ~Table!IsValid(Current, q)
  BY <1>1, <1>3 DEF HoldsLock, TreeInv, TreeOf
<1>5. pc'[p] = "sync" /\ \A r \in Procs \ {p} : pc'[r] = pc[r]
  BY <1>1 DEF IInv, TxnInv
<1>6. disk'[q] = "whole" /\ \A x \in Paths \ {q} : disk'[x] = disk[x] /\ after'[x] = after[x]
  BY <1>1, <1>3 DEF TreeInv
<1>7. ASSUME NEW r \in Procs PROVE TreeOf(r)'
  <2>1. CASE r = p
    BY <1>1, <1>4, <1>5, <1>6, <2>1 DEF TreeOf
  <2>2. CASE r # p
    <3>1. TreeOf(r)
      BY DEF TreeInv
    <3>2. HoldsLock(r) => job[r].path \in Paths \ {q}
      BY <1>4, <2>2, OtherPath DEF IInv, JobInv, Jobs, HoldsLock
    <3> QED BY <1>1, <1>2, <1>5, <1>6, <2>2, <3>1, <3>2, TreeOfSame DEF Durable
  <2> QED BY <2>1, <2>2
<1>8. disk' \in [Paths -> {"none", "torn", "whole"}] /\ after' \in [Paths -> SUBSET {"none", "torn", "whole"}]
  BY <1>1 DEF TreeInv
<1>9. SyncsTrees' => \A x \in Paths : Table!IsValid(Current, x) => x \in removed' \/ Durable(x)'
  BY <1>1, <1>4, <1>6 DEF TreeInv, SyncsTrees, Durable
<1> QED BY <1>1, <1>2, <1>7, <1>8, <1>9 DEF TreeInv

\* A sync makes trees durable, and leaves the durable ones durable.
LEMMA TreeSync == ASSUME IInv, TreeInv, NEW p \in Procs, SyncTree(p) PROVE TreeInv'
<1> DEFINE q == job[p].path
<1>1. /\ pc[p] = "sync" /\ \E to \in {"select", "cleanup"} : pc' = [pc EXCEPT ![p] = to]
      /\ UNCHANGED <<log, disk, removed, pathLock, settings, job>>
  BY DEF SyncTree, Throw, Goto, tableVars, fixedVars
<1>2. Current' = Current
  BY <1>1 DEF Current, Table!Current
<1>3. q \in Paths /\ job[p].op = "import"
  BY <1>1 DEF IInv, JobInv, Jobs, TxnInv, TxnOf
<1>4. HoldsLock(p) /\ pathLock[q] = p /\ (q \in removed \/ disk[q] = "whole")
  BY <1>1, <1>3 DEF HoldsLock, TreeInv, TreeOf
<1>5. pc'[p] \in {"select", "cleanup"} /\ \A r \in Procs \ {p} : pc'[r] = pc[r]
  BY <1>1 DEF IInv, TxnInv
<1>6. after' \in [Paths -> SUBSET {"none", "torn", "whole"}] /\ \A x \in Paths : after'[x] \in {after[x], {disk[x]}}
  <2>1. after' \in {after, [r \in Paths |-> {disk[r]}], [after EXCEPT ![q] = {disk[q]}]}
    BY DEF SyncTree, TreeInv
  <2> QED BY <1>3, <2>1 DEF TreeInv
<1>7. \A x \in Paths : Durable(x) => disk'[x] = "whole" /\ after'[x] = {"whole"}
  BY <1>1, <1>6 DEF Durable
<1>8. SyncsTrees /\ pc'[p] = "select" => after'[q] = {disk[q]}
  <2> SUFFICES ASSUME SyncsTrees, pc'[p] = "select" PROVE after'[q] = {disk[q]}
    OBVIOUS
  <2>1. ~(settings.fsyncStorePaths /\ disk[q] # "whole")
    BY DEF SyncTree, Throw, Goto, IInv, TxnInv
  <2>2. after' = IF settings.syncBeforeRegistering THEN [r \in Paths |-> {disk[r]}]
                 ELSE [after EXCEPT ![q] = IF settings.fsyncStorePaths THEN {disk[q]} ELSE @]
    BY <2>1 DEF SyncTree
  <2> QED BY <1>3, <2>2 DEF SyncsTrees, TreeInv
<1>9. ASSUME NEW r \in Procs PROVE TreeOf(r)'
  <2>1. CASE r = p
    <3>1. SyncsTrees' <=> SyncsTrees
      BY <1>1 DEF SyncsTrees
    <3> QED BY <1>1, <1>4, <1>5, <1>8, <2>1, <3>1 DEF TreeOf, HoldsLock, Durable
  <2>2. CASE r # p
    <3>1. TreeOf(r)
      BY DEF TreeInv
    <3>2. HoldsLock(r) => job[r].path \in Paths
      BY DEF IInv, JobInv, Jobs, HoldsLock
    <3> QED BY <1>1, <1>2, <1>5, <1>7, <2>2, <3>1, <3>2, TreeOfSame
  <2> QED BY <2>1, <2>2
<1>10. SyncsTrees' => \A x \in Paths : Table!IsValid(Current, x) => x \in removed' \/ Durable(x)'
  BY <1>1, <1>7 DEF TreeInv, SyncsTrees, Durable
<1> QED BY <1>1, <1>2, <1>6, <1>9, <1>10 DEF TreeInv

\* The path that becomes valid has a durable tree, or a remover has been there.
LEMMA TreeCommit == ASSUME IInv, TreeInv, NEW p \in Procs, Commit(p) PROVE TreeInv'
<1> DEFINE q == job[p].path
<1>1. /\ pc[p] = "commit" /\ log' = Append(log, view[p])
      /\ removed' = IF job[p].op = "remove" THEN removed \cup {q}
                    ELSE IF Durable(q) THEN removed \ {q} ELSE removed
      /\ UNCHANGED <<disk, after, pathLock, settings, job>>
      /\ \E to \in {"delete", "cleanup"} : pc' = [pc EXCEPT ![p] = to]
  BY DEF Commit, Goto, fixedVars
<1>2. job[p].op \in {"import", "remove"} /\ q \in Paths
  BY <1>1 DEF IInv, JobInv, Jobs, TxnInv, TxnOf
<1>3. Current' = view[p] /\ Current \in Table!Databases /\ Table!Consistent(Current)
  <2>1. log \in Seq(Table!Databases) /\ view[p] \in Table!Databases
    BY DEF IInv, LogInv, TxnInv
  <2> QED BY <1>1, <2>1, CurrentKeeps DEF IInv, Current, Table!Current
<1>4. pc'[p] \in {"delete", "cleanup"} /\ \A r \in Procs \ {p} : pc'[r] = pc[r]
  BY <1>1 DEF IInv, TxnInv
<1>5. \A x : Table!IsValid(Current', x) => Table!IsValid(Current, x) \/ (x = q /\ job[p].op = "import")
  <2>1. CASE job[p].op = "import"
    <3>1. view[p] = Table!Registered(Current, q, job[p].refs)
      BY <1>1, <2>1 DEF IInv, TxnInv, TxnOf
    <3> QED BY <1>2, <1>3, <2>1, <3>1, RegisteredIsValid
  <2>2. CASE job[p].op = "remove"
    <3>1. view[p] = Table!InvalidatePath(Current, q)
      BY <1>1, <2>2 DEF IInv, TxnInv, TxnOf
    <3> QED BY <1>3, <3>1, InvalidatedIsValid
  <2> QED BY <1>2, <2>1, <2>2
<1>6. \A x \in removed : x \in removed' \/ Durable(x)
  BY <1>1
<1>7. job[p].op = "import" => HoldsLock(p) /\ (SyncsTrees => q \in removed \/ Durable(q))
  BY <1>1 DEF HoldsLock, TreeInv, TreeOf
<1>8. ASSUME NEW r \in Procs PROVE TreeOf(r)'
  <2>1. CASE r = p
    BY <1>4, <2>1, TreeFree
  <2>2. CASE r # p
    <3>1. TreeOf(r)
      BY DEF TreeInv
    <3>2. HoldsLock(r) => job[r].path # q \/ job[p].op = "remove"
      BY <1>2, <1>7, <2>2, OtherPath
    <3>3. HoldsLock(r) => /\ Table!IsValid(Current', job[r].path) => Table!IsValid(Current, job[r].path)
                          /\ job[r].path \in removed => job[r].path \in removed'
      BY <1>1, <1>2, <1>5, <3>2
    <3> QED BY <1>1, <1>4, <2>2, <3>1, <3>3, TreeOfSame DEF Durable
  <2> QED BY <2>1, <2>2
<1>9. SyncsTrees' => \A x \in Paths : Table!IsValid(Current', x) => x \in removed' \/ Durable(x)
  BY <1>1, <1>5, <1>6, <1>7 DEF TreeInv, SyncsTrees
<1>10. \A x : Durable(x)' <=> Durable(x)
  BY <1>1 DEF Durable
<1> QED BY <1>1, <1>8, <1>9, <1>10 DEF TreeInv

\* A remover deletes the tree of a path it has invalidated, or that somebody
\* else has.
LEMMA TreeDelete == ASSUME IInv, TreeInv, NEW p \in Procs, Delete(p) PROVE TreeInv'
<1> DEFINE q == job[p].path
<1>1. /\ disk' = [disk EXCEPT ![q] = "none"] /\ after' = [after EXCEPT ![q] = @ \cup {"none", "torn"}]
      /\ removed' = removed \cup {q} /\ pc' = [pc EXCEPT ![p] = "cleanup"]
      /\ UNCHANGED <<log, pathLock, settings, job>>
  BY DEF Delete, Goto, tableVars, fixedVars
<1>2. Current' = Current
  BY <1>1 DEF Current, Table!Current
<1>3. pc'[p] = "cleanup" /\ \A r \in Procs \ {p} : pc'[r] = pc[r]
  BY <1>1 DEF IInv, TxnInv
<1>4. q \in removed' /\ \A x \in Paths : x = q \/ (disk'[x] = disk[x] /\ after'[x] = after[x])
  BY <1>1 DEF TreeInv
<1>5. ASSUME NEW r \in Procs PROVE TreeOf(r)'
  <2>1. CASE r = p
    BY <1>3, <2>1, TreeFree
  <2>2. CASE r # p
    <3>1. TreeOf(r)
      BY DEF TreeInv
    <3>2. HoldsLock(r) => job[r].path \in Paths
      BY DEF IInv, JobInv, Jobs, HoldsLock
    <3> QED BY <1>1, <1>2, <1>3, <1>4, <2>2, <3>1, <3>2, TreeOfSame DEF Durable
  <2> QED BY <2>1, <2>2
<1>6. disk' \in [Paths -> {"none", "torn", "whole"}] /\ after' \in [Paths -> SUBSET {"none", "torn", "whole"}]
  BY <1>1 DEF TreeInv
<1>7. SyncsTrees' => \A x \in Paths : Table!IsValid(Current, x) => x \in removed' \/ Durable(x)'
  BY <1>1, <1>4 DEF TreeInv, SyncsTrees, Durable
<1> QED BY <1>1, <1>2, <1>5, <1>6, <1>7 DEF TreeInv

\* Processes that are gone, or done, release their locks and no others.
LEMMA TreeRelease ==
  ASSUME IInv, TreeInv, NEW gone \in SUBSET Procs,
         UNCHANGED <<log, disk, after, removed, settings>>,
         pathLock' = [q \in Paths |-> IF pathLock[q] \in gone THEN None ELSE pathLock[q]],
         \A r \in gone : pc'[r] = "idle",
         \A r \in Procs \ gone : pc'[r] = pc[r] /\ job'[r] = job[r]
  PROVE  TreeInv'
<1>1. Current' = Current
  BY DEF Current, Table!Current
<1>2. ASSUME NEW r \in Procs PROVE TreeOf(r)'
  <2>1. CASE r \in gone
    BY <2>1, TreeFree
  <2>2. CASE r \notin gone
    <3>1. TreeOf(r)
      BY DEF TreeInv
    <3>2. HoldsLock(r) => pathLock'[job[r].path] = pathLock[job[r].path]
      BY <2>2, <3>1 DEF IInv, JobInv, Jobs, HoldsLock, TreeOf
    <3> QED BY <1>1, <2>2, <3>1, <3>2, TreeOfSame DEF Durable
  <2> QED BY <2>1, <2>2
<1>3. pathLock' \in [Paths -> Procs \cup {None}]
  BY DEF TreeInv
<1>4. SyncsTrees' => \A x \in Paths : Table!IsValid(Current, x) => x \in removed' \/ Durable(x)'
  BY DEF TreeInv, SyncsTrees, Durable
<1> QED BY <1>1, <1>2, <1>3, <1>4 DEF TreeInv

\* A row that is there after a power failure was there before it, and then
\* its tree was durable, or has been invalidated meanwhile.
LEMMA TreePower == ASSUME IInv, TreeInv, PowerFailure PROVE TreeInv'
<1>1. PICK n \in synced .. Len(log) :
        /\ log' = SubSeq(log, 1, n)
        /\ removed' = removed \cup {q \in Paths : /\ Table!IsValid(log[n], q)
                                                  /\ \E i \in n .. Len(log) : ~Table!IsValid(log[i], q)}
  BY DEF PowerFailure
<1>2. log \in Seq(Table!Databases) /\ Len(log) \in Nat /\ n \in 1 .. Len(log) /\ Len(log) \in n .. Len(log)
  BY <1>1, CurrentKeeps DEF IInv, LogInv
<1>3. Current' = log[n]
  <2>1. \A i \in 1 .. n : log[i] \in Table!Databases
    BY <1>2
  <2>2. Len(log') = n /\ log'[n] = log[n]
    BY <1>1, <1>2, <2>1, SubSeqProperties
  <2> QED BY <2>2 DEF Current, Table!Current
<1>4. /\ disk' \in [Paths -> {"none", "torn", "whole"}]
      /\ \A x \in Paths : disk'[x] \in after[x] /\ after'[x] = {disk'[x]}
      /\ after' \in [Paths -> SUBSET {"none", "torn", "whole"}]
  BY DEF PowerFailure
<1>5. settings' = settings /\ (\A r \in Procs : pc'[r] = "idle") /\ pathLock' \in [Paths -> Procs \cup {None}]
  BY DEF PowerFailure, Dead, TreeInv
<1>6. \A r \in Procs : TreeOf(r)'
  BY <1>5, TreeFree
<1>7. ASSUME SyncsTrees', NEW x \in Paths, Table!IsValid(log[n], x), x \notin removed' PROVE Durable(x)'
  <2>1. Table!IsValid(log[Len(log)], x)
    BY <1>1, <1>2, <1>7
  <2>2. Durable(x)
    BY <1>1, <1>5, <1>7, <2>1 DEF TreeInv, SyncsTrees, Current, Table!Current
  <2> QED BY <1>4, <2>2 DEF Durable
<1> QED BY <1>3, <1>4, <1>5, <1>6, <1>7 DEF TreeInv

\* Every step keeps the trees of the valid paths.
LEMMA TreeKeeps == IInv /\ TreeInv /\ [Next]_vars => TreeInv'
<1> SUFFICES ASSUME IInv, TreeInv, [Next]_vars PROVE TreeInv'
  OBVIOUS
<1>1. ASSUME NEW p \in Procs, Start(p) \/ Step(p) PROVE TreeInv'
  <2>1. CASE Cleanup(p)
    <3>1. /\ UNCHANGED <<log, disk, after, removed, settings>>
          /\ pathLock' = [q \in Paths |-> IF pathLock[q] \in {p} THEN None ELSE pathLock[q]]
          /\ \A r \in {p} : pc'[r] = "idle"
          /\ \A r \in Procs \ {p} : pc'[r] = pc[r] /\ job'[r] = job[r]
      BY <2>1 DEF Cleanup, Goto, tableVars, diskVars, fixedVars, IInv, JobInv, TxnInv
    <3>2. {p} \in SUBSET Procs
      OBVIOUS
    <3> QED BY <3>1, <3>2, TreeRelease
  <2> QED BY <1>1, <2>1, TreeQuiet, TreeLock, TreePlace, TreeSync, TreeCommit, TreeDelete DEF Step
<1>2. ASSUME NEW p \in Procs, Kill(p) PROVE TreeInv'
  <2>1. /\ UNCHANGED <<log, disk, after, removed, settings>>
        /\ pathLock' = [q \in Paths |-> IF pathLock[q] \in {p} THEN None ELSE pathLock[q]]
        /\ \A r \in {p} : pc'[r] = "idle"
        /\ \A r \in Procs \ {p} : pc'[r] = pc[r] /\ job'[r] = job[r]
    BY <1>2 DEF Kill, Dead, tableVars, diskVars
  <2>2. {p} \in SUBSET Procs
    OBVIOUS
  <2> QED BY <2>1, <2>2, TreeRelease
<1>3. ASSUME Checkpoint \/ UNCHANGED vars PROVE TreeInv'
  <2>1. /\ UNCHANGED <<log, pathLock, disk, after, removed, settings>>
        /\ pathLock' = [q \in Paths |-> IF pathLock[q] \in {} THEN None ELSE pathLock[q]]
        /\ \A r \in {} : pc'[r] = "idle"
        /\ \A r \in Procs \ {} : pc'[r] = pc[r] /\ job'[r] = job[r]
    BY <1>3 DEF Checkpoint, vars, tableVars, diskVars, fixedVars, TreeInv
  <2>2. {} \in SUBSET Procs
    OBVIOUS
  <2> QED BY <2>1, <2>2, TreeRelease
<1> QED BY <1>1, <1>2, <1>3, TreePower DEF Next, Finished

\* With fsyncStorePaths or syncBeforeRegistering, a valid path has its tree,
\* whatever is killed and whenever the power fails.
THEOREM ValidPathsHaveTrees == Spec => []RowsHaveTrees
<1>1. Init => TreeInv
  BY DEF Init, TreeInv, TreeOf, HoldsLock, Current, Table!Current, Table!EmptyDb, Table!IsValid
<1>2. TreeInv => RowsHaveTrees
  BY DEF TreeInv, RowsHaveTrees, Durable
<1> QED BY <1>1, <1>2, TreeKeeps, InvariantHolds, PTL DEF Spec

--------------------------------------------------------------------------------
(* Opening the database: any number of tools make or find it at a time.    *)

USE FilesAssumption, StatementsAssumption, OpensAssumption

\* schema.sql is not empty.
LEMMA OpeningFirstStatement == 1 \in 1 .. Statements
  OBVIOUS

\* The initial state satisfies the invariant.
LEMMA OpeningInitIInv == OpenInit => OpenInv
  <1> SUFFICES ASSUME OpenInit PROVE OpenInv
    OBVIOUS
  <1>1. TypeOK BY OpeningFirstStatement DEF OpenInit, TypeOK, PCs
  <1>2. ProgressInv BY DEF OpenInit, ProgressInv
  <1>3. CreatorInv BY DEF OpenInit, CreatorInv, Creating
  <1> QED BY <1>1, <1>2, <1>3 DEF OpenInit, OpenInv, SchemaMeansTables,
      SchemaIsComplete

\* Every step keeps the variables in their types.
LEMMA OpeningTypeStep ==
  ASSUME TypeOK, CreatorInv, NEW p \in Openers, OpenStep(p)
  PROVE  TypeOK'
  <1> USE DEF TypeOK, PCs, Creating, Moves
  <1>1. CASE OpenStore(p) BY <1>1 DEF OpenStore
  <1>2. CASE CheckExists(p) BY <1>2 DEF CheckExists
  <1>3. CASE FindSchema(p) BY <1>3 DEF FindSchema
  <1>4. CASE ReadSchema(p) BY <1>4 DEF ReadSchema
  <1>5. CASE CreateDB(p) BY <1>5, OpeningFirstStatement DEF CreateDB
  <1>6. CASE ExecStatement(p)
    <2>1. next[p] \in 1 .. Statements /\ (next[p] < Statements => next[p] + 1 \in 1 .. Statements)
      OBVIOUS
    <2>2. next' \in [Openers -> 1 .. Statements]
      BY <1>6, <2>1 DEF ExecStatement
    <2>3. objects' \in SUBSET (1 .. Statements)
      BY <1>6, <2>1 DEF ExecStatement
    <2> QED BY <1>6, <2>2, <2>3 DEF ExecStatement
  <1>7. CASE OpenTmp(p) BY <1>7 DEF OpenTmp
  <1>8. CASE WriteTmp(p) BY <1>8 DEF WriteTmp, CreatorInv
  <1>9. CASE RenameTmp(p) BY <1>9 DEF RenameTmp
  <1>10. CASE OpenDB(p) BY <1>10 DEF OpenDB
  <1>11. CASE PrepareStatements(p) BY <1>11 DEF PrepareStatements
  <1>12. CASE Stop(p) BY <1>12 DEF Stop
  <1> QED
    BY <1>1, <1>2, <1>3, <1>4, <1>5, <1>6, <1>7, <1>8, <1>9, <1>10, <1>11, <1>12 DEF OpenStep

\* Statements take effect in order, and nothing is staged before the last.
LEMMA OpeningProgressStep ==
  ASSUME TypeOK, ProgressInv, NEW p \in Openers, OpenStep(p)
  PROVE  ProgressInv'
  <1> USE DEF TypeOK, ProgressInv, Moves
  <1>1. CASE OpenStore(p) BY <1>1 DEF OpenStore
  <1>2. CASE CheckExists(p) BY <1>2 DEF CheckExists
  <1>3. CASE FindSchema(p) BY <1>3 DEF FindSchema
  <1>4. CASE ReadSchema(p) BY <1>4 DEF ReadSchema
  <1>5. CASE CreateDB(p) BY <1>5 DEF CreateDB
  <1>6. CASE ExecStatement(p)
    <2>1. /\ at[p] = "exec" /\ next[p] \in 1 .. Statements
          /\ objects' = objects \cup {next[p]} /\ objects \subseteq 1 .. Statements
      BY <1>6 DEF ExecStatement
    <2>2. 1 .. next[p] \subseteq objects'
      <3>1. 1 .. (next[p] - 1) \subseteq objects BY <2>1
      <3> QED BY <2>1, <3>1
    <2>3. ASSUME NEW q \in Openers, at'[q] = "exec" PROVE 1 .. (next'[q] - 1) \subseteq objects'
      <3>1. CASE q = p
        <4>1. next'[p] = next[p] + 1 BY <1>6, <2>3, <3>1 DEF ExecStatement
        <4> QED BY <2>1, <2>2, <3>1, <4>1
      <3>2. CASE q # p
        <4>1. at[q] = "exec" /\ next'[q] = next[q] BY <1>6, <2>3, <3>2 DEF ExecStatement
        <4> QED BY <2>1, <4>1
      <3> QED BY <3>1, <3>2
    <2>4. ASSUME NEW q \in Openers, at'[q] \in {"stage", "write", "rename"}
          PROVE objects' = 1 .. Statements
      <3>1. CASE q = p
        <4>1. next[p] = Statements BY <1>6, <2>4, <3>1 DEF ExecStatement
        <4> QED BY <2>1, <2>2, <4>1
      <3>2. CASE q # p
        <4>1. at[q] \in {"stage", "write", "rename"} BY <1>6, <2>4, <3>2 DEF ExecStatement
        <4> QED BY <2>1, <4>1
      <3> QED BY <3>1, <3>2
    <2> QED BY <1>6, <2>3, <2>4 DEF ExecStatement
  <1>7. CASE OpenTmp(p) BY <1>7 DEF OpenTmp
  <1>8. CASE WriteTmp(p) BY <1>8 DEF WriteTmp
  <1>9. CASE RenameTmp(p) BY <1>9 DEF RenameTmp
  <1>10. CASE OpenDB(p) BY <1>10 DEF OpenDB
  <1>11. CASE PrepareStatements(p) BY <1>11 DEF PrepareStatements
  <1>12. CASE Stop(p) BY <1>12 DEF Stop
  <1> QED
    BY <1>1, <1>2, <1>3, <1>4, <1>5, <1>6, <1>7, <1>8, <1>9, <1>10, <1>11, <1>12 DEF OpenStep

\* Only the one creator, if there is one, touches schema.tmp.
LEMMA OpeningStagingStep ==
  ASSUME TypeOK, CreatorInv, NEW p \in Openers, OpenStep(p)
  PROVE  CreatorInv'
  <1> USE DEF TypeOK, CreatorInv, Moves, Creating
  <1>1. CASE OpenStore(p) BY <1>1 DEF OpenStore
  <1>2. CASE CheckExists(p) BY <1>2 DEF CheckExists
  <1>3. CASE FindSchema(p) BY <1>3 DEF FindSchema
  <1>4. CASE ReadSchema(p) BY <1>4 DEF ReadSchema
  <1>5. CASE CreateDB(p) BY <1>5 DEF CreateDB
  <1>6. CASE ExecStatement(p) BY <1>6 DEF ExecStatement
  <1>7. CASE OpenTmp(p) BY <1>7 DEF OpenTmp, Unused
  <1>8. CASE WriteTmp(p) BY <1>8 DEF WriteTmp
  <1>9. CASE RenameTmp(p) BY <1>9 DEF RenameTmp
  <1>10. CASE OpenDB(p) BY <1>10 DEF OpenDB
  <1>11. CASE PrepareStatements(p) BY <1>11 DEF PrepareStatements
  <1>12. CASE Stop(p) BY <1>12 DEF Stop
  <1> QED
    BY <1>1, <1>2, <1>3, <1>4, <1>5, <1>6, <1>7, <1>8, <1>9, <1>10, <1>11, <1>12 DEF OpenStep

\* Only a rename makes a schema file, and then the tables are there.
LEMMA OpeningTablesStep ==
  ASSUME OpenInv, NEW p \in Openers, OpenStep(p)
  PROVE  SchemaMeansTables'
  <1> USE DEF OpenInv, TypeOK, SchemaMeansTables,
      ProgressInv, Moves
  <1>1. CASE ExecStatement(p) BY <1>1 DEF ExecStatement
  <1>2. CASE RenameTmp(p) BY <1>2 DEF RenameTmp
  <1>3. CASE ~ExecStatement(p) /\ ~RenameTmp(p)
    BY <1>3 DEF OpenStep, OpenStore, CheckExists, FindSchema,
        ReadSchema, CreateDB, OpenTmp,
       WriteTmp, OpenDB, PrepareStatements, Stop
  <1> QED BY <1>1, <1>2, <1>3

\* What a lone creator renames is complete, and stays so.
LEMMA OpeningCompleteStep ==
  ASSUME OpenInv, NEW p \in Openers, OpenStep(p)
  PROVE  SchemaIsComplete'
  <1> USE DEF OpenInv, TypeOK, SchemaIsComplete,
      CreatorInv, Moves, Creating
  <1>1. CASE FindSchema(p) BY <1>1 DEF FindSchema
  <1>2. CASE OpenTmp(p) BY <1>2 DEF OpenTmp
  <1>3. CASE WriteTmp(p) BY <1>3 DEF WriteTmp
  <1>4. CASE RenameTmp(p) BY <1>4 DEF RenameTmp
  <1>5. CASE ~FindSchema(p) /\ ~OpenTmp(p) /\ ~WriteTmp(p) /\ ~RenameTmp(p)
    BY <1>5 DEF OpenStep, OpenStore, CheckExists, ReadSchema,
        CreateDB, ExecStatement,
       OpenDB, PrepareStatements, Stop
  <1> QED BY <1>1, <1>2, <1>3, <1>4, <1>5

\* The invariant of the opening is inductive.
LEMMA OpeningNextIInv == OpenInv /\ [OpenNext]_openVars => OpenInv'
  <1> SUFFICES ASSUME OpenInv, [OpenNext]_openVars PROVE OpenInv'
    OBVIOUS
  <1>1. CASE UNCHANGED openVars
    BY <1>1
    DEF openVars, OpenInv, TypeOK, ProgressInv, CreatorInv,
        SchemaMeansTables, SchemaIsComplete
  <1>2. CASE OpenNext
    <2>1. PICK p \in Openers : OpenStep(p) BY <1>2 DEF OpenNext
    <2> QED BY <2>1, OpeningTypeStep, OpeningProgressStep, OpeningStagingStep, OpeningTablesStep,
        OpeningCompleteStep DEF OpenInv
  <1> QED BY <1>1, <1>2

\* The invariant holds throughout every behaviour.
THEOREM OpeningInvariantHolds == OpenSpec => []OpenInv
  <1>1. OpenInit => OpenInv BY OpeningInitIInv
  <1>2. OpenInv /\ [OpenNext]_openVars => OpenInv' BY OpeningNextIInv
  <1> QED BY <1>1, <1>2, PTL DEF OpenSpec

\* A schema file vouches for all of schema.sql, whatever creators overlapped
\* or were interrupted (the order of openDB and writeSchemaFile).
THEOREM SchemaVouches == OpenSpec => []SchemaMeansTables
  <1>1. OpenInv => SchemaMeansTables BY DEF OpenInv
  <1>2. OpenSpec => []OpenInv BY OpeningInvariantHolds
  <1> QED BY <1>1, <1>2, PTL

\* Interrupted creations, one at a time, never leave a torn schema file: the
\* stage-and-rename of writeSchemaFile does what its comment says.
THEOREM SequentialCreationIsSafe == OpenSpec => []SchemaIsComplete
  <1>1. OpenInv => SchemaIsComplete BY DEF OpenInv
  <1>2. OpenSpec => []OpenInv BY OpeningInvariantHolds
  <1> QED BY <1>1, <1>2, PTL
=============================================================================
