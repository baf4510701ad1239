----------------------------- MODULE StoreTable -----------------------------
(***************************************************************************)
(* What the valid-path database promises: the tables of                    *)
(* libstore/schema.sql change by whole registrations and whole             *)
(* invalidations, one after another, and a power failure takes back the    *)
(* latest of those that have not reached the disk.                         *)
(*                                                                         *)
(* `log' is the sequence of databases there have been, the current one     *)
(* last; the first `synced' of them are on disk.                           *)
(***************************************************************************)
EXTENDS Naturals, Sequences

CONSTANT Paths

VARIABLES log, synced

tableVars == <<log, synced>>

(* Rows of ValidPaths, rows of Refs, and the last id autoincrement gave. *)
Databases == [rows : SUBSET [id : Nat, path : Paths], refs : SUBSET (Nat \X Nat), seq : Nat]

EmptyDb == [rows |-> {}, refs |-> {}, seq |-> 0]

Current == log[Len(log)]

IsValid(db, p) == \E r \in db.rows : r.path = p

IdOf(db, p) == (CHOOSE r \in db.rows : r.path = p).id

(* isValidPath_, then updatePathInfo or addValidPath *)
AddValidPath(db, p) ==
    IF IsValid(db, p) THEN db
    ELSE [db EXCEPT !.rows = @ \cup {[id |-> db.seq + 1, path |-> p]}, !.seq = @ + 1]

AddReferences(db, p, refs) ==
    [db EXCEPT !.refs = @ \cup {<<IdOf(db, p), IdOf(db, q)>> : q \in refs}]

(* queryReferrers without the path itself *)
Referrers(db, p) == {r \in db.rows : r.path # p /\ <<r.id, IdOf(db, p)>> \in db.refs}

(* Mutant: foreign keys are off, nothing cascades. *)
InvalidatePathAlone(db, p) == [db EXCEPT !.rows = {r \in @ : r.path # p}]

(* invalidatePath: the row, its self-reference by the trigger, its         *)
(* references by the cascade.                                              *)
InvalidatePath(db, p) ==
    [db EXCEPT !.rows = {r \in @ : r.path # p}, !.refs = {e \in @ : e[1] # IdOf(db, p)}]

--------------------------------------------------------------------------------
Registered(db, p, refs) ==
    IF refs = {} THEN AddValidPath(db, p) ELSE AddReferences(AddValidPath(db, p), p, refs)

(* registerValidPath *)
Register(p, refs) ==
    /\ \A q \in refs : q = p \/ IsValid(Current, q)
    /\ log' = Append(log, Registered(Current, p, refs))
    /\ UNCHANGED synced

(* invalidatePathChecked *)
Invalidate(p) ==
    /\ IsValid(Current, p) /\ Referrers(Current, p) = {}
    /\ log' = Append(log, InvalidatePath(Current, p))
    /\ UNCHANGED synced

Checkpoint ==
    /\ synced' \in synced .. Len(log)
    /\ UNCHANGED log

PowerFailure ==
    /\ \E n \in synced .. Len(log) : log' = SubSeq(log, 1, n)
    /\ UNCHANGED synced

Init == log = <<EmptyDb>> /\ synced = 1

Next ==
    \/ \E p \in Paths, refs \in SUBSET Paths : Register(p, refs)
    \/ \E p \in Paths : Invalidate(p)
    \/ Checkpoint
    \/ PowerFailure

Spec == Init /\ [][Next]_tableVars

(* Every path has one row, every id is of one row and was given out, and   *)
(* a reference joins two rows that are there.                              *)
Consistent(db) ==
    /\ \A r, s \in db.rows : r.path = s.path \/ r.id = s.id => r = s
    /\ \A r \in db.rows : r.id <= db.seq
    /\ \A e \in db.refs : \E r, s \in db.rows : e = <<r.id, s.id>>
=============================================================================
