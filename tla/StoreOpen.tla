------------------------------ MODULE StoreOpen ------------------------------
(***************************************************************************)
(* Opening a store: openStore and the LocalStore constructor of            *)
(* src/src/libstore/local-store.cc.  No lock guards it, so several tools   *)
(* may find that there is no store yet and create it together, and each of *)
(* them may be interrupted anywhere.                                       *)
(*                                                                         *)
(* The schema file says that the database is ready.  It is staged under a  *)
(* fixed name, schema.tmp, and renamed; both names refer to files that     *)
(* processes can still have open, so a file is an inode with a content.    *)
(***************************************************************************)
EXTENDS Naturals

CONSTANTS
  Openers,     \* processes that open the store
  Files,       \* inodes
  Statements,  \* number of statements in schema.sql
  NoFile,      \* "no file"
  MaxOpens     \* bound: calls of openStore per process

ASSUME FilesAssumption == NoFile \notin Files
ASSUME StatementsAssumption == Statements \in Nat \ {0}
ASSUME OpensAssumption == MaxOpens \in Nat

VARIABLES
  dbFile,    \* whether db.sqlite exists
  objects,   \* statements of schema.sql that have taken effect
  schema,    \* the file the name `schema' refers to
  tmp,       \* the file the name `schema.tmp' refers to
  content,   \* content[f]: "empty", or the "version"
  at,
  next,      \* next[p]: statement of schema.sql that p executes next
  fd,        \* fd[p]: the file writeFile has open
  opens,
  overlap    \* history: two processes were creating the store at a time

openVars == <<dbFile, objects, schema, tmp, content, at, next, fd, opens, overlap>>

Creating == {"create", "exec", "stage", "write", "rename"}
PCs == {"idle", "exists", "find", "read", "connect", "prepare", "open"} \cup Creating

TypeOK ==
  /\ dbFile \in BOOLEAN
  /\ objects \in SUBSET (1 .. Statements)
  /\ schema \in Files \cup {NoFile}
  /\ tmp \in Files \cup {NoFile}
  /\ content \in [Files -> {"empty", "version"}]
  /\ at \in [Openers -> PCs]
  /\ next \in [Openers -> 1 .. Statements]
  /\ fd \in [Openers -> Files \cup {NoFile}]
  /\ opens \in [Openers -> Nat]
  /\ overlap \in BOOLEAN

OpenInit ==
  /\ dbFile = FALSE
  /\ objects = {}
  /\ schema = NoFile
  /\ tmp = NoFile
  /\ content = [f \in Files |-> "empty"]
  /\ at = [p \in Openers |-> "idle"]
  /\ next = [p \in Openers |-> 1]
  /\ fd = [p \in Openers |-> NoFile]
  /\ opens = [p \in Openers |-> 0]
  /\ overlap = FALSE

-----------------------------------------------------------------------------
(* Helpers *)

Moves(p, from, to) ==
  /\ at[p] = from
  /\ at' = [at EXCEPT ![p] = to]

\* No name and no descriptor refers to the file.
Unused(f) == f \notin {schema, tmp} /\ \A p \in Openers : fd[p] # f

-----------------------------------------------------------------------------
(* openStore and getSchema *)

\* verify-store, store-paths and store-resolve ask for a store that exists.
OpenStore(p) ==
  /\ opens[p] < MaxOpens
  /\ \E mustExist \in BOOLEAN : Moves(p, "idle", IF mustExist THEN "exists" ELSE "find")
  /\ opens' = [opens EXCEPT ![p] = @ + 1]
  /\ UNCHANGED <<dbFile, objects, schema, tmp, content, next, fd, overlap>>

CheckExists(p) ==
  /\ Moves(p, "exists", IF dbFile THEN "find" ELSE "idle")
  /\ UNCHANGED <<dbFile, objects, schema, tmp, content, next, fd, opens, overlap>>

\* pathExists(schemaPath): without the file the store is new.
FindSchema(p) ==
  /\ Moves(p, "find", IF schema = NoFile THEN "create" ELSE "read")
  /\ overlap' = (overlap \/ (schema = NoFile /\ \E o \in Openers \ {p} : at[o] \in Creating))
  /\ UNCHANGED <<dbFile, objects, schema, tmp, content, next, fd, opens>>

\* An empty file is no number: "is corrupt", and the tool gives up.
ReadSchema(p) ==
  /\ Moves(p, "read", IF content[schema] = "version" THEN "connect" ELSE "idle")
  /\ UNCHANGED <<dbFile, objects, schema, tmp, content, next, fd, opens, overlap>>

-----------------------------------------------------------------------------
(* openDB, writeSchemaFile and the prepared statements *)

\* Mutant: the schema file is written before the tables are made.
SchemaFirst(p) ==
  /\ Moves(p, "create", "stage")
  /\ dbFile' = TRUE
  /\ next' = [next EXCEPT ![p] = 1]
  /\ UNCHANGED <<objects, schema, tmp, content, fd, opens, overlap>>

\* SQLiteOpenMode::Normal creates db.sqlite.
CreateDB(p) ==
  /\ Moves(p, "create", "exec")
  /\ dbFile' = TRUE
  /\ next' = [next EXCEPT ![p] = 1]
  /\ UNCHANGED <<objects, schema, tmp, content, fd, opens, overlap>>

\* schema.sql, one autocommitted `create ... if not exists' after the other
ExecStatement(p) ==
  /\ objects' = objects \cup {next[p]}
  /\ \/ /\ next[p] < Statements
        /\ Moves(p, "exec", "exec")
        /\ next' = [next EXCEPT ![p] = @ + 1]
     \/ /\ next[p] = Statements
        /\ Moves(p, "exec", "stage")
        /\ UNCHANGED next
  /\ UNCHANGED <<dbFile, schema, tmp, content, fd, opens, overlap>>

\* Mutant: the schema file is written in place.
WriteInPlace(p) ==
  /\ Moves(p, "stage", "write")
  /\ \E f \in Files :
       /\ f = schema \/ (schema = NoFile /\ Unused(f))
       /\ schema' = f
       /\ fd' = [fd EXCEPT ![p] = f]
       /\ content' = [content EXCEPT ![f] = "empty"]
  /\ UNCHANGED <<dbFile, objects, tmp, next, opens, overlap>>

\* open(schema.tmp, O_CREAT | O_TRUNC): a new file, or whichever is there
OpenTmp(p) ==
  /\ Moves(p, "stage", "write")
  /\ \E f \in Files :
       /\ f = tmp \/ (tmp = NoFile /\ Unused(f))
       /\ tmp' = f
       /\ fd' = [fd EXCEPT ![p] = f]
       /\ content' = [content EXCEPT ![f] = "empty"]
  /\ UNCHANGED <<dbFile, objects, schema, next, opens, overlap>>

\* writeFull, fsync and close
WriteTmp(p) ==
  /\ Moves(p, "write", "rename")
  /\ content' = [content EXCEPT ![fd[p]] = "version"]
  /\ fd' = [fd EXCEPT ![p] = NoFile]
  /\ UNCHANGED <<dbFile, objects, schema, tmp, next, opens, overlap>>

\* rename(schema.tmp, schema), which throws if another process renamed it.
RenameTmp(p) ==
  /\ \/ /\ tmp # NoFile
        /\ Moves(p, "rename", "prepare")
        /\ schema' = tmp
        /\ tmp' = NoFile
     \/ /\ tmp = NoFile
        /\ Moves(p, "rename", "idle")
        /\ UNCHANGED <<schema, tmp>>
  /\ UNCHANGED <<dbFile, objects, content, next, fd, opens, overlap>>

\* SQLiteOpenMode::NoCreate
OpenDB(p) ==
  /\ Moves(p, "connect", IF dbFile THEN "prepare" ELSE "idle")
  /\ UNCHANGED <<dbFile, objects, schema, tmp, content, next, fd, opens, overlap>>

\* SQLiteStmt::create needs the tables its statement names.
PrepareStatements(p) ==
  /\ Moves(p, "prepare", IF objects = 1 .. Statements THEN "open" ELSE "idle")
  /\ UNCHANGED <<dbFile, objects, schema, tmp, content, next, fd, opens, overlap>>

\* A tool ends, is killed or throws: nothing that is on disk changes.
Stop(p) ==
  /\ at[p] # "idle"
  /\ at' = [at EXCEPT ![p] = "idle"]
  /\ fd' = [fd EXCEPT ![p] = NoFile]
  /\ UNCHANGED <<dbFile, objects, schema, tmp, content, next, opens, overlap>>

-----------------------------------------------------------------------------

OpenStep(p) ==
  \/ OpenStore(p) \/ CheckExists(p) \/ FindSchema(p) \/ ReadSchema(p)
  \/ CreateDB(p) \/ ExecStatement(p) \/ OpenTmp(p) \/ WriteTmp(p) \/ RenameTmp(p)
  \/ OpenDB(p) \/ PrepareStatements(p) \/ Stop(p)

OpenNext == \E p \in Openers : OpenStep(p)

OpenSpec == OpenInit /\ [][OpenNext]_openVars

-----------------------------------------------------------------------------
(* Properties *)

\* A schema file vouches for the database: all of schema.sql has taken effect,
\* whoever created the store together and wherever they were interrupted.
SchemaMeansTables == schema # NoFile => dbFile /\ objects = 1 .. Statements

\* A store created by one process at a time never has a torn schema file,
\* however often its creation was interrupted.
SchemaIsComplete == schema # NoFile /\ ~overlap => content[schema] = "version"

-----------------------------------------------------------------------------
(* The inductive invariant behind the two *)

\* How far a creator has come shows in the database ...
ProgressInv ==
  \A p \in Openers :
    /\ at[p] \in {"exec", "stage", "write", "rename"} => dbFile
    /\ at[p] = "exec" => 1 .. (next[p] - 1) \subseteq objects
    /\ at[p] \in {"stage", "write", "rename"} => objects = 1 .. Statements
    /\ at[p] \in {"read", "connect"} => schema # NoFile

\* ... and alone, it knows what is in the file it stages.
CreatorInv ==
  /\ tmp = NoFile \/ tmp # schema
  /\ \A p \in Openers : at[p] = "write" => fd[p] # NoFile
  /\ ~overlap =>
       /\ \A p, o \in Openers : at[p] \in Creating /\ at[o] \in Creating => p = o
       /\ \A p \in Openers : at[p] \in Creating => schema = NoFile
       /\ \A p \in Openers : at[p] \in {"write", "rename"} => tmp # NoFile
       /\ \A p \in Openers : at[p] = "write" => fd[p] = tmp
       /\ \A p \in Openers : at[p] = "rename" => content[tmp] = "version"

OpenInv == TypeOK /\ ProgressInv /\ CreatorInv /\ SchemaMeansTables /\ SchemaIsComplete
=============================================================================
