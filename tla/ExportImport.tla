---------------------------- MODULE ExportImport ----------------------------
(***************************************************************************)
(* Shipping generations: export-path (arch/export-path.cc,                 *)
(* libstore/export-import.cc) writes a bundle, import-path                 *)
(* (arch/import-path.cc, LocalStore::addToStore) verifies, unpacks,        *)
(* registers and roots what it holds.  Composes the cells of archives      *)
(* (NarCells), the sinks (FileTrees) and the buffered streams              *)
(* (ByteStreams).  The format of an archive, the digest, the names of      *)
(* paths and the columns of a row are parameters: Bundles gives them those *)
(* of Nar, Encodings and Names.                                            *)
(*                                                                         *)
(* Either program may be killed, the disk under the bundle may fill up, a  *)
(* path of the exporting store may have rotted, the bundle may be cut or   *)
(* lose one cell to damage, and it may come from somewhere else            *)
(* (ForeignBundles).  The import may then be tried once more, with an      *)
(* intact bundle.                                                          *)
(***************************************************************************)
EXTENDS NarCells, FileTrees, ByteStreams

CONSTANTS
    Archive(_),             \* dumpPath: whether the dump of a tree threw, its cells
    ParseArchive(_, _, _),  \* parseDump of an input, from a position, into a sink
    NarHash(_),             \* the digest of an archive
    PathFor(_, _),          \* makeContentAddressedPath: the base name, or none
    NamePart(_),            \* the name in a base name
    ShowPath(_),            \* printStorePath
    ReadPath(_),            \* parseStorePath: the base name, or none
    MakeRow(_),             \* the columns that addValidPath writes, or none
    RowInfo(_, _)           \* what queryPathInfo reads from them, for a base name

CONSTANTS
    Rows,             \* the generations of the exporting store, in the order of their
                      \* paths: base name, tree, and the hash in the row
    Rotten(_),        \* what a tree looks like after a disk error
    ForeignBundles,   \* bundles no export-path of this model wrote
    DamagedCells,     \* what a damaged cell can become
    Space,            \* cells the disk of the bundle may have left
    Samples           \* digests at which the encodings are looked at

VARIABLES
    setup,     \* drawn once: rotten paths, room on the disk, a pipe instead of a
               \* file, a digest
    exp,       \* the exporter
    bundle,    \* the cells in the bundle file
    fault,     \* what happened to the bundle: "none", "damaged", "foreign", "cut"
    imp,       \* the importer
    disk,      \* what is at the real paths of the importing store
    valid,     \* its database: basename -> columns
    rooted     \* the basenames that have a root

vars == <<setup, exp, bundle, fault, imp, disk, valid, rooted>>

ExportMagic == <<"#", "magic">>

(* What exportPaths writes for a path behind its archive. *)
Trailer(base) == <<ExportMagic, ShowPath(base), Num(0)>>

Exported == ToSet(Rows)

(* What exportPaths has written when it is done with n paths ... *)
Sent[n \in 0 .. Len(Rows)] ==
    IF n = 0 THEN <<>>
    ELSE Sent[n - 1] \o <<Num(1)>> \o Archive(Rows[n].tree).cells \o Trailer(Rows[n].base)

(* ... and with all of them. *)
WholeBundle == Sent[Len(Rows)] \o <<Num(0)>>

(* The stream that export-path sets out to write when the paths of rot     *)
(* have rotted: it ends behind the archive of the first of them.           *)
FirstRotten(rot) ==
    CHOOSE i \in 1 .. Len(Rows) : Rows[i].base \in rot /\ \A k \in 1 .. i - 1 : Rows[k].base \notin rot

Stream(rot) ==
    LET i == FirstRotten(rot)
    IN  IF rot = {} THEN WholeBundle
        ELSE Sent[i - 1] \o <<Num(1)>> \o Archive(Rotten(Rows[i].tree)).cells

Bases == {e.base : e \in Exported}

Dumped == UNION {{e.tree, Rotten(e.tree)} : e \in Exported}

Cell == Seq(STRING)

ASSUME BoundsAssumption == BufSize \in Nat /\ Space \subseteq Nat

(* What is written consists of cells. *)
ASSUME CellsAssumption ==
    /\ {Num(0), Num(1), ExportMagic} \cup DamagedCells \subseteq Cell
    /\ ForeignBundles \subseteq Seq(Cell)
    /\ \A t \in Dumped : Archive(t).cells \in Seq(Cell)
    /\ \A b \in Bases : ShowPath(b) \in Cell \ {Bad} /\ ReadPath(ShowPath(b)) = {b}

(* The rows were written when the trees were whole, under the names their  *)
(* content gives them, and what a disk error does to a tree shows in its   *)
(* digest.                                                                 *)
ASSUME RowsAssumption ==
    /\ Rows \in Seq(Exported)
    /\ \A e \in Exported :
         /\ e.hash = NarHash(Archive(e.tree).cells)
         /\ e.hash # NarHash(Archive(Rotten(e.tree)).cells)
         /\ e.base \in PathFor(NamePart(e.base), e.hash)

--------------------------------------------------------------------------------
(* row: the path whose turn it is; cells: what is left of its archive or   *)
(* of its trailer; hashed: what went to the hash.                          *)
Exporter(pc, exit) ==
    [pc |-> pc, row |-> 1, cells |-> <<>>, hashed |-> <<>>, sink |-> NewFdSink, exit |-> exit]

NewExport == Exporter("next", "none")

Exited(exit) == Exporter("done", exit)

(* The process that imports: its umask leaves 0444 and 0555 alone, the     *)
(* store directory grants a default ACL.                                   *)
NewImport(try, umask, acl) ==
    [umask |-> umask, acl |-> acl, pc |-> "frame", source |-> NewFdSource, got |-> <<>>, pos |-> 0, nar |-> <<>>,
     path |-> <<>>, done |-> <<>>, exit |-> "none", try |-> try]

Idle == [NewImport(1, TRUE, FALSE) EXCEPT !.pc = "idle"]

Init ==
    /\ imp = Idle /\ disk = EmptyTree /\ valid = EmptyTree /\ rooted = {}
    /\ \/ /\ setup \in [rot : SUBSET {e.base : e \in Exported}, space : Space, pipe : BOOLEAN,
                        digest : {CHOOSE d \in Samples : TRUE}]
          /\ exp = NewExport /\ bundle = <<>> /\ fault = "none"
       \/ /\ bundle \in ForeignBundles \cup {<<>>} /\ fault = "foreign"
          /\ setup \in [rot : {{}}, space : {0}, pipe : {FALSE},
                        digest : IF bundle = <<>> THEN Samples ELSE {CHOOSE d \in Samples : TRUE}]
          /\ exp = Exited("none")

Room == setup.space - Len(bundle)

--------------------------------------------------------------------------------
(* The process ends: a normal end and an exception run the destructor of   *)
(* the sink, which flushes and swallows what that throws; a kill does not. *)
EndExport(e, exit, out) ==
    /\ exp' = Exited(exit)
    /\ bundle' = bundle \o out \o Flush(e.sink, Room - Len(out)).out

(* One `sink <<` of the exporter, which goes on as e. *)
Emit(e, cell) ==
    LET w == Put(exp.sink, <<cell>>, Room)
        e2 == [e EXCEPT !.sink = w.sink]
    IN  IF w.ok THEN exp' = e2 /\ bundle' = bundle \o w.out
        ELSE EndExport(e2, "failed", w.out)

ImportSide == <<setup, fault, imp, disk, valid, rooted>>

MoreRows == exp.row <= Len(Rows)

(* exportPaths: the mark in front of a path. *)
ExportNext ==
    /\ exp.pc = "next" /\ MoreRows
    /\ LET p == Rows[exp.row]
           tree == IF p.base \in setup.rot THEN Rotten(p.tree) ELSE p.tree
       IN  Emit([exp EXCEPT !.pc = "nar", !.cells = Archive(tree).cells, !.hashed = <<>>], Num(1))
    /\ UNCHANGED ImportSide

(* exportPath: the archive goes to the bundle and to the hash. *)
ExportNar ==
    /\ exp.pc = "nar" /\ exp.cells # <<>>
    /\ Emit([exp EXCEPT !.cells = Tail(@), !.hashed = Append(@, Head(exp.cells))], Head(exp.cells))
    /\ UNCHANGED ImportSide

(* The archive is complete and already in the stream when it is compared   *)
(* with the row.                                                           *)
ExportCheck ==
    /\ exp.pc = "nar" /\ exp.cells = <<>>
    /\ IF NarHash(exp.hashed) = Rows[exp.row].hash
       THEN /\ exp' = [exp EXCEPT !.pc = "trailer", !.cells = Trailer(Rows[exp.row].base)]
            /\ UNCHANGED bundle
       ELSE EndExport(exp, "failed", <<>>)
    /\ UNCHANGED ImportSide

ExportTrailer ==
    /\ exp.pc = "trailer"
    /\ Emit([exp EXCEPT !.cells = Tail(@),
                        !.pc = IF Len(exp.cells) = 1 THEN "next" ELSE @,
                        !.row = IF Len(exp.cells) = 1 THEN @ + 1 ELSE @], Head(exp.cells))
    /\ UNCHANGED ImportSide

(* The end mark and the final flush of main. *)
ExportEnd ==
    /\ exp.pc = "next" /\ ~MoreRows
    /\ LET w == Put(exp.sink, <<Num(0)>>, Room)
           f == Flush(w.sink, Room - Len(w.out))
           ok == w.ok /\ f.ok
       IN  EndExport([exp EXCEPT !.sink = IF w.ok THEN f.sink ELSE w.sink],
                     IF ok THEN "ok" ELSE "failed",
                     IF w.ok THEN w.out \o f.out ELSE w.out)
    /\ UNCHANGED ImportSide

KillExport ==
    /\ exp.pc # "done"
    /\ exp' = Exited("killed")
    /\ UNCHANGED <<bundle, setup, fault, imp, disk, valid, rooted>>

--------------------------------------------------------------------------------
(* The way from one machine to the other: the bundle loses its tail or one *)
(* of its cells is no longer what it was.                                  *)
Damage ==
    /\ exp.exit = "ok" /\ imp.pc = "idle" /\ fault = "none" /\ ~setup.pipe
    /\ \E i \in 1 .. Len(bundle) :
         \/ /\ bundle' = SubSeq(bundle, 1, i - 1) /\ fault' = "cut"
         \/ \E c \in DamagedCells \ {bundle[i]} :
              /\ bundle' = [bundle EXCEPT ![i] = c] /\ fault' = "damaged"
    /\ UNCHANGED <<setup, exp, imp, disk, valid, rooted>>

StartImport ==
    /\ exp.pc = "done" /\ imp.pc = "idle"
    /\ \E umask, acl \in BOOLEAN :
         /\ (exp.exit = "ok" /\ fault = "none") \/ (umask /\ ~acl)   \* a bound
         /\ imp' = NewImport(1, umask, acl)
    /\ UNCHANGED <<setup, exp, bundle, fault, disk, valid, rooted>>

(* readStorePathSet, behind the count: n store paths. *)
ReadStorePathSet(st, n) ==
    LET read[k \in 0 .. n] ==
          IF k = 0 THEN [st |-> st, refs |-> {}]
          ELSE LET s == GetString(read[k - 1].st)
                   path == ReadPath(Got(s))
               IN  IF path = {} THEN [read[k - 1] EXCEPT !.st = Error(s)]
                   ELSE [st |-> s, refs |-> read[k - 1].refs \cup path]
    IN  read[n]

(* Mutant: the claimed name is believed. *)
AcceptableUnchecked(path, saved, refs) == refs = {}

(* The integrity check: the content hashes to the name the stream claims,  *)
(* and it has no references.                                               *)
Acceptable(path, saved, refs) ==
    /\ path \in PathFor(NamePart(path), NarHash(saved))
    /\ refs = {}

(* The body of importVerified's loop up to the call of addToStore, on what *)
(* has been read from the descriptor: how it ends, the archive, the path.  *)
Frame(in, pos) ==
    LET mark == Get(NewParse(in, pos, NewSink("null", FALSE, TRUE)))
        more == NumValue(Got(mark))
        archive == ParseArchive(in, mark.pos, mark.sink)
        saved == SubSeq(in, mark.pos + 1, archive.pos)
        magic == Get(archive)
        claim == GetString(IF Got(magic) = ExportMagic THEN magic ELSE Error(magic))
        path == ReadPath(Got(claim))
        count == Get(claim)
        number == NumValue(Got(count))
        set == ReadStorePathSet(count, CHOOSE n \in number : TRUE)
        Stops(s) == [res |-> IF s.res = "ok" THEN "error" ELSE s.res, pos |-> s.pos, nar |-> <<>>, path |-> {}]
    IN  IF more = {0} THEN [res |-> "end", pos |-> mark.pos, nar |-> <<>>, path |-> {}]
        ELSE IF more # {1} THEN Stops(mark)
        ELSE IF path = {} THEN Stops(claim)
        ELSE IF number = {} THEN Stops(count)
        ELSE IF set.st.res # "ok" \/ \E p \in path : ~Acceptable(p, saved, set.refs) THEN Stops(set.st)
        ELSE [res |-> "frame", pos |-> set.st.pos, nar |-> saved, path |-> path]

ExportSide == <<setup, exp, bundle, fault>>

Ended(exit) == [NewImport(imp.try, imp.umask, imp.acl) EXCEPT !.pc = "done", !.exit = exit]

ImportFails == imp' = Ended("failed")

(* The parser needs more than was read: BufferedSource fills its buffer    *)
(* and hands it on, or finds the end of the file.                          *)
ReadBundle ==
    /\ imp.pc = "frame" /\ Frame(imp.got, imp.pos).res = "eof"
    /\ \/ /\ AtEof(imp.source, bundle) /\ ImportFails
       \/ \E n \in ReadSizes(imp.source, bundle, setup.pipe) :
            LET r == Read(ReadUnbuffered(imp.source, bundle, n), BufSize)
            IN  imp' = [imp EXCEPT !.source = r.source, !.got = @ \o r.data]
    /\ UNCHANGED <<disk, valid, rooted>> /\ UNCHANGED ExportSide

Verify ==
    /\ imp.pc = "frame"
    /\ \E f \in {Frame(imp.got, imp.pos)} :
         \/ f.res = "error" /\ ImportFails
         \/ /\ f.res = "end"
            /\ imp' = [imp EXCEPT !.pc = "root", !.pos = f.pos]
         \/ /\ f.res = "frame"
            /\ imp' = [imp EXCEPT !.pc = "add", !.pos = f.pos, !.nar = f.nar,
                                  !.path = CHOOSE p \in f.path : TRUE]
    /\ UNCHANGED <<disk, valid, rooted>> /\ UNCHANGED ExportSide

(* A function with one more or one other value. *)
With(f, p, x) == [b \in DOMAIN f \cup {p} |-> IF b = p THEN x ELSE f[b]]

(* addToStore: a path that is valid is left alone; otherwise what is at    *)
(* the real path is deleted and the archive unpacked there, from the       *)
(* string it was saved in.                                                 *)
Unpack(cells) == ParseArchive(cells, 0, NewSink("restore", ~imp.acl, imp.umask))

NextPath == [imp EXCEPT !.pc = "frame", !.done = Append(@, imp.path), !.nar = <<>>, !.path = <<>>]

(* Mutant: what an earlier import left at the real path is not deleted,    *)
(* and creating the root there fails.                                      *)
AddToStoreOver ==
    /\ imp.pc = "add"
    /\ IF imp.path \in DOMAIN valid THEN imp' = NextPath /\ UNCHANGED disk
       ELSE IF imp.path \in DOMAIN disk THEN ImportFails /\ UNCHANGED disk
       ELSE LET r == Unpack(imp.nar)
            IN  /\ disk' = With(disk, imp.path, r.sink)
                /\ IF r.res = "ok" THEN imp' = [imp EXCEPT !.pc = "register"] ELSE ImportFails
    /\ UNCHANGED <<valid, rooted>> /\ UNCHANGED ExportSide

AddToStore ==
    /\ imp.pc = "add"
    /\ IF imp.path \in DOMAIN valid THEN imp' = NextPath /\ UNCHANGED disk
       ELSE LET r == Unpack(imp.nar)
            IN  /\ disk' = With(disk, imp.path, r.sink)
                /\ IF r.res = "ok" THEN imp' = [imp EXCEPT !.pc = "register"] ELSE ImportFails
    /\ UNCHANGED <<valid, rooted>> /\ UNCHANGED ExportSide

(* What was unpacked is finished: with a default ACL on the store the      *)
(* whole tree, otherwise the root, which the sink left open.               *)
Finished(sink) ==
    IF imp.acl THEN CanonicalisePathMetaData(sink) ELSE CanonicaliseNode(sink, <<>>)

(* What is recorded of a path that came with an archive. *)
PathInfo(path, nar) == [path |-> path, narHash |-> NarHash(nar), narSize |-> Len(nar), ca |-> {}]

(* The hash and the size of what the unpacking read are compared, the      *)
(* metadata finished, the row written.                                     *)
Register ==
    /\ imp.pc = "register"
    /\ LET read == SubSeq(imp.nar, 1, Unpack(imp.nar).pos)
           info == PathInfo(imp.path, imp.nar)
       IN  IF NarHash(read) # info.narHash \/ Len(read) # info.narSize
           THEN ImportFails /\ UNCHANGED <<disk, valid>>
           ELSE /\ disk' = [disk EXCEPT ![imp.path] = Finished(@)]
                /\ \E row \in MakeRow(info) : valid' = With(valid, imp.path, row)
                /\ imp' = NextPath
    /\ UNCHANGED rooted /\ UNCHANGED ExportSide

(* Mutant: the loop over the received paths ends after the first. *)
RootFirstPath ==
    /\ imp.pc = "root"
    /\ IF imp.done = <<>> \/ imp.done[1] \in rooted
       THEN imp' = Ended("ok") /\ UNCHANGED rooted
       ELSE rooted' = rooted \cup {imp.done[1]} /\ UNCHANGED imp
    /\ UNCHANGED <<disk, valid>> /\ UNCHANGED ExportSide

(* main: every path is rooted, and only when the stream was read to its    *)
(* end; then the program reports success.                                  *)
RootPaths ==
    /\ imp.pc = "root"
    /\ IF ToSet(imp.done) \subseteq rooted
       THEN imp' = Ended("ok") /\ UNCHANGED rooted
       ELSE /\ rooted' = rooted \cup {SelectSeq(imp.done, LAMBDA p : p \notin rooted)[1]}
            /\ UNCHANGED imp
    /\ UNCHANGED <<disk, valid>> /\ UNCHANGED ExportSide

(* The importer is killed, in the middle of unpacking too. *)
KillImport ==
    /\ imp.try = 1 /\ imp.pc \notin {"idle", "done"}
    /\ imp' = Ended("killed")
    /\ \/ UNCHANGED disk
       \/ /\ imp.pc = "add" /\ imp.path \notin DOMAIN valid
          /\ \E k \in 0 .. Len(imp.nar) :
               disk' = With(disk, imp.path, Unpack(SubSeq(imp.nar, 1, k)).sink)
    /\ UNCHANGED <<valid, rooted>> /\ UNCHANGED ExportSide

(* The bundle is exported again, this time without a fault, and imported. *)
Retry ==
    /\ imp.pc = "done" /\ imp.exit # "ok" /\ imp.try = 1
    /\ imp' = NewImport(2, imp.umask, imp.acl)
    /\ bundle' = WholeBundle /\ fault' = "none"
    /\ setup' = [setup EXCEPT !.rot = {}, !.pipe = FALSE, !.space = Len(WholeBundle)]
    /\ exp' = Exited("ok")
    /\ UNCHANGED <<disk, valid, rooted>>

Done == imp.pc = "done" /\ (imp.exit = "ok" \/ imp.try = 2) /\ UNCHANGED vars

Next ==
    \/ ExportNext \/ ExportNar \/ ExportCheck \/ ExportTrailer \/ ExportEnd \/ KillExport
    \/ Damage
    \/ StartImport \/ ReadBundle \/ Verify \/ AddToStore \/ Register \/ RootPaths \/ KillImport
    \/ Retry \/ Done

Spec == Init /\ [][Next]_vars

--------------------------------------------------------------------------------
(* What the protocol takes from the codecs.  The parser stays within its   *)
(* input, reads an archive to its end wherever it stands in a bundle and   *)
(* notices when cells of it are missing.                                   *)
ArchivesAreRead ==
    imp.pc = "frame" /\ imp.pos < Len(imp.got) =>
        LET at == imp.pos + 1
            r == ParseArchive(imp.got, at, NewSink("null", FALSE, TRUE))
            rest == SubSeq(imp.got, at + 1, Len(imp.got))
        IN  /\ r = [NewParse(imp.got, r.pos, r.sink) EXCEPT !.res = r.res]
            /\ r.res \in {"ok", "eof", "error"} /\ r.pos \in at .. Len(imp.got)
            /\ \A t \in Dumped :
                 /\ IsPrefix(Archive(t).cells, rest) => r.res = "ok" /\ r.pos = at + Len(Archive(t).cells)
                 /\ IsStrictPrefix(rest, Archive(t).cells) => r.res = "eof"

(* The parser accepts nothing but dumps: an archive it reads to its end    *)
(* is, cell for cell, the dump of the tree it built, so two different      *)
(* archives never unpack to the same tree (parse, readPadding, the order   *)
(* of the entries).                                                        *)
AcceptsOnlyDumps ==
    imp.pc = "frame" /\ imp.got = <<>> =>
        \A at \in {i \in 1 .. Len(bundle) : bundle[i] = NarMagic} :
            LET r == ParseArchive(bundle, at - 1, NewSink("memory", FALSE, TRUE))
            IN  r.res = "ok" => Archive(r.sink.nodes) = [ok |-> TRUE, cells |-> SubSeq(bundle, at, r.pos)]

(* So is what is unpacked into the store, where it has the store's         *)
(* metadata as soon as it is finished; an archive of the exporting store   *)
(* unpacks to the tree it was made of, and no other archive has its name;  *)
(* a row is read back as it was written.                                   *)
ArchivesUnpack ==
    imp.pc \in {"add", "register"} =>
        LET r == Unpack(imp.nar)
            tree == Finished(r.sink)
            info == PathInfo(imp.path, imp.nar)
        IN  /\ r.pos \in 0 .. Len(imp.nar)
            /\ r.res = "ok" /\ SubSeq(imp.nar, 1, r.pos) = imp.nar =>
                 Archive(tree.nodes) = [ok |-> TRUE, cells |-> imp.nar] /\ IsCanonicalTree(tree)
            /\ \A e \in Exported :
                 /\ imp.path = e.base => imp.nar = Archive(e.tree).cells
                 /\ imp.nar = Archive(e.tree).cells =>
                      r.res = "ok" /\ r.pos = Len(imp.nar) /\ tree.nodes = e.tree
            /\ \A row \in MakeRow(info) : RowInfo(row, imp.path) = {info}

CodecsKeepPromises == ArchivesAreRead /\ AcceptsOnlyDumps /\ ArchivesUnpack

(* Whatever the disk did and however the exporter ended, what it left in   *)
(* the file is the beginning of the stream it set out to write: nothing is *)
(* missing inside it and nothing is there twice (BufferedSink::flush, the  *)
(* destructor of FdSink).                                                  *)
OutputIsAPrefix ==
    fault = "none" /\ imp.try = 1 =>
      /\ IsPrefix(bundle, Stream(setup.rot))
      /\ exp.pc # "done" => IsPrefix(bundle \o exp.sink.buf, Stream(setup.rot))
      /\ exp.exit = "ok" => bundle = WholeBundle

(* A row never lies: what is on disk under a registered name dumps to the  *)
(* archive the name and the row were computed from, whichever way the      *)
(* bundle was damaged or forged and wherever an import stopped; and every  *)
(* node of it has the store's mode and time, whether the restore stamped   *)
(* them one by one under any umask or the walk afterwards did              *)
(* (importVerified, addToStore, RestoreSink).                              *)
RegisteredIsWhatItSays ==
    \A b \in DOMAIN valid :
        LET dump == Archive(disk[b].nodes)
        IN  /\ dump.ok
            /\ b \in PathFor(NamePart(b), NarHash(dump.cells))
            /\ RowInfo(valid[b], b) = {PathInfo(b, dump.cells)}
            /\ IsCanonicalTree(disk[b])

(* import-path reports success only when everything the exporter shipped   *)
(* is registered and rooted, unless a damaged mark ends the stream early.  *)
SuccessMeansWholeBundle ==
    imp.exit = "ok" /\ fault \in {"none", "cut"} =>
        \A e \in Exported : /\ e.base \in DOMAIN valid \cap rooted
                             /\ disk[e.base].nodes = e.tree

(* An import that failed or was killed at any point, leaving paths that    *)
(* are registered without a root or half unpacked, never stands in the way *)
(* of the next: with an intact bundle it succeeds, and everything is       *)
(* registered and rooted.                                                  *)
SecondTrySucceeds ==
    imp.try = 2 /\ imp.pc = "done" =>
        /\ imp.exit = "ok"
        /\ \A e \in Exported : e.base \in DOMAIN valid \cap rooted

================================================================================
