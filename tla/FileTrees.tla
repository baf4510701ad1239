------------------------------ MODULE FileTrees ------------------------------
(***************************************************************************)
(* File system objects and where an archive is unpacked to: the in-memory  *)
(* tree (libutil/memory-source-accessor.cc) and the sinks of               *)
(* libutil/fs-sink.cc, with the metadata the store wants on every node     *)
(* (libstore/posix-fs-canonicalise.cc).  A tree is a function from paths   *)
(* to nodes; a path is the sequence of its names, the root the empty one,  *)
(* a name a sequence of one-character strings.                             *)
(***************************************************************************)
EXTENDS Integers, Sequences, SequencesExt, FiniteSets, TLC

Regular(exec, data) == [type |-> "regular", exec |-> exec, data |-> data, target |-> <<>>]

Directory == [type |-> "directory", exec |-> FALSE, data |-> <<>>, target |-> <<>>]

Symlink(target) == [type |-> "symlink", exec |-> FALSE, data |-> <<>>, target |-> target]

Special(type) == [type |-> type, exec |-> FALSE, data |-> <<>>, target |-> <<>>]

EmptyTree == << >>  \* the function on no path: a tree whose root does not exist

Children(tree, path) ==
    {p \in DOMAIN tree : Len(p) = Len(path) + 1 /\ SubSeq(p, 1, Len(path)) = path}

--------------------------------------------------------------------------------
(* MemorySourceAccessor::open.  "some" found or created, "none" absent,    *)
(* "throws" when a component on the way is a symbolic link or, creating,   *)
(* not a directory.  The directories missing on the way are created.       *)
Deepest(tree, path) ==
    CHOOSE k \in 0 .. Len(path) :
        /\ SubSeq(path, 1, k) \in DOMAIN tree
        /\ k < Len(path) => SubSeq(path, 1, k + 1) \notin DOMAIN tree

Open(tree, path, create) ==
    LET k == Deepest(tree, path)
        at == tree[SubSeq(path, 1, k)].type
        missing == {SubSeq(path, 1, i) : i \in k + 1 .. Len(path)}
        grown == [p \in missing |-> IF p = path THEN CHOOSE c \in create : TRUE ELSE Directory]
    IN  CASE tree = EmptyTree ->
               IF path = <<>> /\ create # {} THEN [res |-> "some", tree |-> <<>> :> CHOOSE c \in create : TRUE]
                                             ELSE [res |-> "none", tree |-> tree]
          [] tree # EmptyTree /\ k = Len(path) -> [res |-> "some", tree |-> tree]
          [] tree # EmptyTree /\ k < Len(path) /\ at # "directory" ->
               [res |-> IF at = "symlink" \/ create # {} THEN "throws" ELSE "none", tree |-> tree]
          [] OTHER -> IF create = {} THEN [res |-> "none", tree |-> tree]
                      ELSE [res |-> "some", tree |-> grown @@ tree]

(* maybeLstat, readDirectory, readLink and readFile of the accessor: the   *)
(* empty set where the code throws or answers "does not exist".            *)
MaybeLstat(tree, path) ==
    IF Open(tree, path, {}).res = "some"
    THEN {[type |-> tree[path].type, isExecutable |-> tree[path].exec]} ELSE {}

ReadDirectory(tree, path) ==
    IF MaybeLstat(tree, path) = {} \/ tree[path].type # "directory" THEN {}
    ELSE {[name \in {Last(p) : p \in Children(tree, path)} |-> tree[Append(path, name)].type]}

ReadLink(tree, path) ==
    IF MaybeLstat(tree, path) = {} \/ tree[path].type # "symlink" THEN {} ELSE {tree[path].target}

ReadFile(tree, path) ==
    IF MaybeLstat(tree, path) = {} \/ tree[path].type # "regular" THEN {} ELSE {tree[path].data}

(* addFile creates the root directory first, and overwrites the contents   *)
(* of a regular file that is there.                                        *)
AddFile(tree, path, data) ==
    LET t == IF tree = EmptyTree /\ path # <<>> THEN <<>> :> Directory ELSE tree
        o == Open(t, path, {Regular(FALSE, <<>>)})
    IN  IF o.res = "some" /\ o.tree[path].type = "regular"
        THEN {[o.tree EXCEPT ![path].data = data]} ELSE {}

--------------------------------------------------------------------------------
(* A sink: the kind of it, what it has built, the metadata of the nodes on *)
(* disk, and whether an operation threw.  For the kind "restore",          *)
(* canonical says the store's metadata is stamped while the archive is     *)
(* unpacked, umask whether the umask keeps 0444 and 0555 as they are.      *)
NewSink(kind, canonical, umask) ==
    [kind |-> kind, canonical |-> canonical, umask |-> umask,
     nodes |-> EmptyTree, meta |-> EmptyTree, ok |-> TRUE]

Throw(sink) == [sink EXCEPT !.ok = FALSE]

(* A new entry touches the directory it is made in. *)
Touch(meta, path) ==
    IF path = <<>> \/ Front(path) \notin DOMAIN meta THEN meta
    ELSE [meta EXCEPT ![Front(path)].mtime = "now"]

(* mkdirat, open with O_EXCL and symlinkat fail on an entry that is there; *)
(* without a root directory only the root can be made.                     *)
Create(sink, path, node, mode, mtime) ==
    IF \/ path \in DOMAIN sink.nodes
       \/ path # <<>> /\ (Front(path) \notin DOMAIN sink.nodes
                          \/ sink.nodes[Front(path)].type # "directory")
    THEN Throw(sink)
    ELSE [sink EXCEPT !.nodes = (path :> node) @@ @,
                      !.meta = (path :> [mode |-> mode, mtime |-> mtime]) @@ Touch(@, path)]

(* MemorySink: open, then the node must be of the type asked for. *)
MemoryCreate(sink, path, node) ==
    LET o == Open(sink.nodes, path, {node})
    IN  IF o.res = "some" /\ o.tree[path].type = node.type
        THEN [sink EXCEPT !.nodes = o.tree] ELSE Throw(sink)

CreateDirectory(sink, path) ==
    CASE sink.kind = "null" -> sink
      [] sink.kind = "memory" -> MemoryCreate(sink, path, Directory)
      [] sink.kind = "restore" -> Create(sink, path, Directory, "0777 masked", "now")

(* finishCanonical, when the callback over the entries has returned: every *)
(* directory but the root, which its owner finishes.                       *)
FinishDirectory(sink, path) ==
    IF sink.kind = "restore" /\ sink.canonical /\ path # <<>>
    THEN [sink EXCEPT !.meta[path] = [mode |-> "0755", mtime |-> "1"]]
    ELSE sink

CreateRegularFile(sink, path) ==
    CASE sink.kind = "null" -> sink
      [] sink.kind = "memory" -> MemoryCreate(sink, path, Regular(FALSE, <<>>))
      [] sink.kind = "restore" ->
           Create(sink, path, Regular(FALSE, <<>>),
                  IF ~sink.canonical THEN "0666 masked"
                  ELSE IF sink.umask THEN "0444" ELSE "0444 masked", "now")

IsExecutable(sink, path) ==
    CASE sink.kind = "null" -> sink
      [] sink.kind = "memory" -> [sink EXCEPT !.nodes[path].exec = TRUE]
      [] sink.kind = "restore" ->
           [sink EXCEPT !.nodes[path].exec = TRUE,
                        !.meta[path].mode = IF sink.canonical THEN "0555" ELSE "0777 masked"]

WriteContents(sink, path, data) ==
    IF sink.kind = "null" THEN sink ELSE [sink EXCEPT !.nodes[path].data = @ \o data]

(* The end of RestoreSink::createRegularFile: a hostile umask needs the    *)
(* chmod an executable already had, and the mtime lands last.              *)
FinishRegularFile(sink, path) ==
    IF sink.kind # "restore" \/ ~sink.canonical THEN sink
    ELSE [sink EXCEPT !.meta[path].mtime = "1",
                      !.meta[path].mode = IF ~sink.umask /\ ~sink.nodes[path].exec
                                          THEN "0444" ELSE @]

CreateSymlink(sink, path, target) ==
    CASE sink.kind = "null" -> sink
      [] sink.kind = "memory" -> LET s == MemoryCreate(sink, path, Symlink(<<>>))
                                 IN  IF s.ok THEN [s EXCEPT !.nodes[path].target = target] ELSE s
      [] sink.kind = "restore" ->
           Create(sink, path, Symlink(target), "0777", IF sink.canonical THEN "1" ELSE "now")

--------------------------------------------------------------------------------
CanonicalMode(node) ==
    CASE node.type = "directory" -> "0755"
      [] node.type = "symlink" -> "0777"
      [] OTHER -> IF node.exec THEN "0555" ELSE "0444"

(* canonicaliseTimestampAndPermissions on one node, and                    *)
(* canonicalisePathMetaData on a whole tree.                               *)
CanonicaliseNode(sink, path) ==
    [sink EXCEPT !.meta[path] = [mode |-> CanonicalMode(sink.nodes[path]), mtime |-> "1"]]

CanonicalisePathMetaData(sink) ==
    [sink EXCEPT !.meta = [p \in DOMAIN @ |->
        [mode |-> CanonicalMode(sink.nodes[p]), mtime |-> "1"]]]

IsCanonicalTree(sink) ==
    \A p \in DOMAIN sink.nodes :
        sink.meta[p] = [mode |-> CanonicalMode(sink.nodes[p]), mtime |-> "1"]

================================================================================
