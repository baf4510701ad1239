---------------------------- MODULE SourceAccess ----------------------------
(***************************************************************************)
(* Reading a directory tree that somebody else may be changing: the        *)
(* accessors of libutil/posix-source-accessor.cc over the resolver of      *)
(* libutil/file-system-at.cc.                                              *)
(*                                                                         *)
(* A thread owns the accessors it makes; a call resolves the parent of its *)
(* path, one openat(2) per component or a single openat2(2), and works     *)
(* relative to the descriptor it got.  Directory descriptors are cached    *)
(* per accessor (lru-cache.hh) and counted in one global counter; a thread *)
(* that finds the counter at its limit empties the caches of every         *)
(* registered accessor, other threads' included, until it is below.        *)
(*                                                                         *)
(* A path is a sequence of names.  A descriptor is a number, the lowest    *)
(* one free, as in POSIX: a descriptor used after its last owner is gone   *)
(* reaches whatever was opened under that number since.                    *)
(***************************************************************************)
EXTENDS Integers, Sequences, FiniteSets, SequencesExt, FiniteSetsExt, Functions, TLC

CONSTANTS
    Threads,
    Inodes,
    Trees,        \* the trees another process can make: inode -> node
    Tree,         \* the one at the start
    Top,          \* the directory the roots are in
    Outside,      \* the inodes no path beneath a root reaches without a symlink
    Scenarios,    \* what the threads ask for, and how often the tree is changed
    Limit,        \* getGlobalFdLimit()
    CacheSize,    \* the capacity makeFSSourceAccessor gives a cache
    Chunk,        \* size of the buffer of copyFdRange
    MaxMade       \* bound: accessors one thread makes

None == "none"

Paths == Seq(STRING)

Ops == {"lstat", "readFile", "readLink", "readDirectory", "descend"}

Requests == [op : Ops \cup {"make"}, name : STRING, path : Paths]

ASSUME LimitAssumption == Limit \in Nat \ {0}

ASSUME SizesAssumption == CacheSize \in Nat /\ Chunk \in Nat \ {0} /\ MaxMade \in Nat

ASSUME ThreadsAssumption == IsFiniteSet(Threads)

(* Whatever the other process does, inside stays inside but for symlinks. *)
ASSUME TreesAssumption ==
    /\ Tree \in Trees /\ Outside \subseteq Inodes /\ Top \in Inodes \ Outside /\ None \notin Inodes
    /\ \A tree \in Trees : \A i \in Inodes :
         /\ i \in DOMAIN tree /\ tree[i].size \in Nat /\ tree[i].type # None
         /\ i \notin Outside =>
              \A name \in DOMAIN tree[i].entries : tree[i].entries[name] \in Inodes \ Outside

(* A thread makes an accessor first, and at most MaxMade of them. *)
ASSUME ScenariosAssumption ==
    \A s \in Scenarios :
        /\ s.edits \in Nat
        /\ s.todo \in [Threads -> Seq(Requests)]
        /\ \A t \in Threads : /\ Len(s.todo[t]) <= MaxMade
                              /\ s.todo[t] # <<>> => s.todo[t][1].op = "make"

VARIABLES
    node,         \* the file system
    edits,        \* how many times it will still be changed
    table,        \* open descriptors: number -> inode
    openat2,      \* whether the kernel has openat2
    unsupported,  \* static atomic_flag of openat2()
    acc,          \* the accessors: <<thread, n>> -> accessor
    registry,     \* globalDirFdCacheRegistry, weak pointers
    holder,       \* the thread that has locked it
    count,        \* globalDirFdCount
    th            \* the threads

vars == <<node, edits, table, openat2, unsupported, acc, registry, holder, count, th>>

--------------------------------------------------------------------------------
(* The kernel: a directory maps names to inodes. *)
Lookup(tree, dir, name) ==
    IF dir # None /\ name \in DOMAIN tree[dir].entries THEN tree[dir].entries[name] ELSE None

(* Mutant: the open follows a symlink, as it would without O_NOFOLLOW. *)
OpenAtFollowing(tree, dir, name, directory) ==
    LET i == Lookup(tree, dir, name)
        end == IF i # None /\ tree[i].type = "link" THEN tree[i].to ELSE i
    IN  CASE dir = None -> [err |-> "EBADF", node |-> None]
          [] dir # None /\ end = None -> [err |-> "ENOENT", node |-> None]
          [] end # None /\ directory /\ tree[end].type # "dir" -> [err |-> "ENOTDIR", node |-> None]
          [] OTHER -> [err |-> "none", node |-> end]

(* open(2) of a name with O_NOFOLLOW, and with O_DIRECTORY if wanted:      *)
(* O_DIRECTORY turns the ELOOP of a symlink into ENOTDIR.                  *)
OpenAt(tree, dir, name, directory) ==
    LET i == Lookup(tree, dir, name)
    IN  CASE dir = None -> [err |-> "EBADF", node |-> None]
          [] dir # None /\ i = None -> [err |-> "ENOENT", node |-> None]
          [] i # None /\ directory /\ tree[i].type # "dir" -> [err |-> "ENOTDIR", node |-> None]
          [] i # None /\ ~directory /\ tree[i].type = "link" -> [err |-> "ELOOP", node |-> None]
          [] OTHER -> [err |-> "none", node |-> i]

(* openat2(2) with RESOLVE_NO_SYMLINKS and without O_NOFOLLOW: a symlink   *)
(* anywhere is an ELOOP.                                                   *)
Beneath(tree, r, name, directory) ==
    LET i == Lookup(tree, r.node, name)
    IN  IF r.err # "none" THEN r
        ELSE IF i # None /\ tree[i].type = "link" THEN [err |-> "ELOOP", node |-> None]
        ELSE OpenAt(tree, r.node, name, directory)

OpenAt2(tree, dir, path, directory) ==
    LET at[k \in 0 .. Len(path)] ==
            IF k = 0 THEN [err |-> "none", node |-> dir]
            ELSE Beneath(tree, at[k - 1], path[k], directory \/ k < Len(path))
    IN  at[Len(path)]

--------------------------------------------------------------------------------
(* LRUCache: a sequence of entries, least recently used first. *)
HasKey(cache, key) == \E i \in 1 .. Len(cache) : cache[i].key = key

Find(cache, key) == CHOOSE i \in 1 .. Len(cache) : cache[i].key = key

Erase(cache, key) == IF HasKey(cache, key) THEN RemoveAt(cache, Find(cache, key)) ELSE cache

Upsert(cache, key, fd) ==
    LET rest == Erase(cache, key)
        room == IF Len(rest) >= CacheSize THEN Tail(rest) ELSE rest
    IN  Append(room, [key |-> key, fd |-> fd])

Get(cache, key) == cache[Find(cache, key)].fd

Promote(cache, key) == Append(Erase(cache, key), [key |-> key, fd |-> Get(cache, key)])

--------------------------------------------------------------------------------
NoAccessor == [kind |-> None, fd |-> 0, cached |-> FALSE, cache |-> <<>>, size |-> 0,
               listed |-> None, since |-> 0]

DirAccessor(fd, cached, listed) ==
    [NoAccessor EXCEPT !.kind = "dir", !.fd = fd, !.cached = cached, !.listed = listed, !.since = edits]

NoAnswer == [op |-> None, path |-> <<>>, err |-> None, node |-> None, size |-> 0, got |-> 0]

(* A thread: its accessors, the innermost last, and the call it is in. *)
NewThread(todo) ==
    [todo |-> todo,    \* what it will ask for: names to make accessors of, and calls
     made |-> 0, stack |-> <<>>, ans |-> NoAnswer,
     pc |-> "idle", op |-> None, path |-> <<>>,
     dir |-> 0,        \* the descriptor names are resolved from
     rel |-> <<>>,     \* what is being resolved
     k |-> 0,          \* components of rel that are open
     cur |-> 0,        \* the descriptor of the k-th, 0 for none
     prev |-> 0,       \* the one before it, on its way into the cache
     own |-> {},       \* the descriptors the call owns
     leaf |-> FALSE,   \* resolving the last name, not the parent
     it |-> 0, pin |-> <<>>,     \* in the registry: position and locked weak pointer
     size |-> 0, got |-> 0]      \* of a file: announced and delivered

(* Return from a call or throw; what was on its stack is released. *)
Answer(s, err, inode) ==
    [NewThread(s.todo) EXCEPT
        !.made = s.made, !.stack = s.stack,
        !.ans = [op |-> s.op, path |-> s.path, err |-> err, node |-> inode,
                 size |-> s.size, got |-> s.got]]

Accessors == Threads \X (1 .. MaxMade)

(* An accessor lives while a thread owns it or an eviction has locked its  *)
(* weak pointer.                                                           *)
Alive(threads, a) ==
    a # <<>> /\ \E t \in Threads : a \in ToSet(threads[t].stack) \/ threads[t].pin = a

(* The descriptors in a cache *)
Fds(cache) == {cache[i].fd : i \in 1 .. Len(cache)}

(* The owners of descriptors: calls, accessors and caches. *)
Owned(threads, accs) ==
    (UNION {threads[t].own : t \in Threads})
    \cup {accs[a].fd : a \in Accessors}
    \cup (UNION {Fds(accs[a].cache) : a \in Accessors})

NewFd(tab) == Min((1 .. (Cardinality(DOMAIN tab) + 1)) \ DOMAIN tab)

Open(tab, inode) ==
    [fd \in DOMAIN tab \cup {NewFd(tab)} |-> IF fd \in DOMAIN tab THEN tab[fd] ELSE inode]

At(fd) == IF fd \in DOMAIN table THEN table[fd] ELSE None

(* The entries in the caches of some accessors. *)
Entries(accs, some) == UNION {{<<a, i>> : i \in 1 .. Len(accs[a].cache)} : a \in some}

Cached(accs, some) == Cardinality(Entries(accs, some))

(* Thread t goes on as s, the accessors become accs, the descriptors tab   *)
(* and the counter n.  An accessor nobody holds any longer is destroyed:   *)
(* its destructor empties the cache and lowers the counter.  A descriptor  *)
(* without an owner is closed.                                             *)
Go(t, s, accs, tab, n) ==
    LET threads == [th EXCEPT ![t] = s]
        dead == {a \in Accessors : accs[a].kind # None /\ ~Alive(threads, a)}
        left == [a \in Accessors |-> IF a \in dead THEN NoAccessor ELSE accs[a]]
    IN  /\ th' = threads
        /\ acc' = left
        /\ count' = n - Cached(accs, dead)
        /\ table' = Restrict(tab, DOMAIN tab \cap Owned(threads, left))

Goes(t, s) == Go(t, s, acc, table, count)

Same == UNCHANGED <<node, edits, openat2, unsupported, registry, holder>>

Mine(t) == Last(th[t].stack)

Parent(path) == SubSeq(path, 1, Len(path) - 1)

--------------------------------------------------------------------------------
(* makeFSSourceAccessor, for a name in a directory that stays.             *)
Make(t) ==
    LET s == th[t]
        r == Head(s.todo).name
        a == <<t, s.made + 1>>
        o == OpenAt(node, Top, r, FALSE)
        made == [s EXCEPT !.made = @ + 1, !.todo = Tail(@), !.ans = NoAnswer]
        with(x) == [acc EXCEPT ![a] = x]
    IN  /\ s.pc = "idle" /\ s.todo # <<>> /\ Head(s.todo).op = "make"
        /\ CASE o.err = "ELOOP" -> Goes(t, [made EXCEPT !.pc = "readlink", !.path = <<r>>])
             [] o.err = "none" /\ node[o.node].type = "dir" ->
                  Go(t, [made EXCEPT !.pc = "register", !.stack = Append(@, a)],
                     with(DirAccessor(NewFd(table), CacheSize > 0, None)), Open(table, o.node), count)
             [] o.err = "none" /\ node[o.node].type = "file" ->
                  Go(t, [made EXCEPT !.stack = Append(@, a)],
                     with([NoAccessor EXCEPT !.kind = "file", !.fd = NewFd(table),
                                             !.size = node[o.node].size, !.since = edits]),
                     Open(table, o.node), count)
             [] OTHER -> Goes(t, [made EXCEPT !.todo = <<>>])      \* it throws: missing, or an unsupported type
        /\ Same

(* The name was a symlink a moment ago: read it, relative to its parent;   *)
(* the accessor keeps the target in memory.                                *)
MakeLink(t) ==
    LET s == th[t]
        i == Lookup(node, Top, s.path[1])
        back == [s EXCEPT !.pc = "idle", !.path = <<>>]
    IN  /\ s.pc = "readlink"
        /\ IF i # None /\ node[i].type = "link"
           THEN Go(t, [back EXCEPT !.stack = Append(@, <<t, s.made>>)],
                   [acc EXCEPT ![<<t, s.made>>] = [NoAccessor EXCEPT !.kind = "link", !.since = edits]],
                   table, count)
           ELSE Goes(t, [back EXCEPT !.todo = <<>>])
        /\ Same

(* registerAccessor *)
Register(t) ==
    /\ th[t].pc = "register" /\ holder = None
    /\ registry' = Append(SelectSeq(registry, LAMBDA a : Alive(th, a)), Mine(t))
    /\ Goes(t, [th[t] EXCEPT !.pc = "idle"])
    /\ UNCHANGED <<node, edits, openat2, unsupported, holder>>

(* The innermost accessor goes out of scope. *)
Drop(t) ==
    /\ th[t].pc = "idle" /\ th[t].todo = <<>> /\ th[t].stack # <<>>
    /\ Goes(t, [th[t] EXCEPT !.stack = Front(@), !.ans = NoAnswer])
    /\ Same

--------------------------------------------------------------------------------
(* What an operation says at once: on the root of an accessor, and on any  *)
(* path of an accessor for a file or a symlink.  "go" when it has to look. *)
(* Beneath a file there is nothing; a symlink, which is kept in a          *)
(* MemorySourceAccessor, is in the way of every path, for lstat as well.   *)
AtOnce(kind, op, path) ==
    CASE kind = "link" /\ path # <<>> -> "SymlinkNotAllowed"
      [] kind = "file" /\ path # <<>> -> IF op = "lstat" THEN "missing" ELSE "NotADirectory"
      [] path # <<>> /\ kind = "dir" -> "go"
      [] path = <<>> /\ op = "lstat" -> "ok"
      [] path = <<>> /\ op = "readFile" ->
           (CASE kind = "file" -> "go" [] kind = "dir" -> "NotARegularFile" [] kind = "link" -> "SymlinkNotAllowed")
      [] path = <<>> /\ op = "readLink" -> IF kind = "link" THEN "ok" ELSE "NotASymlink"
      [] path = <<>> /\ op \in {"readDirectory", "descend"} ->
           (CASE kind = "dir" -> "go" [] kind = "file" -> "NotADirectory" [] kind = "link" -> "SymlinkNotAllowed")

(* The last name is opened for readFile and readDirectory only. *)
AtLeaf(s) ==
    IF s.op \in {"lstat", "readLink"} THEN [s EXCEPT !.pc = "leaf"]
    ELSE [s EXCEPT !.pc = "open", !.leaf = TRUE, !.rel = <<Last(s.path)>>, !.k = 0, !.cur = 0]

(* Start of maybeLstat, readFile, readLink and both readDirectory.  The    *)
(* root is opened afresh; beneath the root, no descriptor but dirFd is     *)
(* needed.                                                                 *)
Call(t) ==
    LET a == acc[Mine(t)]
        op == Head(th[t].todo).op
        path == Head(th[t].todo).path
        s == [th[t] EXCEPT !.todo = Tail(@), !.op = op, !.path = path, !.ans = NoAnswer]
        now == AtOnce(a.kind, op, path)
    IN  /\ th[t].pc = "idle" /\ th[t].todo # <<>> /\ op # "make"
        /\ CASE now # "go" -> Goes(t, Answer(s, now, IF now = "ok" THEN At(a.fd) ELSE None))
             [] now = "go" /\ a.kind = "file" ->
                  Goes(t, [s EXCEPT !.pc = "read", !.dir = a.fd, !.size = a.size])
             [] now = "go" /\ a.kind = "dir" /\ path = <<>> ->
                  Go(t, [s EXCEPT !.pc = "list", !.dir = NewFd(table), !.own = {NewFd(table)}],
                     acc, Open(table, At(a.fd)), count)
             [] now = "go" /\ Len(path) = 1 -> Goes(t, AtLeaf([s EXCEPT !.dir = a.fd]))
             [] now = "go" /\ Len(path) > 1 -> Goes(t, [s EXCEPT !.pc = "evict"])
        /\ Same

--------------------------------------------------------------------------------
(* maybeEvictFromGlobalCaches: look at the counter, without a lock. *)
Evict(t) ==
    /\ th[t].pc = "evict"
    /\ Goes(t, [th[t] EXCEPT !.pc = IF count < Limit THEN "lookup" ELSE "wait"])
    /\ Same

LockRegistry(t) ==
    /\ th[t].pc = "wait" /\ holder = None
    /\ holder' = t
    /\ Goes(t, [th[t] EXCEPT !.pc = "sweep", !.it = 1])
    /\ UNCHANGED <<node, edits, openat2, unsupported, registry>>

(* One turn of the loop: lock the weak pointer, or erase it. *)
Sweep(t) ==
    LET s == th[t] IN
    /\ s.pc = "sweep"
    /\ IF s.it > Len(registry) \/ count < Limit
       THEN holder' = None /\ Goes(t, [s EXCEPT !.pc = "lookup"]) /\ UNCHANGED registry
       ELSE /\ UNCHANGED holder
            /\ IF Alive(th, registry[s.it])
               THEN Goes(t, [s EXCEPT !.pc = "clear", !.pin = registry[s.it]]) /\ UNCHANGED registry
               ELSE Goes(t, s) /\ registry' = RemoveAt(registry, s.it)
    /\ UNCHANGED <<node, edits, openat2, unsupported>>

(* Empty the cache and let the accessor go, which may destroy it. *)
Clear(t) ==
    LET a == th[t].pin IN
    /\ th[t].pc = "clear"
    /\ Go(t, [th[t] EXCEPT !.pc = "sweep", !.it = @ + 1, !.pin = <<>>],
          [acc EXCEPT ![a].cache = <<>>], table, count - Len(acc[a].cache))
    /\ Same

--------------------------------------------------------------------------------
(* openParent: the nearest cached ancestor, the parent itself included. *)
FindAncestor(t) ==
    LET s == th[t]
        a == acc[Mine(t)]
        parent == Parent(s.path)
        hits == {j \in 1 .. Len(parent) : a.cached /\ HasKey(a.cache, SubSeq(parent, 1, j))}
        best == Max(hits)
        key == SubSeq(parent, 1, best)
        fd == Get(a.cache, key)
        rest == SubSeq(parent, best + 1, Len(parent))
        hit == [s EXCEPT !.dir = fd, !.own = {fd}, !.rel = rest, !.k = 0, !.cur = 0, !.it = 0,
                         !.pc = IF rest = <<>> THEN "upsert" ELSE "open"]
    IN  /\ s.pc = "lookup"
        /\ IF hits = {} THEN Goes(t, [s EXCEPT !.dir = a.fd, !.rel = parent, !.pc = "open", !.it = 0])
           ELSE Go(t, hit, [acc EXCEPT ![Mine(t)].cache = Promote(@, key)], table, count)
        /\ Same

(* What follows an open that ended with r: openParentAndUpsert, or the     *)
(* callers of the second open.                                             *)
Opened(t, r) ==
    LET s == th[t]
        fd == NewFd(table)
        on == [s EXCEPT !.dir = fd, !.own = @ \cup {fd}, !.cur = 0]
        ends(err) == Goes(t, Answer(s, err, None))
        goes(next) == Go(t, next, acc, Open(table, r.node), count)
    IN  CASE r.err = "ELOOP" -> ends("SymlinkNotAllowed")
          [] ~s.leaf /\ r.err \in {"ENOENT", "ENOTDIR"} ->
               ends(IF s.op = "lstat" THEN "missing" ELSE "FileNotFound")
          [] ~s.leaf /\ r.err = "none" -> goes([on EXCEPT !.pc = "upsert"])
          [] s.leaf /\ s.op = "readFile" /\ r.err = "ENOENT" -> ends("FileNotFound")
          [] s.leaf /\ s.op = "readFile" /\ r.err = "none" ->
               IF node[r.node].type = "file"
               THEN goes([on EXCEPT !.pc = "read", !.size = node[r.node].size])
               ELSE ends("NotARegularFile")
          [] s.leaf /\ s.op # "readFile" /\ r.err = "ENOTDIR" -> ends("NotADirectory")
          [] s.leaf /\ s.op # "readFile" /\ r.err = "none" -> goes([on EXCEPT !.pc = "list"])
          [] OTHER -> ends("SysError")

WantsDirectory(s) == ~s.leaf \/ s.op # "readFile"

(* openFileEnsureBeneathNoSymlinks with openat2 ... *)
TryOpenAt2(t) ==
    /\ th[t].pc = "open" /\ ~unsupported
    /\ IF openat2
       THEN /\ Opened(t, OpenAt2(node, At(th[t].dir), th[t].rel, WantsDirectory(th[t])))
            /\ UNCHANGED unsupported
       ELSE /\ unsupported' = TRUE
            /\ Goes(t, [th[t] EXCEPT !.pc = "walk"])
    /\ UNCHANGED <<node, edits, openat2, registry, holder>>

(* ... and without: one component at a time, each from the descriptor of   *)
(* the one before, and the descriptor before that goes to the callback.    *)
Walk(t) ==
    LET s == th[t]
        inner == s.k + 1 < Len(s.rel)
        r == OpenAt(node, At(IF s.cur = 0 THEN s.dir ELSE s.cur), s.rel[s.k + 1],
                    inner \/ WantsDirectory(s))
        fd == NewFd(table)
        caches == acc[Mine(t)].cached /\ s.cur # 0
        on == [s EXCEPT !.k = @ + 1, !.cur = fd, !.prev = IF caches THEN s.cur ELSE 0,
                        !.pc = IF caches THEN "callback" ELSE "walk",
                        !.own = (@ \cup {fd}) \ (IF caches THEN {} ELSE {s.cur})]
    IN  /\ s.pc = "walk" \/ (s.pc = "open" /\ unsupported)
        /\ CASE r.err = "ENOTDIR" -> Goes(t, [s EXCEPT !.pc = "why"])
             [] r.err = "none" /\ inner -> Go(t, on, acc, Open(table, r.node), count)
             [] OTHER -> Opened(t, r)
        /\ Same

(* ENOTDIR: a second system call tells whether it was a symlink. *)
Why(t) ==
    LET s == th[t]
        i == Lookup(node, At(IF s.cur = 0 THEN s.dir ELSE s.cur), s.rel[s.k + 1])
    IN  /\ s.pc = "why"
        /\ Opened(t, [err |-> IF i # None /\ node[i].type = "link" THEN "ELOOP" ELSE "ENOTDIR",
                      node |-> None])
        /\ Same

(* Mutant: every insertion counts, a replacement too. *)
InsertCounted(t, s, key, fd) ==
    Go(t, s, [acc EXCEPT ![Mine(t)].cache = Upsert(@, key, fd)], table, count + 1)

(* insertIntoDirFdCache, under the lock of the cache. *)
Insert(t, s, key, fd) ==
    LET a == Mine(t)
        cache == Upsert(acc[a].cache, key, fd)
    IN  Go(t, s, [acc EXCEPT ![a].cache = cache], table, count + (Len(cache) - Len(acc[a].cache)))

(* Mutant: the key is relative to the cached ancestor. *)
KeyOfRelative(s, k) == SubSeq(s.rel, 1, k)

(* The path of the k-th component: the anchor, then what was resolved. *)
KeyOf(s, k) == SubSeq(Parent(s.path), 1, Len(s.path) - 1 - Len(s.rel)) \o SubSeq(s.rel, 1, k)

Callback(t) ==
    /\ th[t].pc = "callback"
    /\ Insert(t, [th[t] EXCEPT !.pc = "walk", !.prev = 0, !.own = @ \ {th[t].prev}],
              KeyOf(th[t], th[t].k - 1), th[t].prev)
    /\ Same

(* The end of openParentAndUpsert. *)
UpsertParent(t) ==
    LET s == [AtLeaf(th[t]) EXCEPT !.own = {th[t].dir}] IN
    /\ th[t].pc = "upsert"
    /\ IF acc[Mine(t)].cached THEN Insert(t, s, Parent(s.path), s.dir) ELSE Goes(t, s)
    /\ Same

--------------------------------------------------------------------------------
(* maybeLstat and readLink look at the last name with one call. *)
Leaf(t) ==
    LET s == th[t]
        i == Lookup(node, At(s.dir), Last(s.path))
        err == CASE i = None -> IF s.op = "lstat" THEN "missing" ELSE "SysError"
                 [] i # None /\ s.op = "readLink" /\ node[i].type # "link" -> "NotASymlink"
                 [] OTHER -> "ok"
    IN  /\ s.pc = "leaf"
        /\ Goes(t, Answer(s, err, IF err = "ok" THEN i ELSE None))
        /\ Same

(* Mutant: the end of the file ends the copy. *)
ReadToEnd(t) ==
    LET s == th[t]
        n == Min({s.size - s.got, Chunk, node[At(s.dir)].size - s.got})
    IN  /\ s.pc = "read"
        /\ IF n <= 0 THEN Goes(t, Answer(s, "ok", At(s.dir))) ELSE Goes(t, [s EXCEPT !.got = @ + n])
        /\ Same

(* copyFdRange: exactly the announced bytes, or an exception. *)
Read(t) ==
    LET s == th[t]
        n == Min({s.size - s.got, Chunk, node[At(s.dir)].size - s.got})
    IN  /\ s.pc = "read"
        /\ CASE s.got = s.size -> Goes(t, Answer(s, "ok", At(s.dir)))
             [] s.got < s.size /\ n > 0 -> Goes(t, [s EXCEPT !.got = @ + n])
             [] s.got < s.size /\ n <= 0 -> Goes(t, Answer(s, "EndOfFile", None))
        /\ Same

(* Mutant: the descent resolves the path a second time. *)
ListAgain(t) ==
    LET s == th[t]
        a == <<t, s.made + 1>>
        again == OpenAt2(node, At(acc[Mine(t)].fd), s.path, TRUE)
        done == Answer(s, "ok", At(s.dir))
    IN  /\ s.pc = "list"
        /\ IF s.op = "readDirectory" \/ again.err # "none" THEN Goes(t, done)
           ELSE Go(t, [done EXCEPT !.made = @ + 1, !.stack = Append(@, a), !.ans = NoAnswer],
                   [acc EXCEPT ![a] = DirAccessor(NewFd(table), FALSE, At(s.dir))],
                   Open(table, again.node), count)
        /\ Same

(* readEntriesFrom.  The variant with a callback hands out an accessor     *)
(* without a cache on the descriptor whose duplicate it reads.             *)
List(t) ==
    LET s == th[t]
        a == <<t, s.made + 1>>
        done == Answer(s, "ok", At(s.dir))
    IN  /\ s.pc = "list"
        /\ IF s.op = "readDirectory" THEN Goes(t, done)
           ELSE Go(t, [done EXCEPT !.made = @ + 1, !.stack = Append(@, a), !.ans = NoAnswer],
                   [acc EXCEPT ![a] = DirAccessor(s.dir, FALSE, At(s.dir))], table, count)
        /\ Same

--------------------------------------------------------------------------------
(* Another process renames, replaces, grows or shrinks something. *)
Edit ==
    /\ edits > 0
    /\ node' \in Trees
    /\ edits' = edits - 1
    /\ UNCHANGED <<table, openat2, unsupported, acc, registry, holder, count, th>>

Finished ==
    /\ \A t \in Threads : th[t].pc = "idle" /\ th[t].todo = <<>> /\ th[t].stack = <<>>
    /\ UNCHANGED vars

Init ==
    /\ node = Tree /\ openat2 \in BOOLEAN /\ unsupported = FALSE
    /\ acc = [a \in Accessors |-> NoAccessor] /\ table = [i \in {} |-> None]
    /\ registry = <<>> /\ holder = None /\ count = 0
    /\ \E s \in Scenarios :
         /\ edits = s.edits
         /\ th = [t \in Threads |-> NewThread(s.todo[t])]

(* The steps of a call that has begun. *)
Step(t) ==
    \/ MakeLink(t) \/ Register(t) \/ Evict(t) \/ LockRegistry(t) \/ Sweep(t) \/ Clear(t)
    \/ FindAncestor(t) \/ TryOpenAt2(t) \/ Walk(t) \/ Why(t) \/ Callback(t) \/ UpsertParent(t)
    \/ Leaf(t) \/ Read(t) \/ List(t)

Next ==
    \/ \E t \in Threads : Make(t) \/ Call(t) \/ Drop(t) \/ Step(t)
    \/ Edit
    \/ Finished

Spec == Init /\ [][Next]_vars

--------------------------------------------------------------------------------
(* The global counter is the number of descriptors in the caches, and no   *)
(* cache outgrows its capacity: inserting (which may replace or retire an  *)
(* entry), evicting another thread's cache and destroying an accessor, by  *)
(* its owner or by the eviction that held it last, leave it exact.  The    *)
(* counter is unsigned: one decrement too many and every call evicts.      *)
CountIsExact ==
    /\ count = Cached(acc, Accessors)
    /\ \A a \in Accessors : Len(acc[a].cache) <= CacheSize

(* However directories are replaced by symlinks while they are resolved,   *)
(* no descriptor and no answer is ever for something that only a symlink   *)
(* leads to.                                                               *)
NeverLeavesRoot ==
    /\ \A fd \in DOMAIN table : table[fd] \notin Outside
    /\ \A t \in Threads : th[t].ans.node \notin Outside

(* What a call says of a tree, resolved in one step and without caches. *)
Reference(tree, root, op, path) ==
    LET up == OpenAt2(tree, root, Parent(path), TRUE)
        i == Lookup(tree, up.node, Last(path))
        type == IF i = None THEN None ELSE tree[i].type
    IN  CASE up.err = "ELOOP" -> "SymlinkNotAllowed"
          [] up.err \in {"ENOENT", "ENOTDIR"} -> IF op = "lstat" THEN "missing" ELSE "FileNotFound"
          [] up.err = "none" ->
               CASE op = "lstat" -> IF i = None THEN "missing" ELSE "ok"
                 [] op = "readFile" ->
                      (CASE type = None -> "FileNotFound" [] type = "file" -> "ok"
                         [] type = "link" -> "SymlinkNotAllowed" [] OTHER -> "NotARegularFile")
                 [] op = "readLink" ->
                      (CASE type = None -> "SysError" [] type = "link" -> "ok" [] OTHER -> "NotASymlink")
                 [] OTHER ->
                      (CASE type = None -> "SysError" [] type = "dir" -> "ok"
                         [] type = "link" -> "SymlinkNotAllowed" [] OTHER -> "NotADirectory")

(* As long as the tree is as it was when the accessor was made, every call *)
(* answers what a fresh resolution of its path would, whatever is cached,  *)
(* under which key, and whichever caches other threads have emptied in the *)
(* middle of it.                                                           *)
AnswersAreExact ==
    \A t \in Threads :
        LET ans == th[t].ans
            a == acc[Mine(t)]
            root == At(a.fd)
        IN  th[t].pc = "idle" /\ ans.op # None /\ ans.path # <<>> /\ a.kind = "dir" /\ a.since = edits
            => /\ ans.err = Reference(node, root, ans.op, ans.path)
               /\ ans.err = "ok" =>
                    ans.node = Lookup(node, OpenAt2(node, root, Parent(ans.path), TRUE).node, Last(ans.path))

(* A file that grows or shrinks while it is dumped does not break the      *)
(* framing of the archive: a call that returns has delivered exactly the   *)
(* bytes it announced, and one that has not never delivered more.          *)
DumpIsWellFramed ==
    \A t \in Threads :
        /\ th[t].got <= th[t].size
        /\ th[t].ans.op = "readFile" =>
             (th[t].ans.err = "ok" <=> th[t].ans.node # None /\ th[t].ans.got = th[t].ans.size)

(* The names a traversal was given and the directory it goes on in are of  *)
(* one directory, though the path may have been replaced in between.       *)
ListedIsEntered ==
    \A a \in Accessors : acc[a].listed # None => At(acc[a].fd) = acc[a].listed
--------------------------------------------------------------------------------
(* The inductive invariant: whose descriptors are open.                    *)

PCs == {"idle", "readlink", "register", "evict", "wait", "sweep", "clear", "lookup", "open",
        "walk", "why", "callback", "upsert", "leaf", "read", "list"}

CacheEntries == [key : Paths, fd : Nat \ {0}]

AccessorStates ==
    [kind : {None, "dir", "file", "link"}, fd : Nat, cached : BOOLEAN, cache : Seq(CacheEntries),
     size : Nat, listed : Inodes \cup {None}, since : Nat]

Outcomes == {None, "ok", "missing", "FileNotFound", "NotADirectory", "NotARegularFile",
             "SymlinkNotAllowed", "NotASymlink", "SysError", "EndOfFile"}

Answers == [op : Ops \cup {None}, path : Paths, err : Outcomes, node : Inodes \cup {None},
            size : Nat, got : Nat]

ThreadStates ==
    [todo : Seq(Requests), made : Nat, stack : Seq(Accessors), ans : Answers,
     pc : PCs, op : Ops \cup {None}, path : Paths, dir : Nat, rel : Paths, k : Nat, cur : Nat,
     prev : Nat, own : SUBSET Nat, leaf : BOOLEAN, it : Nat, pin : Accessors \cup {<<>>},
     size : Nat, got : Nat]

TypeOK ==
    /\ node \in Trees /\ edits \in Nat
    /\ IsFiniteSet(DOMAIN table) /\ DOMAIN table \subseteq Nat \ {0}
    /\ \A fd \in DOMAIN table : table[fd] \in Inodes
    /\ openat2 \in BOOLEAN /\ unsupported \in BOOLEAN
    /\ acc \in [Accessors -> AccessorStates]
    /\ holder \in Threads \cup {None} /\ count \in Int
    /\ th \in [Threads -> ThreadStates]

(* What an accessor x is made of, over the descriptors tab. *)
AccessorOK(x, tab) ==
    /\ x.kind \in {"dir", "file"} => x.fd # 0
    /\ x.kind = None => x.cache = <<>>
    /\ x.cached => CacheSize > 0
    /\ Len(x.cache) <= CacheSize
    /\ x.listed # None => x.fd \in DOMAIN tab /\ tab[x.fd] = x.listed

(* Thread t in state s owns its accessors among accs, which it has made in *)
(* order, and has made one before it asks.                                 *)
StackOK(t, s, accs) ==
    /\ \A i \in 1 .. Len(s.stack) : s.stack[i][1] = t /\ accs[s.stack[i]].kind # None
    /\ \A i \in 1 .. MaxMade :
         accs[<<t, i>>].kind # None => i <= IF s.pc = "readlink" THEN s.made - 1 ELSE s.made
    /\ s.made + Len(s.todo) + (IF s.op = None THEN 0 ELSE 1) <= MaxMade
    /\ s.pc = "readlink" => s.made > 0
    /\ s.pc = "idle" /\ s.todo # <<>> => s.stack # <<>> \/ s.todo[1].op = "make"
    /\ s.pc \notin {"idle", "readlink"} => s.stack # <<>>
    /\ s.op = None <=> s.pc \in {"idle", "readlink", "register"}

Opening == {"open", "walk", "why", "callback"}
Resolving == Opening \cup {"upsert", "leaf", "read", "list"}
ToParent == {"evict", "wait", "sweep", "clear", "lookup", "upsert"}

(* The descriptor a call works from is its own or that of its accessor x;  *)
(* what it resolves is not empty.                                          *)
UseOK(s, x) ==
    /\ s.pc \in Resolving /\ s.cur = 0 => s.dir # 0 /\ s.dir \in s.own \cup {x.fd}
    /\ s.cur # 0 => s.cur \in s.own /\ s.pc \in {"walk", "why", "callback"}
    /\ s.pc = "callback" => s.cur # 0 /\ s.prev \in s.own \ {0, s.cur} /\ x.cached
    /\ s.pc \notin Resolving \ {"open"} => s.k = 0
    /\ s.pc = "clear" => s.pin # <<>>
    /\ s.pc \in Opening => s.k < Len(s.rel)
    /\ (s.pc \in ToParent \/ (s.pc \in Opening /\ ~s.leaf)) => Len(s.path) > 1
    /\ s.pc \in ToParent \ {"upsert"} => x.fd # 0

(* What has been announced and delivered of a file. *)
ReadOK(s) ==
    /\ s.got <= s.size
    /\ s.pc # "read" => s.got = 0
    /\ s.pc \in {"leaf", "list"} => s.op # "readFile"
    /\ s.ans.op = "readFile" =>
         (s.ans.err = "ok" <=> s.ans.node # None /\ s.ans.got = s.ans.size)
    /\ s.ans.node \notin Outside

OwnersInv ==
    /\ Owned(th, acc) \subseteq DOMAIN table \cup {0}
    /\ \A fd \in DOMAIN table : table[fd] \notin Outside
    /\ \A a \in Accessors : AccessorOK(acc[a], table)
    /\ \A t \in Threads :
         StackOK(t, th[t], acc) /\ UseOK(th[t], acc[Mine(t)]) /\ ReadOK(th[t])
    /\ count = Cached(acc, Accessors)

AccessInv == TypeOK /\ OwnersInv

--------------------------------------------------------------------------------
(* The inductive invariant behind AnswersAreExact: what the descriptors of *)
(* calls and caches were opened as, as long as the tree is as it was when  *)
(* the accessor was made.                                                  *)

(* The path leads from the root to the directory inode. *)
Leads(tree, root, path, inode) ==
    OpenAt2(tree, root, path, TRUE) = [err |-> "none", node |-> inode]

(* The descriptor that the next name is resolved from *)
Here(s) == IF s.cur = 0 THEN s.dir ELSE s.cur

(* On the way to the parent: the call is where the key of its descriptor   *)
(* says, and so is the one before it that goes into the cache.             *)
ParentOK(tree, s, root, at, before) ==
    /\ Len(s.rel) < Len(s.path) /\ KeyOf(s, Len(s.rel)) = Parent(s.path)
    /\ Leads(tree, root, KeyOf(s, s.k), at)
    /\ s.cur = 0 <=> s.k = 0
    /\ s.pc = "callback" => s.k > 1 /\ Leads(tree, root, KeyOf(s, s.k - 1), before)

(* In the parent: the last name is next. *)
NameOK(tree, s, root, at) ==
    /\ s.path # <<>> /\ Leads(tree, root, Parent(s.path), at)
    /\ s.pc \in Opening => s.rel = <<Last(s.path)>> /\ s.k = 0 /\ s.cur = 0

(* The last name is open. *)
FoundOK(tree, s, root, at) ==
    LET up == OpenAt2(tree, root, Parent(s.path), TRUE)
    IN  /\ up.err = "none" /\ Lookup(tree, up.node, Last(s.path)) = at
        /\ tree[at].type = IF s.op = "readFile" THEN "file" ELSE "dir"
        /\ s.op = "readFile" => tree[at].size = s.size

CallOK(tree, s, root, at, before) ==
    /\ s.pc \in Opening /\ ~s.leaf => ParentOK(tree, s, root, at, before)
    /\ s.pc \in {"upsert", "leaf"} \/ (s.pc \in Opening /\ s.leaf) => NameOK(tree, s, root, at)
    /\ s.pc \in {"read", "list"} /\ s.path # <<>> => FoundOK(tree, s, root, at)
    /\ s.pc = "why" => OpenAt(tree, at, s.rel[s.k + 1], WantsDirectory(s)).err = "ENOTDIR"

AnswerOK(tree, ans, root) ==
    LET up == OpenAt2(tree, root, Parent(ans.path), TRUE)
    IN  ans.op # None /\ ans.path # <<>> =>
          /\ ans.err = Reference(tree, root, ans.op, ans.path)
          /\ ans.err = "ok" => ans.node = Lookup(tree, up.node, Last(ans.path))

(* An accessor x that is older than the last of the changes is not asked.  *)
Untouched(x, now) == x.kind = "dir" /\ x.since = now

AccessorExact(tree, now, x, tab) ==
    /\ x.kind = "dir" => x.since >= now
    /\ Untouched(x, now) => \A i \in 1 .. Len(x.cache) :
         Leads(tree, tab[x.fd], x.cache[i].key, tab[x.cache[i].fd])

ThreadExact(tree, now, s, x, tab) ==
    /\ s.leaf => s.pc \in Opening \cup {"read", "list"}
    /\ s.ans.op # None => s.stack # <<>>
    /\ s.pc \in {"read", "list"} => (s.op = "readFile" <=> s.pc = "read")
    /\ s.leaf \/ s.pc \in {"read", "list"} => s.op \notin {"lstat", "readLink"}
    /\ s.pc = "leaf" => s.op \in {"lstat", "readLink"}
    /\ s.stack # <<>> /\ Untouched(x, now) =>
         /\ CallOK(tree, s, tab[x.fd], tab[Here(s)], tab[s.prev])
         /\ AnswerOK(tree, s.ans, tab[x.fd])

ExactInv ==
    /\ \A a \in Accessors : AccessorExact(node, edits, acc[a], table)
    /\ \A t \in Threads : ThreadExact(node, edits, th[t], acc[Mine(t)], table)
=============================================================================
