# TLA+ models of the archinix store

archinix keeps whole root file systems ("generations") in a content-addressed
store, imports them, boots them and removes them. The store is a Nix store cut
down to that use (`src/src`, libraries libutil and libstore) with a handful of
tools on top (`src/arch`). Several tools may run on one store at a time, each
of them may be killed, and nothing but lock files, a SQLite database and atomic
renames coordinates them. That coordination is what these modules model,
together with what is shipped between stores and how trees are read.

Paths below are those of `PROJECT.json`: `src/` is the repository.

## Inventory

| part | state | operations | talks to |
|---|---|---|---|
| path locks (`libstore/pathlocks.cc`) | `<path>.lock` files, their flocks, the "d" token in a deleted one | `lockPaths`, `setDeletion`, `unlock`, `deleteLockFile` | other processes, through the file system |
| importers (`addToStoreFromDump`, `addToStore`; `import-dir`, `import-path`) | the store directory, tmp-* staging directories, the table `ValidPaths`, the links in `gcroots` | check, lock, check again, clear, move or restore, canonicalise, register, root | path locks, database, gcroots |
| garbage collection (`gc.cc`; `rm-path`) | `gc.lock`, a copy of the roots | unroot, lock, find roots, refuse, invalidate, delete, prune `.links` | everything an importer touches, but not its locks |
| verification (`verifyStore`; `verify-store`) | `gc.lock` shared, a directory listing | list, compare with the database, re-hash | the same, read-only |
| store opening (`openStore`, constructor, `openDB`, `writeSchemaFile`) | `db.sqlite`, `schema`, `schema.tmp` | create or open | other openers; no lock |
| thread pool (`libutil/thread-pool.cc`) | queue, active count, exception, quit flag, threads | `enqueue`, `process`, `doWork`, `shutdown` | its work items, which call back into it |
| link farm (`optimise-store.cc`) | `.links/<hash>`, link counts | link or replace, prune | importers, collector, thread pool |
| hashing and dedup pipeline (`AsyncHashSink`, `AsyncFileHasher`, `DedupSwapPool`), source-to-sink ring (`serialise.cc`) | bounded queues, closed/quit flags | push, pop, close, finish | the restore, the dump, the link farm |
| valid-path database (`registerValidPath`, `invalidatePathChecked`, `queryPathInfo`; `sqlite.cc`) | tables `ValidPaths` and `Refs`, one connection per process, a transaction | begin, select, write, commit, roll back, retry when busy | SQLite, other processes |
| NAR format (`archive.cc`, `fs-sink.cc`, `memory-source-accessor.cc`) | the tree that is unpacked, its modes and times | dump, parse, restore | importers, exporter |
| export and import streams (`export-path`, `import-path`, `export-import.cc`, `serialise.cc`) | the bundle, buffers on both sides, what has been received | write, flush, read, verify, add, root | the store on either side |
| source accessors (`posix-source-accessor.cc`, `file-system-at.cc`) | directory descriptors, an LRU cache per accessor, one global counter | resolve, read, list, evict | other threads' caches, whoever changes the tree |
| names and hashes (`path.cc`, `canon-path.cc`, `hash.cc`, `base-nix-32.cc`, ...) | none | pure functions | all |
| generations (`arch/nixgen/*`) | `entries.cfg`, the seed of the boot menu | commit, adopt, remove, switch, update | the tools above, as child processes |

What is hard here: importers, collectors and verifiers interleave freely; the
collector and the importers do not share a lock; any process can be killed
between two system calls, and its lock files and half-written trees meet the
next one; validity is checked, then used after waiting for a lock; a lock file
is deleted while others wait for it; the thread pool must neither drop work
that running items are about to add nor lose a wakeup; an import is six threads
around four bounded queues that wake each other only when they have to; the
optimiser and the collector work on the link farm without any lock; SQLite
refuses a write in the middle of a transaction that has already read; a power
failure keeps the row and loses the tree; a bundle is cut, damaged or forged, or
its importer dies half way; a tree changes while it is read, and one thread
empties another one's descriptor cache. `PROJECT.json` lists these hazards with the line where each bites and the property that covers it.

What makes each part correct:

- path locks: one owner per path; only the own file is unlinked;
- store: a registered path is complete on disk; a successful import has stored
  what it reports; what is rooted stays; every tool ends;
- opening: a schema file means a complete database and is never torn;
- thread pool: `process()` returns when all work is done, leaves no thread in
  an item behind, and does return;
- link farm: a farm entry has the content its name says, linking never changes
  the content of a store path, both as long as no path comes back under an
  optimiser that goes by another hash, and what was optimised ends up shared;
- queues: no wakeup is lost; an import that returns has hashed everything in
  order; swaps stay between restore and stamping; whoever throws, it ends;
- database: retried transactions amount to whole ones, one after another; no
  path has two rows and no reference dangles; a query answers from one
  database; with the syncing settings a row has its tree after a power failure;
- bundles: what is registered is what its name says, canonical on disk; success
  means that all of it is there and rooted; a failure never blocks the next try;
- archives, names, hashes: a parser accepts dumps only; every spelling reads
  back as what it was printed from; resolution is exact;
- source accessors: no symlink is followed; a cache changes no answer; a dump
  has the size it announced.

## Modules

### PathLocks, PathMutex

`PathLocks` has one action per system call of `pathlocks.cc`: `OpenLockFile`
(open with `O_CREAT`), `TryLock` (non-blocking flock), `FlockGranted` (the
blocking one), `CheckStale` (fstat), `UnlinkLockFile`, `WriteToken`,
`CloseLockFile`. A lock file is an inode; the name may be gone while processes
still have the inode open, and an inode nobody refers to can be reused. `Exit`
ends a process anywhere; `TokenFails` is the exception `writeFull` throws, which
skips the closes that follow. The history variable `torn` collects the paths
whose lock file was unlinked but never marked.

`PathMutex` is what the importers are promised: at most one holder per path,
void for a path in `broken`. `PathLocks` implements it with `broken <- torn`.
That a request for a lock ends is a property of the tools (`ToolsEnd` of
`LocalStore`), over the abstract lock; no tool asks for one lock while it holds
another of the same kind.
`LocalStore` uses that promise: its `lock` is a function from paths to holders.

### LocalStore

Each process runs one tool at a time: `import-dir`, `import-path`, `rm-path` or
`verify-store`. One action is one access to shared state. A tree on disk is
`none`, `partial`, `raw` (complete, metadata not canonical) or `full`; since a
store path contains the hash of its content, two imports of one path write the
same tree. Deletion has a begin and an end, because it goes entry by entry, and
so has a restore to the real path. `Fail` ends a tool anywhere: by an exception
that unwinds or by a kill. Either way the locks are released and the store stays
as it is; the two differ in the staging directory only, which is private to its
process and belongs to `Database`. `Pins` are paths that have a second
link in `gcroots`, which `rm-path` does not know of.

Importers take path locks and no `gc.lock`; the collector takes `gc.lock` and
no path locks. So an import and a collection of the same path can overlap, and
then nothing about that path is certain (run `store_sweep`). The history
variable `raced` records these overlaps, and the properties that hold are
stated for the paths outside it. Nothing else is excluded: concurrent imports
of one path, collections of other paths, kills and failures everywhere.

`verify-store` lists the directory and then reads the database. Its shared
`gc.lock` keeps collectors out and importers not, so an intact path that landed
in between is reported as vanished; `AlarmIsTrueOrEarly` says that this is the
only kind of false alarm.

### StoreOpen

`openStore`, `getSchema`, `openDB`, `writeSchemaFile`. The names `schema` and
`schema.tmp` refer to inodes with a content; `schema.sql` is a sequence of
autocommitted statements; `Stop` interrupts a process anywhere. `overlap`
records that two processes were creating the store at a time.

### ThreadPool

One action per critical section of `state_`, per wait and per run of an item,
with `notify_one`, `notify_all` and spurious wakeups of the condition variable.
`active` is the set of threads that the counter `state->active` counts.
An item ends, throws, or enqueues another item.

### LinkFarm

`.links` has one hard link per content, named by its hash. `optimisePath_` has
one action per system call: `Stat`, `Hash`, `Look`, `UnlinkBad`, `CreateEntry`,
`Relook`, `Compare`, `TempLink`, `Rename`; `StartOptimise` and `Skip` are the set
of known inodes, read once per pass. `Restore`, `Probe`, `SwapLink` and
`SwapRename` are the streamed dedup of an import, `PruneStat` and `PruneUnlink`
the prune at the end of a collection, `Delete` the deletion of a path. They share
no lock, and any of them happens between two steps of any other. A process that
is killed is one that takes no more steps.

A node is a file of a store path; the path's name fixes its content, `Want[n]`.
A content stands for its hash, and `Size` gives its size: the sizes are all that
`tryDedup` and `optimisePath_` compare before they link (`Fits`). Files change behind the store's back in two ways. `Touch` is a
program that writes to a file; it leaves an mtime that is not canonical (or a
writable file) and a content that no store path asks for, and it meets neither a
shared inode nor a file under an optimiser's hands: an inode shared with the farm
that is written to is damage no code here claims to handle. `Tear` is a power
failure that empties a file; it is found when nobody is at work.

`Delete` takes a file in any state, also one that was changed, and whoever is at
work on it: `collectGarbage` shares no lock with an optimiser. An optimiser goes by
the hash it has taken (`key`) and by the name. So when a changed file is hashed, its
path is deleted and an import restores it, the optimiser links the fresh file under
the hash of the changed one, or renames its temporary link with the changed content
over the fresh file. Run `farm_reimport` shows the first. The history variable
`crossed` records that a path came back under an optimiser whose hash is not the
path's own; `KeysTellContent` and `RelinkKeepsContent` hold without it, so these are
the only wrong entries and the only changed files. A path that comes back under an
optimiser with the right hash, or before it has taken one, does no harm.

`Restore` is one step: the file has its name when it is complete. Where an importer
restores straight to the final name, an optimiser that is still at work on the
deleted path could meet the file half written; that is not modelled.

### ImportPipeline

The threads of one `import-dir`: the dumper, the restorer (the reader thread of
`SourceToSink`, which runs `addToStoreFromDump`), the NAR hasher, the file hasher
and the swappers. `Put`, `Get` and `Close` are the critical sections of the
queues; a notification after the unlock is an action of its own (`Notify`), so
that a thread can go to sleep, or the queue change, in between. A thread that
waits is `asleep` on a condition variable. The queues differ in two ways, and the
model keeps both: the ring notifies the dumper under the lock (`Pull`), and the
job queue has several consumers, which a push wakes as long as it leaves no more
jobs than consumers.

A file of the dump is one chunk and two events: what is queued while it is
written, and `End`, which follows when the sink has flushed and stamped it. Any
thread may throw: the dumper (`DumpFails`), the restorer (`Write`), the hashers
(`Digest`, `HashFails`, after which a hasher only drains its queue). A swap may
fail, which no one hears of. An end of file where a file is expected is the
exception `Pull` throws.

### StoreTable, Database

`StoreTable` is what the database promises: its tables change by whole
registrations (`Register`) and whole invalidations (`Invalidate`), each decided
on the database it is applied to, and a power failure takes back the latest of
those that are not on disk. `log` is the sequence of databases there have been.

`Database` has the processes that do this through the SQLite wrapper. An import
makes its staging directory (`MakeDir`), checks, locks, checks again, moves the
tree into place (`Place`), syncs it (`SyncTree`) and registers it; a removal
invalidates the row and then deletes the tree; `Info` and `InfoRefs` are the two
statements of `queryPathInfo`. A transaction is `Select`, `Write`, `AddRefs`,
`Commit`. SQLite is external and modelled by how the wrapper meets it: `begin`
is deferred, so that the snapshot is taken by the first select; the first write
needs the write lock and a snapshot that is still current, and is `SQLITE_BUSY`
otherwise, at once, as no waiting could help a stale snapshot. The wrapper throws,
the transaction is rolled back, and `retrySQLite` runs all of it again (`Busy`),
unless an interrupt ends the call (`Throw`).

A tree is `none`, `torn` or `whole` on disk, and `after` tells what a power
failure may leave of it: anything, once it was moved or deleted, until it is
synced. `mishaps` records that a staging directory was abandoned: by a kill, or
by `createTempDirInStore`, which goes on to the next name when it cannot open or
lock the directory it has just made. Nobody removes these: `collectGarbage`
deletes the paths it is given and nothing else, although `src/src/README.md:78`
leaves them to "the next GC sweep". `removed` records the paths invalidated or
deleted since a registration last found their tree durable (`Durable`): an
invalidation that a power failure takes back can leave a row whose tree is gone,
with every setting; `RowsHaveTrees` is about the others. With neither setting, the
default, it promises nothing.

The tools store generations, which have no references, and `import-path` refuses
a bundle that claims some. The jobs of `Database` have references all the same,
because `registerValidPath` and the schema handle them (`local-store.cc:560`
keeps them as what "would make a bypass visible").

### NarCells, FileTrees, Nar, ByteStreams, Encodings, CanonPaths, Names, ExportImport, Bundles

`ExportImport`: `export-path` dumps the paths of one store into a bundle,
`import-path` verifies, unpacks, registers and roots them in another. It is
written over the cells, sinks and streams below; the format of an archive, the
digest, the naming of paths and the columns of a row are operator constants
(`Archive`, `ParseArchive`, `NarHash`, `PathFor`, `MakeRow`, ...), because what the
two programs do with them does not depend on what they are. `Bundles` puts the two
halves together: the cfg of the run gives these constants the operators of `Nar`,
`Encodings` and `Names`, and `Bundles` says what those promise by themselves.

- `NarCells`: the cells an archive and a bundle consist of (a tag, a name, a
  number or a unit of contents) and how one is read.
- `FileTrees`: trees in memory (`MemorySourceAccessor`) and the sinks an archive
  is unpacked into, with the modes and times the restore stamps under a umask and
  the canonicalising walk corrects.
- `Nar`: dumping and parsing an archive, with every refusal of the parser.
- `ByteStreams`: `BufferedSink`, `FdSink`, `BufferedSource` and `FdSource` over
  descriptors that take or give only so many cells.
- `Encodings`: base 16, base 64 and base 32 digests and the parsing of hashes;
  SHA-256 is a parameter.
- `CanonPaths`: `canonPathInner` and the class `CanonPath`, on strings.
- `Names`: store paths, content addresses, the columns of a row, and the
  resolution of what a user types.

The exporter writes cell by cell and may be killed, find a rotten tree or a full
disk; the bundle is then delivered as it is, cut, with one damaged cell, or
replaced by a foreign one; the importer fills its buffer (`ReadBundle`), verifies
an archive and its trailer once it has them (`Verify`), unpacks, registers and
roots, may be killed or fail in any of these, and is run once more with an intact
bundle.

What `ExportImport` is told of its parameters is in two places. Its assumptions,
which TLC evaluates with the real codecs, are about the exporting store: what is
written consists of cells (`CellsAssumption`), a path prints and reads back, the
rows were made when the trees were whole, and a disk error shows in the digest
(`RowsAssumption`). The contract of the codecs is the invariant
`CodecsKeepPromises`, about the inputs the importer meets: the parser stays inside
its input, reads an archive of the exporter to its end and runs out of input
inside one (`ArchivesAreRead`); what it accepts is, cell for cell, the dump of
the tree it built (`AcceptsOnlyDumps`); what the importer has in hand unpacks to
the tree it was made of, with the store's metadata, and its row reads back as it
was written (`ArchivesUnpack`). The last also says that no other archive the
importer meets has the name of an exported path, that is, that SHA-256 does not
collide: this holds of the damaged and foreign bundles of the run, and in general
it cannot be more than a hypothesis.

The codecs and names are pure functions; the run checks them in its initial states
(`WrittenReadsBack`, `PathsAreCanonical`, `ResolveIsExact`), on the digests, tokens
and spellings its bundles use.

### SourceAccess

The accessors a dump reads a tree through. A thread resolves the parent of a path
with one `openat2` or component by component (`OpenAt`), each step a system call
between which `Edit`, another process, may replace a directory by a symlink or
change a file. Directory descriptors are cached per accessor under the path
prefix they stand for (`KeyOf`); `Insert` counts them in a global counter; a
thread that finds the counter at its limit empties the caches of all accessors,
one after the other, and may be the last owner of one that is destroyed
meanwhile. A descriptor is the lowest number that is free, so that a use after
close would reach something else. `Read` delivers a file in chunks, `List` a
directory. `Trees` are the trees there may be; of these it is assumed that no
directory inside contains an inode of `Outside`, so that only a symlink leads out.
The scenarios let a thread make an accessor before it asks (`ScenariosAssumption`).

By reading: `dumpPath` asks its accessors for paths of one component, through
sub-accessors without a cache, so that the caches serve the deeper calls of the
interface alone; the scenarios have both.

## Runs

| run | instance | shows |
|---|---|---|
| `locks` | 3 processes, 1 path, 4 inodes, 2 calls each | mutual exclusion, own file unlinked, refinement of `PathMutex` |
| `store` | 3 processes, 1 path, 2 tools each | registered means complete; success means stored; leftovers of one tool do not hurt the next; an alarm of verify-store is true or about a path newer than its listing |
| `store_live` | 2 processes, 2 paths, one pinned, fair | every tool ends; pinned paths survive |
| `open` | 3 processes, 2 statements, 4 inodes, 2 opens each | schema means tables; never torn without overlap |
| `pool` | owner and 2 workers, 3 items, fair | work complete at return; nobody left in an item; `process()` and `shutdown()` end |
| `farm` | 2 processes, 2 files that want one content, 2 contents of different size, 3 inodes, 1 spoiled file | entries tell their content and relinking keeps it, outside `crossed`; optimised files are shared |
| `farm_reimport` | the same, contents of one size | a wrong entry after a deletion and a new import (violated) |
| `pipeline` | 4 threads and 2 swappers, 2 files, room for 1 or 2, fair | no sleeper beside work; return means imported; swaps in time; the import ends |
| `bundles` | 2 generations, buffers of 4 cells, 1 damaged cell, foreign bundles, 2 tries | output is a prefix; rows tell the truth and trees are canonical; success is complete; a failed import can be repeated; the codecs keep their promises (the parser accepts dumps only, archives are read to their end and unpack to what they were made of); digests, rows, paths and tokens read back |
| `accessor` | 2 threads, 3 accessors each at most, limit 3, caches of 2, 1 change of the tree | exact count; no symlink followed; answers of a fresh resolution; framed dumps; listing and descent agree |
| `database` | 3 processes, 2 paths, 4 sets of jobs, 3 settings, 1 kill or power failure, fair | refinement of `StoreTable`; consistent tables; one snapshot per query; rows have trees; staging swept; calls end |

The inductive invariants (named in the section on proofs) are proved, and no run
repeats them; any of the configurations can.

Two runs are answered with a counterexample, each against a sentence of the
repository (quoted in the findings of `PROJECT.json`). `store_sweep`: a sweep and an
import are said to serialise; a path is registered while its tree is being deleted.
`farm_reimport`: the races of creating and unlinking entries are said to be
handled; a changed file is hashed, its path deleted and imported again, and the
intact file becomes the entry of the wrong hash.

More disagreements follow from the same models by reading, without a run of
their own. Each is where a property of a passing run stops:

- `pathlocks.cc:59`: a process that ends between the unlink of its lock file and
  the token leaves a waiter with a lock on a file that has no name and no mark,
  and the next process locks a fresh one: two owners. `MutualExclusion` is about
  the paths outside `torn`. (`src/src/README.md:333`: "Concurrent importers are
  fine: sqlite runs in WAL mode, per-path locks cover the rest".)
- `local-store.cc:126`: two creators share the name `schema.tmp`; one renames
  what the other has just truncated, and an interrupt leaves a zero-byte schema.
  `SchemaIsComplete` is about creators that do not overlap. (Line 121: "an
  interrupt leaves either no schema at all ... or the complete one".)
- `local-store.cc:1755`: the false alarm that `AlarmIsTrueOrEarly` leaves. (Line
  1638: "a consistent snapshot of existing and valid paths".)
- `pathlocks.cc:61`: "removing the lock file is an optimisation, not a necessity".
  The token is written also when the unlink was refused, so the file is stale for
  ever and every later request for its path opens it again and again.
- `canon-path.hh:257`: the order is said to sort path separators before any other
  character. `operator<=>` compares plain `char`, which is signed on x86-64, with
  the separator as 0: a byte from 0x80 on, as in any name that is not ASCII, sorts
  before it, so that a sibling comes between a directory and what is in it.
  `PathCode` models this, and the clause of `PathsAreCanonical` about the order is
  restricted to ASCII paths (`IsAscii`). Nothing in the repository relies on it.
- `gc.cc:121` says that "the set of permanent roots cannot increase now", but
  `addPermRoot` takes no lock: a root made after `findRoots` protects nothing.
- `import-path.cc:109` says that "a received generation is live from the moment
  it lands", but when a later archive of the stream fails, `main()` returns before
  the loop that roots the earlier ones. `SecondTrySucceeds` says that trying again
  mends it.

### Bounds

`MaxRounds`, `MaxStarts` and `MaxOpens` bound how often a process acts; without
them the state spaces are finite but for these counters. Three processes are
what the lock protocol needs: the holder that unlinks, the waiter with the old
file and the newcomer with the new one. An inode number is free again once
nothing refers to it, and four are one more than three processes and a name can
pin at a time. In `store` the same three roles are two importers and a
collector, and two tools per process let the second meet what the first left
behind. In the pool two workers and the owner are enough for a waiter, a runner
and a thread that accounts; with three items one can enqueue while another is
pending and a third runs. In `farm` two files with one content share an inode,
the second content is foreign, and three inodes are one for each file and one for
a replaced entry. In `pipeline` two files overfill every queue: the event queue
(room for 2) past its first element, where waking at the edge differs from waking
at every pop, the others (room for 1) at once. Symmetry is used where only safety is checked.

In `database` three processes are a writer, one whose snapshot goes stale and
one that waits for the write lock; the four sets of jobs are two imports of one
path beside another, a reference to a path that is being removed, a query across
a removal and a new import, and an import that follows a removal. `MaxAttempts`
is 1 for the 64 tries of the code: one directory that cannot be opened, then the
exception. `MaxFailures` is 1: a power failure leaves idle processes and a
prefix of the log, which is where the run starts from.

In `bundles` digests are 8 bytes and hash parts 5 (32 and 20 in the code): as in
the code, the first leave odd bits in the last base-32 digit and the second do
not. Contents are padded to 2 cells, not 8 bytes; `NarMaxDepth`, `MaxPathLen` and `BufSize` are small enough
that bundles are on both sides of each. In `accessor` a limit of 3 over caches of
2 makes threads evict each other, and a chain of four directories of one name has
intermediate ones to cache and to mistake for each other; `MaxMade` bounds the
accessors and the requests of a thread, and `Chunk` is one byte.

In `locks` the processes lock one path per call, as every caller in the repository
does; the module and the proofs are about sets of paths, which `lockPaths` takes.
Different sizes in `farm` make a size comparison tell contents apart; in
`farm_reimport` they are equal, so that no comparison hides the race.

`MaxSpoils` bounds the files changed behind the store's back.

Where the tools end the configuration has `CHECK_DEADLOCK FALSE`; that nothing
hangs is what the liveness properties say. `bundles`, `accessor` and `database`
check for deadlock: their last state has a step of its own.

### Fairness

- `LocalStore`: a running tool keeps running. A failure is owed only where the
  code cannot go on (`MustThrow`), so a waiter does not get away by failing.
- `ThreadPool`: items end, and a thread that asks for the mutex again and again
  while it is free gets it in the end (strong fairness of the two acquiring
  steps). Nobody owes an item, a call of `process()` or a spurious wakeup.
- `ImportPipeline`: a thread that can go on does, and a notification that is owed
  is given. An exception of the dumper and spurious wakeups are never owed.
- `Database`: a process that is in a call and not killed takes its next step. It
  owes no success: a transaction may be refused again and again, as long as
  others commit, and they do so finitely often. Starting a call, kills, power
  failures and checkpoints are never owed.

## Proofs

The proof modules prove, for every value of the constants that satisfies the
named assumptions (a "none" value apart from the sets, bounds that are numbers,
scenarios that give lists of jobs), that the specification implies

| module | theorems about properties of the runs |
|---|---|
| `PathLocksProofs` | `MutualExclusion`, `OnlyOwnLockFileUnlinked`, `ImplementsPathMutex` |
| `LocalStoreProofs` | `ValidIsComplete`, `ImportDelivers`, `PinnedSurvive`, `AlarmIsTrueOrEarly` |
| `ThreadPoolProofs` | `ReturnMeansAllDone`, `NobodyRunsAfterwards` |
| `LinkFarmProofs` | `KeysTellContent`, `RelinkKeepsContent`, `SettledIsShared` |
| `ImportPipelineProofs` | `NobodySleepsBesideWork`, `ReturnMeansImported`, `SwapsInTime` |
| `DatabaseProofs` | `DatabaseIsConsistent`, `TransactionsAreAtomic`, `InfoIsOneSnapshot`, `RowsHaveTrees`, `StagingIsSwept`; of `StoreOpen` `SchemaMeansTables`, `SchemaIsComplete` |
| `SourceAccessProofs` | `CountIsExact`, `NeverLeavesRoot`, `DumpIsWellFramed`, `ListedIsEntered`, `AnswersAreExact` |
| `ExportImportProofs` | `OutputIsAPrefix`; as long as `CodecsKeepPromises` holds `RegisteredIsWhatItSays`, `SuccessMeansWholeBundle`, `SecondTrySucceeds` |

None of these is inductive by itself. The invariants that are, and why they are
needed:

- `PathLocksProofs`, `IInv`: an owned path's name refers to the owner's file and
  that file is not marked (`NameInv`). A file that somebody waits for and that is
  not marked still has its name, or its holder is between unlink and token
  (`PendingInv`), and then holds the flock (`FlockInv`), so the waiter cannot pass
  the stale check before the token is there.
- `LocalStoreProofs`, `IInv`: an importer in its critical section holds the path's
  lock (`HoldsLock`), its path is not valid while it writes (`IsFresh`), and what is
  on disk fits its program counter (`TargetFits`), all outside `raced`; `RacedInv`
  says that `raced` misses no overlap, so that no collector deletes under such an
  importer.
- `LocalStoreProofs`, `ToolsInv`, on top of it: what a tool has read and goes by
  stays true until it has acted on it. For an importer and for the roots a
  collector has seen this is `RacedInv` again (`ImportsStand`, `PinsSeen`): whoever
  could change it overlaps it on the same path. For a verifier it is `gc.lock`
  (`GcLockFits`, `ContentsStand`).
- `ThreadPoolProofs`: every enqueued item is pending, in a thread or done, or
  the pool has failed (`ItemsInv`); the pool quits only for a reason (`QuitInv`).
- `DatabaseProofs`, `OpenInv`, about `StoreOpen`: a creator's progress shows in the
  database, and a lone creator knows what is in the file it stages (`CreatorInv`).
- `LinkFarmProofs`, `IInv`: a node has its content unless it shows its change
  (`NodeInv`, `MetaInv`); the key of an optimiser is the hash of the file it works
  on, also when that was deleted and restored meanwhile (`KeyInv`), and all who work
  on one file agree on it (`AgreeInv`); an entry that was found good is good or gone
  (`LookedInv`), because an entry is intact or empty and a size that was compared is
  not 0 (lemma `FitsIntact`); so a temporary link has the right content (`TempInv`,
  `ImportInv`). All this is claimed only until the history is `crossed`; the types and
  who works on what (`JobInv`) hold throughout.
- `LinkFarmProofs`, `SharedInv`: as long as the farm is left in peace (`Calm`), a
  file that an optimiser has finished is the inode of its entry, and each point of
  `optimisePath_` knows what it has compared (`SettledInv`).
- `ImportPipelineProofs`, `WakeupInv`: `NobodySleepsBesideWork` is inductive as soon
  as the types are known and a thread at work has an item in its hands: the push
  that ends emptiness and the pop that ends fullness wake, and nobody forgets a
  notification he owes. This holds for any capacities and any number of swappers.
- `ImportPipelineProofs`, `FlowInv`: what was digested, what is in a thread's
  hands and what is queued are, in this order, the chunks of the dump, and so for
  the events of the files; jobs are of files that have been hashed.
- `DatabaseProofs`, `IInv`: the operations on tables keep them consistent
  (`AddKeeps`, `RefsKeep`, `InvalidateKeeps`). A transaction that has read sees a
  database there has been; one that has written holds SQLite's write lock, so
  there is one, and it sees the current database and its own writes (`TxnOf`).
  Hence a commit is a whole registration or invalidation of the current database
  (`CommitIsAtomic`), every other step but a power failure and a checkpoint leaves
  the tables alone, and `Database` implements `StoreTable`; and every database in
  the log is consistent, including those a power failure brings back.
- `DatabaseProofs`, `TreeInv`: an import has its path to itself, so that the tree
  it has synced is still durable when its row is committed, or a remover has been
  there (`TreeOf`). `InfoInv` and `StagingInv` say what a query and an import keep
  between their steps.
- `SourceAccessProofs`, `AccessInv`: whose descriptors are open. Everything in use
  has an owner that keeps it open: the call, the accessor or its cache; the
  descriptor a call works from is its own or its accessor's, whoever empties the
  caches meanwhile (`UseOK`); an accessor a call works in is on the stack of its
  thread, and so alive (`StackOK`). One lemma (`GoKeeps`) shows that the destruction
  of accessors nobody holds and the closing of descriptors nobody owns, which are
  part of every step, keep it; the actions are then shown to hand `Go` something good.
- `SourceAccessProofs`, `ExactInv`: what descriptors were opened as, for accessors
  no younger than the last change of the tree (`Untouched`). A cache entry leads
  from the root to its directory, by its key (`AccessorExact`). A call that walks is
  where the key of its descriptor says, and that key with what is left is its
  parent (`ParentOK`); the descriptor on its way into the cache is where the key
  it will get says; in the parent the last name is next (`NameOK`); what it reads
  or lists is what a fresh resolution finds (`FoundOK`); after an `ENOTDIR` the
  name is still in the way. The proof needs that a path resolves to the same end in
  one step and in several (`PrefixesResolve`, `RestResolves`), and that a name opened
  with `O_NOFOLLOW`, with the second look after `ENOTDIR`, is one that `openat2`
  resolves (`OneName`). A change of the tree ends the claim for every accessor there
  is, as none is younger than the change (`EditIsExact`).

- `ExportImportProofs`, `ExportInv`: the file with what is in the buffer is what
  should have been written so far, for each place between and inside the rows
  (`AtMark`, `InNar`, `InTrailer`); what is left of an archive and what went to the
  hash make up the archive. It needs the assumptions alone: which path is rotten is
  noticed behind its archive, so the stream may end there and nowhere else.
- `ExportImportProofs`, `ReadInv`: what the importer has got is the beginning of the
  file, and its buffered source stands where this leaves it, whichever chunks the
  descriptor gave.
- `ExportImportProofs`, `RegInv`: the path in hand is named by the archive in hand,
  whose digest was checked, and every row in the database is the one for the tree
  on disk. While a path is unpacked over what an earlier import left there it is not
  valid, so no tree that a row speaks of is touched; and before it is registered
  its tree is what the archive in hand unpacks to (`Unpacked`).
- `ExportImportProofs`, `WholeInv`: the importer of a bundle that is a prefix of the
  exporter's stream has done the first rows of the exporting store, in their order,
  and stands at the mark of the next one. `FrameOfStream` is why: on the beginning
  of a stream each turn of the import loop finds the next row, the end mark or the
  end of the input, and never an error. The second try reads a bundle that is
  whole, so it cannot run out of input either.

The three theorems about the importer have the form
`Spec /\ []CodecsKeepPromises => []P`. The hypothesis is an invariant of the run that
gives the parameters the real codecs, so it is one that states satisfy; it is not
an assumption on constants, because it is about the inputs the importer meets and
not about all of them.

What `openat2` does along a path and what the caches hold are data of any length.
The induction this takes is proved once, with sets in the place of predicates:
`Least` (a non-empty set of numbers has a least one, from the library's
well-foundedness of the naturals), `Induction`, `Recursion` (a function on `0 .. n`
that is defined from its predecessor exists and stays in a set that the step
stays in) and from it `OpenAt2Computes`. The caches need no induction: their
operations are described by what they do to lengths and entries (`EraseEffect`,
`UpsertEffect`, `PromoteEffect`), and the counter by cardinalities (`OneCacheChanges`,
`DeadCachesGo`).

Model-checked only:

- the liveness properties (`ToolsEnd`, `PoolEnds`, `ImportEnds`,
  `CallsEnd`), which need fairness and are out of the prover's reach;
- of `bundles`, the codecs: `CodecsKeepPromises`, `WrittenReadsBack`,
  `PathsAreCanonical`, `ResolveIsExact` rest on recursive operators and on bit
  operations (parsers, encoders, canonical paths), and the prover has neither.

## Not modelled, and why

- Power failure elsewhere: it is in `Database` (rows, trees, staging) and, for
  one file, in `LinkFarm`; the other models kill processes, and what the kernel has
  accepted stays. `LocalStore` takes a transaction as one step, which `Database`
  shows it to be.
- SQLite: its snapshots, write lock, busy results and log are assumed, not
  modelled from its source.
- SHA-256 is a parameter; the digests of different archives differ.
- References between paths in `LocalStore`: both importers refuse or omit them,
  so the referrer checks of the collector and the verifier never find any. They
  are in `Database`.
- Lock-free signals: no tool installs a signal handler, so an interrupted flock
  does not occur.
- Errors, logging, progress and settings: formatting and constants. An exception
  is an action where it changes control.
- Generations and the scripts: shell over `entries.cfg`, mounts and child
  processes (see the plan).

## Plan

Done: `PathMutex`, `PathLocks`, `LocalStore`, `ThreadPool`, `StoreOpen`,
`LinkFarm`, `ImportPipeline`, `StoreTable`, `Database`, with a proof module for
each specification; `ExportImport` with
the modules it composes and `Bundles`; `SourceAccess`.

1. `Generations`: `entries.cfg` and the store under `nixgen-commit`, `-adopt`,
   `-remove`, `-switch` with crashes: no entry names a collectable path.
2. An abstract store (put, delete, query) that `LocalStore` implements for the
   paths outside `raced`.
