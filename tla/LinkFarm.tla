------------------------------ MODULE LinkFarm ------------------------------
(***************************************************************************)
(* The link farm <store>/.links: one hard link per file content, named by  *)
(* its hash.  optimisePath_ (optimise-store.cc) and the streamed dedup of  *)
(* an import (swapForFarmLink, local-store.cc) replace files of store      *)
(* paths by links to farm entries, collectGarbage (gc.cc) prunes entries   *)
(* and deletes store paths.  Importers, optimisers and the pruner run in   *)
(* different threads and processes, share no lock, and see each other      *)
(* between any two system calls.                                           *)
(*                                                                         *)
(* A node is a file name inside a store path.  The path's name fixes its   *)
(* content, Want[n].  A content stands for its hash; contents may have the *)
(* same size, but a file that lost its data to a power failure is empty.   *)
(***************************************************************************)
EXTENDS Naturals

CONSTANTS
  Procs,      \* threads that import or optimise, and the collector
  Nodes,      \* files of store paths
  Contents,   \* what a file can contain, and the names in .links
  Size,       \* Size[c]: the size of a file with content c
  Want,       \* Want[n]: the content of node n
  Inodes,     \* inode numbers
  None,
  MaxSpoils   \* bound: files changed behind the store's back

ASSUME NoneAssumption == None \notin Inodes /\ None \notin Nodes /\ None \notin Contents
ASSUME SizeAssumption == Size \in [Contents -> Nat \ {0}]
ASSUME WantAssumption == Want \in [Nodes -> Contents]
ASSUME NamesAssumption ==
  Nodes \cap Contents = {} /\ Nodes \cap Procs = {} /\ Contents \cap Procs = {}
ASSUME EmptyAssumption == "empty" \notin Contents \cup Nodes \cup Procs \cup {None}
ASSUME SpoilsAssumption == MaxSpoils \in Nat

VARIABLES
  node,      \* node[n]: inode of the name n
  farm,      \* farm[h]: inode of .links/<h>
  data,      \* data[i]: content of inode i
  meta,      \* meta[i]: what lstat tells of its history
  pc,
  job,       \* node or farm entry the process works on
  st,        \* inode of its first lstat
  size,      \* ... and its st_size
  key,       \* hash of the node
  link,      \* inode of its last lstat of .links/<key>
  temp,      \* inode of its temporary link in the store root
  known,     \* ctx.inodeHash
  spoils,
  removed,   \* history: nodes or farm entries were removed
  crossed,   \* history: a path came back under an optimiser that goes by another hash
  settled    \* history: nodes whose last optimisation went through

names == <<node, farm>>
files == <<data, meta>>
locals == <<job, st, size, key, link, temp, known>>
history == <<spoils, removed, crossed, settled>>
vars == <<names, files, locals, pc, history>>

\* Canonical (read-only, mtime 1), changed since (another mtime), writable.
Metas == {"canonical", "touched", "writable"}

ImportPCs == {"probe", "swapLink", "swapRename"}
OptimisePCs == {"stat", "hash", "look", "unlinkBad", "create", "relook", "compare",
                "tempLink", "rename"}
PCs == {"idle", "walk", "unlink"} \cup ImportPCs \cup OptimisePCs

\* An empty file has a hash too.
Hashes == Contents \cup {"empty"}

TypeOK ==
  /\ node \in [Nodes -> Inodes \cup {None}]
  /\ farm \in [Hashes -> Inodes \cup {None}]
  /\ data \in [Inodes -> Hashes]
  /\ meta \in [Inodes -> Metas]
  /\ pc \in [Procs -> PCs]
  /\ job \in [Procs -> Nodes \cup Hashes \cup {None}]
  /\ st \in [Procs -> Inodes \cup {None}]
  /\ size \in [Procs -> Nat]
  /\ key \in [Procs -> Hashes \cup {None}]
  /\ link \in [Procs -> Inodes \cup {None}]
  /\ temp \in [Procs -> Inodes \cup {None}]
  /\ known \in [Procs -> SUBSET Inodes]
  /\ spoils \in Nat
  /\ removed \in BOOLEAN
  /\ crossed \in BOOLEAN
  /\ settled \in SUBSET Nodes

Init ==
  /\ node = [n \in Nodes |-> None]
  /\ farm = [h \in Hashes |-> None]
  /\ data = [i \in Inodes |-> "empty"]
  /\ meta = [i \in Inodes |-> "canonical"]
  /\ pc = [p \in Procs |-> "idle"]
  /\ job = [p \in Procs |-> None]
  /\ st = [p \in Procs |-> None]
  /\ size = [p \in Procs |-> 0]
  /\ key = [p \in Procs |-> None]
  /\ link = [p \in Procs |-> None]
  /\ temp = [p \in Procs |-> None]
  /\ known = [p \in Procs |-> {}]
  /\ spoils = 0
  /\ removed = FALSE
  /\ crossed = FALSE
  /\ settled = {}

-----------------------------------------------------------------------------
(* The file system *)

\* The names of an inode, whose number is its st_nlink.
NamesOf(i) ==
  {n \in Nodes : node[n] = i} \cup {h \in Hashes : farm[h] = i}
    \cup {p \in Procs : temp[p] = i}

\* The st_size of a file with content c.
SizeOf(c) == IF c = "empty" THEN 0 ELSE Size[c]

\* What lstat found is there and has size s.
Fits(i, s) == i # None /\ SizeOf(data[i]) = s

Goto(p, from, to) ==
  /\ pc[p] = from
  /\ pc' = [pc EXCEPT ![p] = to]

\* Where a process goes when it is through with a node.
Rest(p) == IF pc[p] \in OptimisePCs THEN "walk" ELSE "idle"

\* p is through with its node; it has forgotten all but ctx.inodeHash.
Through(p) ==
  /\ pc' = [pc EXCEPT ![p] = Rest(p)]
  /\ job' = [job EXCEPT ![p] = None]
  /\ st' = [st EXCEPT ![p] = None]
  /\ size' = [size EXCEPT ![p] = 0]
  /\ key' = [key EXCEPT ![p] = None]
  /\ link' = [link EXCEPT ![p] = None]
  /\ temp' = [temp EXCEPT ![p] = None]

\* The node of p is where it belongs.
Settle(p) == settled' = settled \cup {job[p]}

-----------------------------------------------------------------------------
(* Import: a file is restored and may be swapped for its farm entry *)

\* p has the hash of its node and goes by it to the end.
Keyed(p) == pc[p] \in OptimisePCs \ {"stat", "hash"}

\* RestoreSink has written, flushed and stamped the file.  The name may have been
\* deleted while an optimiser was at work on what it had before.
Restore(p, n) ==
  /\ Goto(p, "idle", "probe")
  /\ node[n] = None
  /\ \E i \in Inodes :
       /\ NamesOf(i) = {}
       /\ node' = [node EXCEPT ![n] = i]
       /\ data' = [data EXCEPT ![i] = Want[n]]
       /\ meta' = [meta EXCEPT ![i] = "canonical"]
  /\ job' = [job EXCEPT ![p] = n]
  /\ settled' = settled \ {n}
  /\ crossed' = (crossed \/ \E q \in Procs : Keyed(q) /\ job[q] = n /\ key[q] # Want[n])
  /\ UNCHANGED <<farm, st, size, key, link, temp, known, spoils, removed>>

\* tryDedup: lstat of the farm entry, and the sizes must agree.
Probe(p) ==
  /\ pc[p] = "probe"
  /\ LET h == Want[job[p]] IN
       \/ /\ Fits(farm[h], Size[h])
          /\ pc' = [pc EXCEPT ![p] = "swapLink"]
          /\ UNCHANGED locals
       \/ /\ ~Fits(farm[h], Size[h])
          /\ Through(p)
          /\ UNCHANGED known
  /\ UNCHANGED <<names, files, history>>

\* swapForFarmLink: link(2) of whatever has the name now ...
SwapLink(p) ==
  /\ pc[p] = "swapLink"
  /\ LET i == farm[Want[job[p]]] IN
       \/ /\ i # None
          /\ temp' = [temp EXCEPT ![p] = i]
          /\ pc' = [pc EXCEPT ![p] = "swapRename"]
          /\ UNCHANGED <<job, st, size, key, link>>
       \/ Through(p)
  /\ UNCHANGED <<names, files, known, history>>

\* ... and rename(2) over the file, which may fail.
SwapRename(p) ==
  /\ pc[p] = "swapRename"
  /\ \/ node' = [node EXCEPT ![job[p]] = temp[p]]
     \/ UNCHANGED node
  /\ Through(p)
  /\ UNCHANGED <<farm, files, known, history>>

-----------------------------------------------------------------------------
(* optimiseStore and optimisePath *)

\* loadInodeHash: the inodes of all entries of .links
StartOptimise(p) ==
  /\ Goto(p, "idle", "walk")
  /\ known' = [known EXCEPT ![p] = {i \in Inodes : \E h \in Hashes : farm[h] = i}]
  /\ UNCHANGED <<names, files, job, st, size, key, link, temp, history>>

\* readDirectoryIgnoringInodes: an entry with a known inode is left out.
Skip(p, n) ==
  /\ pc[p] = "walk"
  /\ node[n] \in known[p]
  /\ settled' = settled \cup {n}
  /\ UNCHANGED <<names, files, locals, pc, spoils, removed, crossed>>

Visit(p, n) ==
  /\ Goto(p, "walk", "stat")
  /\ node[n] # None /\ node[n] \notin known[p]
  /\ job' = [job EXCEPT ![p] = n]
  /\ UNCHANGED <<names, files, st, size, key, link, temp, known, history>>

EndOptimise(p) ==
  /\ Goto(p, "walk", "idle")
  /\ known' = [known EXCEPT ![p] = {}]
  /\ UNCHANGED <<names, files, job, st, size, key, link, temp, history>>

\* Writable and empty files are left alone, and so is one that has other names and
\* whose inode has become known since.
Farmable(p, i) ==
  /\ meta[i] # "writable" /\ data[i] # "empty"
  /\ ~(i \in known[p] /\ NamesOf(i) # {job[p]})

\* Mutant: the hash captured by the restore is used whatever happened since.
StatCaptured(p) ==
  /\ pc[p] = "stat"
  /\ LET i == node[job[p]] IN
       \/ /\ i # None /\ Farmable(p, i)
          /\ st' = [st EXCEPT ![p] = i]
          /\ size' = [size EXCEPT ![p] = SizeOf(data[i])]
          /\ pc' = [pc EXCEPT ![p] = "look"]
          /\ key' = [key EXCEPT ![p] = Want[job[p]]]
          /\ UNCHANGED <<job, link, temp>>
       \/ ~(i # None /\ Farmable(p, i)) /\ Through(p)
  /\ UNCHANGED <<names, files, known, history>>

\* lstat(path), which throws if the path is gone.  If the mtime is canonical and
\* this run has captured hashes, the hash is the one the restore captured.
Stat(p) ==
  /\ pc[p] = "stat"
  /\ LET i == node[job[p]] IN
       \/ /\ i # None /\ Farmable(p, i)
          /\ st' = [st EXCEPT ![p] = i]
          /\ size' = [size EXCEPT ![p] = SizeOf(data[i])]
          /\ \/ /\ meta[i] = "canonical"
                /\ key' = [key EXCEPT ![p] = Want[job[p]]]
                /\ pc' = [pc EXCEPT ![p] = "look"]
             \/ /\ pc' = [pc EXCEPT ![p] = "hash"]
                /\ UNCHANGED key
          /\ UNCHANGED <<job, link, temp>>
       \/ ~(i # None /\ Farmable(p, i)) /\ Through(p)
  /\ UNCHANGED <<names, files, known, history>>

\* hashPath: the hash of what is on disk; it throws on a path that is gone.
Hash(p) ==
  /\ pc[p] = "hash"
  /\ LET i == node[job[p]] IN
       \/ /\ i # None
          /\ key' = [key EXCEPT ![p] = data[i]]
          /\ pc' = [pc EXCEPT ![p] = "look"]
          /\ UNCHANGED <<job, st, size, link, temp>>
       \/ i = None /\ Through(p)
  /\ UNCHANGED <<names, files, known, history>>

\* Mutant: no comparison of sizes.
LookNameOnly(p) ==
  /\ pc[p] = "look"
  /\ link' = [link EXCEPT ![p] = farm[key[p]]]
  /\ pc' = [pc EXCEPT ![p] = IF farm[key[p]] = None THEN "create" ELSE "compare"]
  /\ UNCHANGED <<names, files, job, st, size, key, temp, known, history>>

\* maybeLstat(linkPath): no entry, one of the wrong size, or one to share.
Look(p) ==
  /\ pc[p] = "look"
  /\ LET i == farm[key[p]] IN
       /\ link' = [link EXCEPT ![p] = i]
       /\ \/ i = None /\ pc' = [pc EXCEPT ![p] = "create"]
          \/ i # None /\ ~Fits(i, size[p]) /\ pc' = [pc EXCEPT ![p] = "unlinkBad"]
          \/ Fits(i, size[p]) /\ pc' = [pc EXCEPT ![p] = "compare"]
  /\ UNCHANGED <<names, files, job, st, size, key, temp, known, history>>

\* unlinkIfExists(linkPath): by name, whatever has it by now.
UnlinkBad(p) ==
  /\ Goto(p, "unlinkBad", "create")
  /\ farm' = [farm EXCEPT ![key[p]] = None]
  /\ removed' = TRUE
  /\ UNCHANGED <<node, files, locals, spoils, crossed, settled>>

\* create_hard_link(path, linkPath): the file becomes the entry, unless the
\* entry exists, the directory is full or the path is gone.
CreateEntry(p) ==
  /\ pc[p] = "create"
  /\ LET i == node[job[p]] IN
       \/ /\ i # None /\ farm[key[p]] = None
          /\ farm' = [farm EXCEPT ![key[p]] = i]
          /\ known' = [known EXCEPT ![p] = @ \cup {st[p]}]
          /\ Settle(p)
          /\ Through(p)
       \/ /\ i # None /\ farm[key[p]] # None
          /\ pc' = [pc EXCEPT ![p] = "relook"]
          /\ UNCHANGED <<farm, locals, settled>>
       \/ Through(p) /\ UNCHANGED <<farm, known, settled>>
  /\ UNCHANGED <<node, files, spoils, removed, crossed>>

\* The entry appeared meanwhile; it may have been removed again.
Relook(p) ==
  /\ pc[p] = "relook"
  /\ LET i == farm[key[p]] IN
       \/ /\ i # None
          /\ link' = [link EXCEPT ![p] = i]
          /\ pc' = [pc EXCEPT ![p] = "compare"]
          /\ UNCHANGED <<job, st, size, key, temp>>
       \/ i = None /\ Through(p)
  /\ UNCHANGED <<names, files, known, history>>

\* Already linked, or to be replaced.
Compare(p) ==
  /\ pc[p] = "compare"
  /\ \/ st[p] = link[p] /\ Settle(p) /\ Through(p)
     \/ /\ st[p] # link[p]
        /\ pc' = [pc EXCEPT ![p] = "tempLink"]
        /\ UNCHANGED <<job, st, size, key, link, temp, settled>>
  /\ UNCHANGED <<names, files, known, spoils, removed, crossed>>

\* create_hard_link(linkPath, tempLink): the entry may be gone or have too
\* many links.
TempLink(p) ==
  /\ pc[p] = "tempLink"
  /\ \/ /\ farm[key[p]] # None
        /\ temp' = [temp EXCEPT ![p] = farm[key[p]]]
        /\ pc' = [pc EXCEPT ![p] = "rename"]
        /\ UNCHANGED <<job, st, size, key, link>>
     \/ Through(p)
  /\ UNCHANGED <<names, files, known, history>>

\* Mutant: the replaced inode is marked as linked.
RenameMarksOld(p) ==
  /\ pc[p] = "rename"
  /\ \/ node' = [node EXCEPT ![job[p]] = temp[p]] /\ Settle(p)
     \/ UNCHANGED <<node, settled>>
  /\ Through(p)
  /\ known' = [known EXCEPT ![p] = @ \cup {st[p]}]
  /\ UNCHANGED <<farm, files, spoils, removed, crossed>>

\* rename(tempLink, path), which also brings back a name deleted meanwhile;
\* on failure the temporary link is removed.
Rename(p) ==
  /\ pc[p] = "rename"
  /\ \/ node' = [node EXCEPT ![job[p]] = temp[p]] /\ Settle(p)
     \/ UNCHANGED <<node, settled>>
  /\ Through(p)
  /\ UNCHANGED <<farm, files, known, spoils, removed, crossed>>

-----------------------------------------------------------------------------
(* collectGarbage *)

\* deleteStorePath: whatever the state of the file, and whoever is at work on it.
Delete(n) ==
  /\ node[n] # None
  /\ node' = [node EXCEPT ![n] = None]
  /\ settled' = settled \ {n}
  /\ removed' = TRUE
  /\ UNCHANGED <<farm, files, locals, pc, spoils, crossed>>

\* The prune: lstat of one entry ... (gc.lock: one collector)
PruneStat(p, h) ==
  /\ Goto(p, "idle", "unlink")
  /\ \A q \in Procs : pc[q] # "unlink"
  /\ farm[h] # None /\ NamesOf(farm[h]) = {h}
  /\ job' = [job EXCEPT ![p] = h]
  /\ UNCHANGED <<names, files, st, size, key, link, temp, known, history>>

\* ... and unlink, by name.
PruneUnlink(p) ==
  /\ pc[p] = "unlink"
  /\ farm' = [farm EXCEPT ![job[p]] = None]
  /\ removed' = TRUE
  /\ Through(p)
  /\ UNCHANGED <<node, files, known, spoils, crossed, settled>>

-----------------------------------------------------------------------------
(* Outside: files change behind the store's back *)

\* Contents that no store path asks for.
Foreign == Contents \ {Want[n] : n \in Nodes}

\* A program wrote to a file that shares no inode and that no process works on.
Touch(n) ==
  /\ spoils < MaxSpoils
  /\ node[n] # None /\ NamesOf(node[n]) = {n}
  /\ \A p \in Procs : job[p] # n
  /\ \E c \in Foreign : data' = [data EXCEPT ![node[n]] = c]
  /\ \E m \in {"touched", "writable"} : meta' = [meta EXCEPT ![node[n]] = m]
  /\ spoils' = spoils + 1
  /\ UNCHANGED <<names, locals, pc, removed, crossed, settled>>

\* A power failure, found at the next boot: nobody was at work, and the data of
\* a file was lost.
Tear(i) ==
  /\ spoils < MaxSpoils
  /\ \A p \in Procs : pc[p] = "idle"
  /\ NamesOf(i) # {}
  /\ data' = [data EXCEPT ![i] = "empty"]
  /\ spoils' = spoils + 1
  /\ UNCHANGED <<names, meta, locals, pc, removed, crossed, settled>>

-----------------------------------------------------------------------------

Import(p) ==
  (\E n \in Nodes : Restore(p, n)) \/ Probe(p) \/ SwapLink(p) \/ SwapRename(p)

Optimise(p) ==
  \/ StartOptimise(p) \/ EndOptimise(p)
  \/ \E n \in Nodes : Skip(p, n) \/ Visit(p, n)
  \/ Stat(p) \/ Hash(p) \/ Look(p) \/ UnlinkBad(p) \/ CreateEntry(p) \/ Relook(p)
  \/ Compare(p) \/ TempLink(p) \/ Rename(p)

Collect(p) == (\E h \in Hashes : PruneStat(p, h)) \/ PruneUnlink(p)

Outside == (\E n \in Nodes : Delete(n) \/ Touch(n)) \/ \E i \in Inodes : Tear(i)

Next == (\E p \in Procs : Import(p) \/ Optimise(p) \/ Collect(p)) \/ Outside

Spec == Init /\ [][Next]_vars

-----------------------------------------------------------------------------
(* Properties *)

\* Deduplication changes no content: a name that moves to another inode finds
\* there what it had.  (Not so once a path came back under an optimiser that goes
\* by the hash of what it had before, see EveryKeyTellsContent.)
RelinkKeepsContent ==
  [][~crossed =>
       \A n \in Nodes :
         node'[n] # node[n] /\ node[n] # None /\ node'[n] # None =>
           data[node'[n]] = data[node[n]]]_vars

\* A farm entry holds the content its name tells, or lost it to a power
\* failure, which its size shows: what the races of creating and unlinking entries
\* are said to leave alone.  False: a file that was changed is hashed, its path is
\* deleted and imported again, and the optimiser files the new content under the
\* hash of the old one.
EveryKeyTellsContent ==
  \A h \in Hashes : farm[h] # None => data[farm[h]] \in {h, "empty"}

\* That is the only way to a wrong entry.
KeysTellContent == ~crossed => EveryKeyTellsContent

Calm == ~removed /\ spoils = 0

\* Deduplication converges: what went through an optimiser shares its inode with
\* the farm, as long as nothing is collected.
SettledIsShared ==
  Calm => \A n \in settled : node[n] = farm[Want[n]]

-----------------------------------------------------------------------------
(* The inductive invariant behind KeysTellContent and RelinkKeepsContent *)

\* What a process works on.
JobInv(p) ==
  /\ pc[p] \in ImportPCs \cup OptimisePCs => job[p] \in Nodes
  /\ pc[p] = "unlink" => job[p] \in Hashes
  /\ pc[p] \in OptimisePCs \ {"stat"} => st[p] \in Inodes /\ size[p] > 0
  /\ Keyed(p) => key[p] \in Hashes

\* Only a file that shows its change has a content nobody asked for.
MetaInv == \A i \in Inodes : data[i] \in Foreign => meta[i] # "canonical"

\* A node has its content, unless the file was changed or lost its data.
NodeInv ==
  \A n \in Nodes : node[n] # None => data[node[n]] \in Foreign \cup {Want[n], "empty"}

\* The file under an optimiser, if it is still there, has the hash it was given.
KeyInv(p) ==
  /\ pc[p] = "hash" /\ node[job[p]] # None =>
       data[node[job[p]]] \in Foreign \cup {Want[job[p]]}
  /\ Keyed(p) => /\ key[p] \in Foreign \cup {Want[job[p]]}
                 /\ node[job[p]] # None => data[node[job[p]]] = key[p]

\* Optimisers and importers of one file agree on its hash, also while it is gone.
AgreeInv ==
  \A p, q \in Procs :
    Keyed(p) /\ job[q] = job[p] =>
      /\ Keyed(q) => key[q] = key[p]
      /\ pc[q] \in ImportPCs => key[p] = Want[job[p]]

\* There is an entry for h that has the content h.
Intact(h) == farm[h] # None /\ data[farm[h]] = h

\* Nobody makes a bad entry of one that was looked at.
LookedInv(p) ==
  /\ pc[p] \in {"create", "relook", "compare", "tempLink"} =>
       farm[key[p]] = None \/ Intact(key[p])
  /\ pc[p] = "swapLink" => farm[Want[job[p]]] = None \/ Intact(Want[job[p]])

\* The temporary link has the content of the node it will replace.
TempInv(p) ==
  /\ pc[p] = "rename" => temp[p] # None /\ data[temp[p]] = key[p]
  /\ pc[p] = "swapRename" => temp[p] # None /\ data[temp[p]] = Want[job[p]]

\* A restored file is not changed before its import is through with it.
ImportInv(p) ==
  pc[p] \in ImportPCs /\ node[job[p]] # None => data[node[job[p]]] = Want[job[p]]

Sound ==
  /\ MetaInv /\ NodeInv /\ EveryKeyTellsContent /\ AgreeInv
  /\ \A p \in Procs : KeyInv(p) /\ LookedInv(p) /\ TempInv(p) /\ ImportInv(p)

IInv == TypeOK /\ (\A p \in Procs : JobInv(p)) /\ (~crossed => Sound)

-----------------------------------------------------------------------------
(* ... and the one behind SettledIsShared: as long as nothing is collected *)
(* and nothing changed from outside, *)

\* every name has its content, an optimiser knows only inodes of the farm ...
CalmFiles ==
  /\ \A n \in Nodes : node[n] # None => data[node[n]] = Want[n]
  /\ \A h \in Hashes : farm[h] # None => data[farm[h]] = h
  /\ \A p \in Procs : \A i \in known[p] : \E h \in Hashes : farm[h] = i

\* ... the entry a process has looked at is still there, and the file it works
\* on is the one it has looked at, or has become that entry meanwhile.
CalmProcess(p) ==
  /\ pc[p] \in OptimisePCs => node[job[p]] # None
  /\ pc[p] \in OptimisePCs \ {"stat"} => node[job[p]] \in {st[p], farm[Want[job[p]]]}
  /\ pc[p] \in {"compare", "tempLink"} => link[p] # None /\ link[p] = farm[key[p]]
  /\ pc[p] \in {"rename", "swapRename"} => temp[p] = farm[Want[job[p]]]

SettledInv == \A n \in settled : node[n] # None /\ node[n] = farm[Want[n]]

SharedInv ==
  Calm => ~crossed /\ CalmFiles /\ SettledInv /\ \A p \in Procs : CalmProcess(p)
=============================================================================
