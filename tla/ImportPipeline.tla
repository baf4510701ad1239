--------------------------- MODULE ImportPipeline ---------------------------
(***************************************************************************)
(* The threads of one import-dir and the bounded queues between them:      *)
(*                                                                         *)
(*   dumper -ring-> restorer -nar-> narHasher                              *)
(*                  restorer -events-> fileHasher -jobs-> swappers         *)
(*                                                                         *)
(* The ring is SourceToSink (serialise.cc), nar belongs to AsyncHashSink,  *)
(* events to AsyncFileHasher and jobs to DedupSwapPool (local-store.cc).   *)
(* All wake the other side only at the edges: a push that leaves few       *)
(* elements, a pop off a full queue.  A critical section is one step, and  *)
(* a notification after the unlock is a step of its own.                   *)
(*                                                                         *)
(* The dump is a sequence of files, each of which is one chunk of the ring *)
(* and of nar, and two events: what is queued while the file is written    *)
(* (Begin, Exec, Size, Data), and End.                                     *)
(***************************************************************************)
EXTENDS Naturals, Sequences, FiniteSets

CONSTANTS
  Swappers,   \* threads of the DedupSwapPool
  NumFiles,   \* files of the tree, in the order of the dump
  Dups,       \* files whose content the link farm has
  Capacity    \* Capacity[k]: maxQueued of the queue, sourceToSinkQueued

ASSUME SwappersAssumption ==
  /\ IsFiniteSet(Swappers) /\ Swappers # {}
  /\ Swappers \cap {"dumper", "restorer", "narHasher", "fileHasher"} = {}
ASSUME DupsAssumption == Dups \subseteq 1 .. NumFiles

Files == 1 .. NumFiles
Threads == Swappers \cup {"dumper", "restorer", "narHasher", "fileHasher"}
Queues == {"ring", "nar", "events", "jobs"}

ASSUME SizesAssumption == NumFiles \in Nat \ {0} /\ Capacity \in [Queues -> Nat \ {0}]

VARIABLES
  queue,     \* queue[k]
  closed,    \* closed[k]: no more will be pushed
  quit,      \* the restorer reads no more
  asleep,    \* asleep[t]: the condition variable t waits on
  wake,      \* wake[t]: the condition variable t is about to notify
  pc,
  item,      \* item[t]: what t took off its queue
  failed,    \* threads that have thrown
  sent,      \* chunks the dumper has pushed
  disk,      \* disk[f]: the restored file
  digest,    \* chunks the NAR hasher has digested
  hashed,    \* ImportFileHashes::files
  stamped    \* directories have their final mtime

sync == <<asleep, wake>>
work == <<failed, sent, disk, digest, hashed, stamped>>
vars == <<queue, closed, quit, sync, pc, item, work>>

\* The condition variables of a queue: there is data, there is room.
Data(k) == <<k, "data">>
Room(k) == <<k, "room">>
Nothing == <<"no", "cv">>
CVs == {Data(k) : k \in Queues} \cup {Room(k) : k \in Queues}

\* What a queue holds: the chunk of a file, its two events, the job to swap it.
Item(tag, f) == <<tag, f>>
FileOf(x) == x[2]
Items == {Item(tag, f) : tag \in {"chunk", "data", "end", "job"}, f \in Files}
NoItem == Item("none", 0)

PCs == {"dump", "join", "returned", "threw",
        "pull", "tee", "begin", "write", "end", "closeEvents", "joinHasher",
        "joinSwappers", "stamp", "closeNar", "joinNar", "take", "work", "post", "ended"}

TypeOK ==
  /\ queue \in [Queues -> Seq(Items)]
  /\ closed \in [Queues -> BOOLEAN]
  /\ quit \in BOOLEAN
  /\ asleep \in [Threads -> CVs \cup {Nothing}]
  /\ wake \in [Threads -> CVs \cup {Nothing}]
  /\ pc \in [Threads -> PCs]
  /\ item \in [Threads -> Items \cup {NoItem}]
  /\ failed \in SUBSET Threads
  /\ sent \in 0 .. NumFiles
  /\ disk \in [Files -> {"absent", "open", "finished", "linked"}]
  /\ digest \in Seq(Files)
  /\ hashed \in SUBSET Files
  /\ stamped \in BOOLEAN

Init ==
  /\ queue = [k \in Queues |-> <<>>]
  /\ closed = [k \in Queues |-> FALSE]
  /\ quit = FALSE
  /\ asleep = [t \in Threads |-> Nothing]
  /\ wake = [t \in Threads |-> Nothing]
  /\ pc = [t \in Threads |->
             CASE t = "dumper" -> "dump" [] t = "restorer" -> "pull" [] OTHER -> "take"]
  /\ item = [t \in Threads |-> NoItem]
  /\ failed = {}
  /\ sent = 0
  /\ disk = [f \in Files |-> "absent"]
  /\ digest = <<>>
  /\ hashed = {}
  /\ stamped = FALSE

-----------------------------------------------------------------------------
(* Queues *)

\* t is at `at', awake, and owes no notification.
At(t, at) == pc[t] = at /\ asleep[t] = Nothing /\ wake[t] = Nothing

Goto(t, to) == pc' = [pc EXCEPT ![t] = to]

\* A push wakes consumers as long as it leaves no more elements than there are
\* consumers.
WakesConsumers(k, n) == n <= IF k = "jobs" THEN Cardinality(Swappers) ELSE 1

\* Mutant: the pop that empties the queue wakes the producer.
WakesWhenEmpty(k, n) == n = 0

\* A pop wakes the producer if the queue was full.
WakesProducer(k, n) == n = Capacity[k] - 1

\* push(): wait for room, append, unlock, notify.
Put(t, k, x, to) ==
  \/ /\ Len(queue[k]) < Capacity[k]
     /\ queue' = [queue EXCEPT ![k] = Append(@, x)]
     /\ wake' = [wake EXCEPT ![t] = IF WakesConsumers(k, Len(queue[k]) + 1) THEN Data(k)
                                                                           ELSE Nothing]
     /\ Goto(t, to)
     /\ UNCHANGED asleep
  \/ /\ Len(queue[k]) = Capacity[k]
     /\ asleep' = [asleep EXCEPT ![t] = Room(k)]
     /\ UNCHANGED <<queue, wake, pc>>

\* Mutant: closed means the end, whatever is queued.
GetUntilClosed(t, k, to) ==
  \/ /\ queue[k] # <<>> /\ ~closed[k]
     /\ item' = [item EXCEPT ![t] = Head(queue[k])]
     /\ queue' = [queue EXCEPT ![k] = Tail(@)]
     /\ wake' = [wake EXCEPT ![t] = IF WakesProducer(k, Len(queue[k]) - 1) THEN Room(k)
                                                                       ELSE Nothing]
     /\ Goto(t, to)
     /\ UNCHANGED asleep
  \/ /\ closed[k]
     /\ Goto(t, "ended")
     /\ UNCHANGED <<queue, item, sync>>
  \/ /\ queue[k] = <<>> /\ ~closed[k]
     /\ asleep' = [asleep EXCEPT ![t] = Data(k)]
     /\ UNCHANGED <<queue, item, wake, pc>>

\* The loop of a worker: wait, pop, unlock, notify; or end, when nothing is left
\* of a closed queue.
Get(t, k, to) ==
  \/ /\ queue[k] # <<>>
     /\ item' = [item EXCEPT ![t] = Head(queue[k])]
     /\ queue' = [queue EXCEPT ![k] = Tail(@)]
     /\ wake' = [wake EXCEPT ![t] = IF WakesProducer(k, Len(queue[k]) - 1) THEN Room(k)
                                                                       ELSE Nothing]
     /\ Goto(t, to)
     /\ UNCHANGED asleep
  \/ /\ queue[k] = <<>> /\ closed[k]
     /\ Goto(t, "ended")
     /\ UNCHANGED <<queue, item, sync>>
  \/ /\ queue[k] = <<>> /\ ~closed[k]
     /\ asleep' = [asleep EXCEPT ![t] = Data(k)]
     /\ UNCHANGED <<queue, item, wake, pc>>

\* The end of the loop's body: what was taken is gone.
Again(t) ==
  /\ item' = [item EXCEPT ![t] = NoItem]
  /\ Goto(t, "take")

\* close(): set the flag under the lock, notify; the join is a step of its own.
Close(t, k, to) ==
  /\ closed' = [closed EXCEPT ![k] = TRUE]
  /\ wake' = [wake EXCEPT ![t] = Data(k)]
  /\ Goto(t, to)
  /\ UNCHANGED <<queue, quit, asleep, item>>

\* Those who wait on cv go on and look at their condition again.
Woken(cv) == [u \in Threads |-> IF asleep[u] = cv THEN Nothing ELSE asleep[u]]

Notify(t) ==
  /\ wake[t] # Nothing
  /\ asleep' = Woken(wake[t])
  /\ wake' = [wake EXCEPT ![t] = Nothing]
  /\ UNCHANGED <<queue, closed, quit, pc, item, work>>

\* A condition variable may wake a thread for no reason.
WakeSpuriously(t) ==
  /\ asleep[t] # Nothing
  /\ asleep' = [asleep EXCEPT ![t] = Nothing]
  /\ UNCHANGED <<queue, closed, quit, wake, pc, item, work>>

\* A thread has left its function and all it owes is done.
Ended(t) == pc[t] = "ended" /\ wake[t] = Nothing

-----------------------------------------------------------------------------
(* The dumper: main() of import-dir, dumpPath into SourceToSink *)

\* writeUnbuffered
Dump ==
  /\ At("dumper", "dump") /\ ~quit /\ sent < NumFiles
  /\ Put("dumper", "ring", Item("chunk", sent + 1), "dump")
  /\ sent' = IF Len(queue["ring"]) < Capacity["ring"] THEN sent + 1 ELSE sent
  /\ UNCHANGED <<closed, quit, item, failed, disk, digest, hashed, stamped>>

\* stop(): from finish() when all is dumped, or from writeUnbuffered when the reader
\* is gone.
StopReader ==
  /\ At("dumper", "dump") /\ (quit \/ sent = NumFiles)
  /\ Close("dumper", "ring", "join")
  /\ UNCHANGED work

\* dumpPath throws; ~SourceToSink stops the reader.
DumpFails ==
  /\ At("dumper", "dump")
  /\ failed' = failed \cup {"dumper"}
  /\ Close("dumper", "ring", "join")
  /\ UNCHANGED <<sent, disk, digest, hashed, stamped>>

\* worker.join(), and the reader's exception is thrown again.
JoinRestorer ==
  /\ At("dumper", "join") /\ Ended("restorer")
  /\ Goto("dumper", IF failed \cap {"dumper", "restorer"} = {} THEN "returned" ELSE "threw")
  /\ UNCHANGED <<queue, closed, quit, sync, item, work>>

-----------------------------------------------------------------------------
(* The restorer: addToStoreFromDump on the thread of SourceToSink *)

\* pull(), which notifies under the lock; EndOfFile is an exception.
Pull ==
  /\ At("restorer", "pull")
  /\ \/ /\ queue["ring"] # <<>>
        /\ item' = [item EXCEPT !["restorer"] = Head(queue["ring"])]
        /\ queue' = [queue EXCEPT !["ring"] = Tail(@)]
        /\ asleep' = IF WakesProducer("ring", Len(queue["ring"]) - 1) THEN Woken(Room("ring"))
                                                              ELSE asleep
        /\ Goto("restorer", "tee")
        /\ UNCHANGED failed
     \/ /\ queue["ring"] = <<>> /\ closed["ring"]
        /\ failed' = failed \cup {"restorer"}
        /\ Goto("restorer", "closeEvents")
        /\ UNCHANGED <<queue, item, asleep>>
     \/ /\ queue["ring"] = <<>> /\ ~closed["ring"]
        /\ asleep' = [asleep EXCEPT !["restorer"] = Data("ring")]
        /\ UNCHANGED <<queue, item, pc, failed>>
  /\ UNCHANGED <<closed, quit, wake, sent, disk, digest, hashed, stamped>>

\* TeeSource: what was read goes to the AsyncHashSink.
Tee ==
  /\ At("restorer", "tee")
  /\ Put("restorer", "nar", item["restorer"], "begin")
  /\ UNCHANGED <<closed, quit, item, work>>

\* createRegularFile opens the file; its events go ahead of its contents.
Begin ==
  /\ At("restorer", "begin")
  /\ Put("restorer", "events", Item("data", FileOf(item["restorer"])), "write")
  /\ disk' = [disk EXCEPT ![FileOf(item["restorer"])] = "open"]
  /\ UNCHANGED <<closed, quit, item, failed, sent, digest, hashed, stamped>>

\* The file is written, flushed and stamped, or the restore throws.
Write ==
  /\ At("restorer", "write")
  /\ \/ /\ disk' = [disk EXCEPT ![FileOf(item["restorer"])] = "finished"]
        /\ Goto("restorer", "end")
        /\ UNCHANGED failed
     \/ /\ failed' = failed \cup {"restorer"}
        /\ Goto("restorer", "closeEvents")
        /\ UNCHANGED disk
  /\ UNCHANGED <<queue, closed, quit, sync, item, sent, digest, hashed, stamped>>

\* fileEnd, after createRegularFile has returned
End ==
  /\ At("restorer", "end")
  /\ Put("restorer", "events", Item("end", FileOf(item["restorer"])),
         IF FileOf(item["restorer"]) = NumFiles THEN "closeEvents" ELSE "pull")
  /\ UNCHANGED <<closed, quit, item, work>>

\* AsyncFileHasher::close, from finish() or from the destructor: the hasher first,
\* as it is the one that posts jobs ...
CloseEvents ==
  /\ At("restorer", "closeEvents")
  /\ Close("restorer", "events", "joinHasher")
  /\ UNCHANGED work

\* ... and DedupSwapPool::finish second.
CloseJobs ==
  /\ At("restorer", "joinHasher") /\ Ended("fileHasher")
  /\ Close("restorer", "jobs", "joinSwappers")
  /\ UNCHANGED work

\* Mutant: the directories are stamped while swaps may be under way.
JoinNoSwapper ==
  /\ At("restorer", "joinSwappers")
  /\ \/ /\ failed \cap {"restorer", "fileHasher"} = {}
        /\ Goto("restorer", "stamp")
        /\ UNCHANGED failed
     \/ /\ failed \cap {"restorer", "fileHasher"} # {}
        /\ failed' = failed \cup {"restorer"}
        /\ Goto("restorer", "closeNar")
  /\ UNCHANGED <<queue, closed, quit, sync, item, sent, disk, digest, hashed, stamped>>

\* The joins of DedupSwapPool::finish; then finish() throws what the hasher threw.
JoinSwappers ==
  /\ At("restorer", "joinSwappers") /\ \A s \in Swappers : Ended(s)
  /\ \/ /\ failed \cap {"restorer", "fileHasher"} = {}
        /\ Goto("restorer", "stamp")
        /\ UNCHANGED failed
     \/ /\ failed \cap {"restorer", "fileHasher"} # {}
        /\ failed' = failed \cup {"restorer"}
        /\ Goto("restorer", "closeNar")
  /\ UNCHANGED <<queue, closed, quit, sync, item, sent, disk, digest, hashed, stamped>>

\* The deferred mode and mtime of the directories
Stamp ==
  /\ At("restorer", "stamp")
  /\ stamped' = TRUE
  /\ Goto("restorer", "closeNar")
  /\ UNCHANGED <<queue, closed, quit, sync, item, failed, sent, disk, digest, hashed>>

\* hashSink->finish(), or ~AsyncHashSink
CloseNar ==
  /\ At("restorer", "closeNar")
  /\ Close("restorer", "nar", "joinNar")
  /\ UNCHANGED work

\* The hasher has ended, and what it threw is thrown again.  Whatever happened, the
\* dumper must not wait for a ring nobody drains.
Quit ==
  /\ At("restorer", "joinNar") /\ Ended("narHasher")
  /\ quit' = TRUE
  /\ failed' = IF "narHasher" \in failed THEN failed \cup {"restorer"} ELSE failed
  /\ wake' = [wake EXCEPT !["restorer"] = Room("ring")]
  /\ Goto("restorer", "ended")
  /\ UNCHANGED <<queue, closed, asleep, item, sent, disk, digest, hashed, stamped>>

-----------------------------------------------------------------------------
(* The NAR hasher: the thread of AsyncHashSink *)

\* A chunk is taken and digested; after an exception the queue is only drained.
\* Nobody reads the digest before the join.
Digest ==
  /\ At("narHasher", "take")
  /\ Get("narHasher", "nar", "take")
  /\ \/ /\ queue["nar"] # <<>> /\ "narHasher" \notin failed
        /\ digest' = Append(digest, FileOf(Head(queue["nar"])))
        /\ UNCHANGED failed
     \/ /\ queue["nar"] # <<>>
        /\ failed' = failed \cup {"narHasher"}
        /\ UNCHANGED digest
     \/ /\ queue["nar"] = <<>>
        /\ UNCHANGED <<digest, failed>>
  /\ UNCHANGED <<closed, quit, sent, disk, hashed, stamped>>

-----------------------------------------------------------------------------
(* The file hasher: the thread of AsyncFileHasher *)

TakeEvent ==
  /\ At("fileHasher", "take")
  /\ Get("fileHasher", "events", "work")
  /\ UNCHANGED <<closed, quit, work>>

\* Mutant: an exception ends the thread.
HashFailsAndEnds ==
  /\ At("fileHasher", "work")
  /\ failed' = failed \cup {"fileHasher"}
  /\ Goto("fileHasher", "ended")
  /\ UNCHANGED <<queue, closed, quit, sync, item, sent, disk, digest, hashed, stamped>>

\* An exception is kept for finish(); after it the queue is only drained.
HashFails ==
  /\ At("fileHasher", "work")
  /\ failed' = failed \cup {"fileHasher"}
  /\ Again("fileHasher")
  /\ UNCHANGED <<queue, closed, quit, sync, sent, disk, digest, hashed, stamped>>

\* begin, exec, setSize, data
HashData ==
  /\ At("fileHasher", "work") /\ "fileHasher" \notin failed
  /\ item["fileHasher"][1] = "data"
  /\ Again("fileHasher")
  /\ UNCHANGED <<queue, closed, quit, sync, work>>

Record == hashed' = hashed \cup {FileOf(item["fileHasher"])}

\* end: the file's hash is known; a file the farm has is posted for a swap first.
HashEnd ==
  /\ At("fileHasher", "work") /\ "fileHasher" \notin failed
  /\ item["fileHasher"][1] = "end"
  /\ \/ /\ FileOf(item["fileHasher"]) \in Dups
        /\ Goto("fileHasher", "post")
        /\ UNCHANGED <<item, hashed>>
     \/ /\ FileOf(item["fileHasher"]) \notin Dups
        /\ Again("fileHasher")
        /\ Record
  /\ UNCHANGED <<queue, closed, quit, sync, failed, sent, disk, digest, stamped>>

\* DedupSwapPool::post; once it has returned, out.files.insert_or_assign
Post ==
  /\ At("fileHasher", "post")
  /\ Put("fileHasher", "jobs", Item("job", FileOf(item["fileHasher"])), "take")
  /\ \/ /\ pc'["fileHasher"] = "take"
        /\ Record
        /\ item' = [item EXCEPT !["fileHasher"] = NoItem]
     \/ /\ pc'["fileHasher"] = "post"
        /\ UNCHANGED <<item, hashed>>
  /\ UNCHANGED <<closed, quit, failed, sent, disk, digest, stamped>>

-----------------------------------------------------------------------------
(* The swappers: the threads of DedupSwapPool *)

TakeJob(s) ==
  /\ At(s, "take")
  /\ Get(s, "jobs", "work")
  /\ UNCHANGED <<closed, quit, work>>

\* swapForFarmLink: rename over the file, or leave it.
Swap(s) ==
  /\ At(s, "work")
  /\ \/ disk' = [disk EXCEPT ![FileOf(item[s])] = "linked"]
     \/ UNCHANGED disk
  /\ Again(s)
  /\ UNCHANGED <<queue, closed, quit, sync, failed, sent, digest, hashed, stamped>>

-----------------------------------------------------------------------------

Dumper == Dump \/ StopReader \/ JoinRestorer

Restorer ==
  \/ Pull \/ Tee \/ Begin \/ Write \/ End \/ CloseEvents \/ CloseJobs
  \/ JoinSwappers \/ Stamp \/ CloseNar \/ Quit

FileHasher == TakeEvent \/ HashFails \/ HashData \/ HashEnd \/ Post

Swapper(s) == TakeJob(s) \/ Swap(s)

Next ==
  \/ Dumper \/ DumpFails \/ Restorer \/ Digest \/ FileHasher
  \/ \E s \in Swappers : Swapper(s)
  \/ \E t \in Threads : Notify(t) \/ WakeSpuriously(t)

Spec == Init /\ [][Next]_vars

\* Every thread that can go on does, and gives the notification it owes; nobody
\* owes an exception of the dumper or a spurious wakeup.
Fairness ==
  /\ WF_vars(Dumper \/ Notify("dumper"))
  /\ WF_vars(Restorer \/ Notify("restorer"))
  /\ WF_vars(Digest \/ Notify("narHasher"))
  /\ WF_vars(FileHasher \/ Notify("fileHasher"))
  /\ \A s \in Swappers : WF_vars(Swapper(s) \/ Notify(s))

FairSpec == Spec /\ Fairness

-----------------------------------------------------------------------------
(* Properties *)

Owed(cv) == \E u \in Threads : wake[u] = cv

\* Waking only at the edges loses no wakeup: who sleeps has nothing to do, or is
\* about to be woken.
NobodySleepsBesideWork ==
  \A t \in Threads : \A k \in Queues :
    /\ asleep[t] = Data(k) => (queue[k] = <<>> /\ ~closed[k]) \/ Owed(Data(k))
    /\ asleep[t] = Room(k) =>
         (Len(queue[k]) = Capacity[k] /\ ~(k = "ring" /\ quit)) \/ Owed(Room(k))

\* A thread between its take and the next one has something in its hands.
HoldsItem ==
  \A t \in Threads :
    pc[t] \in {"tee", "begin", "write", "end", "work", "post"} => item[t] \in Items

\* The inductive invariant: a sleeper's condition is false, or a wakeup is owed, in
\* states of the right type.
WakeupInv == TypeOK /\ HoldsItem /\ NobodySleepsBesideWork

\* An import that returns has digested every chunk in order, hashed and finished
\* every file, and stamped the directories: no failure of a thread gets lost.
ReturnMeansImported ==
  pc["dumper"] = "returned" =>
    /\ digest = [i \in Files |-> i]
    /\ hashed = Files
    /\ \A f \in Files : disk[f] \in {"finished", "linked"}
    /\ stamped

\* A file is swapped for its farm entry after the restore is through with it, and
\* before the directories get their final mtime.
SwapsInTime ==
  [][\A f \in Files : disk'[f] = "linked" /\ disk[f] # "linked" =>
       disk[f] = "finished" /\ ~stamped]_vars

\* The import ends, whoever throws: no cycle of threads that wait for room, for
\* data or for each other's end.
ImportEnds == <>(pc["dumper"] \in {"returned", "threw"})

-----------------------------------------------------------------------------
(* The inductive invariant behind ReturnMeansImported and SwapsInTime: where the   *)
(* files are                                                                       *)

\* Chunks the restorer has pulled; files whose `end' it has queued, if it has not
\* thrown.
Pulled == sent - Len(queue["ring"])
Restoring == pc["restorer"] \in {"tee", "begin", "write", "end"}
Past == IF Restoring THEN Pulled - 1 ELSE Pulled
Teed == IF pc["restorer"] = "tee" THEN Pulled - 1 ELSE Pulled

\* The chunks come in the order of the dump ...
RingInv ==
  /\ Len(queue["ring"]) <= sent
  /\ \A i \in 1 .. Len(queue["ring"]) : queue["ring"][i] = Item("chunk", Pulled + i)
  /\ Restoring => item["restorer"] = Item("chunk", Pulled)

\* ... and are digested in this order.
DigestInv ==
  "narHasher" \notin failed =>
    /\ Len(digest) + Len(queue["nar"]) = Teed
    /\ \A i \in 1 .. Len(digest) : digest[i] = i
    /\ \A i \in 1 .. Len(queue["nar"]) : queue["nar"][i] = Item("chunk", Len(digest) + i)

\* Only a finished file gets to the file hasher's end or to a swapper.
Ready(f) == f \in 1 .. Past /\ disk[f] \in {"finished", "linked"}

ReadyInv ==
  /\ \A i \in 1 .. Len(queue["events"]) :
       queue["events"][i][1] = "end" => Ready(FileOf(queue["events"][i]))
  /\ pc["fileHasher"] = "post" => item["fileHasher"][1] = "end"
  /\ pc["fileHasher"] \in {"work", "post"} /\ item["fileHasher"][1] = "end" =>
       Ready(FileOf(item["fileHasher"]))
  /\ \A i \in 1 .. Len(queue["jobs"]) : Ready(FileOf(queue["jobs"][i]))
  /\ \A s \in Swappers : pc[s] = "work" => Ready(FileOf(item[s]))

\* A file the restorer is through with is finished, and hashed unless its end is on
\* the way.
EndUnderWay(f) ==
  \/ \E i \in 1 .. Len(queue["events"]) : queue["events"][i] = Item("end", f)
  \/ pc["fileHasher"] \in {"work", "post"} /\ item["fileHasher"] = Item("end", f)

FilesInv ==
  /\ pc["restorer"] = "end" => disk[Pulled] \in {"finished", "linked"}
  /\ "restorer" \notin failed =>
       \A f \in 1 .. Past : /\ disk[f] \in {"finished", "linked"}
                            /\ "fileHasher" \in failed \/ f \in hashed \/ EndUnderWay(f)

\* What has ended when the restorer gets on: AfterX is past the step X.
AfterStamp == pc["restorer"] \in {"closeNar", "joinNar", "ended"}
AfterJoins == AfterStamp \/ pc["restorer"] = "stamp"
AfterHasher == AfterJoins \/ pc["restorer"] = "joinSwappers"
AfterEvents == AfterHasher \/ pc["restorer"] = "joinHasher"

EndedInv ==
  /\ closed["events"] => AfterEvents
  /\ closed["nar"] => pc["restorer"] \in {"joinNar", "ended"}
  /\ pc["fileHasher"] = "ended" => closed["events"] /\ queue["events"] = <<>>
  /\ pc["narHasher"] = "ended" => closed["nar"] /\ queue["nar"] = <<>>
  /\ AfterHasher => pc["fileHasher"] = "ended"
  /\ AfterJoins => \A s \in Swappers : pc[s] = "ended"
  /\ pc["restorer"] = "ended" => pc["narHasher"] = "ended"
  /\ stamped => AfterStamp

OutcomeInv ==
  /\ "restorer" \notin failed =>
       /\ AfterEvents \/ pc["restorer"] = "closeEvents" => Pulled = NumFiles
       /\ AfterJoins => "fileHasher" \notin failed
       /\ AfterStamp => stamped
       /\ pc["restorer"] = "ended" => "narHasher" \notin failed
  /\ pc["dumper"] = "returned" => pc["restorer"] = "ended" /\ "restorer" \notin failed

FlowInv == RingInv /\ DigestInv /\ ReadyInv /\ FilesInv /\ EndedInv /\ OutcomeInv
=============================================================================
