------------------------ MODULE ImportPipelineProofs ------------------------
(* For every capacity of the queues and every number of swappers and files: no *)
(* queue of the import loses a wakeup (WakeupInv), an import that returns has  *)
(* done all of its work, and swaps come in time (FlowInv).                     *)
EXTENDS ImportPipeline, FiniteSetTheorems, TLAPS

\* The push that ends emptiness wakes the consumers.
LEMMA FirstPushWakes == \A k : WakesConsumers(k, 1)
<1>1. Cardinality(Swappers) \in Nat /\ Cardinality(Swappers) # 0
  BY SwappersAssumption, FS_EmptySet, FS_CardinalityType
<1> QED BY <1>1 DEF WakesConsumers

\* The condition variables have names of their own.
LEMMA Names ==
  /\ \A k, j : Data(k) # Room(j) /\ Data(k) # Nothing /\ Room(k) # Nothing
  /\ \A k, j : (Data(k) = Data(j) => k = j) /\ (Room(k) = Room(j) => k = j)
  /\ \A k \in Queues : Data(k) \in CVs /\ Room(k) \in CVs
  BY DEF Data, Room, Nothing, CVs

\* A thread that owes nothing may come to owe a notification: no debt gets lost.
LEMMA DebtsStay ==
  ASSUME WakeupInv, NEW t \in Threads, wake[t] = Nothing,
         NEW d \in CVs \cup {Nothing}, wake' = [wake EXCEPT ![t] = d]
  PROVE  /\ wake' \in [Threads -> CVs \cup {Nothing}]
         /\ \A cv \in CVs : Owed(cv) => Owed(cv)'
         /\ Owed(d)'
<1>1. Nothing \notin CVs BY Names DEF CVs
<1> QED BY <1>1 DEF WakeupInv, TypeOK, Owed

\* Putting into a queue, or going to sleep because it is full.
LEMMA PutKeeps ==
  ASSUME WakeupInv,
         NEW t \in Threads, NEW k \in Queues, NEW x \in Items, NEW to \in PCs,
         asleep[t] = Nothing, wake[t] = Nothing, ~(k = "ring" /\ quit),
         Put(t, k, x, to), UNCHANGED <<closed, quit>>
  PROVE  /\ queue' \in [Queues -> Seq(Items)]
         /\ asleep' \in [Threads -> CVs \cup {Nothing}]
         /\ wake' \in [Threads -> CVs \cup {Nothing}]
         /\ pc' \in [Threads -> PCs]
         /\ NobodySleepsBesideWork'
<1>0. /\ queue \in [Queues -> Seq(Items)] /\ pc \in [Threads -> PCs]
      /\ asleep \in [Threads -> CVs \cup {Nothing}]
      /\ wake \in [Threads -> CVs \cup {Nothing}]
      /\ NobodySleepsBesideWork
  BY DEF WakeupInv, TypeOK
<1>1. CASE Len(queue[k]) < Capacity[k] /\ queue' = [queue EXCEPT ![k] = Append(@, x)]
  <2>2. PICK d \in CVs \cup {Nothing} :
          d = IF WakesConsumers(k, Len(queue[k]) + 1) THEN Data(k) ELSE Nothing
    BY Names
  <2>1. wake' = [wake EXCEPT ![t] = d] /\ Goto(t, to) /\ asleep' = asleep
    <3>1. Len(queue[k]) # Capacity[k] BY <1>0, <1>1, SizesAssumption
    <3> QED BY <1>1, <2>2, <3>1 DEF Put
  <2>3. /\ wake' \in [Threads -> CVs \cup {Nothing}]
        /\ \A cv \in CVs : Owed(cv) => Owed(cv)'
        /\ Owed(d)'
    BY <2>1, DebtsStay
  <2>4. queue[k] \in Seq(Items) BY <1>0
  <2>5. /\ queue' \in [Queues -> Seq(Items)] /\ Len(queue'[k]) = Len(queue[k]) + 1
        /\ \A j \in Queues \ {k} : queue'[j] = queue[j]
    <3>1. Append(queue[k], x) \in Seq(Items) BY <2>4
    <3>2. Len(Append(queue[k], x)) = Len(queue[k]) + 1 BY <2>4
    <3> QED BY <1>0, <1>1, <3>1, <3>2
  <2>6. queue[k] = <<>> => Owed(Data(k))'
    BY <2>2, <2>3, FirstPushWakes
  <2>7. NobodySleepsBesideWork'
    <3>1. SUFFICES ASSUME NEW u \in Threads, NEW j \in Queues
                   PROVE  /\ asleep[u] = Data(j) =>
                               (queue'[j] = <<>> /\ ~closed[j]) \/ Owed(Data(j))'
                          /\ asleep[u] = Room(j) =>
                               (Len(queue'[j]) = Capacity[j] /\ ~(j = "ring" /\ quit))
                                 \/ Owed(Room(j))'
      BY <2>1 DEF NobodySleepsBesideWork, Data, Room
    <3>2. /\ asleep[u] = Data(j) => (queue[j] = <<>> /\ ~closed[j]) \/ Owed(Data(j))
          /\ asleep[u] = Room(j) =>
               (Len(queue[j]) = Capacity[j] /\ ~(j = "ring" /\ quit)) \/ Owed(Room(j))
      BY <1>0 DEF NobodySleepsBesideWork
    <3>3. CASE j = k
      BY <1>1, <2>3, <2>4, <2>6, <3>2, <3>3, Names, SizesAssumption
    <3>4. CASE j # k
      BY <2>3, <2>5, <3>2, <3>4, Names
    <3> QED BY <3>3, <3>4
  <2> QED BY <1>0, <2>1, <2>3, <2>5, <2>7 DEF Goto
<1>2. CASE /\ Len(queue[k]) = Capacity[k] /\ asleep' = [asleep EXCEPT ![t] = Room(k)]
           /\ UNCHANGED <<queue, wake, pc>>
  <2>1. asleep' \in [Threads -> CVs \cup {Nothing}] BY <1>0, <1>2, Names
  <2>2. NobodySleepsBesideWork'
    BY <1>0, <1>2, Names DEF NobodySleepsBesideWork, Owed, Data, Room
  <2> QED BY <1>0, <1>2, <2>1, <2>2
<1> QED BY <1>1, <1>2 DEF Put

\* Taking from a queue, going to sleep because it is empty, or leaving.
LEMMA GetKeeps ==
  ASSUME WakeupInv,
         NEW t \in Threads, NEW k \in Queues, NEW to \in PCs,
         asleep[t] = Nothing, wake[t] = Nothing,
         Get(t, k, to), UNCHANGED <<closed, quit>>
  PROVE  /\ queue' \in [Queues -> Seq(Items)]
         /\ asleep' \in [Threads -> CVs \cup {Nothing}]
         /\ wake' \in [Threads -> CVs \cup {Nothing}]
         /\ pc' \in [Threads -> PCs]
         /\ item' \in [Threads -> Items \cup {NoItem}]
         /\ HoldsItem'
         /\ NobodySleepsBesideWork'
<1>0. /\ queue \in [Queues -> Seq(Items)] /\ pc \in [Threads -> PCs]
      /\ asleep \in [Threads -> CVs \cup {Nothing}]
      /\ wake \in [Threads -> CVs \cup {Nothing}]
      /\ item \in [Threads -> Items \cup {NoItem}]
      /\ HoldsItem /\ NobodySleepsBesideWork
  BY DEF WakeupInv, TypeOK
<1>1. CASE queue[k] # <<>>
  <2>1. PICK d \in CVs \cup {Nothing} :
          d = IF WakesProducer(k, Len(queue[k]) - 1) THEN Room(k) ELSE Nothing
    BY Names
  <2>2. /\ item' = [item EXCEPT ![t] = Head(queue[k])]
        /\ queue' = [queue EXCEPT ![k] = Tail(@)]
        /\ wake' = [wake EXCEPT ![t] = d]
        /\ Goto(t, to) /\ asleep' = asleep
    BY <1>1, <2>1 DEF Get
  <2>3. /\ wake' \in [Threads -> CVs \cup {Nothing}]
        /\ \A cv \in CVs : Owed(cv) => Owed(cv)'
        /\ Owed(d)'
    BY <2>2, DebtsStay
  <2>4. queue[k] \in Seq(Items) BY <1>0
  <2>5. /\ Head(queue[k]) \in Items /\ Tail(queue[k]) \in Seq(Items)
        /\ Len(Tail(queue[k])) = Len(queue[k]) - 1
    BY <1>1, <2>4
  <2>6. /\ queue' \in [Queues -> Seq(Items)] /\ queue'[k] = Tail(queue[k])
        /\ \A j \in Queues \ {k} : queue'[j] = queue[j]
    BY <1>0, <2>2, <2>5
  <2>7. Len(queue[k]) = Capacity[k] => Owed(Room(k))'
    BY <2>1, <2>3 DEF WakesProducer
  <2>8. NobodySleepsBesideWork'
    <3>1. SUFFICES ASSUME NEW u \in Threads, NEW j \in Queues
                   PROVE  /\ asleep[u] = Data(j) =>
                               (queue'[j] = <<>> /\ ~closed[j]) \/ Owed(Data(j))'
                          /\ asleep[u] = Room(j) =>
                               (Len(queue'[j]) = Capacity[j] /\ ~(j = "ring" /\ quit))
                                 \/ Owed(Room(j))'
      BY <2>2 DEF NobodySleepsBesideWork, Data, Room
    <3>2. /\ asleep[u] = Data(j) => (queue[j] = <<>> /\ ~closed[j]) \/ Owed(Data(j))
          /\ asleep[u] = Room(j) =>
               (Len(queue[j]) = Capacity[j] /\ ~(j = "ring" /\ quit)) \/ Owed(Room(j))
      BY <1>0 DEF NobodySleepsBesideWork
    <3>3. CASE j = k
      BY <1>1, <2>3, <2>7, <3>2, <3>3, Names
    <3>4. CASE j # k
      BY <2>3, <2>6, <3>2, <3>4, Names
    <3> QED BY <3>3, <3>4
  <2>9. HoldsItem' BY <1>0, <2>2, <2>5 DEF HoldsItem, Goto
  <2> QED BY <1>0, <2>2, <2>3, <2>5, <2>6, <2>8, <2>9 DEF Goto
<1>2. CASE queue[k] = <<>> /\ closed[k]
  <2>1. pc' = [pc EXCEPT ![t] = "ended"] /\ UNCHANGED <<queue, item, asleep, wake>>
    BY <1>2 DEF Get, Goto, sync
  <2>2. HoldsItem' BY <1>0, <2>1 DEF HoldsItem
  <2>3. NobodySleepsBesideWork'
    BY <1>0, <2>1 DEF NobodySleepsBesideWork, Owed, Data, Room
  <2> QED BY <1>0, <2>1, <2>2, <2>3 DEF PCs
<1>3. CASE queue[k] = <<>> /\ ~closed[k]
  <2>1. asleep' = [asleep EXCEPT ![t] = Data(k)] /\ UNCHANGED <<queue, item, wake, pc>>
    BY <1>3 DEF Get
  <2>2. asleep' \in [Threads -> CVs \cup {Nothing}] BY <1>0, <2>1, Names
  <2>3. NobodySleepsBesideWork'
    BY <1>0, <1>3, <2>1, Names DEF NobodySleepsBesideWork, Owed, Data, Room
  <2> QED BY <1>0, <2>1, <2>2, <2>3 DEF HoldsItem
<1> QED BY <1>1, <1>2, <1>3

\* Closing a queue
LEMMA CloseKeeps ==
  ASSUME WakeupInv, NEW t \in Threads, NEW k \in Queues, NEW to \in PCs,
         to \notin {"tee", "begin", "write", "end", "work", "post"},
         wake[t] = Nothing, Close(t, k, to)
  PROVE  /\ closed' \in [Queues -> BOOLEAN]
         /\ wake' \in [Threads -> CVs \cup {Nothing}]
         /\ pc' \in [Threads -> PCs]
         /\ HoldsItem'
         /\ NobodySleepsBesideWork'
<1>0. /\ closed \in [Queues -> BOOLEAN] /\ pc \in [Threads -> PCs]
      /\ HoldsItem /\ NobodySleepsBesideWork
  BY DEF WakeupInv, TypeOK
<1>1. /\ wake' \in [Threads -> CVs \cup {Nothing}]
      /\ \A cv \in CVs : Owed(cv) => Owed(cv)'
      /\ Owed(Data(k))'
  <2>1. PICK d \in CVs : d = Data(k) BY Names
  <2>2. wake' = [wake EXCEPT ![t] = d] BY <2>1 DEF Close
  <2> QED BY <2>1, <2>2, DebtsStay DEF Data
<1>2. NobodySleepsBesideWork'
  <2>1. SUFFICES ASSUME NEW u \in Threads, NEW j \in Queues
                 PROVE  /\ asleep[u] = Data(j) =>
                             (queue[j] = <<>> /\ ~closed'[j]) \/ Owed(Data(j))'
                        /\ asleep[u] = Room(j) =>
                             (Len(queue[j]) = Capacity[j] /\ ~(j = "ring" /\ quit))
                               \/ Owed(Room(j))'
    BY DEF NobodySleepsBesideWork, Close, Data, Room
  <2>2. /\ asleep[u] = Data(j) => (queue[j] = <<>> /\ ~closed[j]) \/ Owed(Data(j))
        /\ asleep[u] = Room(j) =>
             (Len(queue[j]) = Capacity[j] /\ ~(j = "ring" /\ quit)) \/ Owed(Room(j))
    BY <1>0 DEF NobodySleepsBesideWork
  <2>3. j # k => closed'[j] = closed[j] BY <1>0 DEF Close
  <2> QED BY <1>1, <2>2, <2>3, Names
<1>3. HoldsItem' BY <1>0 DEF HoldsItem, Close, Goto
<1> QED BY <1>0, <1>1, <1>2, <1>3 DEF Close, Goto

\* A step that touches neither the queues nor who sleeps or owes
LEMMA QuietKeeps ==
  ASSUME WakeupInv, UNCHANGED <<queue, closed, quit, asleep, wake>>
  PROVE  NobodySleepsBesideWork'
  BY DEF WakeupInv, NobodySleepsBesideWork, Owed, Data, Room

\* What an item is made of
LEMMA ItemParts ==
  /\ \A x \in Items : FileOf(x) \in Files
  /\ \A f \in Files : /\ Item("chunk", f) \in Items /\ Item("data", f) \in Items
                      /\ Item("end", f) \in Items /\ Item("job", f) \in Items
  BY DEF Items, Item, FileOf

LEMMA NamedThreads ==
  /\ "dumper" \in Threads /\ "restorer" \in Threads
  /\ "narHasher" \in Threads /\ "fileHasher" \in Threads
  /\ Swappers \subseteq Threads
  /\ "ring" \in Queues /\ "nar" \in Queues /\ "events" \in Queues /\ "jobs" \in Queues
  BY DEF Threads, Queues

\* The dumper's steps
LEMMA DumperKeeps ==
  ASSUME WakeupInv, Dumper \/ DumpFails PROVE WakeupInv'
<1> USE NamedThreads
<1>1. ASSUME Dump PROVE WakeupInv'
  <2>1. Item("chunk", sent + 1) \in Items /\ sent + 1 \in 0 .. NumFiles
    BY <1>1, ItemParts, SizesAssumption DEF Dump, WakeupInv, TypeOK, Files
  <2>2. "dump" \in PCs BY DEF PCs
  <2>3. /\ queue' \in [Queues -> Seq(Items)]
        /\ asleep' \in [Threads -> CVs \cup {Nothing}]
        /\ wake' \in [Threads -> CVs \cup {Nothing}]
        /\ pc' \in [Threads -> PCs]
        /\ NobodySleepsBesideWork'
    BY <1>1, <2>1, <2>2, PutKeeps DEF Dump, At
  <2>4. HoldsItem' BY <1>1 DEF WakeupInv, TypeOK, HoldsItem, Dump, Put, Goto
  <2>5. TypeOK' BY <1>1, <2>1, <2>3 DEF WakeupInv, TypeOK, Dump
  <2> QED BY <2>3, <2>4, <2>5 DEF WakeupInv
<1>2. ASSUME StopReader PROVE WakeupInv'
  <2>1. /\ closed' \in [Queues -> BOOLEAN]
        /\ wake' \in [Threads -> CVs \cup {Nothing}]
        /\ pc' \in [Threads -> PCs] /\ HoldsItem' /\ NobodySleepsBesideWork'
    <3>1. "join" \in PCs BY DEF PCs
    <3> QED BY <1>2, <3>1, CloseKeeps DEF StopReader, At
  <2>2. TypeOK' BY <1>2, <2>1 DEF WakeupInv, TypeOK, StopReader, Close, work
  <2> QED BY <2>1, <2>2 DEF WakeupInv
<1>3. ASSUME DumpFails PROVE WakeupInv'
  <2>1. /\ closed' \in [Queues -> BOOLEAN]
        /\ wake' \in [Threads -> CVs \cup {Nothing}]
        /\ pc' \in [Threads -> PCs] /\ HoldsItem' /\ NobodySleepsBesideWork'
    <3>1. "join" \in PCs BY DEF PCs
    <3> QED BY <1>3, <3>1, CloseKeeps DEF DumpFails, At
  <2>2. TypeOK' BY <1>3, <2>1 DEF WakeupInv, TypeOK, DumpFails, Close
  <2> QED BY <2>1, <2>2 DEF WakeupInv
<1>4. ASSUME JoinRestorer PROVE WakeupInv'
  <2>1. NobodySleepsBesideWork' BY <1>4, QuietKeeps DEF JoinRestorer, sync
  <2>2. HoldsItem' BY <1>4 DEF WakeupInv, TypeOK, HoldsItem, JoinRestorer, Goto
  <2>3. TypeOK' BY <1>4 DEF WakeupInv, TypeOK, JoinRestorer, Goto, PCs, sync, work
  <2> QED BY <2>1, <2>2, <2>3 DEF WakeupInv
<1> QED BY <1>1, <1>2, <1>3, <1>4 DEF Dumper

\* The reader's pull, which notifies the dumper under the lock
LEMMA PullKeeps ==
  ASSUME WakeupInv, Pull PROVE WakeupInv'
<1> USE NamedThreads
<1>0. /\ queue \in [Queues -> Seq(Items)] /\ queue["ring"] \in Seq(Items)
      /\ asleep \in [Threads -> CVs \cup {Nothing}]
      /\ pc \in [Threads -> PCs] /\ item \in [Threads -> Items \cup {NoItem}]
      /\ HoldsItem /\ NobodySleepsBesideWork
      /\ UNCHANGED <<closed, quit, wake>>
  BY DEF WakeupInv, TypeOK, Pull
<1>1. CASE queue["ring"] # <<>>
  <2>1. /\ item' = [item EXCEPT !["restorer"] = Head(queue["ring"])]
        /\ queue' = [queue EXCEPT !["ring"] = Tail(@)]
        /\ asleep' = IF WakesProducer("ring", Len(queue["ring"]) - 1)
                     THEN Woken(Room("ring")) ELSE asleep
        /\ pc' = [pc EXCEPT !["restorer"] = "tee"] /\ failed' = failed
    BY <1>1 DEF Pull, Goto
  <2>2. /\ Head(queue["ring"]) \in Items /\ Tail(queue["ring"]) \in Seq(Items)
        /\ Len(Tail(queue["ring"])) = Len(queue["ring"]) - 1
    BY <1>0, <1>1
  <2>3. /\ queue' \in [Queues -> Seq(Items)]
        /\ \A j \in Queues \ {"ring"} : queue'[j] = queue[j]
    BY <1>0, <2>1, <2>2
  <2>4. /\ asleep' \in [Threads -> CVs \cup {Nothing}]
        /\ \A u \in Threads : asleep'[u] = asleep[u] \/ asleep'[u] = Nothing
        /\ Len(queue["ring"]) = Capacity["ring"] =>
             \A u \in Threads : asleep'[u] # Room("ring")
    BY <1>0, <2>1, Names DEF Woken, WakesProducer
  <2>5. NobodySleepsBesideWork'
    <3>1. SUFFICES ASSUME NEW u \in Threads, NEW j \in Queues
                   PROVE  /\ asleep'[u] = Data(j) =>
                               (queue'[j] = <<>> /\ ~closed[j]) \/ Owed(Data(j))
                          /\ asleep'[u] = Room(j) =>
                               (Len(queue'[j]) = Capacity[j] /\ ~(j = "ring" /\ quit))
                                 \/ Owed(Room(j))
      BY <1>0 DEF NobodySleepsBesideWork, Owed, Data, Room
    <3>2. /\ asleep[u] = Data(j) => (queue[j] = <<>> /\ ~closed[j]) \/ Owed(Data(j))
          /\ asleep[u] = Room(j) =>
               (Len(queue[j]) = Capacity[j] /\ ~(j = "ring" /\ quit)) \/ Owed(Room(j))
      BY <1>0 DEF NobodySleepsBesideWork
    <3>3. asleep'[u] = asleep[u] \/ asleep'[u] = Nothing BY <2>4
    <3>4. CASE j = "ring"
      BY <1>1, <2>4, <3>2, <3>3, <3>4, Names
    <3>5. CASE j # "ring"
      BY <2>3, <3>2, <3>3, <3>5, Names
    <3> QED BY <3>4, <3>5
  <2>6. HoldsItem' BY <1>0, <2>1, <2>2 DEF HoldsItem
  <2>7. TypeOK'
    <3>1. pc' \in [Threads -> PCs] BY <1>0, <2>1 DEF PCs
    <3>2. item' \in [Threads -> Items \cup {NoItem}] BY <1>0, <2>1, <2>2
    <3> QED BY <2>1, <2>3, <2>4, <3>1, <3>2 DEF WakeupInv, TypeOK, Pull
  <2> QED BY <2>5, <2>6, <2>7 DEF WakeupInv
<1>2. CASE queue["ring"] = <<>> /\ closed["ring"]
  <2>1. /\ pc' = [pc EXCEPT !["restorer"] = "closeEvents"]
        /\ UNCHANGED <<queue, item, asleep>>
    BY <1>2 DEF Pull, Goto
  <2>2. NobodySleepsBesideWork' BY <1>0, <2>1, QuietKeeps
  <2>3. HoldsItem' BY <1>0, <2>1 DEF HoldsItem
  <2>4. TypeOK' BY <1>2, <2>1 DEF WakeupInv, TypeOK, Pull, PCs
  <2> QED BY <2>2, <2>3, <2>4 DEF WakeupInv
<1>3. CASE queue["ring"] = <<>> /\ ~closed["ring"]
  <2>1. /\ asleep' = [asleep EXCEPT !["restorer"] = Data("ring")]
        /\ UNCHANGED <<queue, item, pc, failed>>
    BY <1>3 DEF Pull
  <2>2. NobodySleepsBesideWork'
    BY <1>0, <1>3, <2>1, Names DEF NobodySleepsBesideWork, Owed, Data, Room
  <2>3. asleep' \in [Threads -> CVs \cup {Nothing}] BY <1>0, <2>1, Names
  <2>4. TypeOK' BY <2>1, <2>3 DEF WakeupInv, TypeOK, Pull
  <2> QED BY <1>0, <2>1, <2>2, <2>4 DEF WakeupInv, HoldsItem
<1> QED BY <1>1, <1>2, <1>3

\* The restorer's other steps
LEMMA RestorerKeeps ==
  ASSUME WakeupInv, Restorer PROVE WakeupInv'
<1> USE NamedThreads
<1>1. ASSUME Pull PROVE WakeupInv' BY <1>1, PullKeeps
<1>2. ASSUME Tee PROVE WakeupInv'
  <2>1. item["restorer"] \in Items /\ FileOf(item["restorer"]) \in Files
    BY <1>2, ItemParts DEF Tee, At, WakeupInv, HoldsItem
  <2>2. item["restorer"] \in Items BY <2>1, ItemParts
  <2>3. "begin" \in PCs BY DEF PCs
  <2>4. /\ queue' \in [Queues -> Seq(Items)]
        /\ asleep' \in [Threads -> CVs \cup {Nothing}]
        /\ wake' \in [Threads -> CVs \cup {Nothing}]
        /\ pc' \in [Threads -> PCs]
        /\ NobodySleepsBesideWork'
    BY <1>2, <2>2, <2>3, PutKeeps DEF Tee, At
  <2>5. HoldsItem' BY <1>2, <2>1 DEF WakeupInv, TypeOK, HoldsItem, Tee, Put, Goto
  <2>6. TypeOK' BY <1>2, <2>1, <2>4 DEF WakeupInv, TypeOK, Tee, work
  <2> QED BY <2>4, <2>5, <2>6 DEF WakeupInv
<1>3. ASSUME Begin PROVE WakeupInv'
  <2>1. item["restorer"] \in Items /\ FileOf(item["restorer"]) \in Files
    BY <1>3, ItemParts DEF Begin, At, WakeupInv, HoldsItem
  <2>2. Item("data", FileOf(item["restorer"])) \in Items BY <2>1, ItemParts
  <2>3. "write" \in PCs BY DEF PCs
  <2>4. /\ queue' \in [Queues -> Seq(Items)]
        /\ asleep' \in [Threads -> CVs \cup {Nothing}]
        /\ wake' \in [Threads -> CVs \cup {Nothing}]
        /\ pc' \in [Threads -> PCs]
        /\ NobodySleepsBesideWork'
    BY <1>3, <2>2, <2>3, PutKeeps DEF Begin, At
  <2>5. HoldsItem' BY <1>3, <2>1 DEF WakeupInv, TypeOK, HoldsItem, Begin, Put, Goto
  <2>6. TypeOK' BY <1>3, <2>1, <2>4 DEF WakeupInv, TypeOK, Begin
  <2> QED BY <2>4, <2>5, <2>6 DEF WakeupInv
<1>4. ASSUME Write PROVE WakeupInv'
  <2>1. NobodySleepsBesideWork' BY <1>4, QuietKeeps DEF Write, sync
  <2>2. HoldsItem' BY <1>4 DEF WakeupInv, TypeOK, HoldsItem, Write, At, Goto
  <2>3. TypeOK' BY <1>4 DEF WakeupInv, TypeOK, Write, Goto, PCs, sync
  <2> QED BY <2>1, <2>2, <2>3 DEF WakeupInv
<1>5. ASSUME End PROVE WakeupInv'
  <2>1. item["restorer"] \in Items /\ FileOf(item["restorer"]) \in Files
    BY <1>5, ItemParts DEF End, At, WakeupInv, HoldsItem
  <2>2. Item("end", FileOf(item["restorer"])) \in Items BY <2>1, ItemParts
  <2>3. "closeEvents" \in PCs /\ "pull" \in PCs BY DEF PCs
  <2>4. /\ queue' \in [Queues -> Seq(Items)]
        /\ asleep' \in [Threads -> CVs \cup {Nothing}]
        /\ wake' \in [Threads -> CVs \cup {Nothing}]
        /\ pc' \in [Threads -> PCs]
        /\ NobodySleepsBesideWork'
    BY <1>5, <2>2, <2>3, PutKeeps DEF End, At
  <2>5. HoldsItem' BY <1>5, <2>1 DEF WakeupInv, TypeOK, HoldsItem, End, Put, Goto
  <2>6. TypeOK' BY <1>5, <2>1, <2>4 DEF WakeupInv, TypeOK, End, work
  <2> QED BY <2>4, <2>5, <2>6 DEF WakeupInv
<1>6. ASSUME CloseEvents PROVE WakeupInv'
  <2>1. /\ closed' \in [Queues -> BOOLEAN]
        /\ wake' \in [Threads -> CVs \cup {Nothing}]
        /\ pc' \in [Threads -> PCs] /\ HoldsItem' /\ NobodySleepsBesideWork'
    <3>1. "joinHasher" \in PCs BY DEF PCs
    <3> QED BY <1>6, <3>1, CloseKeeps DEF CloseEvents, At
  <2>2. TypeOK' BY <1>6, <2>1 DEF WakeupInv, TypeOK, CloseEvents, Close, work
  <2> QED BY <2>1, <2>2 DEF WakeupInv
<1>7. ASSUME CloseJobs PROVE WakeupInv'
  <2>1. /\ closed' \in [Queues -> BOOLEAN]
        /\ wake' \in [Threads -> CVs \cup {Nothing}]
        /\ pc' \in [Threads -> PCs] /\ HoldsItem' /\ NobodySleepsBesideWork'
    <3>1. "joinSwappers" \in PCs BY DEF PCs
    <3> QED BY <1>7, <3>1, CloseKeeps DEF CloseJobs, At
  <2>2. TypeOK' BY <1>7, <2>1 DEF WakeupInv, TypeOK, CloseJobs, Close, work
  <2> QED BY <2>1, <2>2 DEF WakeupInv
<1>8. ASSUME JoinSwappers PROVE WakeupInv'
  <2>1. NobodySleepsBesideWork' BY <1>8, QuietKeeps DEF JoinSwappers, sync
  <2>2. HoldsItem' BY <1>8 DEF WakeupInv, TypeOK, HoldsItem, JoinSwappers, At, Goto
  <2>3. TypeOK' BY <1>8 DEF WakeupInv, TypeOK, JoinSwappers, Goto, PCs, sync
  <2> QED BY <2>1, <2>2, <2>3 DEF WakeupInv
<1>9. ASSUME Stamp PROVE WakeupInv'
  <2>1. NobodySleepsBesideWork' BY <1>9, QuietKeeps DEF Stamp, sync
  <2>2. HoldsItem' BY <1>9 DEF WakeupInv, TypeOK, HoldsItem, Stamp, At, Goto
  <2>3. TypeOK' BY <1>9 DEF WakeupInv, TypeOK, Stamp, Goto, PCs, sync
  <2> QED BY <2>1, <2>2, <2>3 DEF WakeupInv
<1>10. ASSUME CloseNar PROVE WakeupInv'
  <2>1. /\ closed' \in [Queues -> BOOLEAN]
        /\ wake' \in [Threads -> CVs \cup {Nothing}]
        /\ pc' \in [Threads -> PCs] /\ HoldsItem' /\ NobodySleepsBesideWork'
    <3>1. "joinNar" \in PCs BY DEF PCs
    <3> QED BY <1>10, <3>1, CloseKeeps DEF CloseNar, At
  <2>2. TypeOK' BY <1>10, <2>1 DEF WakeupInv, TypeOK, CloseNar, Close, work
  <2> QED BY <2>1, <2>2 DEF WakeupInv
<1>11. ASSUME Quit PROVE WakeupInv'
  <2>1. PICK d \in CVs : d = Room("ring") BY Names
  <2>2. /\ wake' \in [Threads -> CVs \cup {Nothing}]
        /\ \A cv \in CVs : Owed(cv) => Owed(cv)'
        /\ Owed(d)'
    BY <1>11, <2>1, DebtsStay DEF Quit, At
  <2>3. NobodySleepsBesideWork'
    <3>1. SUFFICES ASSUME NEW u \in Threads, NEW j \in Queues
                   PROVE  /\ asleep[u] = Data(j) =>
                               (queue[j] = <<>> /\ ~closed[j]) \/ Owed(Data(j))'
                          /\ asleep[u] = Room(j) =>
                               (Len(queue[j]) = Capacity[j] /\ ~(j = "ring" /\ quit'))
                                 \/ Owed(Room(j))'
      BY <1>11 DEF NobodySleepsBesideWork, Quit, Data, Room
    <3>2. /\ asleep[u] = Data(j) => (queue[j] = <<>> /\ ~closed[j]) \/ Owed(Data(j))
          /\ asleep[u] = Room(j) =>
               (Len(queue[j]) = Capacity[j] /\ ~(j = "ring" /\ quit)) \/ Owed(Room(j))
      BY DEF WakeupInv, NobodySleepsBesideWork
    <3>3. Owed(Room("ring"))' BY <2>1, <2>2 DEF Room
    <3> QED BY <2>2, <3>2, <3>3, Names
  <2>4. HoldsItem' BY <1>11 DEF WakeupInv, TypeOK, HoldsItem, Quit, Goto
  <2>5. TypeOK' BY <1>11, <2>2 DEF WakeupInv, TypeOK, Quit, Goto, PCs
  <2> QED BY <2>3, <2>4, <2>5 DEF WakeupInv
<1> QED
  BY <1>1, <1>2, <1>3, <1>4, <1>5, <1>6, <1>7, <1>8, <1>9, <1>10, <1>11 DEF Restorer

\* The hashers' steps
LEMMA HashersKeep ==
  ASSUME WakeupInv, Digest \/ FileHasher PROVE WakeupInv'
<1> USE NamedThreads
<1>1. ASSUME Digest PROVE WakeupInv'
  <2>1. "take" \in PCs BY DEF PCs
  <2>2. /\ queue' \in [Queues -> Seq(Items)]
        /\ asleep' \in [Threads -> CVs \cup {Nothing}]
        /\ wake' \in [Threads -> CVs \cup {Nothing}]
        /\ pc' \in [Threads -> PCs]
        /\ item' \in [Threads -> Items \cup {NoItem}]
        /\ HoldsItem' /\ NobodySleepsBesideWork'
    BY <1>1, <2>1, GetKeeps DEF Digest, At
  <2>3. queue["nar"] # <<>> => FileOf(Head(queue["nar"])) \in Files
    <3>1. queue["nar"] \in Seq(Items) BY DEF WakeupInv, TypeOK
    <3>2. queue["nar"] # <<>> => Head(queue["nar"]) \in Items BY <3>1
    <3> QED BY <3>2, ItemParts
  <2>4. digest' \in Seq(Files)
    <3>1. digest \in Seq(Files) BY DEF WakeupInv, TypeOK
    <3>2. queue["nar"] # <<>> => Append(digest, FileOf(Head(queue["nar"]))) \in Seq(Files)
      BY <2>3, <3>1
    <3> QED BY <1>1, <3>1, <3>2 DEF Digest
  <2>5. TypeOK' BY <1>1, <2>2, <2>4 DEF WakeupInv, TypeOK, Digest
  <2> QED BY <2>2, <2>5 DEF WakeupInv
<1>2. ASSUME TakeEvent PROVE WakeupInv'
  <2>1. "work" \in PCs BY DEF PCs
  <2>2. /\ queue' \in [Queues -> Seq(Items)]
        /\ asleep' \in [Threads -> CVs \cup {Nothing}]
        /\ wake' \in [Threads -> CVs \cup {Nothing}]
        /\ pc' \in [Threads -> PCs]
        /\ item' \in [Threads -> Items \cup {NoItem}]
        /\ HoldsItem' /\ NobodySleepsBesideWork'
    BY <1>2, <2>1, GetKeeps DEF TakeEvent, At
  <2>3. TypeOK' BY <1>2, <2>2 DEF WakeupInv, TypeOK, TakeEvent, work
  <2> QED BY <2>2, <2>3 DEF WakeupInv
<1>3. ASSUME HashFails PROVE WakeupInv'
  <2>1. NobodySleepsBesideWork' BY <1>3, QuietKeeps DEF HashFails, sync
  <2>2. HoldsItem' BY <1>3 DEF WakeupInv, TypeOK, HoldsItem, HashFails, At, Goto, Again
  <2>3. TypeOK' BY <1>3 DEF WakeupInv, TypeOK, HashFails, Goto, Again, PCs, sync
  <2> QED BY <2>1, <2>2, <2>3 DEF WakeupInv
<1>4. ASSUME HashData PROVE WakeupInv'
  <2>1. NobodySleepsBesideWork' BY <1>4, QuietKeeps DEF HashData, sync
  <2>2. HoldsItem' BY <1>4 DEF WakeupInv, TypeOK, HoldsItem, HashData, At, Goto, Again
  <2>3. TypeOK' BY <1>4 DEF WakeupInv, TypeOK, HashData, Goto, Again, PCs, sync, work
  <2> QED BY <2>1, <2>2, <2>3 DEF WakeupInv
<1>5. ASSUME HashEnd PROVE WakeupInv'
  <2>0. FileOf(item["fileHasher"]) \in Files
    BY <1>5, ItemParts DEF HashEnd, At, WakeupInv, HoldsItem
  <2>1. NobodySleepsBesideWork' BY <1>5, QuietKeeps DEF HashEnd, sync
  <2>2. HoldsItem' BY <1>5 DEF WakeupInv, TypeOK, HoldsItem, HashEnd, At, Goto, Again
  <2>3. TypeOK' BY <1>5, <2>0 DEF WakeupInv, TypeOK, HashEnd, Goto, Again, PCs, sync, Record
  <2> QED BY <2>1, <2>2, <2>3 DEF WakeupInv
<1>6. ASSUME Post PROVE WakeupInv'
  <2>1. item["fileHasher"] \in Items /\ FileOf(item["fileHasher"]) \in Files
    BY <1>6, ItemParts DEF Post, At, WakeupInv, HoldsItem
  <2>2. Item("job", FileOf(item["fileHasher"])) \in Items BY <2>1, ItemParts
  <2>3. "take" \in PCs BY DEF PCs
  <2>4. /\ queue' \in [Queues -> Seq(Items)]
        /\ asleep' \in [Threads -> CVs \cup {Nothing}]
        /\ wake' \in [Threads -> CVs \cup {Nothing}]
        /\ pc' \in [Threads -> PCs]
        /\ NobodySleepsBesideWork'
    BY <1>6, <2>2, <2>3, PutKeeps DEF Post, At
  <2>5. HoldsItem' BY <1>6, <2>1 DEF WakeupInv, TypeOK, HoldsItem, Post, Put, Goto
  <2>6. TypeOK' BY <1>6, <2>1, <2>4 DEF WakeupInv, TypeOK, Post, Record
  <2> QED BY <2>4, <2>5, <2>6 DEF WakeupInv
<1> QED
  BY <1>1, <1>2, <1>3, <1>4, <1>5, <1>6 DEF FileHasher

\* A swapper's steps
LEMMA SwapperKeeps ==
  ASSUME WakeupInv, NEW s \in Swappers, Swapper(s) PROVE WakeupInv'
<1> USE NamedThreads
<1>1. ASSUME TakeJob(s) PROVE WakeupInv'
  <2>1. "work" \in PCs BY DEF PCs
  <2>2. /\ queue' \in [Queues -> Seq(Items)]
        /\ asleep' \in [Threads -> CVs \cup {Nothing}]
        /\ wake' \in [Threads -> CVs \cup {Nothing}]
        /\ pc' \in [Threads -> PCs]
        /\ item' \in [Threads -> Items \cup {NoItem}]
        /\ HoldsItem' /\ NobodySleepsBesideWork'
    BY <1>1, <2>1, GetKeeps DEF TakeJob, At
  <2>3. TypeOK' BY <1>1, <2>2 DEF WakeupInv, TypeOK, TakeJob, work
  <2> QED BY <2>2, <2>3 DEF WakeupInv
<1>2. ASSUME Swap(s) PROVE WakeupInv'
  <2>1. NobodySleepsBesideWork' BY <1>2, QuietKeeps DEF Swap, sync
  <2>2. HoldsItem' BY <1>2 DEF WakeupInv, TypeOK, HoldsItem, Swap, At, Goto, Again
  <2>3. TypeOK' BY <1>2 DEF WakeupInv, TypeOK, Swap, Goto, Again, PCs, sync
  <2> QED BY <2>1, <2>2, <2>3 DEF WakeupInv
<1> QED BY <1>1, <1>2 DEF Swapper

\* A notification, and a wakeup for no reason: some threads go on.
LEMMA WakingKeeps ==
  ASSUME WakeupInv, NEW t \in Threads, Notify(t) \/ WakeSpuriously(t) PROVE WakeupInv'
<1>0. /\ asleep \in [Threads -> CVs \cup {Nothing}]
      /\ wake \in [Threads -> CVs \cup {Nothing}]
      /\ UNCHANGED <<queue, closed, quit, pc, item>>
      /\ UNCHANGED <<failed, sent, disk, digest, hashed, stamped>>
  BY DEF WakeupInv, TypeOK, Notify, WakeSpuriously, work
<1>1. /\ asleep' \in [Threads -> CVs \cup {Nothing}]
      /\ wake' \in [Threads -> CVs \cup {Nothing}]
      /\ \A u \in Threads : asleep'[u] = asleep[u] \/ asleep'[u] = Nothing
      /\ \A cv \in CVs : Owed(cv) =>
           Owed(cv)' \/ \A u \in Threads : asleep'[u] # cv
  <2>1. CASE Notify(t)
    <3>1. /\ asleep' = [u \in Threads |-> IF asleep[u] = wake[t] THEN Nothing ELSE asleep[u]]
          /\ wake' = [wake EXCEPT ![t] = Nothing]
      BY <2>1 DEF Notify, Woken
    <3>2. Nothing \notin CVs BY Names DEF CVs
    <3> QED BY <1>0, <3>1, <3>2 DEF Owed
  <2>2. CASE WakeSpuriously(t)
    BY <1>0, <2>2 DEF WakeSpuriously, Owed
  <2> QED BY <2>1, <2>2
<1>2. NobodySleepsBesideWork'
  <2>1. SUFFICES ASSUME NEW u \in Threads, NEW j \in Queues
                 PROVE  /\ asleep'[u] = Data(j) =>
                             (queue[j] = <<>> /\ ~closed[j]) \/ Owed(Data(j))'
                        /\ asleep'[u] = Room(j) =>
                             (Len(queue[j]) = Capacity[j] /\ ~(j = "ring" /\ quit))
                               \/ Owed(Room(j))'
    BY <1>0 DEF NobodySleepsBesideWork, Data, Room
  <2>2. /\ asleep[u] = Data(j) => (queue[j] = <<>> /\ ~closed[j]) \/ Owed(Data(j))
        /\ asleep[u] = Room(j) =>
             (Len(queue[j]) = Capacity[j] /\ ~(j = "ring" /\ quit)) \/ Owed(Room(j))
    BY DEF WakeupInv, NobodySleepsBesideWork
  <2> QED BY <1>1, <2>2, Names
<1> QED BY <1>0, <1>1, <1>2 DEF WakeupInv, TypeOK, HoldsItem

\* The inductive invariant holds of every import, whatever the capacities of its
\* queues and the number of its swappers and files.
THEOREM InvariantHolds == Spec => []WakeupInv
<1>1. Init => WakeupInv
  <2> SUFFICES ASSUME Init PROVE WakeupInv OBVIOUS
  <2>1. \A t \in Threads : pc[t] \in {"dump", "pull", "take"} BY DEF Init
  <2>2. TypeOK
    <3>1. pc \in [Threads -> PCs] BY DEF Init, PCs
    <3>2. queue \in [Queues -> Seq(Items)] /\ digest \in Seq(Files) BY DEF Init
    <3>3. sent \in 0 .. NumFiles BY SizesAssumption DEF Init
    <3> QED BY <3>1, <3>2, <3>3 DEF Init, TypeOK
  <2>3. HoldsItem BY <2>1 DEF HoldsItem
  <2>4. NobodySleepsBesideWork BY Names DEF Init, NobodySleepsBesideWork
  <2> QED BY <2>2, <2>3, <2>4 DEF WakeupInv
<1>2. WakeupInv /\ [Next]_vars => WakeupInv'
  <2> SUFFICES ASSUME WakeupInv, [Next]_vars PROVE WakeupInv' OBVIOUS
  <2>1. CASE UNCHANGED vars
    <3>1. NobodySleepsBesideWork' BY <2>1, QuietKeeps DEF vars, sync
    <3> QED BY <2>1, <3>1 DEF vars, sync, work, WakeupInv, TypeOK, HoldsItem
  <2>2. CASE Next
    BY <2>2, DumperKeeps, RestorerKeeps, HashersKeep, SwapperKeeps, WakingKeeps DEF Next
  <2> QED BY <2>1, <2>2
<1> QED BY <1>1, <1>2, PTL DEF Spec

\* Waking only at the edges (a push that leaves few elements, a pop off a full queue)
\* never leaves a thread of SourceToSink, AsyncHashSink, AsyncFileHasher or
\* DedupSwapPool asleep beside work.
THEOREM NoLostWakeup == Spec => []NobodySleepsBesideWork
  BY InvariantHolds, PTL DEF WakeupInv

--------------------------------------------------------------------------------
(* What happens to the files *)

\* x has been appended to queue k, or its head has been taken off.
Pushed(k, x) ==
  /\ Len(queue'[k]) = Len(queue[k]) + 1
  /\ \A i \in 1 .. Len(queue[k]) : queue'[k][i] = queue[k][i]
  /\ queue'[k][Len(queue[k]) + 1] = x
  /\ \A j \in Queues \ {k} : queue'[j] = queue[j]

Popped(k) ==
  /\ Len(queue[k]) > 0
  /\ Len(queue'[k]) = Len(queue[k]) - 1
  /\ \A i \in 1 .. Len(queue[k]) - 1 : queue'[k][i] = queue[k][i + 1]
  /\ \A j \in Queues \ {k} : queue'[j] = queue[j]

\* Only t moves.
Moves(t, to) == pc'[t] = to /\ \A u \in Threads \ {t} : pc'[u] = pc[u]

Keeps(t) == \A u \in Threads \ {t} : item'[u] = item[u]

LEMMA Lengths ==
  ASSUME TypeOK
  PROVE  /\ \A k \in Queues : Len(queue[k]) \in Nat
         /\ sent \in Nat /\ Len(digest) \in Nat /\ NumFiles \in Nat
  BY SizesAssumption DEF TypeOK

LEMMA Appending ==
  ASSUME TypeOK, NEW k \in Queues, NEW x \in Items, queue' = [queue EXCEPT ![k] = Append(@, x)]
  PROVE  Pushed(k, x)
<1>1. queue[k] \in Seq(Items) BY DEF TypeOK
<1>2. queue'[k] = Append(queue[k], x) /\ \A j \in Queues \ {k} : queue'[j] = queue[j] BY DEF TypeOK
<1> QED BY <1>1, <1>2 DEF Pushed

\* The digest grows at its end.
LEMMA Growing ==
  ASSUME NEW d \in Seq(Files), NEW f \in Files
  PROVE  /\ Len(Append(d, f)) = Len(d) + 1 /\ Append(d, f)[Len(d) + 1] = f
         /\ \A i \in 1 .. Len(d) : Append(d, f)[i] = d[i]
  OBVIOUS

LEMMA Taking ==
  ASSUME TypeOK, NEW k \in Queues, queue[k] # <<>>, queue' = [queue EXCEPT ![k] = Tail(@)]
  PROVE  Popped(k) /\ Head(queue[k]) = queue[k][1] /\ queue[k][1] \in Items
<1> DEFINE q == queue[k]
<1>1. q \in Seq(Items) /\ q # <<>> BY DEF TypeOK
<1>2. queue'[k] = Tail(q) /\ \A j \in Queues \ {k} : queue'[j] = queue[j] BY DEF TypeOK
<1> HIDE DEF q
<1>3. Len(q) > 0 /\ Head(q) = q[1] /\ q[1] \in Items
  BY <1>1
<1>4. Len(Tail(q)) = Len(q) - 1 /\ \A i \in 1 .. Len(q) - 1 : Tail(q)[i] = q[i + 1]
  BY <1>1
<1> QED BY <1>2, <1>3, <1>4 DEF Popped, q

LEMMA Going ==
  ASSUME TypeOK, NEW t \in Threads, NEW to, Goto(t, to)
  PROVE  Moves(t, to)
  BY DEF TypeOK, Goto, Moves

LEMMA PutEffect ==
  ASSUME TypeOK, NEW t \in Threads, NEW k \in Queues, NEW x \in Items, NEW to, Put(t, k, x, to)
  PROVE  \/ Len(queue[k]) < Capacity[k] /\ Pushed(k, x) /\ Moves(t, to)
         \/ Len(queue[k]) = Capacity[k] /\ queue' = queue /\ pc' = pc
<1>1. CASE Len(queue[k]) < Capacity[k] /\ queue' = [queue EXCEPT ![k] = Append(@, x)] /\ Goto(t, to)
  BY <1>1, Appending, Going
<1>2. CASE Len(queue[k]) = Capacity[k] /\ UNCHANGED <<queue, wake, pc>>
  BY <1>2
<1> QED BY <1>1, <1>2 DEF Put

LEMMA GetEffect ==
  ASSUME TypeOK, NEW t \in Threads, NEW k \in Queues, NEW to, Get(t, k, to)
  PROVE  \/ /\ queue[k] # <<>> /\ Popped(k) /\ queue[k][1] \in Items
            /\ item'[t] = queue[k][1] /\ Keeps(t) /\ Moves(t, to)
         \/ queue[k] = <<>> /\ closed[k] /\ queue' = queue /\ item' = item /\ Moves(t, "ended")
         \/ queue[k] = <<>> /\ queue' = queue /\ item' = item /\ pc' = pc
<1>1. CASE queue[k] # <<>>
  <2>1. /\ item' = [item EXCEPT ![t] = Head(queue[k])] /\ queue' = [queue EXCEPT ![k] = Tail(@)]
        /\ Goto(t, to)
    BY <1>1 DEF Get
  <2>2. item'[t] = Head(queue[k]) /\ Keeps(t)
    BY <2>1 DEF TypeOK, Keeps
  <2> QED BY <1>1, <2>1, <2>2, Taking, Going
<1>2. CASE queue[k] = <<>>
  BY <1>2, Going DEF Get
<1> QED BY <1>1, <1>2

LEMMA AgainEffect ==
  ASSUME TypeOK, NEW t \in Threads, Again(t)
  PROVE  item'[t] = NoItem /\ Keeps(t) /\ Moves(t, "take")
  BY Going DEF Again, TypeOK, Keeps

\* The named threads are not swappers, and no two of them are the same.
LEMMA Distinct ==
  \A s \in Swappers : /\ s \in Threads /\ s # "dumper" /\ s # "restorer"
                      /\ s # "narHasher" /\ s # "fileHasher"
  BY SwappersAssumption DEF Threads

--------------------------------------------------------------------------------
(* What a step leaves alone *)

\* The ring, and what the restorer holds.
LEMMA RingSame ==
  ASSUME RingInv, sent' = sent, queue'["ring"] = queue["ring"],
         Restoring' => Restoring /\ item'["restorer"] = item["restorer"]
  PROVE  RingInv' /\ Pulled' = Pulled
<1>1. Pulled' = Pulled BY DEF Pulled
<1> QED BY <1>1 DEF RingInv

LEMMA DigestSame ==
  ASSUME DigestInv, failed \subseteq failed', digest' = digest, queue'["nar"] = queue["nar"], Teed' = Teed
  PROVE  DigestInv'
  BY DEF DigestInv

\* A ready file stays ready.
LEMMA ReadyStays ==
  ASSUME Past \in Int, Past' \in Int, Past <= Past',
         \A f \in 1 .. Past : disk[f] \in {"finished", "linked"} => disk'[f] \in {"finished", "linked"}
  PROVE  \A f : Ready(f) => Ready(f)'
  BY DEF Ready

LEMMA ReadySame ==
  ASSUME ReadyInv, \A f : Ready(f) => Ready(f)',
         queue'["events"] = queue["events"], queue'["jobs"] = queue["jobs"],
         pc'["fileHasher"] = pc["fileHasher"], item'["fileHasher"] = item["fileHasher"],
         \A s \in Swappers : pc'[s] = pc[s] /\ item'[s] = item[s]
  PROVE  ReadyInv'
  BY DEF ReadyInv, FileOf

\* Files the restorer is through with stay finished, and hashed or under way.
LEMMA FilesSame ==
  ASSUME FilesInv, failed \subseteq failed', Pulled' = Pulled, Past' = Past,
         pc'["restorer"] = "end" => pc["restorer"] = "end",
         \A f : disk[f] \in {"finished", "linked"} => disk'[f] \in {"finished", "linked"},
         \A f \in 1 .. Past : f \in hashed \/ EndUnderWay(f) =>
           "fileHasher" \in failed' \/ f \in hashed' \/ EndUnderWay(f)'
  PROVE  FilesInv'
<1>1. pc'["restorer"] = "end" => disk'[Pulled] \in {"finished", "linked"}
  BY DEF FilesInv
<1>2. "restorer" \notin failed' =>
        \A f \in 1 .. Past : /\ disk'[f] \in {"finished", "linked"}
                             /\ "fileHasher" \in failed' \/ f \in hashed' \/ EndUnderWay(f)'
  BY DEF FilesInv
<1> QED BY <1>1, <1>2 DEF FilesInv

LEMMA EndSame ==
  ASSUME queue'["events"] = queue["events"], pc'["fileHasher"] = pc["fileHasher"],
         item'["fileHasher"] = item["fileHasher"]
  PROVE  \A f : EndUnderWay(f) => EndUnderWay(f)'
  BY DEF EndUnderWay

LEMMA Counts ==
  ASSUME TypeOK
  PROVE  Pulled \in Int /\ Past \in Int /\ Teed \in Int /\ Past <= Pulled
  BY Lengths, NamedThreads DEF Pulled, Past, Teed

\* The dumper pushes the next chunk, and has no part in the rest.
LEMMA DumperFlow == ASSUME TypeOK, TypeOK', FlowInv, Dumper \/ DumpFails PROVE FlowInv'
<1> USE NamedThreads, Distinct
<1>1. \E to : Moves("dumper", to) /\ (to = "returned" => JoinRestorer)
  <2>1. CASE Dump
    <3>1. Item("chunk", sent + 1) \in Items
      BY <2>1, ItemParts, SizesAssumption DEF Dump, TypeOK, Files
    <3> QED BY <2>1, <3>1, PutEffect DEF Dump, Moves, At, TypeOK
  <2> QED BY <2>1, Going DEF Dumper, StopReader, DumpFails, JoinRestorer, Close
<1>2. /\ item' = item /\ UNCHANGED <<disk, digest, hashed, stamped>>
      /\ \A k \in {"events", "nar"} : closed'[k] = closed[k]
      /\ \A k \in Queues \ {"ring"} : queue'[k] = queue[k]
  BY DEF Dumper, Dump, StopReader, DumpFails, JoinRestorer, Put, Close, work, TypeOK
<1>3. failed' = failed \/ failed' = failed \cup {"dumper"}
  BY DEF Dumper, Dump, StopReader, DumpFails, JoinRestorer, work
<1>4. \A u \in Threads \ {"dumper"} : pc'[u] = pc[u]
  BY <1>1 DEF Moves
<1>5. RingInv' /\ Pulled' = Pulled
  <2>1. CASE Dump
    <3>1. Item("chunk", sent + 1) \in Items
      BY <2>1, ItemParts, SizesAssumption DEF Dump, TypeOK, Files
    <3>2. CASE Pushed("ring", Item("chunk", sent + 1)) /\ sent' = sent + 1
      <4>1. Pulled' = Pulled
        BY <3>2, Lengths DEF Pushed, Pulled
      <4>2. ASSUME NEW i \in 1 .. Len(queue'["ring"]) PROVE queue'["ring"][i] = Item("chunk", Pulled + i)
        <5>1. CASE i \in 1 .. Len(queue["ring"])
          BY <3>2, <5>1 DEF FlowInv, RingInv, Pushed
        <5>2. CASE i = Len(queue["ring"]) + 1
          <6>1. Pulled + i = sent + 1
            BY <5>2, Lengths DEF Pulled
          <6> QED BY <3>2, <5>2, <6>1 DEF Pushed
        <5> QED BY <3>2, <5>1, <5>2, Lengths DEF Pushed
      <4>3. Restoring' <=> Restoring
        BY <1>4 DEF Restoring
      <4>4. Len(queue'["ring"]) <= sent'
        BY <3>2, Lengths DEF Pushed, FlowInv, RingInv
      <4> QED BY <1>2, <4>1, <4>2, <4>3, <4>4 DEF FlowInv, RingInv
    <3>3. CASE queue' = queue /\ sent' = sent
      BY <1>2, <1>4, <3>3, RingSame DEF FlowInv, Restoring
    <3> QED BY <2>1, <3>1, <3>2, <3>3, PutEffect, Lengths, SizesAssumption DEF Dump
  <2>2. CASE ~Dump
    <3>1. sent' = sent /\ queue' = queue
      BY <2>2 DEF Dumper, StopReader, DumpFails, JoinRestorer, Close, work
    <3> QED BY <1>2, <1>4, <3>1, RingSame DEF FlowInv, Restoring
  <2> QED BY <2>1, <2>2
<1>6. Past' = Past /\ Teed' = Teed
  BY <1>4, <1>5 DEF Past, Teed, Restoring
<1>7. DigestInv'
  BY <1>2, <1>3, <1>6, DigestSame DEF FlowInv, Queues
<1>8. ReadyInv'
  <2>1. \A f : Ready(f) => Ready(f)'
    BY <1>2, <1>6 DEF Ready
  <2> QED BY <1>2, <1>4, <2>1, ReadySame DEF FlowInv, Queues
<1>9. FilesInv'
  BY <1>2, <1>3, <1>4, <1>5, <1>6, FilesSame, EndSame DEF FlowInv, Queues
<1>10. EndedInv'
  BY <1>2, <1>4 DEF FlowInv, EndedInv, AfterEvents, AfterHasher, AfterJoins, AfterStamp, Queues
<1>11. OutcomeInv'
  <2>1. pc'["dumper"] = "returned" => pc["restorer"] = "ended" /\ "restorer" \notin failed'
    <3>1. CASE JoinRestorer
      BY <3>1 DEF JoinRestorer, Ended, Goto, TypeOK, work
    <3> QED BY <1>1, <3>1 DEF Moves
  <2> QED BY <1>2, <1>3, <1>4, <1>5, <2>1 DEF FlowInv, OutcomeInv, AfterEvents, AfterHasher, AfterJoins, AfterStamp
<1> QED BY <1>5, <1>7, <1>8, <1>9, <1>10, <1>11 DEF FlowInv

\* The restorer pulls a chunk, finds that there are no more, or goes to sleep.
LEMMA PullFlow == ASSUME TypeOK, TypeOK', FlowInv, Pull PROVE FlowInv'
<1> USE NamedThreads, Distinct
<1>1. /\ UNCHANGED <<sent, disk, digest, hashed, stamped, closed>> /\ failed \subseteq failed'
      /\ failed' \in {failed, failed \cup {"restorer"}} /\ pc["restorer"] = "pull"
      /\ \A k \in Queues \ {"ring"} : queue'[k] = queue[k]
  BY DEF Pull, At, TypeOK
<1>2. \/ /\ Popped("ring") /\ item'["restorer"] = queue["ring"][1] /\ Keeps("restorer")
         /\ Moves("restorer", "tee") /\ failed' = failed
      \/ queue' = queue /\ item' = item /\ Moves("restorer", "closeEvents") /\ failed' = failed \cup {"restorer"}
      \/ queue' = queue /\ item' = item /\ pc' = pc /\ failed' = failed
  <2>1. CASE queue["ring"] # <<>>
    <3>1. /\ item' = [item EXCEPT !["restorer"] = Head(queue["ring"])]
          /\ queue' = [queue EXCEPT !["ring"] = Tail(@)]
          /\ Goto("restorer", "tee") /\ failed' = failed
      BY <2>1 DEF Pull
    <3>2. item'["restorer"] = Head(queue["ring"]) /\ Keeps("restorer")
      BY <3>1 DEF TypeOK, Keeps
    <3> QED BY <2>1, <3>1, <3>2, Taking, Going
  <2>2. CASE queue["ring"] = <<>>
    BY <2>2, Going DEF Pull
  <2> QED BY <2>1, <2>2
<1>3. \A u \in Threads \ {"restorer"} : pc'[u] = pc[u] /\ item'[u] = item[u]
  BY <1>2 DEF Moves, Keeps
<1>4. RingInv' /\ Past' = Past /\ Teed' = Teed
  <2>1. CASE Popped("ring") /\ item'["restorer"] = queue["ring"][1] /\ Moves("restorer", "tee")
    <3>1. Pulled' = Pulled + 1
      BY <1>1, <2>1, Lengths DEF Popped, Pulled
    <3>2. item'["restorer"] = Item("chunk", Pulled + 1)
      BY <2>1, Lengths DEF Popped, FlowInv, RingInv
    <3>3. ASSUME NEW i \in 1 .. Len(queue["ring"]) - 1 PROVE queue'["ring"][i] = Item("chunk", Pulled + 1 + i)
      <4>1. i + 1 \in 1 .. Len(queue["ring"]) /\ Pulled + (i + 1) = Pulled + 1 + i
        BY Lengths, Counts
      <4>2. queue["ring"][i + 1] = Item("chunk", Pulled + (i + 1))
        BY <4>1 DEF FlowInv, RingInv
      <4> QED BY <2>1, <4>1, <4>2 DEF Popped
    <3>4. Len(queue'["ring"]) = Len(queue["ring"]) - 1 /\ Len(queue'["ring"]) <= sent'
      BY <1>1, <2>1, Lengths DEF Popped, FlowInv, RingInv
    <3>5. RingInv'
      BY <3>1, <3>2, <3>3, <3>4 DEF RingInv
    <3>6. Past' = Pulled' - 1 /\ Past = Pulled /\ Teed' = Pulled' - 1 /\ Teed = Pulled
      BY <1>1, <2>1 DEF Past, Teed, Restoring, Moves
    <3> QED BY <3>1, <3>5, <3>6, Counts
  <2>2. CASE queue' = queue /\ item' = item /\ (Moves("restorer", "closeEvents") \/ pc' = pc)
    <3>1. Restoring' <=> Restoring
      BY <1>1, <2>2 DEF Restoring, Moves
    <3>2. RingInv' /\ Pulled' = Pulled
      BY <1>1, <2>2, <3>1, RingSame DEF FlowInv
    <3> QED BY <1>1, <2>2, <3>1, <3>2 DEF Past, Teed, Moves
  <2> QED BY <1>2, <2>1, <2>2
<1>5. DigestInv'
  BY <1>1, <1>4, DigestSame DEF FlowInv, Queues
<1>6. ReadyInv'
  <2>1. \A f : Ready(f) => Ready(f)'
    BY <1>1, <1>4 DEF Ready
  <2> QED BY <1>1, <1>3, <2>1, ReadySame DEF FlowInv, Queues
<1>7. FilesInv'
  <2>1. \A f : EndUnderWay(f) => EndUnderWay(f)'
    BY <1>1, <1>3, EndSame DEF Queues
  <2>2. pc'["restorer"] # "end"
    BY <1>1, <1>2 DEF Moves
  <2> QED BY <1>1, <1>4, <2>1, <2>2 DEF FlowInv, FilesInv
<1>8. EndedInv' /\ OutcomeInv'
  <2>1. pc'["restorer"] \in {"pull", "tee", "closeEvents"} /\ (pc'["restorer"] = "closeEvents" => "restorer" \in failed')
    BY <1>1, <1>2 DEF Moves
  <2> QED BY <1>1, <1>3, <2>1
          DEF FlowInv, EndedInv, OutcomeInv, AfterEvents, AfterHasher, AfterJoins, AfterStamp, Queues
<1> QED BY <1>4, <1>5, <1>6, <1>7, <1>8 DEF FlowInv

\* What the restorer holds, as long as it restores.
LEMMA Held ==
  ASSUME TypeOK, HoldsItem, FlowInv, Restoring
  PROVE  /\ item["restorer"] = Item("chunk", Pulled) /\ item["restorer"] \in Items
         /\ FileOf(item["restorer"]) = Pulled /\ Pulled \in Files /\ Past = Pulled - 1
<1>1. item["restorer"] = Item("chunk", Pulled) /\ item["restorer"] \in Items
  BY NamedThreads DEF FlowInv, RingInv, HoldsItem, Restoring
<1> QED BY <1>1, ItemParts DEF Item, FileOf, Past

\* It passes the chunk on to the NAR hasher.
LEMMA TeeFlow == ASSUME TypeOK, TypeOK', HoldsItem, FlowInv, Tee PROVE FlowInv'
<1> USE NamedThreads, Distinct
<1>1. /\ UNCHANGED <<sent, disk, digest, hashed, stamped, closed, failed, item>> /\ pc["restorer"] = "tee"
  BY DEF Tee, At, work
<1>2. Restoring BY <1>1 DEF Restoring
<1>3. \/ Pushed("nar", Item("chunk", Pulled)) /\ Moves("restorer", "begin")
      \/ queue' = queue /\ pc' = pc
  BY <1>2, Held, PutEffect DEF Tee
<1>4. /\ \A k \in Queues \ {"nar"} : queue'[k] = queue[k]
      /\ \A u \in Threads \ {"restorer"} : pc'[u] = pc[u]
      /\ pc'["restorer"] \in {"tee", "begin"}
  BY <1>1, <1>3 DEF Pushed, Moves
<1>5. Restoring' BY <1>4 DEF Restoring
<1>6. RingInv' /\ Pulled' = Pulled
  BY <1>1, <1>2, <1>4, RingSame DEF FlowInv, Queues
<1>7. Past' = Past
  BY <1>2, <1>5, <1>6 DEF Past
<1>8. DigestInv'
  <2>1. CASE Pushed("nar", Item("chunk", Pulled)) /\ Moves("restorer", "begin")
    <3>1. Teed' = Teed + 1 /\ Teed + 1 = Pulled
      BY <1>1, <1>6, <2>1, Counts DEF Teed, Moves
    <3>2. ASSUME "narHasher" \notin failed
          PROVE  /\ Len(digest) + Len(queue'["nar"]) = Teed'
                 /\ \A i \in 1 .. Len(digest) : digest[i] = i
                 /\ \A i \in 1 .. Len(queue'["nar"]) : queue'["nar"][i] = Item("chunk", Len(digest) + i)
      <4>1. /\ Len(digest) + Len(queue["nar"]) = Teed
            /\ \A i \in 1 .. Len(digest) : digest[i] = i
            /\ \A i \in 1 .. Len(queue["nar"]) : queue["nar"][i] = Item("chunk", Len(digest) + i)
        BY <3>2 DEF FlowInv, DigestInv
      <4>2. Len(queue'["nar"]) = Len(queue["nar"]) + 1 /\ Len(digest) + (Len(queue["nar"]) + 1) = Pulled
        BY <2>1, <3>1, <4>1, Lengths, Counts DEF Pushed
      <4>3. ASSUME NEW i \in 1 .. Len(queue'["nar"]) PROVE queue'["nar"][i] = Item("chunk", Len(digest) + i)
        <5>1. CASE i \in 1 .. Len(queue["nar"])
          BY <2>1, <4>1, <5>1 DEF Pushed
        <5>2. CASE i = Len(queue["nar"]) + 1
          BY <2>1, <4>2, <5>2 DEF Pushed
        <5> QED BY <4>2, <5>1, <5>2, Lengths
      <4> QED BY <3>1, <4>1, <4>2, <4>3, Lengths, Counts
    <3> QED BY <1>1, <3>2 DEF DigestInv
  <2>2. CASE queue' = queue /\ pc' = pc
    <3>1. Teed' = Teed BY <1>6, <2>2 DEF Teed
    <3> QED BY <1>1, <2>2, <3>1, DigestSame DEF FlowInv
  <2> QED BY <1>3, <2>1, <2>2
<1>9. ReadyInv'
  <2>1. \A f : Ready(f) => Ready(f)'
    BY <1>1, <1>7 DEF Ready
  <2> QED BY <1>1, <1>4, <2>1, ReadySame DEF FlowInv, Queues
<1>10. FilesInv'
  BY <1>1, <1>4, <1>6, <1>7, FilesSame, EndSame DEF FlowInv, Queues
<1>11. EndedInv' /\ OutcomeInv'
  BY <1>1, <1>4 DEF FlowInv, EndedInv, OutcomeInv, AfterEvents, AfterHasher, AfterJoins, AfterStamp, Queues
<1> QED BY <1>6, <1>8, <1>9, <1>10, <1>11 DEF FlowInv

\* It opens the file and announces it.
LEMMA BeginFlow == ASSUME TypeOK, TypeOK', HoldsItem, FlowInv, Begin PROVE FlowInv'
<1> USE NamedThreads, Distinct
<1> DEFINE x == Item("data", Pulled)
<1>1. /\ UNCHANGED <<sent, digest, hashed, stamped, closed, failed, item>> /\ pc["restorer"] = "begin"
  BY DEF Begin, At
<1>2. Restoring BY <1>1 DEF Restoring
<1>3. \/ Pushed("events", x) /\ Moves("restorer", "write")
      \/ queue' = queue /\ pc' = pc
  BY <1>2, Held, ItemParts, PutEffect DEF Begin
<1>4. /\ \A k \in Queues \ {"events"} : queue'[k] = queue[k]
      /\ \A u \in Threads \ {"restorer"} : pc'[u] = pc[u]
      /\ pc'["restorer"] \in {"begin", "write"}
  BY <1>1, <1>3 DEF Pushed, Moves
<1>5. Restoring' BY <1>4 DEF Restoring
<1>6. RingInv' /\ Pulled' = Pulled
  BY <1>1, <1>2, <1>4, RingSame DEF FlowInv, Queues
<1>7. Past' = Past /\ Teed' = Teed
  BY <1>1, <1>2, <1>4, <1>5, <1>6 DEF Past, Teed
<1>8. DigestInv'
  BY <1>1, <1>4, <1>7, DigestSame DEF FlowInv, Queues
<1>9. \A f \in 1 .. Past : disk'[f] = disk[f]
  <2>1. disk' = [disk EXCEPT ![Pulled] = "open"] /\ Past = Pulled - 1 /\ Pulled \in Files
    BY <1>2, Held DEF Begin
  <2> QED BY <2>1, Lengths DEF TypeOK, Files
<1>10. \A f : Ready(f) => Ready(f)'
  BY <1>7, <1>9 DEF Ready
<1>11. CASE queue' = queue /\ pc' = pc
  <2>1. ReadyInv'
    BY <1>1, <1>10, <1>11, ReadySame DEF FlowInv
  <2>2. FilesInv'
    <3>1. \A f : EndUnderWay(f) => EndUnderWay(f)'
      BY <1>1, <1>11, EndSame
    <3> QED BY <1>1, <1>4, <1>7, <1>9, <3>1 DEF FlowInv, FilesInv
  <2>3. EndedInv' /\ OutcomeInv'
    BY <1>1, <1>4, <1>6, <1>11 DEF FlowInv, EndedInv, OutcomeInv, AfterEvents, AfterHasher, AfterJoins, AfterStamp, Queues
  <2> QED BY <1>6, <1>8, <2>1, <2>2, <2>3 DEF FlowInv
<1>12. CASE Pushed("events", x) /\ Moves("restorer", "write")
  <2>1. x[1] # "end" BY DEF Item
  <2>2. ASSUME NEW i \in 1 .. Len(queue'["events"]), queue'["events"][i][1] = "end"
        PROVE  i \in 1 .. Len(queue["events"]) /\ queue'["events"][i] = queue["events"][i]
    <3>1. i # Len(queue["events"]) + 1
      BY <1>12, <2>1, <2>2 DEF Pushed
    <3> QED BY <1>12, <3>1, Lengths DEF Pushed
  <2>3. ReadyInv'
    <3>1. ASSUME NEW i \in 1 .. Len(queue'["events"]), queue'["events"][i][1] = "end",
                 NEW f, f = FileOf(queue'["events"][i])
          PROVE  Ready(f)'
      BY <1>10, <2>2, <3>1 DEF FlowInv, ReadyInv, FileOf
    <3> QED BY <1>1, <1>4, <1>10, <3>1 DEF FlowInv, ReadyInv, FileOf, Queues
  <2>4. FilesInv'
    <3>1. \A f : EndUnderWay(f) => EndUnderWay(f)'
      <4>1. \A f : (\E i \in 1 .. Len(queue["events"]) : queue["events"][i] = Item("end", f))
                     => \E i \in 1 .. Len(queue'["events"]) : queue'["events"][i] = Item("end", f)
        BY <1>12, Lengths DEF Pushed
      <4> QED BY <1>1, <1>4, <4>1 DEF EndUnderWay
    <3> QED BY <1>1, <1>4, <1>7, <1>9, <3>1 DEF FlowInv, FilesInv
  <2>5. EndedInv' /\ OutcomeInv'
    BY <1>1, <1>4, <1>6 DEF FlowInv, EndedInv, OutcomeInv, AfterEvents, AfterHasher, AfterJoins, AfterStamp, Queues
  <2> QED BY <1>6, <1>8, <2>3, <2>4, <2>5 DEF FlowInv
<1> QED BY <1>3, <1>11, <1>12

\* It writes the file, or throws.
LEMMA WriteFlow == ASSUME TypeOK, TypeOK', HoldsItem, FlowInv, Write PROVE FlowInv'
<1> USE NamedThreads, Distinct
<1>1. UNCHANGED <<sent, digest, hashed, stamped, closed, item, queue>> /\ pc["restorer"] = "write"
  BY DEF Write, At
<1>2. Restoring BY <1>1 DEF Restoring
<1>3. \/ Moves("restorer", "end") /\ failed' = failed /\ disk' = [disk EXCEPT ![Pulled] = "finished"]
      \/ Moves("restorer", "closeEvents") /\ failed' = failed \cup {"restorer"} /\ disk' = disk
  BY <1>2, Held, Going DEF Write
<1>4. \A u \in Threads \ {"restorer"} : pc'[u] = pc[u]
  BY <1>3 DEF Moves
<1>5. pc'["restorer"] \in {"end", "closeEvents"}
  BY <1>3 DEF Moves
<1>6. RingInv' /\ Pulled' = Pulled
  BY <1>1, <1>2, RingSame DEF FlowInv
<1>7. Teed' = Teed
  BY <1>1, <1>5, <1>6 DEF Teed
<1>8. DigestInv'
  BY <1>1, <1>3, <1>7, DigestSame DEF FlowInv
<1>9. Past' \in {Past, Past + 1} /\ (pc'["restorer"] = "end" => Past' = Past)
  BY <1>2, <1>5, <1>6, Counts DEF Past, Restoring
<1>10. \A f \in Files : disk[f] \in {"finished", "linked"} => disk'[f] \in {"finished", "linked"}
  BY <1>3 DEF TypeOK
<1>11. \A f \in 1 .. Past : f \in Files
  BY <1>2, Held, Lengths DEF Files
<1>12. ReadyInv'
  <2>1. \A f : Ready(f) => Ready(f)'
    BY <1>9, <1>10, <1>11, Counts, ReadyStays
  <2> QED BY <1>1, <1>4, <2>1, ReadySame DEF FlowInv
<1>13. FilesInv'
  <2>1. \A f : EndUnderWay(f) => EndUnderWay(f)'
    BY <1>1, <1>4, EndSame
  <2>2. CASE Moves("restorer", "end") /\ failed' = failed /\ disk' = [disk EXCEPT ![Pulled] = "finished"]
    <3>1. disk'[Pulled] = "finished" /\ Past' = Past
      BY <1>2, <1>9, <2>2, Held DEF Moves, TypeOK
    <3> QED BY <1>1, <1>6, <1>10, <1>11, <2>1, <2>2, <3>1 DEF FlowInv, FilesInv
  <2>3. CASE Moves("restorer", "closeEvents") /\ failed' = failed \cup {"restorer"}
    BY <2>3 DEF FilesInv, Moves
  <2> QED BY <1>3, <2>2, <2>3
<1>14. EndedInv' /\ OutcomeInv'
  <2>1. pc'["restorer"] = "closeEvents" => "restorer" \in failed'
    BY <1>3 DEF Moves
  <2>2. failed \subseteq failed' /\ ("fileHasher" \in failed' => "fileHasher" \in failed)
    BY <1>3
  <2> QED BY <1>1, <1>4, <1>5, <2>1, <2>2
          DEF FlowInv, EndedInv, OutcomeInv, AfterEvents, AfterHasher, AfterJoins, AfterStamp, Queues
<1> QED BY <1>6, <1>8, <1>12, <1>13, <1>14 DEF FlowInv

\* It announces the end of the file.
LEMMA EndFlow == ASSUME TypeOK, TypeOK', HoldsItem, FlowInv, End PROVE FlowInv'
<1> USE NamedThreads, Distinct
<1> DEFINE x == Item("end", Pulled)
           to == IF Pulled = NumFiles THEN "closeEvents" ELSE "pull"
<1>1. UNCHANGED <<sent, digest, disk, hashed, stamped, closed, failed, item>> /\ pc["restorer"] = "end"
  BY DEF End, At, work
<1>2. Restoring BY <1>1 DEF Restoring
<1>3. \/ Pushed("events", x) /\ Moves("restorer", to)
      \/ queue' = queue /\ pc' = pc
  BY <1>2, Held, ItemParts, PutEffect DEF End
<1>4. /\ \A k \in Queues \ {"events"} : queue'[k] = queue[k]
      /\ \A u \in Threads \ {"restorer"} : pc'[u] = pc[u]
      /\ pc'["restorer"] \in {"end", "pull", "closeEvents"}
      /\ pc'["restorer"] = "closeEvents" => Pulled = NumFiles
  BY <1>1, <1>3 DEF Pushed, Moves
<1>5. RingInv' /\ Pulled' = Pulled
  BY <1>1, <1>2, <1>4, RingSame DEF FlowInv, Queues
<1>6. Teed' = Teed
  BY <1>1, <1>4, <1>5 DEF Teed
<1>7. DigestInv'
  BY <1>1, <1>4, <1>6, DigestSame DEF FlowInv, Queues
<1>8. EndedInv' /\ OutcomeInv'
  BY <1>1, <1>4, <1>5 DEF FlowInv, EndedInv, OutcomeInv, AfterEvents, AfterHasher, AfterJoins, AfterStamp, Queues
<1>9. CASE queue' = queue /\ pc' = pc
  <2>1. Past' = Past /\ \A f : Ready(f) => Ready(f)'
    BY <1>1, <1>5, <1>9 DEF Past, Restoring, Ready
  <2>2. ReadyInv'
    BY <1>1, <1>9, <2>1, ReadySame DEF FlowInv
  <2>3. FilesInv'
    BY <1>1, <1>5, <1>9, <2>1, FilesSame, EndSame DEF FlowInv
  <2> QED BY <1>5, <1>7, <1>8, <2>2, <2>3 DEF FlowInv
<1>10. CASE Pushed("events", x) /\ Moves("restorer", to)
  <2>1. Past' = Pulled /\ Past = Pulled - 1 /\ pc'["restorer"] # "end"
    BY <1>2, <1>5, <1>10 DEF Past, Restoring, Moves
  <2>2. \A f : Ready(f) => Ready(f)'
    BY <1>1, <2>1, Counts, ReadyStays
  <2>3. x[1] = "end" /\ FileOf(x) = Pulled /\ Pulled \in Files /\ disk[Pulled] \in {"finished", "linked"}
    BY <1>1, <1>2, Held DEF Item, FileOf, FlowInv, FilesInv
  <2>5. ReadyInv'
    <3>1. ASSUME NEW i \in 1 .. Len(queue'["events"]), queue'["events"][i][1] = "end",
                 NEW f, f = FileOf(queue'["events"][i])
          PROVE  Ready(f)'
      <4>1. CASE i \in 1 .. Len(queue["events"])
        BY <1>10, <2>2, <3>1, <4>1 DEF FlowInv, ReadyInv, FileOf, Pushed
      <4>2. CASE i = Len(queue["events"]) + 1
        <5>1. f = Pulled
          BY <1>10, <2>3, <3>1, <4>2 DEF Pushed
        <5> QED BY <1>1, <1>5, <2>1, <2>3, <5>1 DEF Ready, Files
      <4> QED BY <1>10, <4>1, <4>2, Lengths DEF Pushed
    <3> QED BY <1>1, <1>4, <2>2, <3>1 DEF FlowInv, ReadyInv, FileOf, Queues
  <2>6. FilesInv'
    <3>1. \A f : EndUnderWay(f) => EndUnderWay(f)'
      <4>1. \A f : (\E i \in 1 .. Len(queue["events"]) : queue["events"][i] = Item("end", f))
                     => \E i \in 1 .. Len(queue'["events"]) : queue'["events"][i] = Item("end", f)
        BY <1>10, Lengths DEF Pushed
      <4> QED BY <1>1, <1>4, <4>1 DEF EndUnderWay
    <3>2. \E i \in 1 .. Len(queue'["events"]) : queue'["events"][i] = Item("end", Pulled)
      BY <1>10, Lengths DEF Pushed
    <3>3. ASSUME NEW f \in 1 .. Pulled, f \notin 1 .. Past PROVE EndUnderWay(f)'
      <4>1. f = Pulled
        BY <2>1, <3>3, Counts
      <4> QED BY <3>2, <4>1 DEF EndUnderWay
    <3>4. ASSUME NEW f \in 1 .. Pulled, f \notin 1 .. Past PROVE disk[f] \in {"finished", "linked"}
      BY <2>1, <2>3, <3>4, Counts
    <3> QED BY <1>1, <2>1, <3>1, <3>3, <3>4 DEF FlowInv, FilesInv
  <2> QED BY <1>5, <1>7, <1>8, <2>5, <2>6 DEF FlowInv
<1> QED BY <1>3, <1>9, <1>10

\* Closing, joining and stamping: the files stay as they are.
LEMMA TailFlow ==
  ASSUME TypeOK, FlowInv, CloseEvents \/ CloseJobs \/ JoinSwappers \/ Stamp \/ CloseNar \/ Quit
  PROVE  FlowInv'
<1> USE NamedThreads, Distinct
<1>1. UNCHANGED <<sent, digest, disk, hashed, item, queue>>
  BY DEF CloseEvents, CloseJobs, JoinSwappers, Stamp, CloseNar, Quit, Close, work
<1>2. failed' \in {failed, failed \cup {"restorer"}}
  BY DEF CloseEvents, CloseJobs, JoinSwappers, Stamp, CloseNar, Quit, work
<1>3. \E to \in {"joinHasher", "joinSwappers", "stamp", "closeNar", "joinNar", "ended"} : Moves("restorer", to)
  BY Going DEF CloseEvents, CloseJobs, JoinSwappers, Stamp, CloseNar, Quit, Close
<1>4. \A u \in Threads \ {"restorer"} : pc'[u] = pc[u]
  BY <1>3 DEF Moves
<1>5. pc'["restorer"] \in {"joinHasher", "joinSwappers", "stamp", "closeNar", "joinNar", "ended"}
  BY <1>3 DEF Moves
<1>6. ~Restoring /\ ~Restoring' /\ pc["restorer"] \notin {"tee", "end"}
  BY <1>5 DEF Restoring, CloseEvents, CloseJobs, JoinSwappers, Stamp, CloseNar, Quit, At
<1>7. RingInv' /\ Pulled' = Pulled
  BY <1>1, <1>6, RingSame DEF FlowInv
<1>8. Past' = Past /\ Teed' = Teed
  BY <1>5, <1>6, <1>7 DEF Past, Teed
<1>9. DigestInv'
  BY <1>1, <1>2, <1>8, DigestSame DEF FlowInv
<1>10. ReadyInv'
  <2>1. \A f : Ready(f) => Ready(f)'
    BY <1>1, <1>8 DEF Ready
  <2> QED BY <1>1, <1>4, <2>1, ReadySame DEF FlowInv
<1>11. FilesInv'
  BY <1>1, <1>2, <1>4, <1>5, <1>7, <1>8, FilesSame, EndSame DEF FlowInv
<1>12. EndedInv' /\ OutcomeInv'
  <2> USE DEF FlowInv, EndedInv, OutcomeInv, AfterEvents, AfterHasher, AfterJoins, AfterStamp
  <2>1. CASE CloseEvents
    <3>1. /\ pc["restorer"] = "closeEvents" /\ pc'["restorer"] = "joinHasher" /\ UNCHANGED <<failed, stamped>>
          /\ closed'["nar"] = closed["nar"]
      BY <2>1 DEF CloseEvents, At, Close, Goto, work, TypeOK, Queues
    <3>2. closed["events"] => closed'["events"]
      BY <2>1 DEF CloseEvents, Close, TypeOK
    <3> QED BY <1>1, <1>4, <1>7, <3>1, <3>2
  <2>2. CASE CloseJobs
    <3>1. /\ pc["restorer"] = "joinHasher" /\ pc'["restorer"] = "joinSwappers" /\ UNCHANGED <<failed, stamped>>
          /\ closed'["nar"] = closed["nar"] /\ closed'["events"] = closed["events"] /\ pc["fileHasher"] = "ended"
      BY <2>2 DEF CloseJobs, At, Ended, Close, Goto, work, TypeOK, Queues
    <3> QED BY <1>1, <1>4, <1>7, <3>1
  <2>3. CASE JoinSwappers
    <3>1. /\ pc["restorer"] = "joinSwappers" /\ UNCHANGED <<closed, stamped>> /\ \A s \in Swappers : pc[s] = "ended"
          /\ \/ pc'["restorer"] = "stamp" /\ failed' = failed /\ failed \cap {"restorer", "fileHasher"} = {}
             \/ pc'["restorer"] = "closeNar" /\ "restorer" \in failed'
      BY <2>3 DEF JoinSwappers, At, Ended, Goto, TypeOK
    <3> QED BY <1>1, <1>4, <1>7, <3>1
  <2>4. CASE Stamp
    <3>1. pc["restorer"] = "stamp" /\ pc'["restorer"] = "closeNar" /\ UNCHANGED <<closed, failed>> /\ stamped'
      BY <2>4 DEF Stamp, At, Goto, TypeOK
    <3> QED BY <1>1, <1>4, <1>7, <3>1
  <2>5. CASE CloseNar
    <3>1. /\ pc["restorer"] = "closeNar" /\ pc'["restorer"] = "joinNar" /\ UNCHANGED <<failed, stamped>>
          /\ closed'["events"] = closed["events"]
      BY <2>5 DEF CloseNar, At, Close, Goto, work, TypeOK, Queues
    <3>2. closed["nar"] => closed'["nar"]
      BY <2>5 DEF CloseNar, Close, TypeOK
    <3> QED BY <1>1, <1>4, <1>7, <3>1, <3>2
  <2>6. CASE Quit
    <3>1. /\ pc["restorer"] = "joinNar" /\ pc'["restorer"] = "ended" /\ UNCHANGED <<closed, stamped>>
          /\ pc["narHasher"] = "ended" /\ (failed' = failed \/ "restorer" \in failed')
          /\ "narHasher" \in failed => "restorer" \in failed'
      BY <2>6 DEF Quit, At, Ended, Goto, TypeOK
    <3> QED BY <1>1, <1>2, <1>4, <1>7, <3>1
  <2> QED BY <2>1, <2>2, <2>3, <2>4, <2>5, <2>6
<1> QED BY <1>7, <1>9, <1>10, <1>11, <1>12 DEF FlowInv

\* The NAR hasher digests the next chunk, or throws, or ends.
LEMMA DigestFlow == ASSUME TypeOK, TypeOK', FlowInv, Digest PROVE FlowInv'
<1> USE NamedThreads, Distinct
<1>1. UNCHANGED <<sent, disk, hashed, stamped, closed>> /\ failed' \in {failed, failed \cup {"narHasher"}}
      /\ pc["narHasher"] = "take"
  BY DEF Digest, At
<1>2. \/ /\ Popped("nar") /\ queue["nar"] # <<>> /\ Keeps("narHasher") /\ Moves("narHasher", "take")
      \/ queue["nar"] = <<>> /\ closed["nar"] /\ queue' = queue /\ item' = item /\ Moves("narHasher", "ended")
      \/ queue["nar"] = <<>> /\ queue' = queue /\ item' = item /\ pc' = pc
  BY GetEffect DEF Digest
<1>3. /\ \A k \in Queues \ {"nar"} : queue'[k] = queue[k]
      /\ \A u \in Threads \ {"narHasher"} : pc'[u] = pc[u] /\ item'[u] = item[u]
  BY <1>2 DEF Popped, Keeps, Moves
<1>4. RingInv' /\ Pulled' = Pulled
  BY <1>1, <1>3, RingSame DEF FlowInv, Restoring, Queues
<1>5. Past' = Past /\ Teed' = Teed
  BY <1>3, <1>4 DEF Past, Teed, Restoring
<1>6. DigestInv'
  <2>1. CASE "narHasher" \in failed'
    BY <2>1 DEF DigestInv
  <2>2. CASE queue["nar"] = <<>>
    <3>1. queue' = queue /\ failed' = failed /\ digest' = digest
      BY <1>2, <2>2 DEF Digest
    <3> QED BY <1>5, <3>1, DigestSame DEF FlowInv
  <2>3. CASE queue["nar"] # <<>> /\ "narHasher" \notin failed'
    <3>1. digest' = Append(digest, FileOf(Head(queue["nar"]))) /\ failed' = failed
      BY <2>3 DEF Digest
    <3>2. Popped("nar") /\ queue["nar"] \in Seq(Items)
      BY <1>2, <2>3 DEF TypeOK
    <3>3. /\ Len(digest) + Len(queue["nar"]) = Teed
          /\ \A i \in 1 .. Len(digest) : digest[i] = i
          /\ \A i \in 1 .. Len(queue["nar"]) : queue["nar"][i] = Item("chunk", Len(digest) + i)
      BY <2>3, <3>1 DEF FlowInv, DigestInv
    <3>4. Head(queue["nar"]) = Item("chunk", Len(digest) + 1)
      <4>1. 1 \in 1 .. Len(queue["nar"]) /\ Head(queue["nar"]) = queue["nar"][1]
        BY <2>3, <3>2, Lengths DEF Popped
      <4> QED BY <3>3, <4>1
    <3>5. /\ digest' = Append(digest, Len(digest) + 1) /\ digest \in Seq(Files)
          /\ Len(digest) + 1 \in Files
      <4>1. Head(queue["nar"]) \in Items
        BY <2>3, <3>2
      <4>2. FileOf(Head(queue["nar"])) = Len(digest) + 1
        BY <3>4 DEF Item, FileOf
      <4> QED BY <3>1, <4>1, <4>2, ItemParts DEF TypeOK
    <3>6. Len(digest') = Len(digest) + 1 /\ \A i \in 1 .. Len(digest) + 1 : digest'[i] = i
      <4>1. /\ Len(digest') = Len(digest) + 1 /\ digest'[Len(digest) + 1] = Len(digest) + 1
            /\ \A i \in 1 .. Len(digest) : digest'[i] = digest[i]
        BY ONLY <3>5, Growing
      <4> QED BY <3>3, <4>1, Lengths
    <3>7. ASSUME NEW i \in 1 .. Len(queue["nar"]) - 1
          PROVE  queue'["nar"][i] = Item("chunk", Len(digest) + 1 + i)
      <4>1. i + 1 \in 1 .. Len(queue["nar"]) /\ Len(digest) + (i + 1) = Len(digest) + 1 + i
        BY Lengths
      <4>2. queue["nar"][i + 1] = Item("chunk", Len(digest) + (i + 1))
        BY <3>3, <4>1
      <4> QED BY <3>2, <4>1, <4>2 DEF Popped
    <3>8. Len(queue'["nar"]) = Len(queue["nar"]) - 1 /\ Len(digest') + Len(queue'["nar"]) = Teed'
      <4>1. Len(queue'["nar"]) = Len(queue["nar"]) - 1
        BY <3>2 DEF Popped
      <4>2. "nar" \in Queues
        BY DEF Queues
      <4>3. Len(queue["nar"]) \in Nat /\ Len(digest) \in Nat
        BY <4>2, Lengths
      <4>4. Len(digest') + Len(queue'["nar"]) = Len(digest) + Len(queue["nar"])
        <5> DEFINE a == Len(digest) b == Len(queue["nar"]) c == Len(queue'["nar"]) d == Len(digest')
        <5>1. a \in Nat /\ b \in Nat /\ c = b - 1 /\ d = a + 1
          BY <3>6, <4>1, <4>3
        <5> HIDE DEF a, b, c, d
        <5>2. d + c = a + b
          BY ONLY <5>1
        <5> QED BY <5>2 DEF a, b, c, d
      <4> QED BY ONLY <1>5, <3>3, <4>1, <4>4
    <3> QED BY <3>6, <3>7, <3>8 DEF DigestInv
  <2> QED BY <2>1, <2>2, <2>3
<1>7. ReadyInv'
  <2>1. \A f : Ready(f) => Ready(f)'
    BY <1>1, <1>5 DEF Ready
  <2> QED BY <1>3, <2>1, ReadySame DEF FlowInv, Queues
<1>8. FilesInv'
  BY <1>1, <1>3, <1>4, <1>5, FilesSame, EndSame DEF FlowInv, Queues
<1>9. EndedInv' /\ OutcomeInv'
  <2> USE DEF FlowInv, EndedInv, OutcomeInv, AfterEvents, AfterHasher, AfterJoins, AfterStamp
  <2>1. pc'["narHasher"] = "ended" => closed["nar"] /\ queue'["nar"] = <<>>
    BY <1>1, <1>2 DEF Moves
  <2>2. pc["restorer"] # "ended"
    BY <1>1
  <2> QED BY <1>1, <1>3, <1>4, <2>1, <2>2 DEF Queues
<1> QED BY <1>4, <1>6, <1>7, <1>8, <1>9 DEF FlowInv

\* What a step of a hasher or swapper t leaves alone that touches neither the ring nor
\* nar.
LEMMA WorkerFrame ==
  ASSUME TypeOK, FlowInv, NEW t \in Swappers \cup {"fileHasher"},
         UNCHANGED <<sent, digest, stamped, closed>>, failed' \in {failed, failed \cup {"fileHasher"}},
         queue'["ring"] = queue["ring"], queue'["nar"] = queue["nar"],
         \A u \in Threads \ {t} : pc'[u] = pc[u] /\ item'[u] = item[u]
  PROVE  /\ RingInv' /\ DigestInv'
         /\ Pulled' = Pulled /\ Past' = Past /\ Teed' = Teed
         /\ pc'["restorer"] = pc["restorer"]
<1> USE NamedThreads, Distinct
<1>1. pc'["restorer"] = pc["restorer"] /\ item'["restorer"] = item["restorer"]
  OBVIOUS
<1>2. RingInv' /\ Pulled' = Pulled
  BY <1>1, RingSame DEF FlowInv, Restoring
<1>3. Past' = Past /\ Teed' = Teed
  BY <1>1, <1>2 DEF Past, Teed, Restoring
<1>4. DigestInv'
  BY <1>3, DigestSame DEF FlowInv
<1> QED BY <1>1, <1>2, <1>3, <1>4

\* The file hasher takes an event, ends, or goes to sleep.
LEMMA TakeEventFlow == ASSUME TypeOK, FlowInv, TakeEvent PROVE FlowInv'
<1> USE NamedThreads, Distinct
<1> DEFINE fh == "fileHasher"
<1>1. UNCHANGED <<sent, disk, digest, hashed, stamped, closed, failed>> /\ pc[fh] = "take"
  BY DEF TakeEvent, At, work
<1>2. \/ /\ queue["events"] # <<>> /\ Popped("events") /\ queue["events"][1] \in Items
         /\ item'[fh] = queue["events"][1] /\ Keeps(fh) /\ Moves(fh, "work")
      \/ queue["events"] = <<>> /\ closed["events"] /\ queue' = queue /\ item' = item /\ Moves(fh, "ended")
      \/ queue["events"] = <<>> /\ queue' = queue /\ item' = item /\ pc' = pc
  BY GetEffect DEF TakeEvent, Queues
<1>3. /\ \A k \in Queues \ {"events"} : queue'[k] = queue[k]
      /\ \A u \in Threads \ {fh} : pc'[u] = pc[u] /\ item'[u] = item[u]
  BY <1>2 DEF Popped, Keeps, Moves
<1>4. /\ RingInv' /\ DigestInv' /\ Pulled' = Pulled /\ Past' = Past /\ pc'["restorer"] = pc["restorer"]
  BY <1>1, <1>3, WorkerFrame DEF Queues
<1>5. \A f : Ready(f) => Ready(f)'
  BY <1>1, <1>4 DEF Ready
<1>6. EndedInv' /\ OutcomeInv'
  <2>1. pc'[fh] = "ended" => closed["events"] /\ queue'["events"] = <<>>
    BY <1>1, <1>2 DEF Moves
  <2> QED BY <1>1, <1>3, <1>4, <2>1
          DEF FlowInv, EndedInv, OutcomeInv, AfterEvents, AfterHasher, AfterJoins, AfterStamp, Queues
<1>7. ReadyInv' /\ FilesInv'
  <2>1. CASE queue' = queue /\ item' = item /\ pc'[fh] # "work" /\ pc'[fh] # "post"
    <3>1. ReadyInv'
      BY <1>3, <1>5, <2>1 DEF FlowInv, ReadyInv, FileOf
    <3>2. \A f : EndUnderWay(f) => EndUnderWay(f)'
      BY <1>1, <2>1 DEF EndUnderWay
    <3> QED BY <1>1, <1>4, <3>1, <3>2, FilesSame DEF FlowInv
  <2>2. CASE Popped("events") /\ item'[fh] = queue["events"][1] /\ Moves(fh, "work")
    <3>1. ReadyInv'
      <4>1. ASSUME NEW i \in 1 .. Len(queue'["events"]), queue'["events"][i][1] = "end",
                   NEW f, f = FileOf(queue'["events"][i])
            PROVE  Ready(f)'
        <5>1. i + 1 \in 1 .. Len(queue["events"]) /\ queue'["events"][i] = queue["events"][i + 1]
          BY <2>2, Lengths DEF Popped
        <5> QED BY <1>5, <4>1, <5>1 DEF FlowInv, ReadyInv
      <4>2. ASSUME item'[fh][1] = "end", NEW f, f = FileOf(item'[fh]) PROVE Ready(f)'
        <5>1. 1 \in 1 .. Len(queue["events"])
          BY <2>2, Lengths DEF Popped
        <5> QED BY <1>5, <2>2, <4>2, <5>1 DEF FlowInv, ReadyInv
      <4> QED BY <1>3, <1>5, <2>2, <4>1, <4>2 DEF FlowInv, ReadyInv, FileOf, Moves, Queues
    <3>2. ASSUME NEW f, EndUnderWay(f) PROVE EndUnderWay(f)'
      <4>1. PICK i \in 1 .. Len(queue["events"]) : queue["events"][i] = Item("end", f)
        BY <1>1, <3>2 DEF EndUnderWay
      <4>2. CASE i = 1
        BY <2>2, <4>1, <4>2 DEF EndUnderWay, Moves
      <4>3. CASE i # 1
        <5>1. i - 1 \in 1 .. Len(queue'["events"]) /\ queue'["events"][i - 1] = queue["events"][(i - 1) + 1]
              /\ (i - 1) + 1 = i
          BY <2>2, <4>3, Lengths DEF Popped
        <5> QED BY <4>1, <5>1 DEF EndUnderWay
      <4> QED BY <4>2, <4>3
    <3> QED BY <1>1, <1>4, <3>1, <3>2, FilesSame DEF FlowInv
  <2> QED BY <1>1, <1>2, <2>1, <2>2 DEF Moves
<1> QED BY <1>4, <1>6, <1>7 DEF FlowInv

\* It drops an event, or has dealt with it.
LEMMA HashFlow == ASSUME TypeOK, FlowInv, HashFails \/ HashData \/ HashEnd PROVE FlowInv'
<1> USE NamedThreads, Distinct
<1> DEFINE fh == "fileHasher"
<1>1. UNCHANGED <<sent, disk, digest, stamped, closed, queue>> /\ pc[fh] = "work"
  BY DEF HashFails, HashData, HashEnd, At, work
<1>2. \/ Moves(fh, "take") /\ Keeps(fh)
      \/ Moves(fh, "post") /\ item' = item /\ item[fh][1] = "end" /\ failed' = failed /\ hashed' = hashed
  BY AgainEffect, Going DEF HashFails, HashData, HashEnd
<1>3. \A u \in Threads \ {fh} : pc'[u] = pc[u] /\ item'[u] = item[u]
  BY <1>2 DEF Moves, Keeps
<1>4. failed' \in {failed, failed \cup {fh}} /\ hashed \subseteq hashed'
  BY DEF HashFails, HashData, HashEnd, Record, work
<1>5. RingInv' /\ DigestInv' /\ Pulled' = Pulled /\ Past' = Past /\ pc'["restorer"] = pc["restorer"]
  BY <1>1, <1>3, <1>4, WorkerFrame
<1>6. \A f : Ready(f) => Ready(f)'
  BY <1>1, <1>5 DEF Ready
<1>7. pc'[fh] \in {"take", "post"}
  BY <1>2 DEF Moves
<1>8. ReadyInv'
  <2>1. CASE pc'[fh] = "take"
    BY <1>1, <1>3, <1>6, <2>1 DEF FlowInv, ReadyInv, FileOf
  <2>2. CASE pc'[fh] = "post"
    <3>1. item' = item /\ item[fh][1] = "end"
      BY <1>2, <2>2 DEF Moves
    <3> QED BY <1>1, <1>3, <1>6, <3>1 DEF FlowInv, ReadyInv, FileOf
  <2> QED BY <1>7, <2>1, <2>2
<1>9. FilesInv'
  <2>1. ASSUME NEW f, EndUnderWay(f) PROVE fh \in failed' \/ f \in hashed' \/ EndUnderWay(f)'
    <3>1. CASE \E i \in 1 .. Len(queue["events"]) : queue["events"][i] = Item("end", f)
      BY <1>1, <3>1 DEF EndUnderWay
    <3>2. CASE item[fh] = Item("end", f)
      <4>1. item[fh][1] = "end" /\ FileOf(item[fh]) = f
        BY <3>2 DEF Item, FileOf
      <4>2. CASE HashFails
        BY <4>2 DEF HashFails
      <4>3. CASE HashData
        BY <4>1, <4>3 DEF HashData
      <4>4. CASE HashEnd
        <5>1. (Goto(fh, "post") /\ item' = item) \/ f \in hashed'
          BY <4>1, <4>4 DEF HashEnd, Record
        <5>2. CASE Goto(fh, "post") /\ item' = item
          BY <3>2, <5>2, Going DEF EndUnderWay, Moves
        <5> QED BY <5>1, <5>2
      <4> QED BY <4>2, <4>3, <4>4
    <3> QED BY <2>1, <3>1, <3>2 DEF EndUnderWay
  <2> QED BY <1>1, <1>4, <1>5, <2>1, FilesSame DEF FlowInv
<1>10. EndedInv' /\ OutcomeInv'
  BY <1>1, <1>3, <1>4, <1>5, <1>7
  DEF FlowInv, EndedInv, OutcomeInv, AfterEvents, AfterHasher, AfterJoins, AfterStamp
<1> QED BY <1>5, <1>8, <1>9, <1>10 DEF FlowInv

\* It posts the file for a swap.
LEMMA PostFlow == ASSUME TypeOK, HoldsItem, FlowInv, Post PROVE FlowInv'
<1> USE NamedThreads, Distinct
<1> DEFINE fh == "fileHasher"
           f == FileOf(item[fh])
           x == Item("job", f)
<1>1. UNCHANGED <<sent, disk, digest, stamped, closed, failed>> /\ pc[fh] = "post"
  BY DEF Post, At
<1>2. item[fh] \in Items /\ item[fh][1] = "end" /\ Ready(f)
  BY <1>1 DEF HoldsItem, FlowInv, ReadyInv
<1>3. x \in Items /\ FileOf(x) = f
  BY <1>2, ItemParts DEF Item, FileOf
<1>4. \/ Pushed("jobs", x) /\ Moves(fh, "take")
      \/ queue' = queue /\ pc' = pc
  BY <1>3, PutEffect DEF Post, Queues
<1>5. \/ pc'[fh] = "take" /\ hashed' = hashed \cup {f} /\ Keeps(fh)
      \/ pc'[fh] = "post" /\ UNCHANGED <<item, hashed>>
  BY DEF Post, Record, Keeps, TypeOK
<1>6. /\ \A k \in Queues \ {"jobs"} : queue'[k] = queue[k]
      /\ \A u \in Threads \ {fh} : pc'[u] = pc[u] /\ item'[u] = item[u]
  BY <1>4, <1>5 DEF Pushed, Moves, Keeps
<1>7. RingInv' /\ DigestInv' /\ Pulled' = Pulled /\ Past' = Past /\ pc'["restorer"] = pc["restorer"]
  BY <1>1, <1>6, WorkerFrame DEF Queues
<1>8. \A g : Ready(g) => Ready(g)'
  BY <1>1, <1>7 DEF Ready
<1>9. ReadyInv'
  <2>1. ASSUME NEW i \in 1 .. Len(queue'["jobs"]), NEW g, g = FileOf(queue'["jobs"][i]) PROVE Ready(g)'
    <3>1. CASE queue' = queue
      BY <1>8, <2>1, <3>1 DEF FlowInv, ReadyInv
    <3>2. CASE Pushed("jobs", x)
      <4>1. CASE i \in 1 .. Len(queue["jobs"])
        BY <1>8, <2>1, <3>2, <4>1 DEF FlowInv, ReadyInv, Pushed
      <4>2. CASE i = Len(queue["jobs"]) + 1
        <5>1. g = f
          BY <1>3, <2>1, <3>2, <4>2 DEF Pushed
        <5> QED BY <1>2, <1>8, <5>1
      <4> QED BY <3>2, <4>1, <4>2, Lengths DEF Pushed
    <3> QED BY <1>4, <3>1, <3>2
  <2>2. CASE pc'[fh] = "take"
    BY <1>6, <1>8, <2>1, <2>2 DEF FlowInv, ReadyInv, FileOf, Queues
  <2>3. CASE pc'[fh] = "post" /\ item' = item
    BY <1>1, <1>6, <1>8, <2>1, <2>3 DEF FlowInv, ReadyInv, FileOf, Queues
  <2> QED BY <1>5, <2>1, <2>2, <2>3
<1>10. FilesInv'
  <2>1. ASSUME NEW g, EndUnderWay(g) PROVE g \in hashed' \/ EndUnderWay(g)'
    <3>1. CASE \E i \in 1 .. Len(queue["events"]) : queue["events"][i] = Item("end", g)
      BY <1>6, <3>1 DEF EndUnderWay, Queues
    <3>2. CASE item[fh] = Item("end", g)
      <4>1. g = f
        BY <3>2 DEF Item, FileOf
      <4> QED BY <1>5, <3>2, <4>1 DEF EndUnderWay
    <3> QED BY <2>1, <3>1, <3>2 DEF EndUnderWay
  <2>2. hashed \subseteq hashed'
    BY <1>5
  <2> QED BY <1>1, <1>7, <2>1, <2>2, FilesSame DEF FlowInv
<1>11. EndedInv' /\ OutcomeInv'
  BY <1>1, <1>5, <1>6, <1>7
  DEF FlowInv, EndedInv, OutcomeInv, AfterEvents, AfterHasher, AfterJoins, AfterStamp, Queues
<1> QED BY <1>7, <1>9, <1>10, <1>11 DEF FlowInv

\* A swapper takes a job, ends, or goes to sleep.
LEMMA TakeJobFlow ==
  ASSUME TypeOK, FlowInv, NEW s \in Swappers, TakeJob(s)
  PROVE  FlowInv'
<1> USE NamedThreads, Distinct
<1>1. UNCHANGED <<sent, disk, digest, hashed, stamped, closed, failed>> /\ pc[s] = "take"
  BY DEF TakeJob, At, work
<1>2. \/ Popped("jobs") /\ item'[s] = queue["jobs"][1] /\ Keeps(s) /\ Moves(s, "work")
      \/ queue' = queue /\ item' = item /\ Moves(s, "ended")
      \/ queue' = queue /\ item' = item /\ pc' = pc
  BY GetEffect DEF TakeJob, Queues
<1>3. /\ \A k \in Queues \ {"jobs"} : queue'[k] = queue[k]
      /\ \A u \in Threads \ {s} : pc'[u] = pc[u] /\ item'[u] = item[u]
  BY <1>2 DEF Popped, Keeps, Moves
<1>4. RingInv' /\ DigestInv' /\ Pulled' = Pulled /\ Past' = Past /\ pc'["restorer"] = pc["restorer"]
  BY <1>1, <1>3, WorkerFrame DEF Queues
<1>5. \A f : Ready(f) => Ready(f)'
  BY <1>1, <1>4 DEF Ready
<1>6. ReadyInv'
  <2>1. ASSUME NEW i \in 1 .. Len(queue'["jobs"]), NEW f, f = FileOf(queue'["jobs"][i]) PROVE Ready(f)'
    <3>1. CASE queue' = queue
      BY <1>5, <2>1, <3>1 DEF FlowInv, ReadyInv
    <3>2. CASE Popped("jobs")
      <4>1. i + 1 \in 1 .. Len(queue["jobs"]) /\ queue'["jobs"][i] = queue["jobs"][i + 1]
        BY <3>2, Lengths DEF Popped
      <4> QED BY <1>5, <2>1, <4>1 DEF FlowInv, ReadyInv
    <3> QED BY <1>2, <3>1, <3>2
  <2>2. ASSUME pc'[s] = "work", NEW f, f = FileOf(item'[s]) PROVE Ready(f)'
    <3>1. Popped("jobs") /\ item'[s] = queue["jobs"][1]
      BY <1>1, <1>2, <2>2 DEF Moves
    <3>2. 1 \in 1 .. Len(queue["jobs"])
      BY <3>1, Lengths DEF Popped
    <3> QED BY <1>5, <2>2, <3>1, <3>2 DEF FlowInv, ReadyInv
  <2>3. ASSUME NEW r \in Swappers, pc'[r] = "work", NEW f, f = FileOf(item'[r]) PROVE Ready(f)'
    BY <1>3, <1>5, <2>2, <2>3 DEF FlowInv, ReadyInv, FileOf
  <2> QED BY <1>3, <1>5, <2>1, <2>3 DEF FlowInv, ReadyInv, FileOf, Queues
<1>7. FilesInv'
  BY <1>1, <1>3, <1>4, FilesSame, EndSame DEF FlowInv, Queues
<1>8. EndedInv' /\ OutcomeInv'
  BY <1>1, <1>3, <1>4
  DEF FlowInv, EndedInv, OutcomeInv, AfterEvents, AfterHasher, AfterJoins, AfterStamp, Queues
<1> QED BY <1>4, <1>6, <1>7, <1>8 DEF FlowInv

\* It swaps the file, or leaves it.  The file is finished and the directories are not
\* yet stamped.
LEMMA SwapFlow ==
  ASSUME TypeOK, HoldsItem, FlowInv, NEW s \in Swappers, Swap(s)
  PROVE  /\ FlowInv' /\ ~stamped
         /\ \A f \in Files : disk'[f] # disk[f] => disk[f] \in {"finished", "linked"}
<1> USE NamedThreads, Distinct
<1> DEFINE f == FileOf(item[s])
<1>1. UNCHANGED <<sent, digest, hashed, stamped, closed, failed, queue>> /\ pc[s] = "work"
  BY DEF Swap, At
<1>2. Keeps(s) /\ Moves(s, "take")
  BY AgainEffect DEF Swap
<1>3. \A u \in Threads \ {s} : pc'[u] = pc[u] /\ item'[u] = item[u]
  BY <1>2 DEF Keeps, Moves
<1>4. f \in Files /\ Ready(f)
  BY <1>1, ItemParts DEF HoldsItem, FlowInv, ReadyInv
<1>5. \A g \in Files : disk'[g] = disk[g] \/ (g = f /\ disk'[g] = "linked")
  BY <1>4 DEF Swap, TypeOK
<1>6. RingInv' /\ DigestInv' /\ Pulled' = Pulled /\ Past' = Past /\ pc'["restorer"] = pc["restorer"]
  BY <1>1, <1>3, WorkerFrame
<1>7. \A g \in 1 .. Past : g \in Files
  <2>1. Pulled <= NumFiles
    BY Lengths, SizesAssumption DEF Pulled, TypeOK, Queues
  <2> QED BY <2>1, Counts, Lengths DEF Files
<1>8. \A g \in Files : disk[g] \in {"finished", "linked"} => disk'[g] \in {"finished", "linked"}
  BY <1>5
<1>9. \A g : Ready(g) => Ready(g)'
  BY <1>6, <1>7, <1>8 DEF Ready
<1>10. ReadyInv'
  BY <1>1, <1>2, <1>3, <1>9 DEF FlowInv, ReadyInv, FileOf, Moves
<1>11. FilesInv'
  <2>1. \A g : EndUnderWay(g) => EndUnderWay(g)'
    BY <1>1, <1>3, EndSame
  <2>2. pc["restorer"] = "end" => Pulled \in Files
    BY Held DEF Restoring
  <2> QED BY <1>1, <1>6, <1>7, <1>8, <2>1, <2>2 DEF FlowInv, FilesInv
<1>12. EndedInv' /\ OutcomeInv' /\ ~stamped
  BY <1>1, <1>3, <1>6
  DEF FlowInv, EndedInv, OutcomeInv, AfterEvents, AfterHasher, AfterJoins, AfterStamp
<1>13. \A g \in Files : disk'[g] # disk[g] => disk[g] \in {"finished", "linked"}
  BY <1>4, <1>5 DEF Ready
<1> QED BY <1>6, <1>10, <1>11, <1>12, <1>13 DEF FlowInv

\* Waking up and standing still change none of this.
LEMMA WakingFlow ==
  ASSUME FlowInv, UNCHANGED <<queue, closed, pc, item, work>>
  PROVE  FlowInv'
<1>1. UNCHANGED <<sent, disk, digest, hashed, stamped, failed>>
  BY DEF work
<1>2. Pulled' = Pulled /\ Past' = Past /\ Teed' = Teed /\ (Restoring' <=> Restoring)
  BY <1>1 DEF Pulled, Past, Teed, Restoring
<1>3. RingInv' /\ DigestInv'
  BY <1>1, <1>2 DEF FlowInv, RingInv, DigestInv
<1>4. \A f : Ready(f) => Ready(f)'
  BY <1>1, <1>2 DEF Ready
<1>5. ReadyInv'
  BY <1>4 DEF FlowInv, ReadyInv, FileOf
<1>6. FilesInv'
  BY <1>1, <1>2, FilesSame, EndSame DEF FlowInv
<1>7. EndedInv' /\ OutcomeInv'
  BY <1>1, <1>2 DEF FlowInv, EndedInv, OutcomeInv, AfterEvents, AfterHasher, AfterJoins, AfterStamp
<1> QED BY <1>3, <1>5, <1>6, <1>7 DEF FlowInv

LEMMA FlowStarts == Init => FlowInv
<1> SUFFICES ASSUME Init PROVE FlowInv
  OBVIOUS
<1> USE NamedThreads, Distinct
<1>1. /\ \A k \in Queues : queue[k] = <<>> /\ Len(queue[k]) = 0 /\ ~closed[k]
      /\ pc["dumper"] = "dump" /\ pc["restorer"] = "pull" /\ pc["fileHasher"] = "take"
      /\ pc["narHasher"] = "take" /\ \A s \in Swappers : pc[s] = "take"
      /\ sent = 0 /\ digest = <<>> /\ Len(digest) = 0 /\ ~stamped
  BY DEF Init
<1>2. Pulled = 0 /\ Past = 0 /\ Teed = 0 /\ ~Restoring
  BY <1>1 DEF Pulled, Past, Teed, Restoring, Queues
<1>3. RingInv /\ DigestInv
  BY <1>1, <1>2 DEF RingInv, DigestInv, Queues
<1>4. ReadyInv /\ FilesInv
  BY <1>1, <1>2 DEF ReadyInv, FilesInv, Queues
<1>5. EndedInv /\ OutcomeInv
  BY <1>1 DEF EndedInv, OutcomeInv, AfterEvents, AfterHasher, AfterJoins, AfterStamp, Queues
<1> QED BY <1>3, <1>4, <1>5 DEF FlowInv

LEMMA FlowStep ==
  ASSUME WakeupInv, WakeupInv', FlowInv, [Next]_vars
  PROVE  FlowInv'
<1> USE DEF WakeupInv
<1>1. CASE Dumper \/ DumpFails
  BY <1>1, DumperFlow
<1>2. CASE Restorer
  BY <1>2, PullFlow, TeeFlow, BeginFlow, WriteFlow, EndFlow, TailFlow DEF Restorer
<1>3. CASE Digest
  BY <1>3, DigestFlow
<1>4. CASE FileHasher
  BY <1>4, TakeEventFlow, HashFlow, PostFlow DEF FileHasher
<1>5. CASE \E s \in Swappers : Swapper(s)
  BY <1>5, TakeJobFlow, SwapFlow DEF Swapper
<1>6. CASE (\E t \in Threads : Notify(t) \/ WakeSpuriously(t)) \/ UNCHANGED vars
  BY <1>6, WakingFlow DEF Notify, WakeSpuriously, vars
<1> QED BY <1>1, <1>2, <1>3, <1>4, <1>5, <1>6 DEF Next

\* Every chunk, event and job is where the dump's order and the restorer's progress put
\* it, in every reachable state.
THEOREM FlowHolds == Spec => []FlowInv
<1>1. FlowInv /\ WakeupInv /\ WakeupInv' /\ [Next]_vars => FlowInv'
  BY FlowStep
<1> QED BY <1>1, FlowStarts, InvariantHolds, PTL DEF Spec

\* An import that returns has digested every chunk in order, hashed and finished every
\* file, and stamped the directories: no thread's failure gets lost, whatever the number
\* of files and swappers and the capacities of the queues.
THEOREM ReturnIsComplete == Spec => []ReturnMeansImported
<1>1. FlowInv /\ WakeupInv => ReturnMeansImported
  <2> SUFFICES ASSUME FlowInv, WakeupInv, pc["dumper"] = "returned"
               PROVE  /\ digest = [i \in Files |-> i] /\ hashed = Files /\ stamped
                      /\ \A f \in Files : disk[f] \in {"finished", "linked"}
    BY DEF ReturnMeansImported
  <2> USE NamedThreads
  <2>1. TypeOK BY DEF WakeupInv
  <2>2. /\ pc["restorer"] = "ended" /\ Pulled = NumFiles /\ stamped
        /\ failed \cap {"restorer", "fileHasher", "narHasher"} = {}
    BY DEF FlowInv, OutcomeInv, AfterEvents, AfterHasher, AfterJoins, AfterStamp
  <2>3. pc["fileHasher"] = "ended" /\ queue["events"] = <<>> /\ queue["nar"] = <<>>
    BY <2>2 DEF FlowInv, EndedInv, AfterHasher, AfterJoins, AfterStamp
  <2>4. Past = NumFiles /\ Teed = NumFiles
    BY <2>2 DEF Past, Teed, Restoring
  <2>5. ASSUME NEW f \in Files PROVE f \in hashed /\ disk[f] \in {"finished", "linked"}
    <3>1. ~EndUnderWay(f)
      BY <2>3 DEF EndUnderWay
    <3> QED BY <2>2, <2>4, <3>1 DEF FlowInv, FilesInv, Files
  <2>6. digest = [i \in Files |-> i]
    <3>1. Len(digest) = NumFiles /\ \A i \in 1 .. Len(digest) : digest[i] = i
      BY <2>1, <2>2, <2>3, <2>4, Lengths DEF FlowInv, DigestInv
    <3>2. digest \in Seq(Files)
      BY <2>1 DEF TypeOK
    <3>3. digest = [i \in 1 .. Len(digest) |-> digest[i]]
      BY <3>2
    <3> QED BY <3>1, <3>3 DEF Files
  <2> QED BY <2>1, <2>2, <2>5, <2>6 DEF TypeOK
<1> QED BY <1>1, FlowHolds, InvariantHolds, PTL

\* A file is swapped for its farm entry only after the restore is through with it, and
\* before the directories get their final mtime, which the swap would change.
THEOREM SwapsAreInTime == Spec => SwapsInTime
<1>1. FlowInv /\ WakeupInv /\ WakeupInv' /\ [Next]_vars =>
        [\A f \in Files : disk'[f] = "linked" /\ disk[f] # "linked" =>
           disk[f] = "finished" /\ ~stamped]_vars
  <2> SUFFICES ASSUME FlowInv, WakeupInv, Next, NEW f \in Files, disk'[f] = "linked", disk[f] # "linked"
               PROVE  disk[f] = "finished" /\ ~stamped
    BY DEF vars
  <2> USE DEF WakeupInv
  <2>1. CASE \E s \in Swappers : Swap(s)
    BY <2>1, SwapFlow
  <2>2. CASE Begin
    <3>1. Restoring BY <2>2 DEF Begin, At, Restoring
    <3> QED BY <2>2, <3>1, Held DEF Begin, TypeOK
  <2>3. CASE Write
    <3>1. Restoring BY <2>3 DEF Write, At, Restoring
    <3> QED BY <2>3, <3>1, Held DEF Write, TypeOK
  <2>4. CASE disk' = disk
    BY <2>4
  <2> QED BY <2>1, <2>2, <2>3, <2>4
      DEF Next, Dumper, Restorer, FileHasher, Swapper, Dump, StopReader, DumpFails, JoinRestorer,
          Pull, Tee, End, CloseEvents, CloseJobs, JoinSwappers, Stamp, CloseNar, Quit, Digest,
          TakeEvent, HashFails, HashData, HashEnd, Post, TakeJob, Notify, WakeSpuriously, work
<1> QED BY <1>1, FlowHolds, InvariantHolds, PTL DEF Spec, SwapsInTime
=============================================================================
