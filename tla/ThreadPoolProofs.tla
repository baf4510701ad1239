------------------------- MODULE ThreadPoolProofs -------------------------
(***************************************************************************)
(* Proofs about ThreadPool, for any number of threads and work items.      *)
(***************************************************************************)
EXTENDS ThreadPool, TLAPS

\* The facts about types that the proofs below use.
Types ==
  /\ pc \in [Threads -> PCs]
  /\ item \in [Threads -> Items \cup {None}]
  /\ active \in SUBSET Threads
  /\ workers \in SUBSET Workers
  /\ enqueued \in SUBSET Items

\* Every step keeps the types.
LEMMA TypeStep ==
  ASSUME TypeOK, ActiveInv, ItemsInv, Next
  PROVE  TypeOK'
<1> DEFINE Goal == TypeOK
<1> USE DEF Goto, shared, locals, history, Threads
<1>1. Types /\ TypeOK /\ ActiveInv /\ ItemsInv
  BY DEF TypeOK, Types, Threads
<1>2. ASSUME NEW t \in Threads, Enqueue(t) PROVE Goal'
  BY <1>2, <1>1 DEF Types, TypeOK, PCs, Enqueue, NewWorkers, Notified, Waiting
<1>3. ASSUME NEW t \in Threads, RunItem(t) PROVE Goal'
  BY <1>3, <1>1 DEF Types, TypeOK, PCs, RunItem, ActiveInv, ItemsInv
<1>4. ASSUME NEW t \in Threads, LockState(t) PROVE Goal'
  BY <1>4, <1>1 DEF Types, TypeOK, PCs, LockState
<1>5. ASSUME NEW t \in Threads, Account(t) PROVE Goal'
  <2>1. t \in active => item[t] \in Items
    BY <1>1 DEF Types, ItemsInv
  <2>2. pc' \in [Threads -> PCs]
    BY <1>1, <1>5 DEF Types, Account, GotoAndWake, PCs
  <2>3. QED
    BY <1>1, <1>5, <2>1, <2>2 DEF TypeOK, Account
<1>6. ASSUME NEW t \in Threads, Leave(t) PROVE Goal'
  BY <1>6, <1>1 DEF Types, TypeOK, PCs, Leave, Left
<1>7. ASSUME NEW t \in Threads, Take(t) PROVE Goal'
  BY <1>7, <1>1 DEF Types, TypeOK, PCs, Take
<1>8. ASSUME NEW t \in Threads, Drained(t) PROVE Goal'
  BY <1>8, <1>1 DEF Types, TypeOK, PCs, Drained, GotoAndWake, Left
<1>9. ASSUME NEW t \in Threads, Wait(t) PROVE Goal'
  BY <1>9, <1>1 DEF Types, TypeOK, PCs, Wait
<1>10. ASSUME NEW t \in Threads, WakeSpuriously(t) PROVE Goal'
  BY <1>10, <1>1 DEF Types, TypeOK, PCs, WakeSpuriously
<1>11. ASSUME NEW t \in Threads, Reacquire(t) PROVE Goal'
  BY <1>11, <1>1 DEF Types, TypeOK, PCs, Reacquire
<1>12. CASE Process
  BY <1>12, <1>1 DEF Types, TypeOK, PCs, Process
<1>13. CASE AfterWork
  BY <1>13, <1>1 DEF Types, TypeOK, PCs, AfterWork
<1>14. CASE Destroy
  BY <1>14, <1>1 DEF Types, TypeOK, PCs, Destroy
<1>15. CASE Shutdown
  BY <1>15, <1>1 DEF Types, TypeOK, PCs, Shutdown, ShutDown
<1>16. CASE NotifyWorkers
  BY <1>16, <1>1 DEF Types, TypeOK, PCs, NotifyWorkers, GotoAndWake
<1>17. CASE JoinWorkers
  BY <1>17, <1>1 DEF Types, TypeOK, PCs, JoinWorkers, ShutDown
<1>18. QED
  BY <1>2, <1>3, <1>4, <1>5, <1>6, <1>7, <1>8, <1>9, <1>10, <1>11, <1>12,
     <1>13, <1>14, <1>15, <1>16, <1>17 DEF Next, Acquire, Work, Own

\* A thread takes the mutex only when it is free.
LEMMA MutexStep ==
  ASSUME TypeOK, MutexInv, Next
  PROVE  MutexInv'
<1> DEFINE Goal == MutexInv
<1> USE DEF Goto, shared, locals, history, Threads
<1>1. Types /\ TypeOK /\ MutexInv
  BY DEF TypeOK, Types, Threads
<1>2. ASSUME NEW t \in Threads, Enqueue(t) PROVE Goal'
  BY <1>2, <1>1, ThreadsAssumption
  DEF Types, MutexInv, Enqueue, NewWorkers, Notified, Waiting
<1>3. ASSUME NEW t \in Threads, RunItem(t) PROVE Goal'
  BY <1>3, <1>1, ThreadsAssumption DEF Types, MutexInv, RunItem
<1>4. ASSUME NEW t \in Threads, LockState(t) PROVE Goal'
  BY <1>4, <1>1, ThreadsAssumption DEF Types, MutexInv, LockState
<1>5. ASSUME NEW t \in Threads, Account(t) PROVE Goal'
  BY <1>5, <1>1, ThreadsAssumption DEF Types, MutexInv, Account, GotoAndWake
<1>6. ASSUME NEW t \in Threads, Leave(t) PROVE Goal'
  BY <1>6, <1>1, ThreadsAssumption DEF Types, MutexInv, Leave, Left
<1>7. ASSUME NEW t \in Threads, Take(t) PROVE Goal'
  BY <1>7, <1>1, ThreadsAssumption DEF Types, MutexInv, Take
<1>8. ASSUME NEW t \in Threads, Drained(t) PROVE Goal'
  BY <1>8, <1>1, ThreadsAssumption DEF Types, MutexInv, Drained, GotoAndWake, Left
<1>9. ASSUME NEW t \in Threads, Wait(t) PROVE Goal'
  BY <1>9, <1>1, ThreadsAssumption DEF Types, MutexInv, Wait
<1>10. ASSUME NEW t \in Threads, WakeSpuriously(t) PROVE Goal'
  BY <1>10, <1>1, ThreadsAssumption DEF Types, MutexInv, WakeSpuriously
<1>11. ASSUME NEW t \in Threads, Reacquire(t) PROVE Goal'
  BY <1>11, <1>1, ThreadsAssumption DEF Types, MutexInv, Reacquire
<1>12. CASE Process
  BY <1>12, <1>1, ThreadsAssumption DEF Types, MutexInv, Process
<1>13. CASE AfterWork
  BY <1>13, <1>1, ThreadsAssumption DEF Types, MutexInv, AfterWork
<1>14. CASE Destroy
  BY <1>14, <1>1, ThreadsAssumption DEF Types, MutexInv, Destroy
<1>15. CASE Shutdown
  BY <1>15, <1>1, ThreadsAssumption DEF Types, MutexInv, Shutdown, ShutDown
<1>16. CASE NotifyWorkers
  BY <1>16, <1>1, ThreadsAssumption DEF Types, MutexInv, NotifyWorkers, GotoAndWake
<1>17. CASE JoinWorkers
  BY <1>17, <1>1, ThreadsAssumption DEF Types, MutexInv, JoinWorkers, ShutDown
<1>18. QED
  BY <1>2, <1>3, <1>4, <1>5, <1>6, <1>7, <1>8, <1>9, <1>10, <1>11, <1>12,
     <1>13, <1>14, <1>15, <1>16, <1>17 DEF Next, Acquire, Work, Own

\* Taking an item counts the thread, accounting for it uncounts it.
LEMMA ActiveStep ==
  ASSUME TypeOK, ActiveInv, QuitInv, WorkersInv, Next
  PROVE  ActiveInv'
<1> DEFINE Goal == ActiveInv
<1> USE DEF Goto, shared, locals, history, Threads
<1>1. Types /\ TypeOK /\ ActiveInv /\ QuitInv /\ WorkersInv
  BY DEF TypeOK, Types, Threads
<1>2. ASSUME NEW t \in Threads, Enqueue(t) PROVE Goal'
  BY <1>2, <1>1 DEF Types, ActiveInv, WorkersInv, Enqueue, NewWorkers, Notified, Waiting
<1>3. ASSUME NEW t \in Threads, RunItem(t) PROVE Goal'
  BY <1>3, <1>1 DEF Types, ActiveInv, WorkersInv, RunItem
<1>4. ASSUME NEW t \in Threads, LockState(t) PROVE Goal'
  BY <1>4, <1>1 DEF Types, ActiveInv, WorkersInv, LockState
<1>5. ASSUME NEW t \in Threads, Account(t) PROVE Goal'
  BY <1>5, <1>1 DEF Types, ActiveInv, WorkersInv, Account, GotoAndWake, QuitInv
<1>6. ASSUME NEW t \in Threads, Leave(t) PROVE Goal'
  BY <1>6, <1>1 DEF Types, ActiveInv, WorkersInv, Leave, Left
<1>7. ASSUME NEW t \in Threads, Take(t) PROVE Goal'
  BY <1>7, <1>1 DEF Types, ActiveInv, WorkersInv, Take
<1>8. ASSUME NEW t \in Threads, Drained(t) PROVE Goal'
  BY <1>8, <1>1 DEF Types, ActiveInv, WorkersInv, Drained, GotoAndWake, Left
<1>9. ASSUME NEW t \in Threads, Wait(t) PROVE Goal'
  BY <1>9, <1>1 DEF Types, ActiveInv, WorkersInv, Wait
<1>10. ASSUME NEW t \in Threads, WakeSpuriously(t) PROVE Goal'
  BY <1>10, <1>1 DEF Types, ActiveInv, WorkersInv, WakeSpuriously
<1>11. ASSUME NEW t \in Threads, Reacquire(t) PROVE Goal'
  BY <1>11, <1>1 DEF Types, ActiveInv, WorkersInv, Reacquire
<1>12. CASE Process
  BY <1>12, <1>1 DEF Types, ActiveInv, WorkersInv, Process
<1>13. CASE AfterWork
  BY <1>13, <1>1 DEF Types, ActiveInv, WorkersInv, AfterWork
<1>14. CASE Destroy
  BY <1>14, <1>1 DEF Types, ActiveInv, WorkersInv, Destroy
<1>15. CASE Shutdown
  BY <1>15, <1>1 DEF Types, ActiveInv, WorkersInv, Shutdown, ShutDown
<1>16. CASE NotifyWorkers
  BY <1>16, <1>1 DEF Types, ActiveInv, WorkersInv, NotifyWorkers, GotoAndWake
<1>17. CASE JoinWorkers
  BY <1>17, <1>1 DEF Types, ActiveInv, WorkersInv, JoinWorkers, ShutDown
<1>18. QED
  BY <1>2, <1>3, <1>4, <1>5, <1>6, <1>7, <1>8, <1>9, <1>10, <1>11, <1>12,
     <1>13, <1>14, <1>15, <1>16, <1>17 DEF Next, Acquire, Work, Own

\* No enqueued item gets lost.
LEMMA ItemsStep ==
  ASSUME TypeOK, ActiveInv, ItemsInv, Next
  PROVE  ItemsInv'
<1> DEFINE Goal == ItemsInv
<1> USE DEF Goto, shared, locals, history, Threads
<1>1. Types /\ TypeOK /\ ActiveInv /\ ItemsInv
  BY DEF TypeOK, Types, Threads
<1>2. ASSUME NEW t \in Threads, Enqueue(t) PROVE Goal'
  BY <1>2, <1>1, ItemsAssumption
  DEF Types, ItemsInv, ActiveInv, Enqueue, NewWorkers, Notified, Waiting
<1>3. ASSUME NEW t \in Threads, RunItem(t) PROVE Goal'
  BY <1>3, <1>1, ItemsAssumption DEF Types, ItemsInv, ActiveInv, RunItem
<1>4. ASSUME NEW t \in Threads, LockState(t) PROVE Goal'
  BY <1>4, <1>1, ItemsAssumption DEF Types, ItemsInv, ActiveInv, LockState
<1>5. ASSUME NEW t \in Threads, Account(t) PROVE Goal'
  BY <1>5, <1>1, ItemsAssumption DEF Types, ItemsInv, ActiveInv, Account, GotoAndWake
<1>6. ASSUME NEW t \in Threads, Leave(t) PROVE Goal'
  BY <1>6, <1>1, ItemsAssumption DEF Types, ItemsInv, ActiveInv, Leave, Left
<1>7. ASSUME NEW t \in Threads, Take(t) PROVE Goal'
  <2>1. t \notin active /\ active' = active \cup {t} /\ pc'[t] = "run"
    BY <1>1, <1>7 DEF Types, ActiveInv, Take
  <2>2. PICK i \in pending : pending' = pending \ {i} /\ item'[t] = i
    BY <1>1, <1>7 DEF Types, Take
  <2>3. i \in enqueued
    BY <1>1, <2>2 DEF ItemsInv
  <2>4. \A u \in active : item'[u] = item[u] /\ pc'[u] = pc[u]
    BY <1>1, <1>7, <2>1 DEF Types, Take
  <2>5. UNCHANGED <<enqueued, ran, exception, exc>>
    BY <1>7 DEF Take
  <2>6. ASSUME NEW j \in enqueued
        PROVE  \/ j \in pending' \cup ran
               \/ \E u \in active' : item'[u] = j /\ (pc'[u] = "run" \/ u \in exc)
               \/ exception # None
    <3>1. CASE j = i
      BY <2>1, <2>2, <3>1
    <3>2. CASE j # i
      BY <1>1, <2>1, <2>2, <2>4, <3>2 DEF ItemsInv
    <3>3. QED
      BY <3>1, <3>2
  <2>7. QED
    BY <1>1, <2>1, <2>2, <2>3, <2>4, <2>5, <2>6 DEF ItemsInv
<1>8. ASSUME NEW t \in Threads, Drained(t) PROVE Goal'
  BY <1>8, <1>1, ItemsAssumption DEF Types, ItemsInv, ActiveInv, Drained, GotoAndWake, Left
<1>9. ASSUME NEW t \in Threads, Wait(t) PROVE Goal'
  BY <1>9, <1>1, ItemsAssumption DEF Types, ItemsInv, ActiveInv, Wait
<1>10. ASSUME NEW t \in Threads, WakeSpuriously(t) PROVE Goal'
  BY <1>10, <1>1, ItemsAssumption DEF Types, ItemsInv, ActiveInv, WakeSpuriously
<1>11. ASSUME NEW t \in Threads, Reacquire(t) PROVE Goal'
  BY <1>11, <1>1, ItemsAssumption DEF Types, ItemsInv, ActiveInv, Reacquire
<1>12. CASE Process
  BY <1>12, <1>1, ItemsAssumption DEF Types, ItemsInv, ActiveInv, Process
<1>13. CASE AfterWork
  BY <1>13, <1>1, ItemsAssumption DEF Types, ItemsInv, ActiveInv, AfterWork
<1>14. CASE Destroy
  BY <1>14, <1>1, ItemsAssumption DEF Types, ItemsInv, ActiveInv, Destroy
<1>15. CASE Shutdown
  BY <1>15, <1>1, ItemsAssumption DEF Types, ItemsInv, ActiveInv, Shutdown, ShutDown
<1>16. CASE NotifyWorkers
  BY <1>16, <1>1, ItemsAssumption DEF Types, ItemsInv, ActiveInv, NotifyWorkers, GotoAndWake
<1>17. CASE JoinWorkers
  BY <1>17, <1>1, ItemsAssumption DEF Types, ItemsInv, ActiveInv, JoinWorkers, ShutDown
<1>18. QED
  BY <1>2, <1>3, <1>4, <1>5, <1>6, <1>7, <1>8, <1>9, <1>10, <1>11, <1>12,
     <1>13, <1>14, <1>15, <1>16, <1>17 DEF Next, Acquire, Work, Own

\* The pool quits for one of three reasons.
LEMMA QuitStep ==
  ASSUME TypeOK, ActiveInv, ItemsInv, QuitInv, Next
  PROVE  QuitInv'
<1> DEFINE Goal == QuitInv
<1> USE DEF Goto, shared, locals, history, Threads
<1>1. Types /\ TypeOK /\ ActiveInv /\ ItemsInv /\ QuitInv
  BY DEF TypeOK, Types, Threads
<1>2. ASSUME NEW t \in Threads, Enqueue(t) PROVE Goal'
  BY <1>2, <1>1, ThreadsAssumption, ItemsAssumption
  DEF Types, QuitInv, ActiveInv, Enqueue, NewWorkers, Notified, Waiting
<1>3. ASSUME NEW t \in Threads, RunItem(t) PROVE Goal'
  BY <1>3, <1>1, ThreadsAssumption, ItemsAssumption DEF Types, QuitInv, ActiveInv, RunItem
<1>4. ASSUME NEW t \in Threads, LockState(t) PROVE Goal'
  BY <1>4, <1>1, ThreadsAssumption, ItemsAssumption DEF Types, QuitInv, ActiveInv, LockState
<1>5. ASSUME NEW t \in Threads, Account(t) PROVE Goal'
  BY <1>5, <1>1, ThreadsAssumption, ItemsAssumption
  DEF Types, QuitInv, ActiveInv, Account, GotoAndWake, ItemsInv
<1>6. ASSUME NEW t \in Threads, Leave(t) PROVE Goal'
  BY <1>6, <1>1, ThreadsAssumption, ItemsAssumption
  DEF Types, QuitInv, ActiveInv, Leave, Left
<1>7. ASSUME NEW t \in Threads, Take(t) PROVE Goal'
  BY <1>7, <1>1, ThreadsAssumption, ItemsAssumption DEF Types, QuitInv, ActiveInv, Take
<1>8. ASSUME NEW t \in Threads, Drained(t) PROVE Goal'
  BY <1>8, <1>1, ThreadsAssumption, ItemsAssumption
  DEF Types, QuitInv, ActiveInv, Drained, GotoAndWake, Left
<1>9. ASSUME NEW t \in Threads, Wait(t) PROVE Goal'
  BY <1>9, <1>1, ThreadsAssumption, ItemsAssumption DEF Types, QuitInv, ActiveInv, Wait
<1>10. ASSUME NEW t \in Threads, WakeSpuriously(t) PROVE Goal'
  BY <1>10, <1>1, ThreadsAssumption, ItemsAssumption
  DEF Types, QuitInv, ActiveInv, WakeSpuriously
<1>11. ASSUME NEW t \in Threads, Reacquire(t) PROVE Goal'
  BY <1>11, <1>1, ThreadsAssumption, ItemsAssumption
  DEF Types, QuitInv, ActiveInv, Reacquire
<1>12. CASE Process
  BY <1>12, <1>1, ThreadsAssumption, ItemsAssumption DEF Types, QuitInv, ActiveInv, Process
<1>13. CASE AfterWork
  BY <1>13, <1>1, ThreadsAssumption, ItemsAssumption
  DEF Types, QuitInv, ActiveInv, AfterWork
<1>14. CASE Destroy
  BY <1>14, <1>1, ThreadsAssumption, ItemsAssumption DEF Types, QuitInv, ActiveInv, Destroy
<1>15. CASE Shutdown
  BY <1>15, <1>1, ThreadsAssumption, ItemsAssumption
  DEF Types, QuitInv, ActiveInv, Shutdown, ShutDown
<1>16. CASE NotifyWorkers
  BY <1>16, <1>1, ThreadsAssumption, ItemsAssumption
  DEF Types, QuitInv, ActiveInv, NotifyWorkers, GotoAndWake
<1>17. CASE JoinWorkers
  BY <1>17, <1>1, ThreadsAssumption, ItemsAssumption
  DEF Types, QuitInv, ActiveInv, JoinWorkers, ShutDown
<1>18. QED
  BY <1>2, <1>3, <1>4, <1>5, <1>6, <1>7, <1>8, <1>9, <1>10, <1>11, <1>12,
     <1>13, <1>14, <1>15, <1>16, <1>17 DEF Next, Acquire, Work, Own

\* Only threads on record run.
LEMMA WorkersStep ==
  ASSUME TypeOK, QuitInv, WorkersInv, Next
  PROVE  WorkersInv'
<1> DEFINE Goal == WorkersInv
<1> USE DEF Goto, shared, locals, history, Threads
<1>1. Types /\ TypeOK /\ QuitInv /\ WorkersInv
  BY DEF TypeOK, Types, Threads
<1>2. ASSUME NEW t \in Threads, Enqueue(t) PROVE Goal'
  BY <1>2, <1>1, ThreadsAssumption
  DEF Types, WorkersInv, Enqueue, NewWorkers, Notified, Waiting
<1>3. ASSUME NEW t \in Threads, RunItem(t) PROVE Goal'
  BY <1>3, <1>1, ThreadsAssumption DEF Types, WorkersInv, RunItem
<1>4. ASSUME NEW t \in Threads, LockState(t) PROVE Goal'
  BY <1>4, <1>1, ThreadsAssumption DEF Types, WorkersInv, LockState
<1>5. ASSUME NEW t \in Threads, Account(t) PROVE Goal'
  BY <1>5, <1>1, ThreadsAssumption DEF Types, WorkersInv, Account, GotoAndWake
<1>6. ASSUME NEW t \in Threads, Leave(t) PROVE Goal'
  BY <1>6, <1>1, ThreadsAssumption DEF Types, WorkersInv, Leave, Left
<1>7. ASSUME NEW t \in Threads, Take(t) PROVE Goal'
  BY <1>7, <1>1, ThreadsAssumption DEF Types, WorkersInv, Take
<1>8. ASSUME NEW t \in Threads, Drained(t) PROVE Goal'
  BY <1>8, <1>1, ThreadsAssumption DEF Types, WorkersInv, Drained, GotoAndWake, Left
<1>9. ASSUME NEW t \in Threads, Wait(t) PROVE Goal'
  BY <1>9, <1>1, ThreadsAssumption DEF Types, WorkersInv, Wait
<1>10. ASSUME NEW t \in Threads, WakeSpuriously(t) PROVE Goal'
  BY <1>10, <1>1, ThreadsAssumption DEF Types, WorkersInv, WakeSpuriously
<1>11. ASSUME NEW t \in Threads, Reacquire(t) PROVE Goal'
  BY <1>11, <1>1, ThreadsAssumption DEF Types, WorkersInv, Reacquire
<1>12. CASE Process
  BY <1>12, <1>1, ThreadsAssumption DEF Types, WorkersInv, Process
<1>13. CASE AfterWork
  BY <1>13, <1>1, ThreadsAssumption DEF Types, WorkersInv, AfterWork
<1>14. CASE Destroy
  BY <1>14, <1>1, ThreadsAssumption DEF Types, WorkersInv, Destroy
<1>15. CASE Shutdown
  BY <1>15, <1>1, ThreadsAssumption DEF Types, WorkersInv, Shutdown, ShutDown
<1>16. CASE NotifyWorkers
  BY <1>16, <1>1, ThreadsAssumption DEF Types, WorkersInv, NotifyWorkers, GotoAndWake
<1>17. CASE JoinWorkers
  BY <1>17, <1>1, ThreadsAssumption DEF Types, WorkersInv, JoinWorkers, ShutDown
<1>18. QED
  BY <1>2, <1>3, <1>4, <1>5, <1>6, <1>7, <1>8, <1>9, <1>10, <1>11, <1>12,
     <1>13, <1>14, <1>15, <1>16, <1>17 DEF Next, Acquire, Work, Own

\* The pool starts with nothing to do.
LEMMA InitIInv == Init => IInv
<1> SUFFICES ASSUME Init PROVE IInv
  OBVIOUS
<1>1. TypeOK
  BY DEF Init, TypeOK, Threads, PCs
<1>2. MutexInv /\ ActiveInv
  BY ThreadsAssumption DEF Init, MutexInv, ActiveInv, Threads
<1>3. ItemsInv /\ QuitInv /\ WorkersInv
  BY ThreadsAssumption DEF Init, ItemsInv, QuitInv, WorkersInv, Threads
<1>4. QED
  BY <1>1, <1>2, <1>3 DEF IInv

\* Every step keeps the invariant.
LEMMA NextIInv ==
  ASSUME IInv, [Next]_vars
  PROVE  IInv'
<1>1. CASE Next
  BY <1>1, TypeStep, MutexStep, ActiveStep, ItemsStep, QuitStep, WorkersStep DEF IInv
<1>2. CASE UNCHANGED vars
  <2> USE <1>2 DEF vars, shared, locals, history
  <2>1. TypeOK' /\ MutexInv' /\ ActiveInv'
    BY DEF IInv, TypeOK, MutexInv, ActiveInv
  <2>2. ItemsInv' /\ QuitInv' /\ WorkersInv'
    BY DEF IInv, ItemsInv, QuitInv, WorkersInv
  <2>3. QED
    BY <2>1, <2>2 DEF IInv
<1>3. QED
  BY <1>1, <1>2

\* The invariant holds in every state of every pool.
THEOREM InvariantHolds == Spec => []IInv
<1>1. IInv /\ [Next]_vars => IInv'
  BY NextIInv
<1>2. QED
  BY InitIInv, <1>1, PTL DEF Spec

\* process() does not return before the work is done: for any number of
\* threads and of items, enqueued from anywhere, a normal return means that
\* every one of them has run and none has thrown.
THEOREM ProcessCompletes == Spec => []ReturnMeansAllDone
<1>1. IInv => ReturnMeansAllDone
  <2>1. SUFFICES ASSUME IInv, pc[Main] = "returned" PROVE ran = enqueued
    BY DEF ReturnMeansAllDone
  <2>2. pending = {} /\ active = {} /\ exception = None
    BY <2>1 DEF IInv, QuitInv
  <2>3. QED
    BY <2>1, <2>2 DEF IInv, ItemsInv
<1>2. QED
  BY InvariantHolds, <1>1, PTL

\* The owner's stack frame is safe: when process() has returned or thrown, or
\* the pool is gone, no worker runs an item.
THEOREM ProcessLeavesNobody == Spec => []NobodyRunsAfterwards
<1>1. IInv => NobodyRunsAfterwards
  <2>1. SUFFICES ASSUME IInv, NEW w \in Workers, pc[w] = "run"
                 PROVE  pc[Main] \notin {"returned", "threw", "gone"}
    BY DEF NobodyRunsAfterwards
  <2>2. w \in active /\ w \in workers \cup joining
    BY <2>1 DEF IInv, ActiveInv, WorkersInv, Threads
  <2>3. pc[Main] # "returned"
    BY <2>1, <2>2 DEF IInv, QuitInv
  <2>4. pc[Main] \notin {"threw", "gone"}
    BY <2>1, <2>2 DEF IInv, WorkersInv
  <2>5. QED
    BY <2>3, <2>4
<1>2. QED
  BY InvariantHolds, <1>1, PTL
=============================================================================
