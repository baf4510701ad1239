----------------------------- MODULE ThreadPool -----------------------------
(***************************************************************************)
(* The work queue of src/src/libutil/thread-pool.cc: one action per        *)
(* critical section of state_, per wait on the condition variable `work'   *)
(* and per run of a work item.  The calling thread, Main, also works while *)
(* it is in process().                                                     *)
(*                                                                         *)
(* state->active is modelled by the set it counts.  The order of the queue *)
(* is left open.  Whatever an item does is to enqueue others, end or throw.*)
(***************************************************************************)
EXTENDS Naturals, FiniteSets

CONSTANTS
  Main,        \* the thread that owns the pool
  Workers,     \* threads the pool can start
  Items,       \* work items
  None,        \* "nobody", "no item"
  MaxThreads   \* maxThreads, Main included

ASSUME ThreadsAssumption == Main \notin Workers /\ None \notin Workers \cup {Main}
ASSUME ItemsAssumption == None \notin Items
ASSUME MaxAssumption == MaxThreads \in Nat \ {0}

VARIABLES
  mutex,      \* holder of state_
  pending,    \* state->pending
  active,     \* threads counted in state->active
  exception,  \* state->exception: the item that threw it
  workers,    \* state->workers
  draining,   \* state->draining
  quit,
  pc,
  item,       \* local `w' of doWork
  exc,        \* threads whose local `exc' is set
  joining,    \* local `workers' of shutdown
  thrown,     \* whether process() is in its catch block
  enqueued,   \* history: items ever enqueued
  ran         \* history: items that ended without throwing

shared == <<pending, active, exception, workers, draining, quit>>
locals == <<item, exc, joining, thrown>>
history == <<enqueued, ran>>
vars == <<mutex, shared, pc, locals, history>>

Threads == Workers \cup {Main}

PCs == {"absent", "lock", "account", "loop", "wait", "woken", "run", "exit",
        "start", "after", "returned", "shutdown", "notify", "join", "threw", "gone"}

TypeOK ==
  /\ mutex \in Threads \cup {None}
  /\ pending \in SUBSET Items
  /\ active \in SUBSET Threads
  /\ exception \in Items \cup {None}
  /\ workers \in SUBSET Workers
  /\ draining \in BOOLEAN
  /\ quit \in BOOLEAN
  /\ pc \in [Threads -> PCs]
  /\ item \in [Threads -> Items \cup {None}]
  /\ exc \in SUBSET Threads
  /\ joining \in SUBSET Workers
  /\ thrown \in BOOLEAN
  /\ enqueued \in SUBSET Items
  /\ ran \in SUBSET Items

Init ==
  /\ mutex = None
  /\ pending = {}
  /\ active = {}
  /\ exception = None
  /\ workers = {}
  /\ draining = FALSE
  /\ quit = FALSE
  /\ pc = [t \in Threads |-> IF t = Main THEN "start" ELSE "absent"]
  /\ item = [t \in Threads |-> None]
  /\ exc = {}
  /\ joining = {}
  /\ thrown = FALSE
  /\ enqueued = {}
  /\ ran = {}

-----------------------------------------------------------------------------
(* Helpers *)

Waiting == {t \in Threads : pc[t] = "wait"}

Goto(t, to) == [pc EXCEPT ![t] = to]

\* t goes on at `to' and work.notify_all() wakes every thread that waits.
GotoAndWake(t, to) ==
  [u \in Threads |-> IF u = t THEN to ELSE IF pc[u] = "wait" THEN "woken" ELSE pc[u]]

\* Where doWork returns to.
Left(t) == IF t = Main THEN "after" ELSE "exit"

\* The threads enqueue starts: none, or a new one (process() counts as one).
NewWorkers(todo) ==
  IF Cardinality(todo) > Cardinality(workers) + 1 /\ Cardinality(workers) + 1 < MaxThreads
  THEN {{w} : w \in {v \in Workers : pc[v] = "absent"}}
  ELSE {{}}

\* The threads notify_one wakes.
Notified == IF Waiting = {} THEN {{}} ELSE {{t} : t \in Waiting}

-----------------------------------------------------------------------------
(* ThreadPool::enqueue, by the owner or from a work item *)

Enqueue(t) ==
  /\ pc[t] = "run" \/ (t = Main /\ pc[t] = "start")
  /\ mutex = None
  /\ ~quit
  /\ \E i \in Items \ enqueued :
       /\ pending' = pending \cup {i}
       /\ enqueued' = enqueued \cup {i}
       /\ \E new \in NewWorkers(pending \cup {i}), woken \in Notified :
            /\ workers' = workers \cup new
            /\ pc' = [u \in Threads |-> IF u \in new THEN "lock"
                                        ELSE IF u \in woken THEN "woken" ELSE pc[u]]
  /\ UNCHANGED <<mutex, active, exception, draining, quit, locals, ran>>

-----------------------------------------------------------------------------
(* ThreadPool::doWork *)

\* A work item ends, or throws: also what enqueue throws once quit is set.
RunItem(t) ==
  /\ pc[t] = "run"
  /\ pc' = Goto(t, "lock")
  /\ \/ ran' = ran \cup {item[t]} /\ UNCHANGED exc
     \/ exc' = exc \cup {t} /\ UNCHANGED ran
  /\ UNCHANGED <<mutex, shared, item, joining, thrown, enqueued>>

LockState(t) ==
  /\ pc[t] = "lock"
  /\ mutex = None
  /\ mutex' = t
  /\ pc' = Goto(t, "account")
  /\ UNCHANGED <<shared, locals, history>>

\* if (didWork): the first exception is kept and stops the pool.
Account(t) ==
  /\ pc[t] = "account"
  /\ active' = active \ {t}
  /\ \/ /\ t \in active \cap exc
        /\ exception = None
        /\ exception' = item[t]
        /\ quit' = TRUE
        /\ pc' = GotoAndWake(t, "loop")
     \/ /\ ~(t \in active \cap exc /\ exception = None)
        /\ pc' = Goto(t, "loop")
        /\ UNCHANGED <<exception, quit>>
  /\ UNCHANGED <<mutex, pending, workers, draining, locals, history>>

\* if (quit) return
Leave(t) ==
  /\ pc[t] = "loop"
  /\ quit
  /\ mutex' = None
  /\ pc' = Goto(t, Left(t))
  /\ UNCHANGED <<shared, locals, history>>

Take(t) ==
  /\ pc[t] = "loop"
  /\ ~quit
  /\ \E i \in pending :
       /\ pending' = pending \ {i}
       /\ item' = [item EXCEPT ![t] = i]
  /\ active' = active \cup {t}
  /\ mutex' = None
  /\ pc' = Goto(t, "run")
  /\ UNCHANGED <<exception, workers, draining, quit, exc, joining, thrown, history>>

\* Mutant: items that are running do not keep the pool open.
DrainedWhileActive(t) ==
  /\ pc[t] = "loop"
  /\ ~quit /\ pending = {} /\ draining
  /\ quit' = TRUE
  /\ mutex' = None
  /\ pc' = GotoAndWake(t, Left(t))
  /\ UNCHANGED <<pending, active, exception, workers, draining, locals, history>>

\* Mutant: the thread that finds the queue drained wakes nobody.
DrainedSilently(t) ==
  /\ pc[t] = "loop"
  /\ ~quit /\ pending = {} /\ active = {} /\ draining
  /\ quit' = TRUE
  /\ mutex' = None
  /\ pc' = Goto(t, Left(t))
  /\ UNCHANGED <<pending, active, exception, workers, draining, locals, history>>

\* Nothing pending, nothing active, and process() is running: the end.
Drained(t) ==
  /\ pc[t] = "loop"
  /\ ~quit /\ pending = {} /\ active = {} /\ draining
  /\ quit' = TRUE
  /\ mutex' = None
  /\ pc' = GotoAndWake(t, Left(t))
  /\ UNCHANGED <<pending, active, exception, workers, draining, locals, history>>

\* state.wait(work)
Wait(t) ==
  /\ pc[t] = "loop"
  /\ ~quit /\ pending = {}
  /\ active # {} \/ ~draining
  /\ mutex' = None
  /\ pc' = Goto(t, "wait")
  /\ UNCHANGED <<shared, locals, history>>

\* A condition variable may wake a thread without being notified.
WakeSpuriously(t) ==
  /\ pc[t] = "wait"
  /\ pc' = Goto(t, "woken")
  /\ UNCHANGED <<mutex, shared, locals, history>>

Reacquire(t) ==
  /\ pc[t] = "woken"
  /\ mutex = None
  /\ mutex' = t
  /\ pc' = Goto(t, "loop")
  /\ UNCHANGED <<shared, locals, history>>

-----------------------------------------------------------------------------
(* ThreadPool::process, ThreadPool::shutdown and the destructor *)

Process ==
  /\ pc[Main] = "start"
  /\ mutex = None
  /\ draining' = TRUE
  /\ pc' = Goto(Main, "lock")
  /\ UNCHANGED <<mutex, pending, active, exception, workers, quit, locals, history>>

\* doWork has returned: rethrow what an item threw, or return.
AfterWork ==
  /\ pc[Main] = "after"
  /\ mutex = None
  /\ thrown' = (exception # None)
  /\ pc' = Goto(Main, IF exception # None THEN "shutdown" ELSE "returned")
  /\ UNCHANGED <<mutex, shared, item, exc, joining, history>>

\* The destructor, also of a pool that never processed anything.
Destroy ==
  /\ pc[Main] \in {"start", "returned"}
  /\ pc' = Goto(Main, "shutdown")
  /\ UNCHANGED <<mutex, shared, locals, history>>

\* Where shutdown() returns to.
ShutDown == IF thrown THEN "threw" ELSE "gone"

Shutdown ==
  /\ pc[Main] = "shutdown"
  /\ mutex = None
  /\ quit' = TRUE
  /\ joining' = workers
  /\ workers' = {}
  /\ pc' = Goto(Main, IF workers = {} THEN ShutDown ELSE "notify")
  /\ UNCHANGED <<mutex, pending, active, exception, draining, item, exc, thrown, history>>

NotifyWorkers ==
  /\ pc[Main] = "notify"
  /\ pc' = GotoAndWake(Main, "join")
  /\ UNCHANGED <<mutex, shared, locals, history>>

\* Mutant: the threads are detached.
DetachWorkers ==
  /\ pc[Main] = "join"
  /\ joining' = {}
  /\ pc' = Goto(Main, ShutDown)
  /\ UNCHANGED <<mutex, shared, item, exc, thrown, history>>

\* join() returns once the thread has ended.
JoinWorkers ==
  /\ pc[Main] = "join"
  /\ \A w \in joining : pc[w] = "exit"
  /\ joining' = {}
  /\ pc' = Goto(Main, ShutDown)
  /\ UNCHANGED <<mutex, shared, item, exc, thrown, history>>

-----------------------------------------------------------------------------

Acquire(t) == LockState(t) \/ Reacquire(t)

Work(t) == Account(t) \/ Leave(t) \/ Take(t) \/ Drained(t) \/ Wait(t)

Own == AfterWork \/ Shutdown

Next ==
  \/ \E t \in Threads :
       Enqueue(t) \/ RunItem(t) \/ Acquire(t) \/ Work(t) \/ WakeSpuriously(t)
  \/ Process \/ Own \/ Destroy \/ NotifyWorkers \/ JoinWorkers

\* Items end, threads are scheduled and get the mutex in the end, and the
\* owner, once in process() or the destructor, goes on.  Nobody owes an item,
\* a call of process() or of the destructor, or a spurious wakeup.
Fairness ==
  /\ \A t \in Threads : WF_vars(RunItem(t)) /\ SF_vars(Acquire(t)) /\ WF_vars(Work(t))
  /\ SF_vars(Own) /\ WF_vars(NotifyWorkers) /\ WF_vars(JoinWorkers)

Spec == Init /\ [][Next]_vars

FairSpec == Spec /\ Fairness

-----------------------------------------------------------------------------
(* Properties *)

\* process() returns normally only when every item ever enqueued, also the
\* ones that items enqueued, has run to its end and none has thrown.
ReturnMeansAllDone == pc[Main] = "returned" => ran = enqueued

\* When process() has returned or thrown, and after the destructor, no thread
\* runs an item: items refer to the stack frame of the caller.
NobodyRunsAfterwards ==
  pc[Main] \in {"returned", "threw", "gone"} => \A w \in Workers : pc[w] # "run"

\* process() ends, and so does shutdown: no wakeup is lost.
PoolEnds ==
  /\ pc[Main] = "lock" ~> pc[Main] \in {"returned", "threw"}
  /\ pc[Main] = "shutdown" ~> pc[Main] \in {"threw", "gone"}

-----------------------------------------------------------------------------
(* The inductive invariant behind the two safety properties *)

\* The mutex is held exactly inside the critical sections of doWork.
MutexInv == \A t \in Threads : pc[t] \in {"account", "loop"} <=> mutex = t

\* A thread is counted from taking an item until it accounts for it.
ActiveInv ==
  \A t \in Threads :
    /\ pc[t] = "run" => t \in active /\ t \notin exc
    /\ t \in active => pc[t] \in {"run", "lock", "account"}
    /\ t \in exc => t \in active \/ quit

\* Every enqueued item is waiting, or taken, or has run; or the pool failed.
ItemsInv ==
  /\ ran \cup pending \subseteq enqueued
  /\ \A t \in Threads : t \in active => item[t] \in enqueued
  /\ \A i \in enqueued :
       \/ i \in pending \cup ran
       \/ \E t \in active : item[t] = i /\ (pc[t] = "run" \/ t \in exc)
       \/ exception # None

\* Why the pool quits.
QuitInv ==
  /\ exception # None => quit
  /\ quit => \/ exception # None
             \/ pending = {} /\ active = {}
             \/ pc[Main] \in {"notify", "join", "gone"}
  /\ pc[Main] \in {"after", "returned"} => quit
  /\ pc[Main] = "returned" => exception = None
  /\ pc[Main] = "threw" => thrown
  /\ thrown => exception # None

\* Which threads exist, and who is joined.
WorkersInv ==
  /\ \A w \in Workers : pc[w] # "absent" /\ pc[w] # "exit" =>
       w \in workers \cup joining
  /\ pc[Main] \in {"notify", "join", "threw", "gone"} => workers = {} /\ quit
  /\ pc[Main] \notin {"notify", "join"} => joining = {}

IInv == TypeOK /\ MutexInv /\ ActiveInv /\ ItemsInv /\ QuitInv /\ WorkersInv
=============================================================================
