----------------------------- MODULE ThreadPool -----------------------------
(***************************************************************************)
(* ThreadPool of src/include/thread_pool.h.                                *)
(*                                                                         *)
(* Worker threads loop: lock mutex_, cond_.wait(lock, stop_ || !tasks_     *)
(* .empty()), return when stop_ is set and tasks_ is empty, else pop the   *)
(* front task, unlock and run it.  The owner thread Enqueue()s tasks       *)
(* (push under mutex_, notify_one after unlocking) and finally runs        *)
(* ~ThreadPool: stop_.store(true) WITHOUT mutex_, notify_all, join every   *)
(* worker in workers_ order.                                               *)
(*                                                                         *)
(* cond_.wait(lock, pred) is `while (!pred()) wait(lock)`: the predicate   *)
(* is evaluated with mutex_ held (WorkerCheck) and wait() then releases    *)
(* mutex_ and blocks in one atomic step (WorkerBlock).  A notify removes a *)
(* thread from the wait set; it must relock mutex_ and test the predicate  *)
(* again, which is the loop's first step (wpc "lock").  Spurious wakeups   *)
(* are not modelled: no code may rely on them.                             *)
(***************************************************************************)
EXTENDS Naturals, Sequences, FiniteSets

CONSTANTS
  NumWorkers,   \* the thread_num passed to ThreadPool(size_t)
  Tasks         \* identities of the tasks the owner enqueues, each once

ASSUME NumWorkers \in Nat \ {0}

Workers  == 1..NumWorkers
NoThread == 0   \* no worker: Workers are 1..NumWorkers

VARIABLES
  tasks,     \* tasks_
  stop,      \* stop_
  mutex,     \* the thread holding mutex_, or NoThread
  wpc,       \* where each worker is in its loop
  running,   \* the task a worker popped, while it runs it
  opc,       \* where the owner thread is: Enqueue or ~ThreadPool
  joined,    \* how many of workers_ ~ThreadPool has joined
  enqueued   \* history: the tasks Enqueue has pushed

poolVars == <<tasks, stop, mutex, wpc, running, opc, joined, enqueued>>

NoTask == 0     \* no task: the legacy store numbers its tasks from 1

WPcs == {"lock", "check", "block", "waiting", "run", "exited"}
OPcs == {"idle", "notify", "notifyall", "join", "returned"}

PoolInit ==
  /\ tasks = <<>>
  /\ stop = FALSE
  /\ mutex = NoThread
  /\ wpc = [w \in Workers |-> "lock"]
  /\ running = [w \in Workers |-> NoTask]
  /\ opc = "idle"
  /\ joined = 0
  /\ enqueued = {}

---------------------------------------------------------------------------
(* Worker loop, lines 43-57.                                               *)

\* std::unique_lock<std::mutex> lock(this->mutex_), line 47, also the
\* relock of a thread that cond_ woke up.
WorkerLock(w) ==
  /\ wpc[w] = "lock"
  /\ mutex = NoThread
  /\ mutex' = w
  /\ wpc' = [wpc EXCEPT ![w] = "check"]
  /\ UNCHANGED <<tasks, stop, running, opc, joined, enqueued>>

\* The predicate of line 48-49 is false: the thread goes on to wait().
WorkerCheckWait(w) ==
  /\ wpc[w] = "check"
  /\ ~stop /\ tasks = <<>>
  /\ wpc' = [wpc EXCEPT ![w] = "block"]
  /\ UNCHANGED <<tasks, stop, mutex, running, opc, joined, enqueued>>

\* The predicate holds, stop_ is set and tasks_ is empty: return, line 51;
\* the unique_lock's destructor releases mutex_.
WorkerExit(w) ==
  /\ wpc[w] = "check"
  /\ stop /\ tasks = <<>>
  /\ mutex' = NoThread
  /\ wpc' = [wpc EXCEPT ![w] = "exited"]
  /\ UNCHANGED <<tasks, stop, running, opc, joined, enqueued>>

\* The predicate holds and tasks_ is not empty: take the front task, pop
\* it and leave the block, which unlocks mutex_ (lines 52-54).
WorkerPop(w) ==
  /\ wpc[w] = "check"
  /\ tasks # <<>>
  /\ running' = [running EXCEPT ![w] = Head(tasks)]
  /\ tasks' = Tail(tasks)
  /\ mutex' = NoThread
  /\ wpc' = [wpc EXCEPT ![w] = "run"]
  /\ UNCHANGED <<stop, opc, joined, enqueued>>

\* cond_.wait releases mutex_ and blocks, atomically.
WorkerBlock(w) ==
  /\ wpc[w] = "block"
  /\ mutex' = NoThread
  /\ wpc' = [wpc EXCEPT ![w] = "waiting"]
  /\ UNCHANGED <<tasks, stop, running, opc, joined, enqueued>>

\* task() returns, line 56, and the loop starts again.
WorkerRun(w) ==
  /\ wpc[w] = "run"
  /\ running' = [running EXCEPT ![w] = NoTask]
  /\ wpc' = [wpc EXCEPT ![w] = "lock"]
  /\ UNCHANGED <<tasks, stop, mutex, opc, joined, enqueued>>

---------------------------------------------------------------------------
(* The owner thread.                                                       *)

\* Waking threads blocked on cond_: they leave the wait set and relock.
Wake(S) == [w \in Workers |-> IF w \in S THEN "lock" ELSE wpc[w]]
Waiting == {w \in Workers : wpc[w] = "waiting"}

\* Enqueue, lines 80-88: under mutex_, stop_ is tested and the task is
\* pushed.  The owner is the only caller and it calls Enqueue only before
\* it destroys the pool, so the throw of line 85 is never taken.
Enqueue(t) ==
  /\ opc = "idle"
  /\ t \notin enqueued
  /\ mutex = NoThread
  /\ ~stop
  /\ tasks' = Append(tasks, t)
  /\ enqueued' = enqueued \cup {t}
  /\ opc' = "notify"
  /\ UNCHANGED <<stop, mutex, wpc, running, joined>>

\* Mutant: Enqueue returns without cond_.notify_one().
EnqueueNoNotify ==
  /\ opc = "notify"
  /\ opc' = "idle"
  /\ UNCHANGED <<tasks, stop, mutex, wpc, running, joined, enqueued>>

\* cond_.notify_one(), line 89, after the lock was released: wakes one
\* waiting worker if there is one.
EnqueueNotify ==
  /\ opc = "notify"
  /\ \/ \E w \in Waiting : wpc' = Wake({w})
     \/ Waiting = {} /\ UNCHANGED wpc
  /\ opc' = "idle"
  /\ UNCHANGED <<tasks, stop, mutex, running, joined, enqueued>>

\* ~ThreadPool, line 62: stop_.store(true) without taking mutex_.
DestroyStop ==
  /\ opc = "idle"
  /\ stop' = TRUE
  /\ opc' = "notifyall"
  /\ UNCHANGED <<tasks, mutex, wpc, running, joined, enqueued>>

\* cond_.notify_all(), line 63.
DestroyNotifyAll ==
  /\ opc = "notifyall"
  /\ wpc' = Wake(Waiting)
  /\ opc' = "join"
  /\ UNCHANGED <<tasks, stop, mutex, running, joined, enqueued>>

\* worker.join() for each worker in turn, line 65; the destructor returns
\* after the last one.
DestroyJoin ==
  /\ opc = "join"
  /\ joined < NumWorkers
  /\ wpc[joined + 1] = "exited"
  /\ joined' = joined + 1
  /\ opc' = IF joined + 1 = NumWorkers THEN "returned" ELSE "join"
  /\ UNCHANGED <<tasks, stop, mutex, wpc, running, enqueued>>

---------------------------------------------------------------------------

WorkerStep(w) ==
  \/ WorkerLock(w) \/ WorkerCheckWait(w) \/ WorkerExit(w) \/ WorkerPop(w)
  \/ WorkerBlock(w) \/ WorkerRun(w)

OwnerTeardown == EnqueueNotify \/ DestroyNotifyAll \/ DestroyJoin

PoolNext ==
  \/ \E w \in Workers : WorkerStep(w)
  \/ \E t \in Tasks : Enqueue(t)
  \/ EnqueueNotify
  \/ DestroyStop
  \/ DestroyNotifyAll
  \/ DestroyJoin

\* Worker threads are OS threads, and once the owner has begun a notify
\* or the teardown it carries on; whether and when the owner enqueues or
\* starts destroying the pool is its caller's choice, so those two steps
\* have no fairness.
PoolFairness ==
  /\ \A w \in Workers : WF_poolVars(WorkerStep(w))
  /\ WF_poolVars(OwnerTeardown)

PoolSpec == PoolInit /\ [][PoolNext]_poolVars /\ PoolFairness

---------------------------------------------------------------------------
(* Properties.                                                             *)

\* Once ~ThreadPool has stored stop_, it returns: every worker wakes up,
\* sees stop_ and an empty queue, and is joined.
DestructorReturns == stop ~> opc = "returned"

=============================================================================
