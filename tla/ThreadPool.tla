----------------------------- MODULE ThreadPool -----------------------------
(***************************************************************************)
(* framework/core/thread_pool.h, thread_pool.inl: the pool of worker       *)
(* threads that runs every prediction of the engine.                       *)
(*                                                                         *)
(* The three critical sections of the pool (the worker's check of the      *)
(* queue, the emplace of RunSync / RunAsync, stop) all hold _mut, so each  *)
(* is one step; what happens outside _mut (notify_one after the emplace,   *)
(* notify_all and the joins after stop, the task itself) is a step of its  *)
(* own.  cv.wait gives _mut up and goes to sleep in one step, and a woken  *)
(* thread evaluates the loop condition again.                              *)
(***************************************************************************)
EXTENDS Naturals, Sequences, FiniteSets

CONSTANTS Workers,  \* the _num_thread threads that launch() starts
          Callers,  \* the threads that call RunSync / RunAsync
          Tasks,    \* the submissions of a behaviour, one task each
          NoTask    \* a std::function that holds nothing

ASSUME PoolAssumption == /\ IsFiniteSet(Workers) /\ IsFiniteSet(Callers)
                         /\ NoTask \notin Tasks

VARIABLES
  pool,     \* where the pool's owner is: launch(), normal use, ~ThreadPool
  _stop,    \* the flag set by stop()
  _tasks,   \* the queue of tasks nobody has taken
  wpc,      \* program counter of each worker thread
  wtask,    \* `task', the local variable of the worker's loop
  cpc,      \* program counter of each calling thread
  ctask,    \* the task of the call a calling thread is in
  kind,     \* whether a task was given to RunSync or to RunAsync
  fut       \* shared state of the task's future

vars == <<pool, _stop, _tasks, wpc, wtask, cpc, ctask, kind, fut>>

WorkerPcs == {"none",    \* not started yet
              "init",    \* started, init() not yet run
              "check",   \* about to lock _mut and test the loop condition
              "asleep",  \* in _cv.wait
              "aux",     \* has a task, auxiliary_funcs() not yet run
              "call",    \* about to run, or running, the task
              "exited"}  \* has returned

TypeOK ==
  /\ pool \in {"launching", "up", "stopped", "joining", "dead"}
  /\ _stop \in BOOLEAN
  /\ _tasks \in Seq(Tasks)
  /\ wpc \in [Workers -> WorkerPcs]
  /\ wtask \in [Workers -> Tasks \cup {NoTask}]
  /\ cpc \in [Callers -> {"idle", "notify", "get"}]
  /\ ctask \in [Callers -> Tasks \cup {NoTask}]
  /\ kind \in [Tasks -> {"none", "sync", "async"}]
  /\ fut \in [Tasks -> {"none", "pending", "ready", "broken"}]

Init ==
  /\ pool = "launching"
  /\ _stop = FALSE
  /\ _tasks = <<>>
  /\ wpc = [w \in Workers |-> "none"]
  /\ wtask = [w \in Workers |-> NoTask]
  /\ cpc = [c \in Callers |-> "idle"]
  /\ ctask = [c \in Callers |-> NoTask]
  /\ kind = [t \in Tasks |-> "none"]
  /\ fut = [t \in Tasks |-> "none"]

Sleeping == {w \in Workers : wpc[w] = "asleep"}
Checking == {w \in Workers : wpc[w] = "check"}
Notifying == {c \in Callers : cpc[c] = "notify"}
Queued(t) == \E i \in 1..Len(_tasks) : _tasks[i] = t
Held(t) == \E w \in Workers : wtask[w] = t

-----------------------------------------------------------------------------
(* launch(): the owner starts the threads one after the other.             *)

Launch(w) ==
  /\ pool = "launching"
  /\ wpc[w] = "none"
  /\ wpc' = [wpc EXCEPT ![w] = "init"]
  /\ pool' = IF \A v \in Workers \ {w} : wpc[v] # "none" THEN "up" ELSE pool
  /\ UNCHANGED <<_stop, _tasks, wtask, cpc, ctask, kind, fut>>

-----------------------------------------------------------------------------
(* The body of a worker thread.                                            *)

WorkerInit(w) ==
  /\ wpc[w] = "init"
  /\ wpc' = [wpc EXCEPT ![w] = "check"]
  /\ UNCHANGED <<pool, _stop, _tasks, wtask, cpc, ctask, kind, fut>>

Sleep(w) ==
  /\ wpc[w] = "check"
  /\ ~_stop /\ _tasks = <<>>
  /\ wpc' = [wpc EXCEPT ![w] = "asleep"]
  /\ UNCHANGED <<pool, _stop, _tasks, wtask, cpc, ctask, kind, fut>>

\* A condition variable may wake without a notification.
SpuriousWakeup(w) ==
  /\ wpc[w] = "asleep"
  /\ wpc' = [wpc EXCEPT ![w] = "check"]
  /\ UNCHANGED <<pool, _stop, _tasks, wtask, cpc, ctask, kind, fut>>

\* The test of _stop comes first: a stopped worker leaves queued tasks behind.
Exit(w) ==
  /\ wpc[w] = "check"
  /\ _stop
  /\ wpc' = [wpc EXCEPT ![w] = "exited"]
  /\ UNCHANGED <<pool, _stop, _tasks, wtask, cpc, ctask, kind, fut>>

\* Faulty variant: the front of the queue is moved from but not popped.
Take_NoPop(w) ==
  /\ wpc[w] = "check"
  /\ ~_stop /\ _tasks # <<>>
  /\ wtask' = [wtask EXCEPT ![w] = Head(_tasks)]
  /\ wpc' = [wpc EXCEPT ![w] = "aux"]
  /\ UNCHANGED <<pool, _stop, _tasks, cpc, ctask, kind, fut>>

\* Faulty variant: the queue is used as a stack.
Take_Lifo(w) ==
  /\ wpc[w] = "check"
  /\ ~_stop /\ _tasks # <<>>
  /\ wtask' = [wtask EXCEPT ![w] = _tasks[Len(_tasks)]]
  /\ _tasks' = SubSeq(_tasks, 1, Len(_tasks) - 1)
  /\ wpc' = [wpc EXCEPT ![w] = "aux"]
  /\ UNCHANGED <<pool, _stop, cpc, ctask, kind, fut>>

Take(w) ==
  /\ wpc[w] = "check"
  /\ ~_stop /\ _tasks # <<>>
  /\ wtask' = [wtask EXCEPT ![w] = Head(_tasks)]
  /\ _tasks' = Tail(_tasks)
  /\ wpc' = [wpc EXCEPT ![w] = "aux"]
  /\ UNCHANGED <<pool, _stop, cpc, ctask, kind, fut>>

\* Faulty variant: _stop is tested again when the task was already popped.
AuxiliaryFuncs_TestsStop(w) ==
  /\ wpc[w] = "aux"
  /\ wpc' = [wpc EXCEPT ![w] = IF _stop THEN "exited" ELSE "call"]
  /\ UNCHANGED <<pool, _stop, _tasks, wtask, cpc, ctask, kind, fut>>

AuxiliaryFuncs(w) ==
  /\ wpc[w] = "aux"
  /\ wpc' = [wpc EXCEPT ![w] = "call"]
  /\ UNCHANGED <<pool, _stop, _tasks, wtask, cpc, ctask, kind, fut>>

\* Faulty variant: the task runs without the packaged_task around it.
Call_NoPromise(w) ==
  /\ wpc[w] = "call"
  /\ wtask' = [wtask EXCEPT ![w] = NoTask]
  /\ wpc' = [wpc EXCEPT ![w] = "check"]
  /\ UNCHANGED <<pool, _stop, _tasks, cpc, ctask, kind, fut>>

\* task(): the packaged_task runs and makes its future ready.  The local
\* std::function is destroyed at the end of the loop's body.  That the future gets
\* ready and that the worker leaves operator() of the packaged_task, which for
\* RunSync is the caller's, are one step: what the library does between the two
\* is not told apart.
Call(w) ==
  /\ wpc[w] = "call"
  /\ fut' = [fut EXCEPT ![wtask[w]] = "ready"]
  /\ wtask' = [wtask EXCEPT ![w] = NoTask]
  /\ wpc' = [wpc EXCEPT ![w] = "check"]
  /\ UNCHANGED <<pool, _stop, _tasks, cpc, ctask, kind>>

-----------------------------------------------------------------------------
(* RunSync and RunAsync: emplace under _mut, then notify_one without it.   *)

\* Faulty variant: the function object is moved from before it is queued.
Emplace_MovedFrom(c, t, k) ==
  /\ pool \in {"launching", "up"}
  /\ cpc[c] = "idle"
  /\ kind[t] = "none"
  /\ kind' = [kind EXCEPT ![t] = k]
  /\ fut' = [fut EXCEPT ![t] = "pending"]
  /\ _tasks' = Append(_tasks, NoTask)
  /\ ctask' = [ctask EXCEPT ![c] = t]
  /\ cpc' = [cpc EXCEPT ![c] = "notify"]
  /\ UNCHANGED <<pool, _stop, wpc, wtask>>

Emplace(c, t, k) ==
  /\ pool \in {"launching", "up"}
  /\ cpc[c] = "idle"
  /\ kind[t] = "none"
  /\ kind' = [kind EXCEPT ![t] = k]
  /\ fut' = [fut EXCEPT ![t] = "pending"]
  /\ _tasks' = Append(_tasks, t)
  /\ ctask' = [ctask EXCEPT ![c] = t]
  /\ cpc' = [cpc EXCEPT ![c] = "notify"]
  /\ UNCHANGED <<pool, _stop, wpc, wtask>>

RunSync(c, t) == Emplace(c, t, "sync")

RunAsync(c, t) == Emplace(c, t, "async")

\* Faulty variant: the notification is forgotten.
NotifyOne_Forgotten(c) ==
  /\ cpc[c] = "notify"
  /\ IF kind[ctask[c]] = "sync"
     THEN /\ cpc' = [cpc EXCEPT ![c] = "get"]
          /\ UNCHANGED ctask
     ELSE /\ cpc' = [cpc EXCEPT ![c] = "idle"]
          /\ ctask' = [ctask EXCEPT ![c] = NoTask]
  /\ UNCHANGED <<pool, _stop, _tasks, wpc, wtask, kind, fut>>

\* notify_one wakes one sleeping worker, if there is one.  RunAsync then
\* returns the future; RunSync goes on to result.get().
NotifyOne(c) ==
  /\ cpc[c] = "notify"
  /\ IF Sleeping = {}
     THEN UNCHANGED wpc
     ELSE \E w \in Sleeping : wpc' = [wpc EXCEPT ![w] = "check"]
  /\ IF kind[ctask[c]] = "sync"
     THEN /\ cpc' = [cpc EXCEPT ![c] = "get"]
          /\ UNCHANGED ctask
     ELSE /\ cpc' = [cpc EXCEPT ![c] = "idle"]
          /\ ctask' = [ctask EXCEPT ![c] = NoTask]
  /\ UNCHANGED <<pool, _stop, _tasks, wtask, kind, fut>>

\* Faulty variant: RunSync returns without waiting for its future.
SyncReturn_NoWait(c) ==
  /\ cpc[c] = "get"
  /\ cpc' = [cpc EXCEPT ![c] = "idle"]
  /\ ctask' = [ctask EXCEPT ![c] = NoTask]
  /\ UNCHANGED <<pool, _stop, _tasks, wpc, wtask, kind, fut>>

\* result.get() of RunSync returns; the caller's frame, and with it the
\* packaged_task that the queued lambda captured by reference, is gone.
SyncReturn(c) ==
  /\ cpc[c] = "get"
  /\ fut[ctask[c]] = "ready"
  /\ cpc' = [cpc EXCEPT ![c] = "idle"]
  /\ ctask' = [ctask EXCEPT ![c] = NoTask]
  /\ UNCHANGED <<pool, _stop, _tasks, wpc, wtask, kind, fut>>

-----------------------------------------------------------------------------
(* stop() and ~ThreadPool.                                                 *)

\* The public stop() sets the flag and wakes nobody.
Stop ==
  /\ pool = "up"
  /\ ~_stop
  /\ _stop' = TRUE
  /\ UNCHANGED <<pool, _tasks, wpc, wtask, cpc, ctask, kind, fut>>

\* The destructor starts with stop().  Its caller keeps the lifetime rule of
\* the object: no thread is still inside RunSync / RunAsync where those use
\* the pool's members.  A RunSync that is waiting in result.get() uses none.
DestructorStop ==
  /\ pool = "up"
  /\ Notifying = {}
  /\ _stop' = TRUE
  /\ pool' = "stopped"
  /\ UNCHANGED <<_tasks, wpc, wtask, cpc, ctask, kind, fut>>

\* Faulty variant: the destructor joins without waking the sleepers.
DestructorNotifyAll_Forgotten ==
  /\ pool = "stopped"
  /\ pool' = "joining"
  /\ UNCHANGED <<_stop, _tasks, wpc, wtask, cpc, ctask, kind, fut>>

DestructorNotifyAll ==
  /\ pool = "stopped"
  /\ wpc' = [w \in Workers |-> IF w \in Sleeping THEN "check" ELSE wpc[w]]
  /\ pool' = "joining"
  /\ UNCHANGED <<_stop, _tasks, wtask, cpc, ctask, kind, fut>>

\* Faulty variant: the queued lambdas do not own their packaged_task.
DestructorJoin_KeepsPromises ==
  /\ pool = "joining"
  /\ \A w \in Workers : wpc[w] = "exited"
  /\ pool' = "dead"
  /\ _tasks' = <<>>
  /\ UNCHANGED <<_stop, wpc, wtask, cpc, ctask, kind, fut>>

\* All joins have returned and the members are destroyed.  The lambda of an
\* asynchronous task owns the packaged_task: destroying the queue breaks its
\* promise.  The lambda of a synchronous task only refers to the caller's.
DestructorJoin ==
  /\ pool = "joining"
  /\ \A w \in Workers : wpc[w] = "exited"
  /\ pool' = "dead"
  /\ fut' = [t \in Tasks |-> IF Queued(t) /\ kind[t] = "async" THEN "broken"
                                                               ELSE fut[t]]
  /\ _tasks' = <<>>
  /\ UNCHANGED <<_stop, wpc, wtask, cpc, ctask, kind>>

-----------------------------------------------------------------------------
Worker(w) == \/ Launch(w) \/ WorkerInit(w) \/ Sleep(w) \/ Exit(w)
             \/ Take(w) \/ AuxiliaryFuncs(w) \/ Call(w)

Caller(c) == NotifyOne(c) \/ SyncReturn(c)

Destructor == DestructorNotifyAll \/ DestructorJoin

Next ==
  \/ \E w \in Workers : Worker(w) \/ SpuriousWakeup(w)
  \/ \E c \in Callers : \/ Caller(c)
                        \/ \E t \in Tasks : RunSync(c, t) \/ RunAsync(c, t)
  \/ Stop \/ DestructorStop \/ Destructor

Spec == Init /\ [][Next]_vars

\* The scheduler runs every thread that can run, tasks terminate, and a
\* destructor that has begun goes on.  Nobody has to submit, to stop or to
\* destroy the pool, and no thread has to wake spuriously.
Fairness ==
  /\ \A w \in Workers : WF_vars(Worker(w))
  /\ \A c \in Callers : WF_vars(Caller(c))
  /\ WF_vars(Destructor)

FairSpec == Spec /\ Fairness

-----------------------------------------------------------------------------
(* Properties.                                                             *)

\* No task is lost, duplicated or run twice between emplace, pop and call: a
\* task that is pending in a living pool is in the queue at exactly one
\* place or in the hands of exactly one worker, and a task that is settled,
\* or was never submitted, is in neither.
TaskInOnePlace ==
  /\ \A i, j \in 1..Len(_tasks) : _tasks[i] = _tasks[j] => i = j
  /\ \A v, w \in Workers : wtask[v] = wtask[w] /\ wtask[v] # NoTask => v = w
  /\ \A t \in Tasks : ~(Queued(t) /\ Held(t))
  /\ \A t \in Tasks : (Queued(t) \/ Held(t)) => fut[t] = "pending"
  /\ \A t \in Tasks :
       fut[t] = "pending" /\ pool # "dead" => Queued(t) \/ Held(t)

\* The lambda of RunSync captures the caller's stack by reference.  While the
\* task is queued or about to be called, the call that made it has not
\* returned, so the reference is good whenever a worker uses it.
CapturedFrameAlive ==
  \A t \in Tasks : kind[t] = "sync" /\ (Queued(t) \/ Held(t)) =>
    \E c \in Callers : ctask[c] = t /\ cpc[c] \in {"notify", "get"}

\* Notifying outside the mutex loses no wake-up: as long as some worker
\* sleeps, every queued task has a worker on its way to the queue or a
\* caller that is still going to notify.  (In a pool that was not stopped.)
EnoughAwake ==
  ~_stop /\ Sleeping # {} =>
    Len(_tasks) <= Cardinality(Checking) + Cardinality(Notifying)

\* When the destructor has finished, the future of every asynchronous task
\* is settled: it has its value or its promise is broken.
AsyncSettledAtDeath ==
  pool = "dead" => \A t \in Tasks : kind[t] = "async" => fut[t] # "pending"

\* Every submitted task is run, unless the pool is stopped first.
TaskCompletes ==
  \A t \in Tasks : fut[t] = "pending" ~> fut[t] = "ready" \/ _stop

\* A task that a worker took is run even when the pool is stopped meanwhile.
TakenTaskCompletes == \A t \in Tasks : Held(t) ~> fut[t] = "ready"

\* ~ThreadPool returns: no worker sleeps through the stop.
DestructorReturns == pool = "stopped" ~> pool = "dead"

\* A RunSync returns, unless its task was still queued when the pool was
\* stopped.
RunSyncReturns ==
  \A c \in Callers :
    cpc[c] = "get" ~>
      \/ cpc[c] = "idle"
      \/ _stop /\ fut[ctask[c]] = "pending" /\ ~Held(ctask[c])

-----------------------------------------------------------------------------
(* The pool implements the executor.                                       *)

StatusOf(t) ==
  CASE fut[t] = "none"    -> "none"
    [] fut[t] = "ready"   -> "done"
    [] fut[t] = "broken"  -> "dropped"
    [] fut[t] = "pending" -> IF Held(t) THEN "running"
                             ELSE IF pool = "dead" THEN "dropped"
                             ELSE "queued"

Executor == INSTANCE TaskExecutor WITH
              backlog <- _tasks,
              status <- [t \in Tasks |-> StatusOf(t)],
              closed <- _stop

\* Whatever the threads do, submitters see the executor: start in order of
\* submission, at most one run of a task, no start after stop().
ImplementsExecutor == Executor!ESpec
=============================================================================
