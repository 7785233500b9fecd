-------------------------- MODULE ThreadPoolProofs --------------------------
(* Proofs about ThreadPool, for any finite number of workers and callers   *)
(* and any set of tasks.                                                   *)
EXTENDS ThreadPool, FiniteSetTheorems, TLAPS

-----------------------------------------------------------------------------
(* Types.                                                                  *)

LEMMA TypeInit == Init => TypeOK
<1> SUFFICES ASSUME Init PROVE TypeOK
  OBVIOUS
<1> USE DEF Init, WorkerPcs
<1>0. _stop \in BOOLEAN
  BY Zenon
<1>1. _tasks \in Seq(Tasks)
  OBVIOUS
<1>2. /\ wpc \in [Workers -> WorkerPcs]
      /\ wtask \in [Workers -> Tasks \cup {NoTask}]
      /\ cpc \in [Callers -> {"idle", "notify", "get"}]
      /\ ctask \in [Callers -> Tasks \cup {NoTask}]
  OBVIOUS
<1>3. /\ kind \in [Tasks -> {"none", "sync", "async"}]
      /\ fut \in [Tasks -> {"none", "pending", "ready", "broken"}]
  OBVIOUS
<1> QED
  BY <1>0, <1>1, <1>2, <1>3 DEF TypeOK

LEMMA TypeNext == TypeOK /\ [Next]_vars => TypeOK'
<1> SUFFICES ASSUME TypeOK, [Next]_vars PROVE TypeOK'
  OBVIOUS
<1> USE DEF TypeOK, WorkerPcs
<1>1. ASSUME NEW w \in Workers, Launch(w) PROVE TypeOK'
  BY <1>1 DEF Launch
<1>2. ASSUME NEW w \in Workers, WorkerInit(w) PROVE TypeOK'
  BY <1>2 DEF WorkerInit
<1>3. ASSUME NEW w \in Workers, Sleep(w) PROVE TypeOK'
  BY <1>3 DEF Sleep
<1>4. ASSUME NEW w \in Workers, Exit(w) PROVE TypeOK'
  BY <1>4 DEF Exit
<1>5. ASSUME NEW w \in Workers, Take(w) PROVE TypeOK'
  BY <1>5 DEF Take
<1>6. ASSUME NEW w \in Workers, AuxiliaryFuncs(w) PROVE TypeOK'
  BY <1>6 DEF AuxiliaryFuncs
<1>7. ASSUME NEW w \in Workers, Call(w) PROVE TypeOK'
  BY <1>7 DEF Call
<1>8. ASSUME NEW w \in Workers, SpuriousWakeup(w) PROVE TypeOK'
  BY <1>8 DEF SpuriousWakeup
<1>9. ASSUME NEW c \in Callers, NEW t \in Tasks, NEW k \in {"sync", "async"},
             Emplace(c, t, k)
      PROVE TypeOK'
  BY <1>9 DEF Emplace
<1>10. ASSUME NEW c \in Callers, NotifyOne(c) PROVE TypeOK'
  BY <1>10 DEF NotifyOne, Sleeping
<1>11. ASSUME NEW c \in Callers, SyncReturn(c) PROVE TypeOK'
  BY <1>11 DEF SyncReturn
<1>12. CASE Stop
  BY <1>12 DEF Stop
<1>13. CASE DestructorStop
  BY <1>13 DEF DestructorStop
<1>14. CASE DestructorNotifyAll
  BY <1>14 DEF DestructorNotifyAll
<1>15. CASE DestructorJoin
  BY <1>15 DEF DestructorJoin
<1>16. CASE UNCHANGED vars
  BY <1>16 DEF vars
<1> QED
  BY <1>1, <1>2, <1>3, <1>4, <1>5, <1>6, <1>7, <1>8, <1>9, <1>10, <1>11,
     <1>12, <1>13, <1>14, <1>15, <1>16
  DEF Next, Worker, Caller, Destructor, RunSync, RunAsync

\* Every variable of the pool keeps its type.
THEOREM TypeCorrect == Spec => []TypeOK
BY TypeInit, TypeNext, PTL DEF Spec

-----------------------------------------------------------------------------
(* The inductive invariant.                                                *)

\* What the program counters say about the local variables, and the
\* destructor's progress about the rest of the pool.
PcInv ==
  /\ \A w \in Workers : wtask[w] # NoTask <=> wpc[w] \in {"aux", "call"}
  /\ \A c \in Callers : ctask[c] = NoTask <=> cpc[c] = "idle"
  /\ \A c \in Callers : cpc[c] = "get" => kind[ctask[c]] = "sync"
  /\ \A t \in Tasks : kind[t] = "none" <=> fut[t] = "none"
  /\ pool \in {"stopped", "joining", "dead"} => _stop
  /\ pool = "dead" => /\ _tasks = <<>>
                      /\ \A w \in Workers : wpc[w] = "exited"

PoolInv == /\ TypeOK /\ PcInv /\ TaskInOnePlace
           /\ CapturedFrameAlive /\ AsyncSettledAtDeath

LEMMA PoolInvInit == Init => PoolInv
<1> SUFFICES ASSUME Init PROVE PoolInv
  OBVIOUS
<1>1. PcInv
  BY PoolAssumption DEF Init, PcInv
<1>2. \A t \in Tasks : ~Queued(t) /\ ~Held(t)
  BY PoolAssumption DEF Init, Queued, Held
<1>3. TaskInOnePlace
  BY <1>2 DEF Init, TaskInOnePlace
<1>4. CapturedFrameAlive /\ AsyncSettledAtDeath
  BY <1>2 DEF Init, CapturedFrameAlive, AsyncSettledAtDeath
<1> QED
  BY TypeInit, <1>1, <1>3, <1>4 DEF PoolInv

\* What taking the front does to the set of queued tasks.
LEMMA QueuedTake ==
  ASSUME TypeOK, TaskInOnePlace, _tasks # <<>>, _tasks' = Tail(_tasks)
  PROVE /\ Queued(Head(_tasks))
        /\ \A t \in Tasks : Queued(t)' <=> Queued(t) /\ t # Head(_tasks)
        /\ \A i, j \in 1..Len(_tasks') : _tasks'[i] = _tasks'[j] => i = j
<1>1. /\ _tasks \in Seq(Tasks)
      /\ Len(_tasks) \in Nat \ {0}
      /\ Len(Tail(_tasks)) = Len(_tasks) - 1
      /\ \A i \in 1..Len(_tasks) - 1 : Tail(_tasks)[i] = _tasks[i + 1]
      /\ Head(_tasks) = _tasks[1]
  BY DEF TypeOK
<1>2. \A i, j \in 1..Len(_tasks) : _tasks[i] = _tasks[j] => i = j
  BY DEF TaskInOnePlace
<1>3. Queued(Head(_tasks))
  BY <1>1 DEF Queued
<1>4. \A i, j \in 1..Len(_tasks') : _tasks'[i] = _tasks'[j] => i = j
  BY <1>1, <1>2
<1>5. ASSUME NEW t \in Tasks, Queued(t)' PROVE Queued(t) /\ t # Head(_tasks)
  <2>1. PICK i \in 1..Len(_tasks) - 1 : _tasks[i + 1] = t
    BY <1>1, <1>5 DEF Queued
  <2> QED
    BY <1>1, <1>2, <2>1 DEF Queued
<1>6. ASSUME NEW t \in Tasks, Queued(t), t # Head(_tasks) PROVE Queued(t)'
  <2>1. PICK i \in 1..Len(_tasks) : _tasks[i] = t
    BY <1>6 DEF Queued
  <2>2. i - 1 \in 1..Len(_tasks) - 1 /\ Tail(_tasks)[i - 1] = t
    BY <1>1, <1>6, <2>1
  <2> QED
    BY <1>1, <2>2 DEF Queued
<1> QED
  BY <1>3, <1>4, <1>5, <1>6

\* What an emplace does to the set of queued tasks.
LEMMA QueuedEmplace ==
  ASSUME TypeOK, TaskInOnePlace, NEW u \in Tasks, ~Queued(u),
         _tasks' = Append(_tasks, u)
  PROVE /\ \A t \in Tasks : Queued(t)' <=> Queued(t) \/ t = u
        /\ \A i, j \in 1..Len(_tasks') : _tasks'[i] = _tasks'[j] => i = j
<1>1. /\ _tasks \in Seq(Tasks)
      /\ Len(_tasks) \in Nat
      /\ Len(_tasks') = Len(_tasks) + 1
      /\ \A i \in 1..Len(_tasks) : _tasks'[i] = _tasks[i]
      /\ _tasks'[Len(_tasks) + 1] = u
  BY DEF TypeOK
<1>2. \A i, j \in 1..Len(_tasks) : _tasks[i] = _tasks[j] => i = j
  BY DEF TaskInOnePlace
<1>3. \A i \in 1..Len(_tasks) : _tasks[i] # u
  BY DEF Queued
<1>4. \A i, j \in 1..Len(_tasks') : _tasks'[i] = _tasks'[j] => i = j
  BY <1>1, <1>2, <1>3
<1>5. ASSUME NEW t \in Tasks PROVE Queued(t)' <=> Queued(t) \/ t = u
  BY <1>1 DEF Queued
<1> QED
  BY <1>4, <1>5

\* A step that leaves the queue, the workers' tasks, the futures and the
\* pool's life alone keeps the place of every task.
LEMMA PlaceUnchanged ==
  ASSUME TaskInOnePlace, UNCHANGED <<_tasks, wtask, fut>>,
         pool' = "dead" <=> pool = "dead"
  PROVE /\ TaskInOnePlace'
        /\ \A t \in Tasks : (Queued(t) \/ Held(t))' <=> Queued(t) \/ Held(t)
<1>1. \A t \in Tasks : Queued(t)' <=> Queued(t)
  BY DEF Queued
<1>2. \A t \in Tasks : Held(t)' <=> Held(t)
  BY DEF Held
<1>3. _tasks' = _tasks /\ wtask' = wtask /\ fut' = fut
  OBVIOUS
<1>4. TaskInOnePlace'
  BY <1>1, <1>2, <1>3 DEF TaskInOnePlace
<1> QED
  BY <1>1, <1>2, <1>4

LEMMA PoolInvNext == PoolInv /\ [Next]_vars => PoolInv'
<1> SUFFICES ASSUME PoolInv, [Next]_vars PROVE PoolInv'
  OBVIOUS
<1>0. TypeOK' /\ TypeOK /\ PcInv /\ TaskInOnePlace /\ CapturedFrameAlive
      /\ AsyncSettledAtDeath
  BY TypeNext DEF PoolInv
<1> USE PoolAssumption
<1>1. ASSUME NEW w \in Workers,
             \/ Launch(w) \/ WorkerInit(w) \/ Sleep(w) \/ Exit(w)
             \/ AuxiliaryFuncs(w) \/ SpuriousWakeup(w)
      PROVE PoolInv'
  <2>1. /\ UNCHANGED <<_stop, _tasks, wtask, cpc, ctask, kind, fut>>
        /\ (pool' = "dead" <=> pool = "dead")
        /\ \E p \in WorkerPcs : wpc' = [wpc EXCEPT ![w] = p] /\
             (p \in {"aux", "call"} <=> wpc[w] \in {"aux", "call"})
        /\ (pool' \in {"stopped", "joining", "dead"} <=>
              pool \in {"stopped", "joining", "dead"})
    BY <1>0, <1>1 DEF TypeOK, WorkerPcs, Launch, WorkerInit, Sleep, Exit, AuxiliaryFuncs,
       SpuriousWakeup
  <2>2. PcInv'
    <3>1. wpc[w] # "exited"
      BY <1>1 DEF Launch, WorkerInit, Sleep, Exit, AuxiliaryFuncs, SpuriousWakeup
    <3> QED
      BY <1>0, <2>1, <3>1 DEF PcInv, TypeOK
  <2>3. TaskInOnePlace' /\ \A t \in Tasks : (Queued(t) \/ Held(t))' <=> Queued(t) \/ Held(t)
    BY <1>0, <2>1, PlaceUnchanged
  <2>4. CapturedFrameAlive' /\ AsyncSettledAtDeath'
    BY <1>0, <2>1, <2>3 DEF CapturedFrameAlive, AsyncSettledAtDeath
  <2> QED
    BY <1>0, <2>2, <2>3, <2>4 DEF PoolInv
<1>2. ASSUME NEW w \in Workers, Take(w) PROVE PoolInv'
  <2> DEFINE u == Head(_tasks)
  <2>1. /\ wpc[w] = "check" /\ _tasks # <<>> /\ _tasks' = Tail(_tasks)
        /\ wtask' = [wtask EXCEPT ![w] = u]
        /\ wpc' = [wpc EXCEPT ![w] = "aux"]
        /\ UNCHANGED <<pool, _stop, cpc, ctask, kind, fut>>
        /\ u \in Tasks
    BY <1>0, <1>2 DEF Take, TypeOK
  <2>2. /\ Queued(u)
        /\ \A t \in Tasks : Queued(t)' <=> Queued(t) /\ t # u
        /\ \A i, j \in 1..Len(_tasks') : _tasks'[i] = _tasks'[j] => i = j
    BY <1>0, <2>1, QueuedTake
  <2> HIDE DEF u
  <2>3. wtask[w] = NoTask
    BY <1>0, <2>1 DEF PcInv
  <2>4. \A t \in Tasks : Held(t)' <=> Held(t) \/ t = u
    BY <1>0, <2>1, <2>3 DEF Held, TypeOK
  <2>5. PcInv'
    BY <1>0, <2>1 DEF PcInv, TypeOK
  <2>6. \A v, x \in Workers : wtask'[v] = wtask'[x] /\ wtask'[v] # NoTask => v = x
    BY <1>0, <2>1, <2>2 DEF TaskInOnePlace, Held, TypeOK
  <2>7. TaskInOnePlace'
    BY <1>0, <2>1, <2>2, <2>4, <2>6 DEF TaskInOnePlace
  <2>8. CapturedFrameAlive' /\ AsyncSettledAtDeath'
    BY <1>0, <2>1, <2>2, <2>4 DEF CapturedFrameAlive, AsyncSettledAtDeath
  <2> QED
    BY <1>0, <2>5, <2>7, <2>8 DEF PoolInv
<1>3. ASSUME NEW w \in Workers, Call(w) PROVE PoolInv'
  <2> DEFINE u == wtask[w]
  <2>1. /\ wpc[w] = "call" /\ fut' = [fut EXCEPT ![u] = "ready"]
        /\ wtask' = [wtask EXCEPT ![w] = NoTask]
        /\ wpc' = [wpc EXCEPT ![w] = "check"]
        /\ UNCHANGED <<pool, _stop, _tasks, cpc, ctask, kind>>
        /\ u \in Tasks
    BY <1>0, <1>3 DEF Call, TypeOK, PcInv
  <2>2. Held(u) /\ ~Queued(u) /\ fut[u] = "pending"
    BY <1>0, <2>1 DEF Held, TaskInOnePlace
  <2>3. \A t \in Tasks : Held(t)' <=> Held(t) /\ t # u
    BY <1>0, <2>1 DEF Held, TaskInOnePlace, TypeOK
  <2>4. \A t \in Tasks : Queued(t)' <=> Queued(t)
    BY <2>1 DEF Queued
  <2>5. PcInv'
    BY <1>0, <2>1, <2>2 DEF PcInv, TypeOK
  <2>6. \A v, x \in Workers : wtask'[v] = wtask'[x] /\ wtask'[v] # NoTask => v = x
    BY <1>0, <2>1 DEF TaskInOnePlace, TypeOK
  <2>7. \A t \in Tasks : fut'[t] = IF t = u THEN "ready" ELSE fut[t]
    BY <1>0, <2>1 DEF TypeOK
  <2> HIDE DEF u
  <2>8. TaskInOnePlace'
    BY <1>0, <2>1, <2>2, <2>3, <2>4, <2>6, <2>7 DEF TaskInOnePlace
  <2>9. CapturedFrameAlive' /\ AsyncSettledAtDeath'
    BY <1>0, <2>1, <2>3, <2>4, <2>7 DEF CapturedFrameAlive, AsyncSettledAtDeath
  <2> QED
    BY <1>0, <2>5, <2>8, <2>9 DEF PoolInv
<1>4. ASSUME NEW c \in Callers, NEW u \in Tasks, NEW k \in {"sync", "async"},
             Emplace(c, u, k)
      PROVE PoolInv'
  <2>1. /\ pool \in {"launching", "up"} /\ cpc[c] = "idle" /\ kind[u] = "none"
        /\ kind' = [kind EXCEPT ![u] = k]
        /\ fut' = [fut EXCEPT ![u] = "pending"]
        /\ _tasks' = Append(_tasks, u)
        /\ ctask' = [ctask EXCEPT ![c] = u]
        /\ cpc' = [cpc EXCEPT ![c] = "notify"]
        /\ UNCHANGED <<pool, _stop, wpc, wtask>>
    BY <1>4 DEF Emplace
  <2>2. fut[u] = "none" /\ ~Queued(u) /\ ~Held(u)
    BY <1>0, <2>1 DEF PcInv, TaskInOnePlace
  <2>3. /\ \A t \in Tasks : Queued(t)' <=> Queued(t) \/ t = u
        /\ \A i, j \in 1..Len(_tasks') : _tasks'[i] = _tasks'[j] => i = j
    BY <1>0, <2>1, <2>2, QueuedEmplace
  <2>4. \A t \in Tasks : Held(t)' <=> Held(t)
    BY <2>1 DEF Held
  <2>5. \A t \in Tasks : /\ fut'[t] = IF t = u THEN "pending" ELSE fut[t]
                        /\ kind'[t] = IF t = u THEN k ELSE kind[t]
    BY <1>0, <2>1 DEF TypeOK
  <2>6. \A d \in Callers : /\ ctask'[d] = IF d = c THEN u ELSE ctask[d]
                          /\ cpc'[d] = IF d = c THEN "notify" ELSE cpc[d]
    BY <1>0, <2>1 DEF TypeOK
  <2>7. PcInv'
    <3>1. \A d \in Callers : cpc[d] = "get" => ctask[d] \in Tasks /\ ctask[d] # u
      BY <1>0, <2>1 DEF PcInv, TypeOK
    <3>2. \A d \in Callers : cpc'[d] = "get" => kind'[ctask'[d]] = "sync"
      BY <1>0, <2>5, <2>6, <3>1 DEF PcInv
    <3> QED
      BY <1>0, <2>1, <2>5, <2>6, <3>2 DEF PcInv
  <2>8. TaskInOnePlace'
    BY <1>0, <2>1, <2>2, <2>3, <2>4, <2>5 DEF TaskInOnePlace
  <2>9. CapturedFrameAlive'
    <3> SUFFICES ASSUME NEW t \in Tasks, kind'[t] = "sync", (Queued(t) \/ Held(t))'
                 PROVE \E d \in Callers : ctask'[d] = t /\ cpc'[d] \in {"notify", "get"}
      BY DEF CapturedFrameAlive
    <3>1. CASE t = u
      BY <2>6, <3>1
    <3>2. CASE t # u
      <4>1. PICK d \in Callers : ctask[d] = t /\ cpc[d] \in {"notify", "get"}
        BY <1>0, <2>3, <2>4, <2>5, <3>2 DEF CapturedFrameAlive
      <4> QED
        BY <2>1, <2>6, <4>1
    <3> QED
      BY <3>1, <3>2
  <2>10. AsyncSettledAtDeath'
    BY <2>1 DEF AsyncSettledAtDeath
  <2> QED
    BY <1>0, <2>7, <2>8, <2>9, <2>10 DEF PoolInv
<1>5. ASSUME NEW c \in Callers, NotifyOne(c) \/ SyncReturn(c) PROVE PoolInv'
  <2>1. UNCHANGED <<pool, _stop, _tasks, wtask, kind, fut>>
    BY <1>5 DEF NotifyOne, SyncReturn
  <2>2. TaskInOnePlace' /\ \A t \in Tasks : (Queued(t) \/ Held(t))' <=> Queued(t) \/ Held(t)
    BY <1>0, <2>1, PlaceUnchanged
  <2>3. \/ wpc' = wpc
        \/ \E w \in Workers : wpc[w] = "asleep" /\ wpc' = [wpc EXCEPT ![w] = "check"]
    BY <1>5 DEF NotifyOne, SyncReturn, Sleeping
  <2>4. \/ /\ cpc' = [cpc EXCEPT ![c] = "get"] /\ ctask' = ctask
           /\ cpc[c] = "notify" /\ kind[ctask[c]] = "sync"
        \/ /\ cpc' = [cpc EXCEPT ![c] = "idle"]
           /\ ctask' = [ctask EXCEPT ![c] = NoTask]
           /\ ctask[c] \in Tasks
           /\ kind[ctask[c]] # "sync" \/ fut[ctask[c]] = "ready"
    BY <1>0, <1>5 DEF NotifyOne, SyncReturn, PcInv, TypeOK
  <2>5. PcInv'
    BY <1>0, <2>1, <2>3, <2>4 DEF PcInv, TypeOK
  <2>6. CapturedFrameAlive'
    <3> SUFFICES ASSUME NEW t \in Tasks, kind'[t] = "sync", (Queued(t) \/ Held(t))'
                 PROVE \E d \in Callers : ctask'[d] = t /\ cpc'[d] \in {"notify", "get"}
      BY DEF CapturedFrameAlive
    <3>1. PICK d \in Callers : ctask[d] = t /\ cpc[d] \in {"notify", "get"}
      BY <1>0, <2>1, <2>2 DEF CapturedFrameAlive
    <3>2. fut[t] = "pending" /\ kind[t] = "sync"
      BY <1>0, <2>1, <2>2 DEF TaskInOnePlace
    <3> QED
      BY <1>0, <2>4, <3>1, <3>2 DEF TypeOK
  <2>7. AsyncSettledAtDeath'
    BY <1>0, <2>1 DEF AsyncSettledAtDeath
  <2> QED
    BY <1>0, <2>2, <2>5, <2>6, <2>7 DEF PoolInv
<1>6. ASSUME Stop \/ DestructorStop \/ DestructorNotifyAll PROVE PoolInv'
  <2>1. /\ UNCHANGED <<_tasks, wtask, cpc, ctask, kind, fut>>
        /\ pool \in {"up", "stopped"} /\ pool' # "dead" /\ _stop'
        /\ \A w \in Workers : wpc'[w] = wpc[w] \/ (wpc[w] = "asleep" /\ wpc'[w] = "check")
    BY <1>0, <1>6 DEF Stop, DestructorStop, DestructorNotifyAll, Sleeping, PcInv
  <2>2. PcInv'
    BY <1>0, <2>1 DEF PcInv, TypeOK
  <2>3. TaskInOnePlace' /\ \A t \in Tasks : (Queued(t) \/ Held(t))' <=> Queued(t) \/ Held(t)
    BY <1>0, <2>1, PlaceUnchanged
  <2>4. CapturedFrameAlive' /\ AsyncSettledAtDeath'
    BY <1>0, <2>1, <2>3 DEF CapturedFrameAlive, AsyncSettledAtDeath
  <2> QED
    BY <1>0, <2>2, <2>3, <2>4 DEF PoolInv
<1>7. ASSUME DestructorJoin PROVE PoolInv'
  <2>1. /\ pool = "joining" /\ pool' = "dead" /\ _tasks' = <<>>
        /\ \A w \in Workers : wpc[w] = "exited"
        /\ \A t \in Tasks : fut'[t] = IF Queued(t) /\ kind[t] = "async"
                                      THEN "broken" ELSE fut[t]
        /\ UNCHANGED <<_stop, wpc, wtask, cpc, ctask, kind>>
    BY <1>7 DEF DestructorJoin
  <2>2. \A w \in Workers : wtask[w] = NoTask
    BY <1>0, <2>1 DEF PcInv
  <2>3. \A t \in Tasks : ~Queued(t)' /\ ~Held(t)' /\ ~Held(t)
    BY <2>1, <2>2 DEF Queued, Held
  <2>4. PcInv'
    BY <1>0, <2>1, <2>2 DEF PcInv, TypeOK
  <2>5. TaskInOnePlace'
    BY <2>1, <2>2, <2>3 DEF TaskInOnePlace
  <2>6. CapturedFrameAlive' /\ AsyncSettledAtDeath'
    BY <1>0, <2>1, <2>3 DEF CapturedFrameAlive, AsyncSettledAtDeath, TaskInOnePlace
  <2> QED
    BY <1>0, <2>4, <2>5, <2>6 DEF PoolInv
<1>8. CASE UNCHANGED vars
  BY <1>0, <1>8 DEF vars, PoolInv, PcInv, TaskInOnePlace, CapturedFrameAlive,
     AsyncSettledAtDeath, Queued, Held
<1> QED
  BY <1>1, <1>2, <1>3, <1>4, <1>5, <1>6, <1>7, <1>8
  DEF Next, Worker, Caller, Destructor, RunSync, RunAsync

\* The inductive invariant holds throughout.
LEMMA PoolInvariant == Spec => []PoolInv
BY PoolInvInit, PoolInvNext, PTL DEF Spec

\* No task of the pool is lost, duplicated or run twice.
THEOREM TasksConserved == Spec => []TaskInOnePlace
BY PoolInvariant, PTL DEF PoolInv

\* A worker never uses the stack frame of a RunSync that has returned.
THEOREM FrameAlive == Spec => []CapturedFrameAlive
BY PoolInvariant, PTL DEF PoolInv

\* The destructor leaves no asynchronous future unsettled.
THEOREM AsyncSettled == Spec => []AsyncSettledAtDeath
BY PoolInvariant, PTL DEF PoolInv

-----------------------------------------------------------------------------
(* Wake-ups.                                                               *)

LEMMA FiniteCounts ==
  /\ IsFiniteSet(Checking) /\ Cardinality(Checking) \in Nat
  /\ IsFiniteSet(Notifying) /\ Cardinality(Notifying) \in Nat
<1>1. Checking \in SUBSET Workers /\ Notifying \in SUBSET Callers
  BY DEF Checking, Notifying
<1> QED
  BY <1>1, PoolAssumption, FS_Subset, FS_CardinalityType

\* The inequality survives when workers join those that check the queue.
LEMMA AwakeMonotone ==
  ASSUME EnoughAwake, TypeOK, _stop' = _stop, _tasks' = _tasks,
         Sleeping' \subseteq Sleeping, Checking \subseteq Checking',
         Notifying' = Notifying
  PROVE EnoughAwake'
<1>1. Checking' \in SUBSET Workers
  BY DEF Checking
<1>2. /\ IsFiniteSet(Checking') /\ Cardinality(Checking') \in Nat
      /\ Cardinality(Checking) <= Cardinality(Checking')
  BY <1>1, PoolAssumption, FS_Subset, FS_CardinalityType
<1>3. Len(_tasks) \in Nat
  BY DEF TypeOK
<1> QED
  BY <1>2, <1>3, FiniteCounts DEF EnoughAwake

LEMMA AwakeNext == TypeOK /\ EnoughAwake /\ [Next]_vars => EnoughAwake'
<1> SUFFICES ASSUME TypeOK, EnoughAwake, [Next]_vars PROVE EnoughAwake'
  OBVIOUS
<1> USE DEF TypeOK
<1>0. Len(_tasks) \in Nat
  OBVIOUS
<1>1. ASSUME NEW w \in Workers,
             Launch(w) \/ WorkerInit(w) \/ SpuriousWakeup(w)
               \/ AuxiliaryFuncs(w) \/ Call(w)
      PROVE EnoughAwake'
  <2>1. _stop' = _stop /\ _tasks' = _tasks /\ cpc' = cpc
    BY <1>1 DEF Launch, WorkerInit, SpuriousWakeup, AuxiliaryFuncs, Call
  <2>2. Sleeping' \subseteq Sleeping /\ Checking \subseteq Checking'
    BY <1>1 DEF Launch, WorkerInit, SpuriousWakeup, AuxiliaryFuncs, Call,
       Sleeping, Checking
  <2>3. Notifying' = Notifying
    BY <2>1 DEF Notifying
  <2> QED
    BY <2>1, <2>2, <2>3, AwakeMonotone
<1>2. ASSUME NEW w \in Workers, Sleep(w) PROVE EnoughAwake'
  <2>1. Len(_tasks') = 0
    BY <1>2 DEF Sleep
  <2>2. Checking' \in SUBSET Workers /\ Notifying' \in SUBSET Callers
    BY DEF Checking, Notifying
  <2>3. Cardinality(Checking') \in Nat /\ Cardinality(Notifying') \in Nat
    BY <2>2, PoolAssumption, FS_Subset, FS_CardinalityType
  <2> QED
    BY <2>1, <2>3 DEF EnoughAwake
<1>3. ASSUME NEW w \in Workers, Exit(w) PROVE EnoughAwake'
  BY <1>3 DEF Exit, EnoughAwake
<1>4. ASSUME NEW w \in Workers, Take(w) PROVE EnoughAwake'
  <2>1. /\ w \in Checking /\ Checking' = Checking \ {w}
        /\ Sleeping' = Sleeping /\ _stop' = _stop
    BY <1>4 DEF Take, Checking, Sleeping
  <2>2. Notifying' = Notifying
    BY <1>4 DEF Take, Notifying
  <2>3. Len(_tasks') = Len(_tasks) - 1
    BY <1>4 DEF Take
  <2>4. Cardinality(Checking') = Cardinality(Checking) - 1
    BY <2>1, FiniteCounts, FS_RemoveElement
  <2> QED
    BY <1>0, <2>1, <2>2, <2>3, <2>4, FiniteCounts DEF EnoughAwake
<1>5. ASSUME NEW c \in Callers, NEW t \in Tasks, NEW k \in {"sync", "async"},
             Emplace(c, t, k)
      PROVE EnoughAwake'
  <2>1. c \notin Notifying /\ Notifying' = Notifying \cup {c}
    BY <1>5 DEF Emplace, Notifying
  <2>2. Checking' = Checking /\ Sleeping' = Sleeping /\ _stop' = _stop
    BY <1>5 DEF Emplace, Checking, Sleeping
  <2>3. Len(_tasks') = Len(_tasks) + 1
    BY <1>5 DEF Emplace
  <2>4. Cardinality(Notifying') = Cardinality(Notifying) + 1
    BY <2>1, FiniteCounts, FS_AddElement
  <2> QED
    BY <1>0, <2>2, <2>3, <2>4, FiniteCounts DEF EnoughAwake
<1>6. ASSUME NEW c \in Callers, NotifyOne(c) PROVE EnoughAwake'
  <2>1. /\ _stop' = _stop /\ _tasks' = _tasks
        /\ c \in Notifying /\ Notifying' = Notifying \ {c}
    BY <1>6 DEF NotifyOne, Notifying
  <2>2. Cardinality(Notifying') = Cardinality(Notifying) - 1
    BY <2>1, FiniteCounts, FS_RemoveElement
  <2>3. CASE Sleeping = {}
    BY <1>6, <2>3 DEF NotifyOne, Sleeping, EnoughAwake
  <2>4. CASE Sleeping # {}
    <3>1. PICK w \in Sleeping : wpc' = [wpc EXCEPT ![w] = "check"]
      BY <1>6, <2>4 DEF NotifyOne
    <3>2. w \notin Checking /\ Checking' = Checking \cup {w}
      BY <3>1 DEF Checking, Sleeping
    <3>3. Cardinality(Checking') = Cardinality(Checking) + 1
      BY <3>2, FiniteCounts, FS_AddElement
    <3> QED
      BY <1>0, <2>1, <2>2, <2>4, <3>3, FiniteCounts DEF EnoughAwake
  <2> QED
    BY <2>3, <2>4
<1>7. ASSUME NEW c \in Callers, SyncReturn(c) PROVE EnoughAwake'
  <2>1. /\ Notifying' = Notifying /\ Checking' = Checking
        /\ Sleeping' = Sleeping /\ _stop' = _stop /\ _tasks' = _tasks
    BY <1>7 DEF SyncReturn, Notifying, Checking, Sleeping
  <2> QED
    BY <2>1 DEF EnoughAwake
<1>8. CASE Stop \/ DestructorStop
  BY <1>8 DEF Stop, DestructorStop, EnoughAwake
<1>9. CASE DestructorNotifyAll
  <2>1. /\ _stop' = _stop /\ _tasks' = _tasks /\ Notifying' = Notifying
        /\ Sleeping' \subseteq Sleeping /\ Checking \subseteq Checking'
    BY <1>9 DEF DestructorNotifyAll, Sleeping, Checking, Notifying
  <2> QED
    BY <2>1, AwakeMonotone
<1>10. CASE DestructorJoin
  BY <1>10 DEF DestructorJoin, EnoughAwake, Sleeping
<1>11. CASE UNCHANGED vars
  BY <1>11 DEF vars, EnoughAwake, Sleeping, Checking, Notifying
<1> QED
  BY <1>1, <1>2, <1>3, <1>4, <1>5, <1>6, <1>7, <1>8, <1>9, <1>10, <1>11
  DEF Next, Worker, Caller, Destructor, RunSync, RunAsync

\* Notifying outside the mutex loses no wake-up.
THEOREM NoLostWakeup == Spec => []EnoughAwake
<1>1. Init => EnoughAwake
  BY DEF Init, EnoughAwake, Sleeping
<1> QED
  BY <1>1, TypeCorrect, AwakeNext, PTL DEF Spec

-----------------------------------------------------------------------------
(* Refinement.                                                             *)

LEMMA ExecutorStep ==
  PoolInv /\ PoolInv' /\ [Next]_vars => [Executor!ENext]_(Executor!evars)
<1> SUFFICES ASSUME PoolInv, PoolInv', [Next]_vars
             PROVE [Executor!ENext]_(Executor!evars)
  OBVIOUS
<1> DEFINE St == [t \in Tasks |-> StatusOf(t)]
<1>0. /\ TypeOK /\ PcInv /\ TaskInOnePlace
      /\ TypeOK' /\ PcInv' /\ TaskInOnePlace'
  BY DEF PoolInv
<1>f. \A t \in Tasks : /\ fut[t] \in {"none", "pending", "ready", "broken"}
                      /\ fut'[t] \in {"none", "pending", "ready", "broken"}
  BY <1>0 DEF TypeOK
<1>1. ASSUME UNCHANGED <<_tasks, _stop, wtask, fut>>,
             pool' = "dead" <=> pool = "dead"
      PROVE UNCHANGED Executor!evars
  <2>1. \A t \in Tasks : Held(t)' <=> Held(t)
    BY <1>1 DEF Held
  <2>2. \A t \in Tasks : StatusOf(t)' = StatusOf(t)
    BY <1>1, <2>1 DEF StatusOf
  <2> QED
    BY <1>1, <2>2 DEF Executor!evars
<1>2. ASSUME NEW w \in Workers,
             \/ Launch(w) \/ WorkerInit(w) \/ Sleep(w) \/ Exit(w)
             \/ AuxiliaryFuncs(w) \/ SpuriousWakeup(w)
      PROVE UNCHANGED Executor!evars
  <2>1. UNCHANGED <<_tasks, _stop, wtask, fut>> /\ (pool' = "dead" <=> pool = "dead")
    BY <1>2 DEF Launch, WorkerInit, Sleep, Exit, AuxiliaryFuncs, SpuriousWakeup
  <2> QED
    BY <1>1, <2>1
<1>3. ASSUME NEW w \in Workers, Take(w) PROVE Executor!Start
  <2> DEFINE u == Head(_tasks)
  <2>1. /\ ~_stop /\ _tasks # <<>> /\ _tasks' = Tail(_tasks) /\ u \in Tasks
        /\ wpc[w] = "check" /\ wtask' = [wtask EXCEPT ![w] = u]
        /\ UNCHANGED <<pool, _stop, fut>>
    BY <1>0, <1>3 DEF Take, TypeOK
  <2>2. Queued(u)
    BY <1>0, <2>1, QueuedTake
  <2> HIDE DEF u
  <2>3. fut[u] = "pending" /\ wtask[w] = NoTask
    BY <1>0, <2>1, <2>2 DEF TaskInOnePlace, PcInv
  <2>4. \A t \in Tasks : Held(t)' <=> Held(t) \/ t = u
    BY <1>0, <2>1, <2>3, PoolAssumption DEF Held, TypeOK
  <2>5. \A t \in Tasks : StatusOf(t)' = IF t = u THEN "running" ELSE StatusOf(t)
    BY <1>f, <2>1, <2>3, <2>4 DEF StatusOf
  <2>6. St' = [St EXCEPT ![u] = "running"]
    BY <2>1, <2>5
  <2> QED
    BY <2>1, <2>6 DEF Executor!Start, u
<1>4. ASSUME NEW w \in Workers, Call(w)
      PROVE \E t \in Tasks : Executor!Finish(t)
  <2> DEFINE u == wtask[w]
  <2>1. /\ fut' = [fut EXCEPT ![u] = "ready"] /\ u \in Tasks
        /\ wtask' = [wtask EXCEPT ![w] = NoTask]
        /\ UNCHANGED <<pool, _stop, _tasks>>
    BY <1>0, <1>4 DEF Call, TypeOK, PcInv
  <2>2. Held(u) /\ fut[u] = "pending"
    BY <1>0, <2>1 DEF Held, TaskInOnePlace
  <2>3. \A t \in Tasks : Held(t)' <=> Held(t) /\ t # u
    BY <1>0, <2>1, PoolAssumption DEF Held, TaskInOnePlace, TypeOK
  <2>4. \A t \in Tasks : fut'[t] = IF t = u THEN "ready" ELSE fut[t]
    BY <1>0, <2>1 DEF TypeOK
  <2> HIDE DEF u
  <2>5. StatusOf(u) = "running"
    BY <2>2 DEF StatusOf
  <2>6. \A t \in Tasks : StatusOf(t)' = IF t = u THEN "done" ELSE StatusOf(t)
    BY <1>f, <2>1, <2>3, <2>4 DEF StatusOf
  <2>7. St' = [St EXCEPT ![u] = "done"]
    BY <2>1, <2>6
  <2> QED
    BY <2>1, <2>5, <2>7 DEF Executor!Finish
<1>5. ASSUME NEW c \in Callers, NEW u \in Tasks, NEW k \in {"sync", "async"},
             Emplace(c, u, k)
      PROVE Executor!Submit(u)
  <2>1. /\ fut' = [fut EXCEPT ![u] = "pending"] /\ kind[u] = "none"
        /\ pool # "dead" /\ _tasks' = Append(_tasks, u)
        /\ UNCHANGED <<pool, _stop, wtask>>
    BY <1>5 DEF Emplace
  <2>2. fut[u] = "none" /\ ~Held(u)
    BY <1>0, <2>1 DEF PcInv, TaskInOnePlace
  <2>3. \A t \in Tasks : Held(t)' <=> Held(t)
    BY <2>1 DEF Held
  <2>4. \A t \in Tasks : fut'[t] = IF t = u THEN "pending" ELSE fut[t]
    BY <1>0, <2>1 DEF TypeOK
  <2>5. \A t \in Tasks : StatusOf(t)' = IF t = u THEN "queued" ELSE StatusOf(t)
    BY <1>f, <2>1, <2>2, <2>3, <2>4 DEF StatusOf
  <2>6. St' = [St EXCEPT ![u] = "queued"] /\ St[u] = "none"
    <3>1. StatusOf(u) = "none"
      BY <2>2 DEF StatusOf
    <3> QED
      BY <2>5, <3>1
  <2> QED
    BY <2>1, <2>6 DEF Executor!Submit
<1>6. ASSUME NEW c \in Callers, NotifyOne(c) \/ SyncReturn(c)
      PROVE UNCHANGED Executor!evars
  <2>1. UNCHANGED <<_tasks, _stop, wtask, fut, pool>>
    BY <1>6 DEF NotifyOne, SyncReturn
  <2> QED
    BY <1>1, <2>1
<1>7. ASSUME Stop \/ DestructorStop PROVE Executor!Close \/ UNCHANGED Executor!evars
  <2>1. /\ UNCHANGED <<_tasks, wtask, fut>> /\ pool # "dead" /\ pool' # "dead"
        /\ _stop' = TRUE
    BY <1>7 DEF Stop, DestructorStop
  <2>2. \A t \in Tasks : Held(t)' <=> Held(t)
    BY <2>1 DEF Held
  <2>3. \A t \in Tasks : StatusOf(t)' = StatusOf(t)
    BY <2>1, <2>2 DEF StatusOf
  <2>4. CASE _stop
    <3>1. _stop' = _stop
      BY <1>0, <2>1, <2>4, Zenon DEF TypeOK
    <3> QED
      BY <1>1, <2>1, <3>1
  <2>5. CASE ~_stop
    BY <2>1, <2>3, <2>5 DEF Executor!Close
  <2> QED
    BY <2>4, <2>5
<1>8. ASSUME DestructorNotifyAll PROVE UNCHANGED Executor!evars
  BY <1>1, <1>8 DEF DestructorNotifyAll
<1>9. ASSUME DestructorJoin PROVE Executor!End
  <2>1. /\ pool = "joining" /\ pool' = "dead" /\ _tasks' = <<>> /\ _stop
        /\ \A w \in Workers : wpc[w] = "exited"
        /\ \A t \in Tasks : fut'[t] = IF Queued(t) /\ kind[t] = "async"
                                      THEN "broken" ELSE fut[t]
        /\ UNCHANGED <<_stop, wtask>>
    BY <1>0, <1>9 DEF DestructorJoin, PcInv
  <2>2. \A t \in Tasks : ~Held(t) /\ ~Held(t)'
    BY <1>0, <2>1, PoolAssumption DEF Held, PcInv
  <2>3. \A t \in Tasks : StatusOf(t) # "running"
    BY <1>0, <2>2 DEF StatusOf, TypeOK
  <2>4. \A t \in Tasks : StatusOf(t)' = IF StatusOf(t) = "queued" THEN "dropped"
                                                                ELSE StatusOf(t)
    <3> TAKE t \in Tasks
    <3>1. Queued(t) => fut[t] = "pending"
      BY <1>0 DEF TaskInOnePlace
    <3>2. fut[t] \in {"none", "pending", "ready", "broken"}
      BY <1>0 DEF TypeOK
    <3> QED
      BY <2>1, <2>2, <3>1, <3>2 DEF StatusOf
  <2> QED
    BY <2>1, <2>3, <2>4 DEF Executor!End
<1>10. CASE UNCHANGED vars
  BY <1>1, <1>10 DEF vars
<1> QED
  BY <1>2, <1>3, <1>4, <1>5, <1>6, <1>7, <1>8, <1>9, <1>10
  DEF Next, Worker, Caller, Destructor, RunSync, RunAsync, Executor!ENext

\* The pool of threads implements the abstract executor.
THEOREM PoolRefinesExecutor == Spec => ImplementsExecutor
<1>1. Init => Executor!EInit
  <2> SUFFICES ASSUME Init PROVE Executor!EInit
    OBVIOUS
  <2>1. \A t \in Tasks : StatusOf(t) = "none"
    BY DEF Init, StatusOf
  <2> QED
    BY <2>1 DEF Init, Executor!EInit
<1> QED
  BY <1>1, PoolInvariant, ExecutorStep, PTL
  DEF Spec, ImplementsExecutor, Executor!ESpec
=============================================================================
