---------------------------- MODULE WorkerProofs ----------------------------
(* Proofs about Worker, for any finite number of threads and callers and   *)
(* any set of requests.                                                    *)
EXTENDS Worker, ThreadPoolProofs

-----------------------------------------------------------------------------
(* A Worker is a ThreadPool: what its calls and task bodies add changes    *)
(* none of the pool's variables beyond what the pool's own actions do.     *)

LEMMA StepOfPool == [WorkerNext]_allVars => [Next]_vars
<1> SUFFICES ASSUME [WorkerNext]_allVars PROVE [Next]_vars
  OBVIOUS
<1>1. CASE PoolStep
  BY <1>1 DEF PoolStep, Next, Worker, Caller, Destructor
<1>2. ASSUME NEW w \in Workers, ThreadStep(w) PROVE [Next]_vars
  <2>1. WorkerInit(w) \/ Call(w) \/ UNCHANGED vars
    BY <1>2 DEF ThreadStep, InitialLock, InitialDone, FillInputs, Prediction,
                CollectOutputs, PauseSleeps
  <2> QED
    BY <2>1 DEF Next, Worker
<1>3. ASSUME NEW c \in Callers, NEW t \in Tasks, ClientStep(c, t)
      PROVE [Next]_vars
  <2>1. RunSync(c, t) \/ RunAsync(c, t)
    BY <1>3 DEF ClientStep, Pause, SyncPrediction, SyncPredictionDevice,
                AsyncPrediction
  <2> QED
    BY <2>1 DEF Next
<1>4. ASSUME NEW c \in Callers, ApiStep(c) \/ EmptyIsFalse(c)
      PROVE UNCHANGED vars
  BY <1>4 DEF ApiStep, AsyncPush, AsyncGetFront, AsyncGetReturn, EmptyIsFalse
<1>5. CASE DestroyMembers
  BY <1>5 DEF DestroyMembers
<1>6. CASE UNCHANGED allVars
  BY <1>6 DEF allVars
<1> QED
  BY <1>1, <1>2, <1>3, <1>4, <1>5, <1>6, WorkerAssumption DEF WorkerNext

\* Worker derives from ThreadPool and keeps its contract: every behaviour of
\* a Worker is one of the pool, so what is proved of the pool holds of it.
THEOREM WorkerImplementsPool == WorkerSpec => Spec
<1>1. WorkerInitial => Init
  BY DEF WorkerInitial
<1> QED
  BY <1>1, StepOfPool, PTL DEF WorkerSpec, Spec

LEMMA WorkerPoolInvariant == WorkerSpec => []PoolInv
BY WorkerImplementsPool, PoolInvariant, PTL

-----------------------------------------------------------------------------
(* The nets of the threads and the bodies of the tasks.                    *)

\* The variables of the prediction itself, without the queue of futures.
NetTypeOK ==
  /\ api \in [Tasks -> {"none", "pause", "sync", "device", "async"}]
  /\ input \in [Tasks -> Data]
  /\ net \in [Workers -> {"absent", "inserting", "ready"}]
  /\ wrapper \in Workers \cup {NoTask}
  /\ stage \in [Workers -> {"start", "filled", "predicted"}]
  /\ net_in \in [Workers -> Data] /\ net_out \in [Workers -> Data]
  /\ res \in [Tasks -> Result]

\* A thread that has left init() has its net.
NetInv ==
  \A w \in Workers : wpc[w] \in {"check", "asleep", "aux", "call", "exited"}
                       => net[w] = "ready"

\* A request has been made by one call of the API and refers to its own data.
RequestInv ==
  \A t \in Tasks : /\ api[t] = "none" <=> kind[t] = "none"
                   /\ api[t] # "none" => input[t] = t

\* The tensors of a thread's net are those of the task the thread is running.
BodyInv ==
  \A w \in Workers :
    /\ stage[w] # "start" => /\ wpc[w] = "call" /\ api[wtask[w]] # "pause"
                             /\ net_in[w] = wtask[w]
    /\ stage[w] = "predicted" => net_out[w] = wtask[w]

\* What the future of a request that has been run delivers.
ResultInv ==
  \A t \in Tasks : fut[t] = "ready" =>
    /\ api[t] = "sync" => res[t] = [data |-> t]
    /\ api[t] \in {"device", "async"} => res[t] \in [tensorOf : Workers]

PredictionInv == NetTypeOK /\ NetInv /\ RequestInv /\ BodyInv /\ ResultInv

LEMMA PredictionInit == WorkerInitial => PredictionInv
<1> SUFFICES ASSUME WorkerInitial PROVE PredictionInv
  OBVIOUS
<1> USE DEF WorkerInitial, Init
<1>1. NetTypeOK
  BY DEF NetTypeOK, Data, Result
<1>2. NetInv /\ RequestInv /\ BodyInv /\ ResultInv
  BY DEF NetInv, RequestInv, BodyInv, ResultInv
<1> QED
  BY <1>1, <1>2 DEF PredictionInv

\* What the steps of the pool that start or run no task have in common.
Quiet ==
  /\ \A w \in Workers :
       /\ wpc[w] = "call" => wpc'[w] = "call"
       /\ wtask[w] # NoTask => wtask'[w] = wtask[w]
       /\ wpc'[w] \in {"check", "asleep", "aux", "call", "exited"}
            => wpc[w] \in {"check", "asleep", "aux", "call", "exited"}
  /\ UNCHANGED kind
  /\ \A t \in Tasks : fut'[t] = "ready" => fut[t] = "ready"

LEMMA PoolStepQuiet == TypeOK /\ PcInv /\ PoolStep => Quiet
<1> SUFFICES ASSUME TypeOK, PcInv, PoolStep PROVE Quiet
  OBVIOUS
<1> USE DEF Quiet, TypeOK
<1>1. ASSUME NEW w \in Workers, Launch(w) PROVE Quiet
  BY <1>1 DEF Launch
<1>2. ASSUME NEW w \in Workers, Sleep(w) \/ SpuriousWakeup(w) \/ Exit(w)
      PROVE Quiet
  BY <1>2 DEF Sleep, SpuriousWakeup, Exit
<1>3. ASSUME NEW w \in Workers, Take(w) PROVE Quiet
  <2>1. wtask[w] = NoTask
    BY <1>3 DEF Take, PcInv
  <2> QED
    BY <1>3, <2>1 DEF Take
<1>4. ASSUME NEW w \in Workers, AuxiliaryFuncs(w) PROVE Quiet
  BY <1>4 DEF AuxiliaryFuncs
<1>5. ASSUME NEW c \in Callers, NotifyOne(c) PROVE Quiet
  BY <1>5 DEF NotifyOne, Sleeping
<1>6. ASSUME NEW c \in Callers, SyncReturn(c) PROVE Quiet
  BY <1>6 DEF SyncReturn
<1>7. CASE Stop \/ DestructorStop
  BY <1>7 DEF Stop, DestructorStop
<1>8. CASE DestructorNotifyAll
  BY <1>8 DEF DestructorNotifyAll, Sleeping
<1>9. CASE DestructorJoin
  BY <1>9 DEF DestructorJoin
<1> QED
  BY <1>1, <1>2, <1>3, <1>4, <1>5, <1>6, <1>7, <1>8, <1>9 DEF PoolStep

\* A quiet step that leaves the nets and the requests alone.
LEMMA PredictionQuiet ==
  ASSUME PcInv, PredictionInv, Quiet, UNCHANGED <<apiVars, netVars>>
  PROVE PredictionInv'
<1>0. NetTypeOK /\ NetInv /\ RequestInv /\ BodyInv /\ ResultInv
  BY DEF PredictionInv
<1>1. /\ UNCHANGED <<api, input, net, wrapper, stage, net_in, net_out, res>>
      /\ NetTypeOK'
  BY <1>0 DEF apiVars, netVars, NetTypeOK
<1>2. \A w \in Workers : wpc[w] = "call" => wtask[w] # NoTask
  BY DEF PcInv
<1>3. NetInv' /\ RequestInv' /\ ResultInv'
  BY <1>0, <1>1 DEF Quiet, NetInv, RequestInv, ResultInv
<1>4. BodyInv'
  BY <1>0, <1>1, <1>2 DEF Quiet, BodyInv
<1> QED
  BY <1>1, <1>3, <1>4 DEF PredictionInv

\* The steps of a thread in init() and in the body of its task.
LEMMA PredictionThreadStep ==
  ASSUME PoolInv, PredictionInv, NEW w \in Workers, ThreadStep(w)
  PROVE PredictionInv'
<1>0. /\ TypeOK /\ PcInv /\ TaskInOnePlace
      /\ NetTypeOK /\ NetInv /\ RequestInv /\ BodyInv /\ ResultInv
  BY DEF PoolInv, PredictionInv
<1>1. ASSUME wpc[w] = "call"
      PROVE /\ wtask[w] \in Tasks /\ fut[wtask[w]] = "pending"
            /\ api[wtask[w]] # "none" /\ input[wtask[w]] = wtask[w]
  <2>1. wtask[w] \in Tasks
    BY <1>0, <1>1 DEF TypeOK, PcInv
  <2>2. fut[wtask[w]] = "pending"
    BY <1>0, <2>1 DEF TaskInOnePlace, Held
  <2> QED
    BY <1>0, <2>1, <2>2 DEF PcInv, RequestInv
<1>2. CASE InitialLock(w)
  <2>1. /\ wpc[w] = "init" /\ net' = [net EXCEPT ![w] = "inserting"]
        /\ wrapper' = w
        /\ UNCHANGED <<wpc, wtask, kind, fut, api, input, res, stage, net_in, net_out>>
    BY <1>2 DEF InitialLock, vars, apiVars
  <2>2. NetTypeOK'
    BY <1>0, <2>1 DEF NetTypeOK
  <2>3. NetInv' /\ RequestInv' /\ BodyInv' /\ ResultInv'
    BY <1>0, <2>1 DEF NetTypeOK, NetInv, RequestInv, BodyInv, ResultInv
  <2> QED
    BY <2>2, <2>3 DEF PredictionInv
<1>3. CASE InitialDone(w)
  <2>1. /\ wpc[w] = "init" /\ wpc' = [wpc EXCEPT ![w] = "check"]
        /\ net' = [net EXCEPT ![w] = "ready"]
        /\ wrapper' = NoTask
        /\ UNCHANGED <<wtask, kind, fut, api, input, res, stage, net_in, net_out>>
    BY <1>3 DEF InitialDone, WorkerInit, apiVars
  <2>2. NetTypeOK'
    BY <1>0, <2>1 DEF NetTypeOK
  <2>3. NetInv' /\ RequestInv' /\ BodyInv' /\ ResultInv'
    BY <1>0, <2>1 DEF TypeOK, NetTypeOK, NetInv, RequestInv, BodyInv, ResultInv
  <2> QED
    BY <2>2, <2>3 DEF PredictionInv
<1>4. CASE FillInputs(w)
  <2>1. /\ wpc[w] = "call" /\ api[wtask[w]] # "pause"
        /\ stage[w] = "start" /\ stage' = [stage EXCEPT ![w] = "filled"]
        /\ net_in' = [net_in EXCEPT ![w] = input[wtask[w]]]
        /\ UNCHANGED <<wpc, wtask, kind, fut, api, input, res, net, wrapper, net_out>>
    BY <1>4 DEF FillInputs, Predicts, vars, apiVars
  <2>2. NetTypeOK'
    BY <1>0, <1>1, <2>1 DEF NetTypeOK, Data
  <2>3. NetInv' /\ RequestInv' /\ ResultInv'
    BY <1>0, <2>1 DEF NetInv, RequestInv, ResultInv
  <2>4. BodyInv'
    BY <1>0, <1>1, <2>1 DEF NetTypeOK, BodyInv
  <2> QED
    BY <2>2, <2>3, <2>4 DEF PredictionInv
<1>5. CASE Prediction(w)
  <2>1. /\ wpc[w] = "call"
        /\ stage[w] = "filled" /\ stage' = [stage EXCEPT ![w] = "predicted"]
        /\ net_out' = [net_out EXCEPT ![w] = net_in[w]]
        /\ UNCHANGED <<wpc, wtask, kind, fut, api, input, res, net, wrapper, net_in>>
    BY <1>5 DEF Prediction, Predicts, vars, apiVars
  <2>2. NetTypeOK'
    BY <1>0, <2>1 DEF NetTypeOK
  <2>3. NetInv' /\ RequestInv' /\ ResultInv'
    BY <1>0, <2>1 DEF NetInv, RequestInv, ResultInv
  <2>4. BodyInv'
    BY <1>0, <2>1 DEF NetTypeOK, BodyInv
  <2> QED
    BY <2>2, <2>3, <2>4 DEF PredictionInv
<1>6. CASE CollectOutputs(w)
  <2>1. /\ wpc[w] = "call" /\ api[wtask[w]] # "pause"
        /\ stage[w] = "predicted" /\ stage' = [stage EXCEPT ![w] = "start"]
        /\ fut' = [fut EXCEPT ![wtask[w]] = "ready"]
        /\ wtask' = [wtask EXCEPT ![w] = NoTask]
        /\ wpc' = [wpc EXCEPT ![w] = "check"]
        /\ res' = [res EXCEPT ![wtask[w]] =
                     IF api[wtask[w]] = "sync" THEN [data |-> net_out[w]]
                                               ELSE [tensorOf |-> w]]
        /\ UNCHANGED <<kind, api, input, net, wrapper, net_in, net_out>>
    BY <1>6 DEF CollectOutputs, Call, Predicts
  <2>2. net_out[w] = wtask[w] /\ wtask[w] \in Tasks
    BY <1>0, <1>1, <2>1 DEF BodyInv
  <2>3. NetTypeOK'
    <3>1. (IF api[wtask[w]] = "sync" THEN [data |-> net_out[w]]
                                     ELSE [tensorOf |-> w]) \in Result
      BY <2>2 DEF Result, Data
    <3> QED
      BY <1>0, <2>1, <2>2, <3>1 DEF NetTypeOK
  <2>4. NetInv' /\ RequestInv' /\ BodyInv'
    BY <1>0, <2>1 DEF TypeOK, NetTypeOK, NetInv, RequestInv, BodyInv
  <2>5. ResultInv'
    BY <1>0, <2>1, <2>2 DEF TypeOK, NetTypeOK, ResultInv
  <2> QED
    BY <2>3, <2>4, <2>5 DEF PredictionInv
<1>7. CASE PauseSleeps(w)
  <2>1. /\ wpc[w] = "call" /\ api[wtask[w]] = "pause"
        /\ fut' = [fut EXCEPT ![wtask[w]] = "ready"]
        /\ wtask' = [wtask EXCEPT ![w] = NoTask]
        /\ wpc' = [wpc EXCEPT ![w] = "check"]
        /\ UNCHANGED <<kind, api, input, res, net, wrapper, stage, net_in, net_out>>
    BY <1>7 DEF PauseSleeps, Call, workerVars, apiVars, netVars
  <2>2. NetTypeOK'
    BY <1>0, <2>1 DEF NetTypeOK
  <2>3. NetInv' /\ RequestInv' /\ BodyInv' /\ ResultInv'
    BY <1>0, <1>1, <2>1 DEF TypeOK, NetTypeOK, NetInv, RequestInv, BodyInv, ResultInv
  <2> QED
    BY <2>2, <2>3 DEF PredictionInv
<1> QED
  BY <1>2, <1>3, <1>4, <1>5, <1>6, <1>7 DEF ThreadStep

\* A call of the API makes a request that nobody works on yet.
LEMMA PredictionClientStep ==
  ASSUME PoolInv, PredictionInv,
         NEW c \in Callers, NEW t \in Tasks, ClientStep(c, t)
  PROVE PredictionInv'
<1>0. /\ TypeOK /\ PcInv /\ TaskInOnePlace
      /\ NetTypeOK /\ NetInv /\ RequestInv /\ BodyInv /\ ResultInv
  BY DEF PoolInv, PredictionInv
<1>1. PICK k \in {"sync", "async"}, a \in {"pause", "sync", "device", "async"} :
        Emplace(c, t, k) /\ Request(t, a)
  BY DEF ClientStep, Pause, SyncPrediction, SyncPredictionDevice,
         AsyncPrediction, RunSync, RunAsync
<1>2. /\ kind[t] = "none" /\ kind' = [kind EXCEPT ![t] = k]
      /\ fut' = [fut EXCEPT ![t] = "pending"]
      /\ api' = [api EXCEPT ![t] = a]
      /\ input' = [input EXCEPT ![t] = t]
      /\ UNCHANGED <<wpc, wtask, net, wrapper, stage, net_in, net_out, res>>
  BY <1>1 DEF Emplace, Request, netVars
<1>3. \A w \in Workers : wpc[w] = "call" => wtask[w] \in Tasks \ {t}
  <2> TAKE w \in Workers
  <2> HAVE wpc[w] = "call"
  <2>1. wtask[w] \in Tasks
    BY <1>0 DEF TypeOK, PcInv
  <2>2. fut[wtask[w]] = "pending"
    BY <1>0, <2>1 DEF TaskInOnePlace, Held
  <2> QED
    BY <1>0, <1>2, <2>1, <2>2 DEF PcInv
<1>4. NetTypeOK'
  BY <1>0, <1>2 DEF NetTypeOK, Data
<1>5. NetInv' /\ RequestInv' /\ ResultInv'
  BY <1>0, <1>2 DEF TypeOK, NetTypeOK, NetInv, RequestInv, ResultInv
<1>6. BodyInv'
  BY <1>0, <1>2, <1>3 DEF NetTypeOK, BodyInv
<1> QED
  BY <1>4, <1>5, <1>6 DEF PredictionInv

LEMMA PredictionNext ==
  PoolInv /\ PredictionInv /\ [WorkerNext]_allVars => PredictionInv'
<1> SUFFICES ASSUME PoolInv, PredictionInv, [WorkerNext]_allVars
             PROVE PredictionInv'
  OBVIOUS
<1>0. TypeOK /\ PcInv
  BY DEF PoolInv
<1>1. CASE PoolStep /\ UNCHANGED workerVars
  BY <1>0, <1>1, PoolStepQuiet, PredictionQuiet DEF workerVars
<1>2. CASE UNCHANGED <<vars, apiVars, netVars>>
  BY <1>0, <1>2, PredictionQuiet DEF vars, Quiet
<1>3. ASSUME NEW c \in Callers, ApiStep(c) \/ EmptyIsFalse(c)
      PROVE UNCHANGED <<vars, apiVars, netVars>>
  BY <1>3 DEF ApiStep, AsyncPush, AsyncGetFront, AsyncGetReturn, EmptyIsFalse
<1>4. CASE DestroyMembers
  BY <1>2, <1>4 DEF DestroyMembers
<1>5. CASE UNCHANGED allVars
  BY <1>2, <1>5 DEF allVars, workerVars
<1> QED
  BY <1>1, <1>2, <1>3, <1>4, <1>5, PredictionThreadStep, PredictionClientStep,
     WorkerAssumption
  DEF WorkerNext

LEMMA PredictionInvariant == WorkerSpec => []PredictionInv
<1>1. WorkerSpec => []PoolInv
  BY WorkerPoolInvariant
<1> QED
  BY <1>1, PredictionInit, PredictionNext, PTL DEF WorkerSpec

\* No thread runs a prediction before its net is in _thread_to_net: the
\* LOG(FATAL) of get_net is not reached, however the threads start.
THEOREM NetIsThere == WorkerSpec => []NetBeforeTask
<1>1. PredictionInv => NetBeforeTask
  BY DEF PredictionInv, NetInv, NetBeforeTask
<1> QED
  BY <1>1, PredictionInvariant, PTL

\* A future of sync_prediction delivers the prediction for the caller's own
\* data, with any number of threads, clients and requests beside it.
THEOREM OwnResult == WorkerSpec => []SyncResultOfOwnInputs
<1>1. PredictionInv => SyncResultOfOwnInputs
  BY DEF PredictionInv, ResultInv, SyncResultOfOwnInputs
<1> QED
  BY <1>1, PredictionInvariant, PTL

-----------------------------------------------------------------------------
(* The queue of futures, for one consumer.  With two, both may see the     *)
(* last future in empty(), which does not lock, and the second one takes   *)
(* the front of an empty queue: undefined behaviour, and no longer a state *)
(* that has a type.                                                        *)

OneConsumer == \A c, d \in Consumers : c = d

QueueTypeOK ==
  /\ _async_que \in Seq(Tasks)
  /\ que_mut \in Callers \cup {NoCaller}
  /\ apc \in [Callers -> {"out", "push", "polled", "get"}]
  /\ ahold \in [Callers -> Tasks \cup {NoTask}]
  /\ members \in BOOLEAN
  /\ asked \in Seq(Tasks)
  /\ got \in Seq([task : Tasks, data : Data])

\* _async_que_mut is held by the one caller that has a future in its hands.
\* Only the consumer polls, and it finds the future it has seen.
MutexInv ==
  /\ \A c \in Callers : apc[c] \in {"push", "get"} <=> que_mut = c
  /\ \A c \in Callers : apc[c] \in {"push", "get"} => ahold[c] \in Tasks
  /\ \A c \in Callers : apc[c] = "polled" => c \in Consumers /\ _async_que # <<>>
  /\ ~members => \A c \in Callers : apc[c] = "out"

\* How many futures have left the queue, and how many have entered it.
Handed == IF \E c \in Callers : apc[c] = "get" THEN Len(got) + 1 ELSE Len(got)
Pushed == IF \E c \in Callers : apc[c] = "push" THEN Len(asked) - 1 ELSE Len(asked)

\* The requests in the order of the calls: those returned, the one being
\* waited for, those in the queue, the one being pushed.
OrderInv ==
  /\ Handed <= Len(asked)
  /\ members => Handed + Len(_async_que) = Pushed
  /\ \A i \in 1..Len(asked) : api[asked[i]] = "async"
  /\ \A i \in 1..Len(got) : got[i].task = asked[i]
  /\ \A c \in Callers : apc[c] = "get" => ahold[c] = asked[Len(got) + 1]
  /\ \A c \in Callers : apc[c] = "push" => ahold[c] = asked[Len(asked)]
  /\ \A i \in 1..Len(_async_que) : _async_que[i] = asked[Handed + i]

QueueInv == QueueTypeOK /\ MutexInv /\ OrderInv

LEMMA QueueInit == WorkerInitial => QueueInv
<1> SUFFICES ASSUME WorkerInitial PROVE QueueInv
  OBVIOUS
<1> USE DEF WorkerInitial
<1>0. members \in BOOLEAN
  BY Zenon
<1>1. QueueTypeOK
  BY <1>0 DEF QueueTypeOK
<1>2. MutexInv
  BY WorkerAssumption DEF MutexInv
<1>3. Handed = 0 /\ Pushed = 0
  BY DEF Handed, Pushed
<1>4. OrderInv
  BY <1>3 DEF OrderInv
<1> QED
  BY <1>1, <1>2, <1>4 DEF QueueInv

\* Steps that leave the asynchronous API alone, but for a request of another
\* kind that becomes known.
LEMMA QueueUnchanged ==
  ASSUME QueueInv, UNCHANGED <<queVars, members>>,
         \A t \in Tasks : api[t] = "async" => api'[t] = "async"
  PROVE QueueInv'
<1>0. QueueTypeOK /\ MutexInv /\ OrderInv
  BY DEF QueueInv
<1>1. UNCHANGED <<_async_que, que_mut, apc, ahold, asked, got, members>>
  BY DEF queVars
<1>2. QueueTypeOK' /\ MutexInv'
  BY <1>0, <1>1 DEF QueueTypeOK, MutexInv
<1>3. Handed' = Handed /\ Pushed' = Pushed
  BY <1>1 DEF Handed, Pushed
<1>4. \A i \in 1..Len(asked) : asked[i] \in Tasks
  BY <1>0 DEF QueueTypeOK
<1>5. OrderInv'
  BY <1>0, <1>1, <1>3, <1>4 DEF OrderInv
<1> QED
  BY <1>2, <1>5 DEF QueueInv

\* Nobody is in the critical section of _async_que_mut.
LEMMA MutexFree ==
  ASSUME QueueInv, que_mut = NoCaller
  PROVE /\ \A c \in Callers : apc[c] \in {"out", "polled"}
        /\ Handed = Len(got) /\ Pushed = Len(asked)
<1>1. \A c \in Callers : apc[c] \in {"out", "polled"}
  BY WorkerAssumption DEF QueueInv, QueueTypeOK, MutexInv
<1> QED
  BY <1>1 DEF Handed, Pushed

LEMMA QueueAsyncPrediction ==
  ASSUME PcInv, PredictionInv, QueueInv,
         NEW c \in Callers, NEW t \in Tasks, AsyncPrediction(c, t)
  PROVE QueueInv'
<1>0. QueueTypeOK /\ MutexInv /\ OrderInv /\ NetTypeOK /\ RequestInv
  BY DEF QueueInv, PredictionInv
<1>1. /\ members /\ apc[c] = "out" /\ que_mut = NoCaller /\ que_mut' = c
      /\ kind[t] = "none" /\ api' = [api EXCEPT ![t] = "async"]
      /\ apc' = [apc EXCEPT ![c] = "push"]
      /\ ahold' = [ahold EXCEPT ![c] = t]
      /\ asked' = Append(asked, t)
      /\ UNCHANGED <<_async_que, got, members>>
  BY DEF AsyncPrediction, RunAsync, Emplace, Request
<1>2. /\ \A d \in Callers : apc[d] \in {"out", "polled"}
      /\ Handed = Len(got) /\ Pushed = Len(asked)
  BY <1>1, MutexFree
<1>3. /\ asked \in Seq(Tasks) /\ asked' \in Seq(Tasks)
      /\ Len(asked') = Len(asked) + 1 /\ asked'[Len(asked) + 1] = t
      /\ \A i \in 1..Len(asked) : asked'[i] = asked[i] /\ asked[i] \in Tasks
      /\ Len(asked) \in Nat /\ Len(got) \in Nat /\ Len(_async_que) \in Nat
  BY <1>0, <1>1 DEF QueueTypeOK
<1>4. QueueTypeOK'
  BY <1>0, <1>1, <1>3 DEF QueueTypeOK
<1>5. MutexInv'
  BY <1>0, <1>1, <1>2, WorkerAssumption DEF QueueTypeOK, MutexInv
<1>6. Handed' = Len(got) /\ Pushed' = Len(asked)
  BY <1>0, <1>1, <1>2, <1>3 DEF QueueTypeOK, Handed, Pushed
<1>7. \A i \in 1..Len(asked') : api'[asked'[i]] = "async"
  BY <1>0, <1>1, <1>3 DEF NetTypeOK, OrderInv
<1>8. \A d \in Callers : /\ apc'[d] # "get"
                         /\ apc'[d] = "push" => ahold'[d] = asked'[Len(asked')]
  BY <1>0, <1>1, <1>2, <1>3 DEF QueueTypeOK
<1>9. /\ Len(got) + Len(_async_que) = Len(asked)
      /\ \A i \in 1..Len(got) : got[i].task = asked[i]
      /\ \A i \in 1..Len(_async_que) : _async_que[i] = asked[Len(got) + i]
  BY <1>0, <1>1, <1>2 DEF OrderInv
<1>10. OrderInv'
  BY <1>1, <1>3, <1>6, <1>7, <1>8, <1>9 DEF OrderInv
<1> QED
  BY <1>4, <1>5, <1>10 DEF QueueInv

LEMMA QueueAsyncPush ==
  ASSUME QueueInv, NEW c \in Callers, AsyncPush(c)
  PROVE QueueInv'
<1>0. QueueTypeOK /\ MutexInv /\ OrderInv
  BY DEF QueueInv
<1>1. /\ apc[c] = "push" /\ apc' = [apc EXCEPT ![c] = "out"]
      /\ _async_que' = Append(_async_que, ahold[c])
      /\ ahold' = [ahold EXCEPT ![c] = NoTask]
      /\ que_mut' = NoCaller
      /\ UNCHANGED <<api, members, asked, got>>
  BY DEF AsyncPush, apiVars
<1>2. que_mut = c /\ ahold[c] \in Tasks /\ members
  BY <1>0, <1>1 DEF MutexInv
<1>3. \A d \in Callers \ {c} : apc[d] \in {"out", "polled"}
  BY <1>0, <1>2 DEF QueueTypeOK, MutexInv
<1>4. /\ _async_que \in Seq(Tasks) /\ _async_que' \in Seq(Tasks)
      /\ Len(_async_que') = Len(_async_que) + 1
      /\ _async_que'[Len(_async_que) + 1] = ahold[c]
      /\ \A i \in 1..Len(_async_que) : _async_que'[i] = _async_que[i]
      /\ Len(asked) \in Nat /\ Len(got) \in Nat /\ Len(_async_que) \in Nat
  BY <1>0, <1>1, <1>2 DEF QueueTypeOK
<1>5. QueueTypeOK'
  BY <1>0, <1>1, <1>4 DEF QueueTypeOK
<1>6. MutexInv'
  BY <1>0, <1>1, <1>2, <1>3, <1>4, WorkerAssumption DEF QueueTypeOK, MutexInv
<1>7. /\ Handed = Len(got) /\ Pushed = Len(asked) - 1
      /\ Handed' = Len(got) /\ Pushed' = Len(asked)
  BY <1>0, <1>1, <1>3 DEF QueueTypeOK, Handed, Pushed
<1>8. /\ Len(got) + Len(_async_que) = Len(asked) - 1
      /\ \A i \in 1..Len(asked) : api[asked[i]] = "async"
      /\ \A i \in 1..Len(got) : got[i].task = asked[i]
      /\ \A i \in 1..Len(_async_que) : _async_que[i] = asked[Len(got) + i]
      /\ ahold[c] = asked[Len(asked)]
  BY <1>0, <1>1, <1>2, <1>7 DEF OrderInv
<1>9. \A d \in Callers : apc'[d] # "push" /\ apc'[d] # "get"
  BY <1>0, <1>1, <1>3 DEF QueueTypeOK
<1>10. ASSUME NEW i \in 1..Len(_async_que') PROVE _async_que'[i] = asked[Len(got) + i]
  <2>1. CASE i \in 1..Len(_async_que)
    BY <1>4, <1>8, <2>1
  <2>2. CASE i = Len(_async_que) + 1
    <3>1. Len(got) + i = Len(asked)
      BY <1>4, <1>8, <2>2
    <3> QED
      BY <1>4, <1>8, <2>2, <3>1
  <2> QED
    BY <1>4, <2>1, <2>2
<1>11. /\ Len(got) <= Len(asked)
       /\ Len(got) + Len(_async_que') = Len(asked)
  BY <1>4, <1>8
<1>12. OrderInv'
  BY <1>1, <1>7, <1>8, <1>9, <1>10, <1>11 DEF OrderInv
<1> QED
  BY <1>5, <1>6, <1>12 DEF QueueInv

LEMMA QueueEmptyIsFalse ==
  ASSUME QueueInv, NEW c \in Consumers, EmptyIsFalse(c)
  PROVE QueueInv'
<1>0. QueueTypeOK /\ MutexInv /\ OrderInv /\ c \in Callers
  BY WorkerAssumption DEF QueueInv
<1>1. /\ members /\ apc[c] = "out" /\ apc' = [apc EXCEPT ![c] = "polled"]
      /\ _async_que # <<>>
      /\ UNCHANGED <<api, members, _async_que, que_mut, ahold, asked, got>>
  BY DEF EmptyIsFalse, apiVars
<1>2. QueueTypeOK' /\ MutexInv'
  BY <1>0, <1>1 DEF QueueTypeOK, MutexInv
<1>3. Handed' = Handed /\ Pushed' = Pushed
  BY <1>0, <1>1 DEF QueueTypeOK, Handed, Pushed
<1>4. OrderInv'
  BY <1>0, <1>1, <1>3 DEF QueueTypeOK, OrderInv
<1> QED
  BY <1>2, <1>4 DEF QueueInv

\* The only step that takes from the queue is the consumer's own.
LEMMA QueueAsyncGetFront ==
  ASSUME OneConsumer, QueueInv, NEW c \in Callers, AsyncGetFront(c)
  PROVE QueueInv'
<1>0. QueueTypeOK /\ MutexInv /\ OrderInv
  BY DEF QueueInv
<1>1. /\ apc[c] = "polled" /\ apc' = [apc EXCEPT ![c] = "get"]
      /\ que_mut = NoCaller /\ que_mut' = c
      /\ ahold' = [ahold EXCEPT ![c] = Head(_async_que)]
      /\ _async_que' = Tail(_async_que)
      /\ UNCHANGED <<api, members, asked, got>>
  BY DEF AsyncGetFront, apiVars
<1>2. /\ \A d \in Callers : apc[d] \in {"out", "polled"}
      /\ Handed = Len(got) /\ Pushed = Len(asked)
  BY <1>1, MutexFree
<1>3. c \in Consumers /\ _async_que # <<>> /\ members
  BY <1>0, <1>1 DEF MutexInv
<1>4. \A d \in Callers \ {c} : apc[d] = "out"
  BY <1>0, <1>2, <1>3 DEF OneConsumer, MutexInv
<1>5. /\ _async_que \in Seq(Tasks) /\ _async_que' \in Seq(Tasks)
      /\ Len(_async_que) \in Nat \ {0}
      /\ Len(_async_que') = Len(_async_que) - 1
      /\ Head(_async_que) = _async_que[1] /\ Head(_async_que) \in Tasks
      /\ \A i \in 1..Len(_async_que') : _async_que'[i] = _async_que[i + 1]
      /\ Len(asked) \in Nat /\ Len(got) \in Nat
  BY <1>0, <1>1, <1>3 DEF QueueTypeOK
<1>6. QueueTypeOK'
  BY <1>0, <1>1, <1>5 DEF QueueTypeOK
<1>7. MutexInv'
  BY <1>0, <1>1, <1>3, <1>4, <1>5, WorkerAssumption DEF QueueTypeOK, MutexInv
<1>8. Handed' = Len(got) + 1 /\ Pushed' = Len(asked)
  BY <1>0, <1>1, <1>4 DEF QueueTypeOK, Handed, Pushed
<1>9. /\ Len(got) + Len(_async_que) = Len(asked)
      /\ \A i \in 1..Len(asked) : api[asked[i]] = "async"
      /\ \A i \in 1..Len(got) : got[i].task = asked[i]
      /\ \A i \in 1..Len(_async_que) : _async_que[i] = asked[Len(got) + i]
  BY <1>0, <1>2, <1>3 DEF OrderInv
<1>10. \A d \in Callers : /\ apc'[d] # "push"
                          /\ apc'[d] = "get" => ahold'[d] = asked[Len(got) + 1]
  BY <1>0, <1>1, <1>4, <1>5, <1>9 DEF QueueTypeOK
<1>11. \A i \in 1..Len(_async_que') : _async_que'[i] = asked[Len(got) + 1 + i]
  <2> TAKE i \in 1..Len(_async_que')
  <2>1. i + 1 \in 1..Len(_async_que) /\ _async_que'[i] = _async_que[i + 1]
    BY <1>5
  <2>2. Len(got) + (i + 1) = Len(got) + 1 + i
    BY <1>5
  <2> QED
    BY <1>9, <2>1, <2>2
<1>12. OrderInv'
  BY <1>1, <1>5, <1>8, <1>9, <1>10, <1>11 DEF OrderInv
<1> QED
  BY <1>6, <1>7, <1>12 DEF QueueInv

LEMMA QueueAsyncGetReturn ==
  ASSUME PredictionInv, QueueInv, NEW c \in Callers, AsyncGetReturn(c)
  PROVE QueueInv'
<1>0. QueueTypeOK /\ MutexInv /\ OrderInv /\ NetTypeOK /\ ResultInv
  BY DEF QueueInv, PredictionInv
<1>1. /\ apc[c] = "get" /\ apc' = [apc EXCEPT ![c] = "out"]
      /\ fut[ahold[c]] = "ready"
      /\ got' = Append(got, [task |-> ahold[c], data |-> Content(res[ahold[c]])])
      /\ ahold' = [ahold EXCEPT ![c] = NoTask]
      /\ que_mut' = NoCaller
      /\ UNCHANGED <<api, members, _async_que, asked>>
  BY DEF AsyncGetReturn, apiVars
<1>2. que_mut = c /\ ahold[c] \in Tasks /\ members
  BY <1>0, <1>1 DEF MutexInv
<1>3. \A d \in Callers \ {c} : apc[d] \in {"out", "polled"}
  BY <1>0, <1>2 DEF QueueTypeOK, MutexInv
<1>4. Len(asked) \in Nat /\ Len(got) \in Nat /\ Len(_async_que) \in Nat
  BY <1>0 DEF QueueTypeOK
<1>5. /\ Handed = Len(got) + 1 /\ Pushed = Len(asked)
  BY <1>1, <1>3 DEF Handed, Pushed
<1>6. /\ Len(got) + 1 + Len(_async_que) = Len(asked)
      /\ \A i \in 1..Len(asked) : api[asked[i]] = "async"
      /\ \A i \in 1..Len(got) : got[i].task = asked[i]
      /\ \A i \in 1..Len(_async_que) : _async_que[i] = asked[Len(got) + 1 + i]
      /\ ahold[c] = asked[Len(got) + 1]
  BY <1>0, <1>1, <1>2, <1>5 DEF OrderInv
<1>7. api[ahold[c]] = "async"
  BY <1>4, <1>6
<1>8. Content(res[ahold[c]]) \in Data
  <2>1. res[ahold[c]] \in [tensorOf : Workers]
    BY <1>0, <1>1, <1>2, <1>7 DEF ResultInv
  <2>2. "data" \notin DOMAIN res[ahold[c]]
    BY <2>1
  <2>3. res[ahold[c]].tensorOf \in Workers
    BY <2>1
  <2> QED
    BY <1>0, <2>2, <2>3 DEF Content, NetTypeOK
<1>9. /\ got' \in Seq([task : Tasks, data : Data])
      /\ Len(got') = Len(got) + 1
      /\ got'[Len(got) + 1].task = ahold[c]
      /\ \A i \in 1..Len(got) : got'[i] = got[i]
  <2> DEFINE r == [task |-> ahold[c], data |-> Content(res[ahold[c]])]
  <2>1. r \in [task : Tasks, data : Data] /\ r.task = ahold[c]
    BY <1>2, <1>8
  <2>2. got \in Seq([task : Tasks, data : Data]) /\ got' = Append(got, r)
    BY <1>0, <1>1 DEF QueueTypeOK
  <2> HIDE DEF r
  <2> QED
    BY <2>1, <2>2
<1>10. QueueTypeOK'
  BY <1>0, <1>1, <1>9 DEF QueueTypeOK
<1>11. MutexInv'
  BY <1>0, <1>1, <1>2, <1>3, WorkerAssumption DEF QueueTypeOK, MutexInv
<1>12. \A d \in Callers : apc'[d] # "push" /\ apc'[d] # "get"
  BY <1>0, <1>1, <1>3 DEF QueueTypeOK
<1>13. Handed' = Len(got) + 1 /\ Pushed' = Len(asked)
  BY <1>1, <1>9, <1>12 DEF Handed, Pushed
<1>14. \A i \in 1..Len(got') : got'[i].task = asked[i]
  BY <1>4, <1>6, <1>9
<1>15. Handed' <= Len(asked) /\ Handed' + Len(_async_que) = Pushed'
  BY <1>4, <1>6, <1>13
<1>16. OrderInv'
  BY <1>1, <1>6, <1>12, <1>13, <1>14, <1>15 DEF OrderInv
<1> QED
  BY <1>10, <1>11, <1>16 DEF QueueInv

LEMMA QueueDestroyMembers ==
  ASSUME QueueInv, DestroyMembers
  PROVE QueueInv'
<1>0. QueueTypeOK /\ MutexInv /\ OrderInv
  BY DEF QueueInv
<1>1. /\ members /\ \A c \in Callers : apc[c] = "out"
      /\ members' = FALSE /\ _async_que' = <<>>
      /\ UNCHANGED <<api, que_mut, apc, ahold, asked, got>>
  BY DEF DestroyMembers, apiVars
<1>2. members' \in BOOLEAN
  BY <1>1, Zenon
<1>3. QueueTypeOK'
  BY <1>0, <1>1, <1>2 DEF QueueTypeOK
<1>4. MutexInv'
  BY <1>0, <1>1 DEF MutexInv
<1>5. Handed' = Handed
  BY <1>1 DEF Handed
<1>6. OrderInv'
  BY <1>0, <1>1, <1>5 DEF OrderInv
<1> QED
  BY <1>3, <1>4, <1>6 DEF QueueInv

LEMMA QueueNext ==
  ASSUME OneConsumer
  PROVE  PoolInv /\ PredictionInv /\ QueueInv /\ [WorkerNext]_allVars => QueueInv'
<1> SUFFICES ASSUME PoolInv, PredictionInv, QueueInv, [WorkerNext]_allVars
             PROVE QueueInv'
  OBVIOUS
<1>0. PcInv /\ RequestInv /\ NetTypeOK
  BY DEF PoolInv, PredictionInv
<1>1. ASSUME UNCHANGED workerVars PROVE QueueInv'
  BY <1>1, QueueUnchanged DEF workerVars, apiVars
<1>2. ASSUME NEW w \in Workers, ThreadStep(w) PROVE QueueInv'
  <2>1. UNCHANGED <<queVars, members>> /\ UNCHANGED api
    BY <1>2 DEF ThreadStep, InitialLock, InitialDone, FillInputs, Prediction,
                CollectOutputs, PauseSleeps, workerVars, apiVars
  <2> QED
    BY <2>1, QueueUnchanged
<1>3. ASSUME NEW c \in Callers, NEW t \in Tasks, ClientStep(c, t)
      PROVE QueueInv'
  <2>1. CASE AsyncPrediction(c, t)
    BY <1>0, <2>1, QueueAsyncPrediction
  <2>2. CASE Pause(c, t) \/ SyncPrediction(c, t) \/ SyncPredictionDevice(c, t)
    <3>1. PICK a \in {"pause", "sync", "device"} :
            /\ UNCHANGED <<queVars, members>> /\ kind[t] = "none"
            /\ api' = [api EXCEPT ![t] = a]
      BY <2>2 DEF Pause, SyncPrediction, SyncPredictionDevice, RunSync,
                  RunAsync, Emplace, Request
    <3>2. api[t] = "none"
      BY <1>0, <3>1 DEF RequestInv
    <3>3. \A u \in Tasks : api[u] = "async" => api'[u] = "async"
      BY <1>0, <3>1, <3>2 DEF NetTypeOK
    <3> QED
      BY <3>1, <3>3, QueueUnchanged
  <2> QED
    BY <1>3, <2>1, <2>2 DEF ClientStep
<1>4. CASE UNCHANGED allVars
  BY <1>1, <1>4 DEF allVars
<1> QED
  BY <1>1, <1>2, <1>3, <1>4, QueueAsyncPush, QueueAsyncGetFront,
     QueueAsyncGetReturn, QueueEmptyIsFalse, QueueDestroyMembers
  DEF WorkerNext, ApiStep

LEMMA QueueInvariant ==
  ASSUME OneConsumer PROVE WorkerSpec => []QueueInv
BY QueueInit, QueueNext, WorkerPoolInvariant, PredictionInvariant, PTL
DEF WorkerSpec

\* Every variable of Worker keeps its type; the queue of futures does so
\* because the one consumer never takes the front of an empty queue.
THEOREM WorkerTypeCorrect ==
  ASSUME OneConsumer PROVE WorkerSpec => []WorkerTypeOK
<1>1. PoolInv /\ PredictionInv /\ QueueInv => WorkerTypeOK
  BY DEF PoolInv, PredictionInv, NetTypeOK, QueueInv, QueueTypeOK, WorkerTypeOK
<1> QED
  BY <1>1, WorkerPoolInvariant, PredictionInvariant, QueueInvariant, PTL

\* Whatever the number of producers, the futures returned and those queued
\* are the requests of async_prediction in the order of the calls.
THEOREM FuturesInOrder ==
  ASSUME OneConsumer PROVE WorkerSpec => []AsyncFuturesInOrder
<1>1. QueueInv => AsyncFuturesInOrder
  <2> SUFFICES ASSUME QueueInv, members,
                      \A c \in Callers : apc[c] \in {"out", "polled"}
               PROVE /\ Len(got) + Len(_async_que) = Len(asked)
                     /\ \A i \in 1..Len(got) : got[i].task = asked[i]
                     /\ \A i \in 1..Len(_async_que) :
                          _async_que[i] = asked[Len(got) + i]
    BY DEF AsyncFuturesInOrder
  <2>1. Handed = Len(got) /\ Pushed = Len(asked)
    BY DEF Handed, Pushed
  <2> QED
    BY <2>1 DEF QueueInv, OrderInv
<1> QED
  BY <1>1, QueueInvariant, PTL
=============================================================================
