------------------------------- MODULE Worker -------------------------------
(***************************************************************************)
(* framework/core/net/worker.h, worker.cpp: the thread pool whose tasks    *)
(* are predictions.  Worker derives from ThreadPool: its actions are those *)
(* of the pool, with what init() and the task bodies add, and the queue of *)
(* futures behind async_prediction / async_get_result.                     *)
(*                                                                         *)
(* A request is a task; its data is named by the task itself, so that a    *)
(* tensor holds the name of the request whose data, or whose result, it    *)
(* holds.  The net is a function of its input: a correct output for t is t.*)
(***************************************************************************)
EXTENDS ThreadPool

CONSTANTS Consumers,  \* the callers that collect asynchronous results
          NoCaller

ASSUME WorkerAssumption == /\ Consumers \subseteq Callers
                           /\ NoCaller \notin Callers

VARIABLES
  api,        \* the call that made each request
  input,      \* content of the client's tensors that a request refers to
  net,        \* _thread_to_net: the net of each thread
  wrapper,    \* thread that holds the NetGraphWrapper's _mut
  stage,      \* how far the body of the thread's task has come
  net_in,     \* content of the thread's net inputs
  net_out,    \* content of the thread's net outputs
  res,        \* what the future of a request delivers
  _async_que, \* futures of asynchronous predictions, by their task
  que_mut,    \* caller that holds _async_que_mut
  apc,        \* where a caller is in the asynchronous API
  ahold,      \* the future it holds there
  members,    \* the members of Worker exist
  asked,      \* history: asynchronous requests in the order of the calls
  got         \* history: what async_get_result returned, in order

apiVars == <<api, input, res>>
netVars == <<net, wrapper, stage, net_in, net_out>>
queVars == <<_async_que, que_mut, apc, ahold, asked, got>>
workerVars == <<apiVars, netVars, queVars, members>>
allVars == <<vars, workerVars>>

Data == Tasks \cup {NoTask}

\* sync_prediction copies the outputs to the host and delivers the data;
\* sync_prediction_device and async_prediction deliver pointers to the output
\* tensors of the net of the thread that ran the task.
Result == [data : Data] \cup [tensorOf : Workers] \cup {NoTask}

WorkerTypeOK ==
  /\ TypeOK
  /\ api \in [Tasks -> {"none", "pause", "sync", "device", "async"}]
  /\ input \in [Tasks -> Data]
  /\ net \in [Workers -> {"absent", "inserting", "ready"}]
  /\ wrapper \in Workers \cup {NoTask}
  /\ stage \in [Workers -> {"start", "filled", "predicted"}]
  /\ net_in \in [Workers -> Data] /\ net_out \in [Workers -> Data]
  /\ res \in [Tasks -> Result]
  /\ _async_que \in Seq(Tasks)
  /\ que_mut \in Callers \cup {NoCaller}
  /\ apc \in [Callers -> {"out", "push", "polled", "get"}]
  /\ ahold \in [Callers -> Tasks \cup {NoTask}]
  /\ members \in BOOLEAN

WorkerInitial ==
  /\ Init
  /\ api = [t \in Tasks |-> "none"]
  /\ input = [t \in Tasks |-> NoTask]
  /\ net = [w \in Workers |-> "absent"]
  /\ wrapper = NoTask
  /\ stage = [w \in Workers |-> "start"]
  /\ net_in = [w \in Workers |-> NoTask]
  /\ net_out = [w \in Workers |-> NoTask]
  /\ res = [t \in Tasks |-> NoTask]
  /\ _async_que = <<>>
  /\ que_mut = NoCaller
  /\ apc = [c \in Callers |-> "out"]
  /\ ahold = [c \in Callers |-> NoTask]
  /\ members = TRUE
  /\ asked = <<>> /\ got = <<>>

Content(r) == IF "data" \in DOMAIN r THEN r.data ELSE net_out[r.tensorOf]

-----------------------------------------------------------------------------
(* Worker::init: NetGraphWrapper::initial under the wrapper's mutex, the   *)
(* graph first and then this thread's entry of _thread_to_net.             *)

InitialLock(w) ==
  /\ wpc[w] = "init"
  /\ wrapper = NoTask
  /\ wrapper' = w
  /\ net' = [net EXCEPT ![w] = "inserting"]
  /\ UNCHANGED <<vars, apiVars, stage, net_in, net_out, queVars, members>>

\* Faulty variant: only the thread that loads the graph makes a net.
InitialDone_FirstOnly(w) ==
  /\ wrapper = w
  /\ WorkerInit(w)
  /\ wrapper' = NoTask
  /\ net' = [net EXCEPT ![w] =
               IF \E v \in Workers : net[v] = "ready" THEN "absent" ELSE "ready"]
  /\ UNCHANGED <<apiVars, stage, net_in, net_out, queVars, members>>

InitialDone(w) ==
  /\ wrapper = w
  /\ WorkerInit(w)
  /\ wrapper' = NoTask
  /\ net' = [net EXCEPT ![w] = "ready"]
  /\ UNCHANGED <<apiVars, stage, net_in, net_out, queVars, members>>

-----------------------------------------------------------------------------
(* The body of a prediction: get_net of this thread, fill its inputs, run  *)
(* it, collect the outputs.                                                *)

Predicts(w) == wpc[w] = "call" /\ api[wtask[w]] # "pause"

\* Faulty variant: all threads fill and read one net.
FillInputs_SharedNet(w) ==
  /\ Predicts(w)
  /\ stage[w] = "start"
  /\ net_in' = [v \in Workers |-> input[wtask[w]]]
  /\ stage' = [stage EXCEPT ![w] = "filled"]
  /\ UNCHANGED <<vars, apiVars, net, wrapper, net_out, queVars, members>>

FillInputs(w) ==
  /\ Predicts(w)
  /\ stage[w] = "start"
  /\ net_in' = [net_in EXCEPT ![w] = input[wtask[w]]]
  /\ stage' = [stage EXCEPT ![w] = "filled"]
  /\ UNCHANGED <<vars, apiVars, net, wrapper, net_out, queVars, members>>

Prediction(w) ==
  /\ Predicts(w)
  /\ stage[w] = "filled"
  /\ net_out' = [net_out EXCEPT ![w] = net_in[w]]
  /\ stage' = [stage EXCEPT ![w] = "predicted"]
  /\ UNCHANGED <<vars, apiVars, net, wrapper, net_in, queVars, members>>

\* Faulty variant: the task's promise is never fulfilled.
CollectOutputs_NoPromise(w) ==
  /\ Predicts(w)
  /\ stage[w] = "predicted"
  /\ Call_NoPromise(w)
  /\ stage' = [stage EXCEPT ![w] = "start"]
  /\ UNCHANGED <<apiVars, net, wrapper, net_in, net_out, queVars, members>>

CollectOutputs(w) ==
  /\ Predicts(w)
  /\ stage[w] = "predicted"
  /\ Call(w)
  /\ res' = [res EXCEPT ![wtask[w]] =
               IF api[wtask[w]] = "sync" THEN [data |-> net_out[w]]
                                         ELSE [tensorOf |-> w]]
  /\ stage' = [stage EXCEPT ![w] = "start"]
  /\ UNCHANGED <<api, input, net, wrapper, net_in, net_out, queVars, members>>

\* The task of pause() only sleeps.
PauseSleeps(w) ==
  /\ wpc[w] = "call" /\ api[wtask[w]] = "pause"
  /\ Call(w)
  /\ UNCHANGED workerVars

-----------------------------------------------------------------------------
(* The calls of a client.                                                  *)

\* The vector of inputs is copied, the tensors in it share their buffers
\* (sync_prediction) or are pointers (the two others): the client leaves them
\* alone until it has the result.
Request(t, a) ==
  /\ members
  /\ api' = [api EXCEPT ![t] = a]
  /\ input' = [input EXCEPT ![t] = t]
  /\ UNCHANGED <<netVars, res, members>>

Pause(c, t) ==
  /\ apc[c] = "out"
  /\ RunSync(c, t)
  /\ Request(t, "pause")
  /\ UNCHANGED queVars

SyncPrediction(c, t) ==
  /\ apc[c] = "out"
  /\ RunAsync(c, t)
  /\ Request(t, "sync")
  /\ UNCHANGED queVars

SyncPredictionDevice(c, t) ==
  /\ apc[c] = "out"
  /\ RunAsync(c, t)
  /\ Request(t, "device")
  /\ UNCHANGED queVars

\* Faulty variant: the mutex is taken after RunAsync, for the push alone.
AsyncPrediction_LateLock(c, t) ==
  /\ apc[c] = "out"
  /\ RunAsync(c, t)
  /\ Request(t, "async")
  /\ apc' = [apc EXCEPT ![c] = "push"]
  /\ ahold' = [ahold EXCEPT ![c] = t]
  /\ asked' = Append(asked, t)
  /\ UNCHANGED <<_async_que, que_mut, got>>

\* async_prediction holds _async_que_mut from before RunAsync ...
AsyncPrediction(c, t) ==
  /\ apc[c] = "out"
  /\ que_mut = NoCaller
  /\ RunAsync(c, t)
  /\ Request(t, "async")
  /\ que_mut' = c
  /\ apc' = [apc EXCEPT ![c] = "push"]
  /\ ahold' = [ahold EXCEPT ![c] = t]
  /\ asked' = Append(asked, t)
  /\ UNCHANGED <<_async_que, got>>

\* ... until the future it returns is pushed.
AsyncPush(c) ==
  /\ apc[c] = "push"
  /\ cpc[c] = "idle"
  /\ _async_que' = Append(_async_que, ahold[c])
  /\ ahold' = [ahold EXCEPT ![c] = NoTask]
  /\ apc' = [apc EXCEPT ![c] = "out"]
  /\ que_mut' = NoCaller
  /\ UNCHANGED <<vars, apiVars, netVars, members, asked, got>>

\* empty() reads the queue without the mutex.  A consumer asks it before it calls
\* async_get_result: that takes the front without looking, and the front of an
\* empty std::queue is undefined.
EmptyIsFalse(c) ==
  /\ members
  /\ apc[c] = "out" /\ cpc[c] = "idle"
  /\ _async_que # <<>>
  /\ apc' = [apc EXCEPT ![c] = "polled"]
  /\ UNCHANGED <<vars, apiVars, netVars, members, _async_que, que_mut, ahold, asked, got>>

\* async_get_result takes the mutex, the front and waits with the mutex held.
AsyncGetFront(c) ==
  /\ apc[c] = "polled"
  /\ que_mut = NoCaller
  /\ que_mut' = c
  /\ ahold' = [ahold EXCEPT ![c] = Head(_async_que)]
  /\ _async_que' = Tail(_async_que)
  /\ apc' = [apc EXCEPT ![c] = "get"]
  /\ UNCHANGED <<vars, apiVars, netVars, members, asked, got>>

\* get() returns.  (The promise of a request cannot be broken while a caller
\* is in here: that takes ~Worker.)
AsyncGetReturn(c) ==
  /\ apc[c] = "get"
  /\ fut[ahold[c]] = "ready"
  /\ got' = Append(got, [task |-> ahold[c], data |-> Content(res[ahold[c]])])
  /\ ahold' = [ahold EXCEPT ![c] = NoTask]
  /\ apc' = [apc EXCEPT ![c] = "out"]
  /\ que_mut' = NoCaller
  /\ UNCHANGED <<vars, apiVars, netVars, members, _async_que, asked>>

\* ~Worker: the members of Worker are destroyed before ~ThreadPool stops and
\* joins the threads.  The client has collected all its requests before: a
\* task that is still to run refers to the members.
DestroyMembers ==
  /\ members
  /\ pool = "up"
  /\ Notifying = {}
  /\ \A c \in Callers : apc[c] = "out"
  /\ \A t \in Tasks : fut[t] # "pending"
  /\ members' = FALSE
  /\ _async_que' = <<>>
  /\ UNCHANGED <<vars, apiVars, netVars, que_mut, apc, ahold, asked, got>>

-----------------------------------------------------------------------------
\* Actions of the pool that Worker does not change.
PoolStep ==
  \/ \E w \in Workers : \/ Launch(w) \/ Sleep(w) \/ SpuriousWakeup(w) \/ Exit(w)
                        \/ Take(w) \/ AuxiliaryFuncs(w)
  \/ \E c \in Callers : NotifyOne(c) \/ SyncReturn(c)
  \/ members /\ Stop
  \/ ~members /\ DestructorStop
  \/ DestructorNotifyAll \/ DestructorJoin

ThreadStep(w) == \/ InitialLock(w) \/ InitialDone(w) \/ FillInputs(w)
                 \/ Prediction(w) \/ CollectOutputs(w) \/ PauseSleeps(w)

ApiStep(c) == AsyncPush(c) \/ AsyncGetFront(c) \/ AsyncGetReturn(c)

ClientStep(c, t) == \/ Pause(c, t) \/ SyncPrediction(c, t)
                    \/ SyncPredictionDevice(c, t) \/ AsyncPrediction(c, t)

WorkerNext ==
  \/ PoolStep /\ UNCHANGED workerVars
  \/ \E w \in Workers : ThreadStep(w)
  \/ \E c \in Callers : ApiStep(c) \/ \E t \in Tasks : ClientStep(c, t)
  \/ \E c \in Consumers : EmptyIsFalse(c)
  \/ DestroyMembers

WorkerSpec == WorkerInitial /\ [][WorkerNext]_allVars

\* Threads and callers inside a call go on; clients need not call.
WorkerFairness ==
  /\ \A w \in Workers :
       /\ WF_allVars(ThreadStep(w))
       /\ WF_allVars((Launch(w) \/ Sleep(w) \/ Exit(w) \/ Take(w) \/ AuxiliaryFuncs(w))
                      /\ UNCHANGED workerVars)
  /\ \A c \in Callers :
       /\ WF_allVars((NotifyOne(c) \/ SyncReturn(c)) /\ UNCHANGED workerVars)
       /\ WF_allVars(ApiStep(c))

WorkerFairSpec == WorkerSpec /\ WorkerFairness

-----------------------------------------------------------------------------
(* Properties.                                                             *)

\* sync_prediction: whatever runs beside it on other threads, the future
\* delivers the prediction for the data the caller passed.
SyncResultOfOwnInputs ==
  \A t \in Tasks : api[t] = "sync" /\ fut[t] = "ready" => res[t] = [data |-> t]

\* worker.h: the results come in the order of the inputs.  The n-th call
\* returns the prediction for the n-th request.
AsyncResultsInOrder == \A i \in 1..Len(got) : got[i].data = asked[i]

\* async_get_result hands out the futures in the order of the calls of
\* async_prediction, also with several producers, and loses none: those
\* returned and those waiting in _async_que are the requests, oldest first.
AsyncFuturesInOrder ==
  members /\ (\A c \in Callers : apc[c] \in {"out", "polled"}) =>
    /\ Len(got) + Len(_async_que) = Len(asked)
    /\ \A i \in 1..Len(got) : got[i].task = asked[i]
    /\ \A i \in 1..Len(_async_que) : _async_que[i] = asked[Len(got) + i]

\* A thread runs predictions only when its net is in the map: the LOG(FATAL)
\* of get_net is not reached.
NetBeforeTask == \A w \in Workers : wpc[w] = "call" => net[w] = "ready"

\* async_get_result, which keeps the mutex while it waits, returns unless the
\* pool is stopped.
AsyncGetReturns == \A c \in Callers : apc[c] = "get" ~> apc[c] = "out" \/ _stop
=============================================================================
