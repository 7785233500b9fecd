# A verification project for Anakin

Anakin is an inference engine: it loads a trained network as a graph, rewrites
and schedules the graph once, and then runs predictions on a device (CUDA, x86,
ARM, AMD, ...), from one thread or from a pool of them. This directory models the
parts of it that decide *what runs when and where*: the thread pool and the
Worker above it, the schedulers that fix the execution order, the lanes and the
sharing of memory, the weights that all nets of a process share, and the execution
of a net over the device's streams. TLC checks the models on small
instances; TLAPS proves the central theorems for every value of the constants.

Source paths below are relative to the repository. `PROJECT.json` has the same
facts in machine-readable form: components, runs, the map from definitions to
source lines, mutants, hazards, findings, theorems.

## 1. Inventory

| Component | State | Operations | What makes it correct |
|---|---|---|---|
| **ThreadPool** `framework/core/thread_pool.*` | queue of tasks, `_stop`, condition variable, threads | `launch`, worker loop, `RunSync`, `RunAsync`, `stop`, destructor | no task is lost or run twice, no wake-up is lost, no use of a dead stack frame, destructor returns |
| **Worker** `framework/core/net/worker.*` | queue of futures, one net per thread | `init`, `sync_prediction`, `sync_prediction_device`, `async_prediction`, `async_get_result`, `empty`, `pause` | each request gets its own result, asynchronous results in the order of the requests |
| **NetGraphWrapper** `worker.cpp` | process-wide maps model -> graph, thread id -> net | `initial`, `get_net` | a thread's net is of its Worker's model, nets that share a graph do not disturb each other |
| **Scheduler** `framework/graph/llvm/scheduler.*`, `schedule_base.h` | wait and execution queues, availability of ios | `RegIOResource`, `callable`, `launch`, `Run` | topological and complete order, termination with the right diagnosis |
| **ConvElsFusionScheduler** `.../optimizer/conv_elewise_fusion_scheduler.*` | held back convolutions, pairs, forced order | `callable`, `Run`, `get_exec_node_in_order` | order stays complete and topological, the addend is ready |
| **ParallScheduler** `.../optimizer/parall_scheduler.*` | lane of each io and vertex, wait marks | `SyncFlagController::init`, `node_sync_flags`, `io_sync_flags`, `Run` | progress, marks cover all dependencies between lanes |
| **MemoryScheduler** `.../optimizer/memory_scheduler.*` | free, lock and self-lock lists of io blocks | `launch`, `free`, `lock`, `free_self`, `check_memory` | no block is written while a later reader needs it |
| **Net** `framework/core/net/net.cpp` | executers, events, suspended and start point | `prediction`, `execute_stop_at_node`, `execute_start_from_node`, `init_memory` | reads happen after writes, nothing runs after the return |
| **Graph** `framework/graph/graph.cpp` | nodes, edges, virtual graph, optimised flag | `load`, `Reshape`, `Optimize`, `CopyFrom`, `Clean` | optimised once, copies complete |
| **GraphGlobalMem** `framework/graph/graph_global_mem.h` | pools of weights, guard per address and level | `new_block`, `apply`, `clean_all` | a weight is transformed once per level |
| **Buffer, Tensor, Context, Event** `saber/core/` | capacity, ownership, sharing; streams | `re_alloc`, `share_from`, `record_event`, `sync` | shared tensors see one block, big enough |
| **Service** `framework/service/` | process ids, device data | daemon loop, rpc, monitor thread | a dead server is restarted |

Interaction. A client makes a `Worker`, gives it a model path and launches it.
Every thread of the pool calls `NetGraphWrapper::initial`, which loads the graph of
the path once (`Graph::load`, `Reshape`, `Optimize`) and makes a `Net` of it for
the thread. `Graph::Optimize` runs Scheduler, ConvElsFusionScheduler,
ParallScheduler and MemoryScheduler, in this order, on the virtual graph; the first
two set the execution order, the third lanes and wait marks, the last the sharing
of memory. A `Net` walks the execution order and launches kernels in the lanes;
in ASYNC mode the wait marks decide where the host waits for events. Requests reach
the threads as tasks of the ThreadPool; results come back through futures.

The hard behaviours: condition variable and queue of the pool; lifetimes of
captured frames, members and output tensors across threads; the reuse of thread
ids; loops that only end because another component ran before; an order computed
by erasing from a list while it is walked; kernels that run beside the host.

**Not modelled**, with the reason: graph patterns and fusion registers, the parser
(but for the tensors it makes and shares), operators and parameters (sequential,
table driven or generated); calibration and batch streams (numeric, used once by one
thread); the kernels of `saber/funcs` (numeric); the C API (forwards calls); tools,
sgx, third-party code, benchmarks, examples (not the engine); Singleton (its hazard,
a pointer read outside the mutex, is in the memory model of the machine, not in the
algorithm); Service (system calls around the Worker). Of components that are partly
modelled: the sizes of memory blocks (`Net::init_memory`, Buffer and Tensor), the
pool of GraphGlobalMem, and building, saving and restoring a Graph.

By far the most lines of the repository are kernels, several variants of each for
every device, in intrinsics or assembly. They compute numbers from numbers without
state that lasts, so a state machine has nothing to say about them, and the
definitions here stand for a small share of all lines. They stand for most of the
lines that schedule, share, order or synchronise, which are in `framework/core`,
`framework/core/net` and `framework/graph`.

## 2. Modules

| Module | Models | Composes |
|---|---|---|
| `TaskExecutor` | what a pool promises, without threads | |
| `ThreadPool` | the pool | refines `TaskExecutor` |
| `Worker` | Worker with its tasks' bodies | extends `ThreadPool` |
| `GraphGlobalMem` | the guards of weight memory, as operators | |
| `NetGraphWrapper` | the two maps over the life of several Workers; load of a graph and preparation of its weights by the nets | extends `GraphGlobalMem` |
| `Scheduler` | the dependency scheduler | |
| `ParallScheduler` | lanes and marks | extends `Scheduler`, runs after it |
| `ConvElsFusionScheduler` | the merge of Eltwise into convolutions | extends `Scheduler`, overrides `callable` |
| `MemoryScheduler` | the sharing of memory by ios, `check_memory`, the search for the owner of a block | graph, order and lanes as given by the schedulers above |
| `NetExec` | a net over streams and events | plan as given by `ParallScheduler` |
| `MCWorker`, `MCNetGraphWrapper`, `MCOptimize`, `MCFusion`, `MCNetExec` | the instances for TLC | |
| `ThreadPoolProofs`, `SchedulerProofs`, `ParallSchedulerProofs`, `NetExecProofs`, `NetGraphWrapperProofs`, `MemorySchedulerProofs` | theorems about the module they are named after | extend it |
| `WorkerProofs` | theorems about `Worker` | extends `ThreadPoolProofs` |
| `ConvElsFusionSchedulerProofs` | theorems about `ConvElsFusionScheduler` | extends `SchedulerProofs` |

Definitions named `Name_Something` are faulty variants of `Name`, each commented;
they show that a property can be broken by a plausible mistake and are used by
no specification.

**ThreadPool.** Each critical section under `_mut` is one action (`Take`,
`Sleep`, `Exit`, `Emplace`, `Stop`); what happens outside it is an action of its
own (`NotifyOne`, `AuxiliaryFuncs`, `Call`, `DestructorNotifyAll`,
`DestructorJoin`). `Sleep` gives the mutex up and sleeps in one step, as `cv.wait`
does; a notification wakes one sleeper, any, and `SpuriousWakeup` wakes one
without reason. A task is a submission; its future is none, pending, ready or
broken. Stop and destruction may come at any time. In `Call` the future gets ready
and the worker leaves the packaged_task, for `RunSync` an object of the caller's frame
(`thread_pool.inl:58-61`), in one step; what the library does between the two is not
told apart.

**Worker.** Extends the pool. `WorkerInit` becomes `InitialLock`/`InitialDone`
(the wrapper's mutex, the net), the body of a task `FillInputs`, `Prediction`,
`CollectOutputs`. Data is named by its request: a tensor holds the request whose
input or result is in it. `sync_prediction` delivers data, `sync_prediction_device`
and `async_prediction` deliver a pointer to the output tensor of the thread's net.
The client leaves its input tensors alone until it has the result, takes results in
one thread at a time and asks `empty` before `async_get_result`, as
`test/framework/net/net_exec_multi_thread_test.cpp:150` does, and destroys the Worker
only when no request is pending; these are conditions on the client, not
guarantees of the code. The loop shown at `worker.h:62-65` does not ask `empty`; the
front of an empty `std::queue` is undefined and has no counterpart in the model.

**NetGraphWrapper, GraphGlobalMem.** `Initial` is one action, it holds the
wrapper's mutex all along: `load`, the reshape, and `net_init` for a new thread id.
Threads start, are joined with their Worker, and their ids may be given to threads of
later Workers. `CopyFrom` gives a net nodes of its own that share their attributes
with the graph's (`AttrInfo::operator=` copies a pointer), so weights, biases and the
flags `is_param_updated` and `is_weights_transed` are kept once per graph.
`net_init` runs `InitParam` over all nodes and then `Init` over all nodes, as the two
loops of `Net::init` do (`ParamLoop`, `InitLoop`). Convolution and ConvBatchnorm stand for all operators with
weights to prepare; the others differ in the arithmetic of the fold only, or only
transpose at level 1. The code keys guards by address and moves a guard with its
tensor; the model keys them by tensor, so what is left of the moves is the exchange
of guards when a tensor that had no memory gets some. This presumes that the address
of released memory is not found under a stale key: the old key of a moved tensor is
erased, and no tensor is released while its graph is in the map.

**Scheduler.** A graph is a set of arcs; an io is named by its arc. `StartWalk`
and `VisitVertex` are `RegIOResource`: the two walks BFS and BFS_Edge meet the
vertices in the same order and are one. `launch`, `skip`, `NextPass`, `Stuck`,
`Finish` are the loop of `Run`, with the position of the iterator in a list that
is erased from. The order of arcs in the lists of a vertex is any order. Two arcs
between the same two vertices are one arc.

**ParallScheduler.** Runs on the same graph after a Scheduler, as in `Optimize`
without the Eltwise fusion (`with_fusion` false, INT8, lite and ARM builds).
`init`, `node_sync_flags`, `io_sync_flags` are the SyncFlagController's. The first
input of a vertex, whose lane it takes, may be any of them.

**ConvElsFusionScheduler.** `Hold` and `Try` split `callable` with the helper's
wait list; `MergePairs`, `get_exec_node_in_order` and `SetExecOrder` follow the loop.
`elt_node_in_its` is the list of an Eltwise's inputs, any number of them in any order;
the first one that is not held back (`Sibling`) becomes the forced vertex, as in the
loop over all inputs at `conv_elewise_fusion_scheduler.cpp:40`.

**MemoryScheduler.** `Draw` builds the graph in execution order, with the operators
that the pass tells apart, lanes as ParallScheduler gives them and registered outputs;
`LaunchKernel` and `LaunchSelfShared` are `launch` for the two kinds of vertices with
the lists `_free`, `_lock`, `_self_lock` of copies (operators have at most two inputs and
two outputs, `Arity`); `StartCheck`, `CheckNode`,
`EndCheck` are `check_memory`. A plan is judged by `Sound`: run the vertices in order
and look at what each block holds (`Contents`).

**NetExec.** The host's steps (`Execute`, `ExecutePartly`, `Return`) and those of
the device (`FinishKernel` per lane) interleave. An event holds the lane and the
number of kernels it was recorded behind; a wait returns when the lane has finished
that many. The content of an io is the prediction that wrote it. A vertex without in
arcs is an Input and one without out arcs an Output, where the code asks for the name of
the operator (`net.cpp:426,451`). The second of two partial calls starts from the node
at which the first was asked to stop.
Every io has memory of its own; sharing is MemoryScheduler's subject.

## 3. Runs

| Run | Instance | Shows |
|---|---|---|
| `threadpool` | 2 workers, 2 callers, 3 tasks | `TypeOK`, `TaskInOnePlace`, `CapturedFrameAlive`, `EnoughAwake`, `AsyncSettledAtDeath`; refinement `ImplementsExecutor`; liveness `TaskCompletes`, `TakenTaskCompletes`, `DestructorReturns`, `RunSyncReturns` |
| `worker` | 2 threads, 2 clients, 2 requests | `SyncResultOfOwnInputs`, `AsyncFuturesInOrder`, `NetBeforeTask`; liveness `AsyncGetReturns` |
| `worker_alias` | same | violated: `AsyncResultsInOrder` |
| `wrapper` | 2 Workers, 3 thread ids, 2 shapes, 2 models of any two convolutions | `PreparedByFirstNet`, `SharedStateStable` |
| `wrapper_model` | 2 Workers, 2 ids | violated: `ServesOwnModel` |
| `optimize` | all digraphs of 4 vertices, all acyclic ones of 5 that ParallScheduler accepts | `ParallTypeOK`, `TopologicalOrder`, `NodesConserved`, `ScheduleComplete`, `FatalExplained`, `ParallProgress`, `LanesAgree`, `LanesOfInputs`; liveness `OptimizeEnds` |
| `net_async` | all nets of 6 executers, 2 predictions, whole or in part (in part: nets with one input) | `ReadsSettled`, `QuiescentOnReturn`, `ResultsOfRound`; liveness `PredictionReturns` |
| `net_partly_lanes` | nets of 5 executers, partial calls of all | violated: `ReadsSettled` |
| `fusion` | nets of 7 vertices, 2 or 3 convolutions and 1 or 2 Eltwises anywhere, an Eltwise of up to 3 inputs | `FusedOrderComplete`, `MergedHasOneReader`, for Eltwises of two inputs `AddendReady`, `MergedOnce`; liveness `FusionEnds` |
| `fusion_order` | those without a vertex of 3 inputs | violated: `FusedOrderTopological` |
| `memory` | all models of 7 vertices, one registered output | `RunPlanSound`, `FixedKept` (no merged convolution), `OwnerFound`; action property `CheckDoesNothing` (no Reshape, no merged convolution) |
| `memory_check` | models with a Reshape | violated: `CheckDoesNoHarm` |

Why the bounds are enough. A lost wake-up needs a sleeper, a busy worker and a
task more than there are awake workers: two workers and three tasks. The races
of a Worker need two threads, a producer and a consumer. A thread id is inherited
with two Workers. Two convolutions of either kind, with and without bias, with tensors
of their own or shared, give every pair of uses of a guard within a net; three ids give
a second net of a model before the first of another one and after it. Thread ids,
Workers, models and shapes are only compared for equality, so the run uses their
symmetry. Every message of
`Scheduler::Run` occurs with four vertices (a cycle behind an input, a part no
input reaches, a loop), and five give two lanes that meet in a vertex whose
producers were launched in different passes. Six executers give three inputs, two
joins and an output; a stale event needs a second prediction. Seven vertices
give an Eltwise that feeds another one, each with a convolution to merge, and a held
back convolution whose producer is launched after its sibling; one of the seven may have
three inputs, if one at most has two readers, which is where an Eltwise is registered
with more than one pair. Seven
vertices are also what it takes for a block to be released by an outer Split while an inner
vertex without kernel still shares it, with a vertex after it that takes it.
`MaxRound` (NetExec) and `MaxFixed` (MemoryScheduler) are the bounds in guards; the tasks of a pool are the
submissions of a behaviour, so their number bounds the calls.

Deadlock checking is off where a behaviour ends: a destroyed pool, a finished
`Optimize`, a client that has made its predictions. A `RunSync` whose task is
dropped by `stop` waits for ever in the code as well.

## 4. Fairness

- ThreadPool, Worker: weak fairness of each worker thread, each calling thread
  once it is in a call, and the destructor once begun: threads that can run are
  scheduled, tasks end. Nothing is assumed of spurious wake-ups, of new calls or of `stop`.
  `TaskCompletes` and `RunSyncReturns` are stated for a pool that is not stopped.
- Schedulers: weak fairness of the next step, they are sequential loops.
- NetExec: weak fairness of the host and of every lane of the device: a device
  works off each stream, in no particular proportion.

## 5. Theorems

Checked by TLAPS for every finite set of workers, callers, vertices, every set
of tasks, every set of graphs, placement of operators and lanes, any number of
predictions. The assumptions are the named ASSUMEs of the modules (finiteness,
`NoTask` is no task, `nullptr` no tensor, graphs are sets of arcs over `Nodes`) and four hypotheses that
five theorems name: `OneConsumer` (one caller at a time takes results; `empty` reads
the queue without the mutex, so with two of them the front may be gone when it is
taken) and `OneLanePartly` (the net of a partial call has one input, hence one
lane; with several the property is false, run `net_partly_lanes`), `Unmerged` (no
convolution was merged with an Eltwise, as in builds without that fusion) and `Plain`
(nor is there a Reshape or Flatten; with them `check_memory` may break the plan, run
`memory_check`). The theorems about `MemoryScheduler` are for operators of at most two
inputs and two outputs.

| Module | Theorem | Property |
|---|---|---|
| `ThreadPoolProofs` | `TypeCorrect` | `TypeOK` |
| | `TasksConserved` | `TaskInOnePlace` |
| | `FrameAlive` | `CapturedFrameAlive` |
| | `AsyncSettled` | `AsyncSettledAtDeath` |
| | `NoLostWakeup` | `EnoughAwake` |
| | `PoolRefinesExecutor` | `ImplementsExecutor` |
| `SchedulerProofs` | `SchedTypeCorrect` | `SchedTypeOK` |
| | `OrderIsTopological` | `TopologicalOrder` |
| | `VerticesConserved` | `NodesConserved` |
| | `OrderIsComplete` | `ScheduleComplete` |
| | `FatalIsExplained` | `FatalExplained` |
| `ParallSchedulerProofs` | `ParallTypeCorrect` | `ParallTypeOK` |
| | `ParallRunProgresses` | `ParallProgress` |
| | `UnmarkedShareALane` | `LanesAgree` |
| | `AsManyLanesAsInputs` | `LanesOfInputs` |
| `WorkerProofs` | `WorkerImplementsPool` | `WorkerSpec => Spec` of the pool |
| | `NetIsThere` | `NetBeforeTask` |
| | `OwnResult` | `SyncResultOfOwnInputs` |
| | `WorkerTypeCorrect` (`OneConsumer`) | `WorkerTypeOK` |
| | `FuturesInOrder` (`OneConsumer`) | `AsyncFuturesInOrder` |
| `NetExecProofs` | `NetTypeCorrect` | `NetTypeOK` |
| | `NothingRunsAfterPrediction` | `QuiescentOnReturn` |
| | `TensorsOfRound` | `ResultsOfRound` |
| | `PredictionReadsSettled` | `~partly => ReadsSettled` |
| | `AllReadsSettled` (`OneLanePartly`) | `ReadsSettled` |
| `NetGraphWrapperProofs` | `FirstNetPrepares` | `PreparedByFirstNet` |
| | `SharedStateIsStable` | `SharedStateStable` |
| `ConvElsFusionSchedulerProofs` | `FusionTypeCorrect` | `FusionTypeOK` |
| | `EltwiseMergedOnce` | `MergedOnce` (Eltwises of two inputs) |
| | `MergedFeedsItsEltwise` | `MergedHasOneReader` |
| | `FusedOrderIsComplete` | `FusedOrderComplete` |
| | `AddendIsReady` | `AddendReady` (Eltwises of two inputs) |
| | `LaunchesAreTopological` | `TopologicalOrder` of the launches |
| `MemorySchedulerProofs` | `MemTypeCorrect` | `MemTypeOK` |
| | `OwnerIsFound` | `OwnerFound` |
| | `FixedIsKept` | `FixedKept` |
| | `UnmergedRunPlanIsSound` (`Unmerged`) | `RunPlanSound` |
| | `CheckChangesNothing` | `CheckDoesNothing` |
| | `PlainPlanIsSound` (`Plain`, `Writable`) | `CheckDoesNoHarm` |

*ThreadPool.* `PoolInv` is `TypeOK`, `PcInv` (which local variables each program
counter implies) and `TaskInOnePlace`: that a task is called at most once needs to
know that a worker in "call" holds a task nobody else holds, which `Take` gives only
if the queue has no duplicates. `EnoughAwake` is inductive with `TypeOK` alone; its
proof counts: the awake workers and the callers about to notify outnumber the
queue as long as somebody sleeps. The refinement maps the queue to the backlog and
a task's place to its status; every step is a step or a stutter of `TaskExecutor`.

*Scheduler.* `RunInv` is what any run of the loop keeps, whatever `callable` says:
`SchedTypeOK`, `WalkInv` (what is found is in one of the three queues, and what is
queued has its arcs tagged), `CountInv` (the lengths add up to the number of found
vertices, so no vertex is twice in a queue), `TagInv` (an io is available exactly
when its producer was launched), `InputsFirst` (the topological order, for each
position). `SchedInv` adds `FatalExplained` and `PassInv` (what a pass without a launch
has passed is not callable), which is what makes the check of progress sound: a pass
that ends with an unchanged length has tested every vertex.

*ParallScheduler.* `ParallInv` keeps `SchedInv` for the second run and adds `Rooted`
(a found vertex is an input of the graph or has a producer), `OrderInv` (the order
the first run left is closed under successors, topological and rooted) and
`LaneInv` (an io has the lane of its producer, an unmarked vertex that of all its
inputs). Progress: the second walk finds exactly the vertices of that order, by
the least counterexample (`SameVertices`); in a pass that launched nothing, the
first waiting vertex of the order waits for a producer that is earlier in the
order and therefore launched, a contradiction. The number of lanes is that of the
launched inputs, and all others take a lane that is there.

*Worker.* That every step of a Worker is a step of the pool or leaves the pool alone
gives it `PoolInv`. `PredictionInv` follows a request from the call that makes it to
its result: the tensors of a thread's net are those of the task the thread runs,
which needs that no other thread runs it. `QueueInv` has the futures in order:
what was handed out, then the queue, is what was asked for, less the request
between the submission and the push and plus the one between the front and the
pop, the two windows in which the mutex is held.

*NetExec.* `NetInv`: `WalkInv` (a round goes through the executers in order and
without a gap, also where it is two partial calls), `StreamInv` (a lane holds
kernels of this round in the order of the walk), `ContentInv`, `EventInv` (the
event of an io is behind the kernel that writes it), `SettledInv` (the producer of a
queued kernel is finished or before it in its lane) and `AwaitedInv` (the last kernel of
every lane has a consumer the host has not reached). The last one is why nothing
runs when `prediction` returns: each lane's end is awaited by a vertex with
`need_sync` or by an output, which always waits. `EventInv` and `SettledInv` are kept for
`prediction` and for partial calls on one lane (`Tidy`). That a round of two partial
calls has no gap needs that the two kept points are one: the start point is unset or the
suspended point, whatever node the calls name.

*ConvElsFusionScheduler.* `FusionInv` takes `RunInv` from the Scheduler and adds
`PairInv` (a pair is a convolution and the Eltwise it feeds; once launched the
convolution has no other reader, and its forced vertex is another input of the Eltwise),
`HoldInv` (of the two convolutions of an Eltwise with two inputs, the one that is not
merged is held back until the other is launched) and `ListInv` (the part of
the order made so far has no vertex twice and, for Eltwises of two inputs, no merged
convolution before its forced vertex). An Eltwise of two inputs is merged once since the
held convolution is released, and tested again, only when the other one has left the list
of the waiting. `FusedOrderComplete` and `MergedHasOneReader` need no condition on the
number of inputs.

*NetGraphWrapper.* The two loops of `Net::init` are recursive functions over the nodes;
their recursion equations, and that what each turn keeps holds after all of them,
are proved from the least counterexample (`ParamLoopDef`, `InitLoopDef`,
`LoopInduction`). `WrapperInv` is `WrapperTypeOK`, `GraphInv` (a model with a net is in
the map and all its nodes are flagged), `FreshInv` (a graph without a net is as `load`
left it, its tensors accessible at every level, and no other model has a guard for its
biases) and `NullInv` (the guard of `nullptr` lacks level 0 exactly when `EmptyTensorMet`).
`SharedStateIsStable` needs the first two: over flagged nodes the loops change guards
only, and load touches no other model's tensors. For `FirstNetPrepares`,
`ParamPrepared` and `InitPrepared` say what is folded and transposed, and which levels
are left, after k nodes: a node that shares its weights with an earlier one is refused
because `WellShared` makes it share the bias as well, so both guards are used up.
That the guard of `nullptr` is exchanged and not copied (`moved`) is what keeps
`NullInv` through a fold without bias.

*MemoryScheduler.* The loops over outputs, inputs, `_self_lock`, earlier vertices and
the run of the net are recursive functions as well; their recursion equations are
proved from one lemma on loops (`LoopExists`), from one on tables that are filled from
the last vertex back (`TableExists`: `Reached`, `Behind`), or directly (`Source`).
`KernelResult` and `LaunchSelfSharedResult` then say, without loops, what a launch
leaves. Two invariants are built on this.

`MemInv` holds with and without merged convolutions and Reshape. Its core is `Hop`: what an io shares is not shared
itself, so chains along `share_from` have one step, before and after `check_memory`, and
the owner is found. To keep it, the lists must hold copies that agree with the
plan (`LaunchOK`: a copy on the free list or locked names an owner, and an io that is
not launched yet is as `DrawEnds` left it). For models without merged convolutions it
has also that no kernel shares the block of a registered output (`FixedOK`, with
`LaunchFixed` for the copies), from which `FixedKept` follows: such a block is written
once.

`PlanInv` is about `Unmerged` models. `Disjoint`: two ios that are in use at the same
time have one block only if the later one shares it along vertices without kernel.
That lock keeps this needs `BlocksOK`, which says that the lists know what is in use: a
block on the free list is in use by nobody; of an element of `_self_lock`, the tree has
exactly the ios that use its block (`Exact`), or an edge into another vertex without
kernel (`Stuck`; `free_self` takes out only edges that a kernel reads, so of nested
vertices no entry runs empty and their block is held to the end). This is why a
nesting of Split and Reshape cannot release a block early. `Sound` follows from `Disjoint`: by induction
along the vertices without kernel, nothing is written to the block of an arc from
its source until it has been read (`SourceDelivers`), so the block holds the source
(`ContentsStay`). And in a `Plain` model a wrong order, as `check_memory` tests for it,
would be two ios in use with one block (`NoWrongOrder`).

Only model-checked:

- Liveness, for which the prover has no rules: `TaskCompletes`, `TakenTaskCompletes`,
  `DestructorReturns`, `RunSyncReturns`, `AsyncGetReturns`, `OptimizeEnds`,
  `PredictionReturns`, `FusionEnds`.
- `RunPlanSound` of models with merged convolutions. A Gather lets an io share a block
  after it was launched with another one, so `Disjoint` is not kept step by step; whether
  the plan is sound is decided by `AddendReadFirst` and `AddendKeepsBlock`, which speak of
  the finished plan. An inductive invariant would have to anticipate them.

## 6. Findings

1. `worker_alias`: `async_get_result` returns pointers to the output tensors of
   the thread's net; the thread's next request overwrites them. `worker.h:139`
   promises the results in the order of the requests.
2. `wrapper_model`: entries of `_thread_to_net` outlive their threads and are keyed
   by the thread id, which is reused: a later Worker's thread serves the
   earlier Worker's model.
3. `net_partly_lanes`: the partial calls record the event of an input on the
   consumer's stream before they wait for it, so the wait is for the wrong lane.
   `prediction` does not; `net.h:89-92` promises the same order of computation.
4. `fusion_order`: `get_exec_node_in_order` moves a convolution before its
   sibling although its own producer may come later.
5. `memory_check`: `check_memory` takes the block of an io behind a Reshape for one
   in wrong order and gives the io a block of its own, which nothing writes since
   a Reshape has no kernel (`reshape.h:91`). The comment at
   `memory_scheduler.cpp:208` says it does nothing to a correctly scheduled graph.

Stated inside a property that holds:

6. `PreparedByFirstNet`: all tensors without memory share the guard of `nullptr`. A
   Convolution without bias, or the second net of a model with a Convolution,
   uses it up at level 0; the fold of a ConvBatchnorm without bias in a model that is
   loaded later needs it (`graph_global_mem.h:120` asks for both guards) and is left
   out without a message, so that model computes something else than when it is
   loaded first. The property says exactly when this happens (`EmptyTensorMet`).
7. `WellShared` in the same property: two nodes that share their weights but not
   their bias, or that share weights to be folded and have no bias, transpose the
   weights twice (`graph_global_mem.h:196` asks for one guard of two).
8. `AddendReadFirst`, `AddendKeepsBlock`, `Writable` in `RunPlanSound`: the plan is sound
   only if nobody reads the addend of a merged convolution after it, if the
   Gather leaves the addend where it is, and if no output is registered on an
   arc out of a vertex without kernel. The code checks none of the three.
9. `Binary` in `MergedOnce` and `AddendReady`: both hold for Eltwises of two inputs
   only. `conv_elewise_fusion_scheduler.cpp:40` does not look at their number, and
   an Eltwise takes any (`eltwise.h:72`, `x86/saber_eltwise.cpp:43-60`). With three
   convolutions a, b, c the first pass holds a and registers (b, elt), then holds b
   and registers (c, elt): the Eltwise is merged twice, and the launches c, a, b become
   the order b, c, a, in which b runs before both of its addends. With one convolution
   and several other inputs it is placed behind one of them only. TLC finds both when
   `Binary` is taken out of the properties.
10. The nodes of partial calls, in `ResultsOfRound`: the first call keeps the stop point
   and the start point for good (`net.cpp:653`), so a later call that names
   another node still runs to the first one's, against `net.h:89-92`. The results
   are those of the round all the same, since both calls go by one point.

## 7. Hazards without a property

The code does not keep these, or leaves them to the client; no property that
holds can state them. `get_net` reads a map without the mutex that guards it
(`worker.cpp:42`). A thread that starts late calls the virtual `init()` of a Worker
that is being destroyed (`worker.cpp:62`). A client that refills its tensors before
the future is ready changes its request. `async_get_result` takes the front of a queue
that may be empty (`worker.h:135`): `empty` is asked without the mutex, and the loop at
`worker.h:62-65` does not ask. With several lanes a block may be reused in
the lane of its owner while a reader in another lane still runs
(`memory_scheduler.h:97`); `Sound` judges one kernel after the other. A second Worker of a
model gets the graph with the first one's shapes (`worker.cpp:15`).

Outside what is modelled: `CopyFrom` returns early if two graphs are of one size
(`graph.cpp:808`; no code initialises a net twice). `Clean` empties the pool of all
graphs (`graph.cpp:856`; the tensors live on in the attributes, only the size queries
notice). The second net of a graph keeps transposed weights as `_origin_weight`
(`saber_conv.cpp:109`). The capacity of a shared block is computed from the width of one
of those who share it (`net.cpp:843`). `Singleton` reads its pointer outside the mutex.

## 8. Plan

Done: ThreadPool with its abstraction, Worker, NetGraphWrapper with GraphGlobalMem,
Scheduler, ParallScheduler, ConvElsFusionScheduler and NetExec with proofs of all their
safety properties; MemoryScheduler, with proofs but for the soundness of plans with merged
convolutions.

Next, in this order:

1. `RunPlanSound` with merged convolutions, as a theorem.
2. Plan and execution together: the plans of MemoryScheduler on the streams of NetExec,
   for the nets whose lanes meet.
3. The sizes of blocks in `init_memory` and `Buffer`/`Tensor` sharing.
