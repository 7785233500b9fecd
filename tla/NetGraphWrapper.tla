-------------------------- MODULE NetGraphWrapper ---------------------------
(***************************************************************************)
(* framework/core/net/worker.cpp, NetGraphWrapper: the process-wide        *)
(* singleton that keeps one optimised graph per model path and one net per *)
(* thread id, shared by all Workers, with the part of Graph::load and      *)
(* Net::init that the nets of one process share: a net copies the nodes of *)
(* its graph but not their attributes, so the weights and the flags that   *)
(* say they are prepared are common to all nets of a graph, and the guards *)
(* of GraphGlobalMem are common to all graphs.                             *)
(*                                                                         *)
(* Preparing weights takes two steps: the fold of a batch normalisation    *)
(* into weights and bias (InitParam) and the transposition the kernels ask *)
(* for (Init).  Of the operators, Convolution and ConvBatchnorm stand for  *)
(* the ones that only transpose, at level 0, and the ones that fold at     *)
(* level 0 and transpose at level 1.                                       *)
(*                                                                         *)
(* initial() holds the wrapper's mutex for all it does.  A Worker gives    *)
(* its model path and the input shapes it was told by Reshape; entries of  *)
(* both maps are never removed.                                            *)
(***************************************************************************)
EXTENDS GraphGlobalMem, FiniteSets

CONSTANTS Pools,     \* the Workers of a process, over its life
          Ids,       \* std::thread::id values; the system reuses them
          Models,    \* model paths
          Shapes,    \* input shapes
          MaxNodes,  \* bound: convolutions of a model
          None

VARIABLES
  file,           \* what the model file of each path holds
  _model_path,    \* model of each Worker
  _in_shapes,     \* input shape each Worker was given by Reshape
  owner,          \* Worker that a living thread belongs to
  initialised,    \* living threads that have run init()
  _graph_map,     \* model path -> shape and nodes of its graph
  _thread_to_net, \* thread id -> model and shape of its net
  _res_guard,     \* guards of GraphGlobalMem
  weights         \* how often each weight tensor was folded and transposed

wrapperVars == <<file, _model_path, _in_shapes, owner, initialised, _graph_map,
                 _thread_to_net, _res_guard, weights>>

\* A convolution in a model file: its operator, the node whose weights it has
\* (its own, or an earlier one's: shared tensors) and the node whose bias it
\* has (0: no bias).
FileNode(k) == [op : {"Convolution", "ConvBatchnorm"}, w : 1 .. k, b : 0 .. k]
Files == {f \in [1 .. MaxNodes -> FileNode(MaxNodes)] :
            \A k \in 1 .. MaxNodes :
              /\ f[k] \in FileNode(k)
              /\ f[f[k].w].w = f[k].w
              /\ f[k].b # 0 => f[f[k].b].b = f[k].b}

Weight(m, k) == <<m, k, "weight_1">>
Bias(m, k) == <<m, k, "weight_2">>

ASSUME WrapperAssumption ==
  /\ IsFiniteSet(Ids) /\ None \notin Pools /\ MaxNodes \in Nat
  /\ \A m \in Models, k \in 1 .. MaxNodes : Null \notin {Weight(m, k), Bias(m, k)}

WrapperInit ==
  /\ file \in [Models -> Files]
  /\ _model_path \in [Pools -> Models]
  /\ _in_shapes \in [Pools -> Shapes]
  /\ owner = [i \in Ids |-> None]
  /\ initialised = {}
  /\ _graph_map = <<>>
  /\ _thread_to_net = <<>>
  /\ _res_guard = GraphGlobalMem
  /\ weights = <<>>

-----------------------------------------------------------------------------
(***************************************************************************)
(* Graph::load and Net::init, on st: the nodes of the graph, the guards    *)
(* and the weights.  Node k of model m.                                    *)
(***************************************************************************)

\* The parser: the attributes of the nodes.  A shared tensor is the one of the
\* node it is shared from.
parse(m) ==
  [k \in 1 .. MaxNodes |->
     LET n == file[m][k] IN
     [op |-> n.op, w |-> Weight(m, n.w), b |-> IF n.b = 0 THEN Null ELSE Bias(m, n.b),
      is_param_updated |-> FALSE, is_weights_transed |-> FALSE]]

\* Graph::load: every tensor of the file that is not shared gets a block.  The
\* Clean that precedes it empties the pool, which holds second handles only.
load(m) ==
  LET nodes == parse(m)
      W == {nodes[k].w : k \in 1 .. MaxNodes}
      B == {nodes[k].b : k \in 1 .. MaxNodes} \ {Null}
  IN [nodes   |-> nodes,
      guard   |-> new_block(_res_guard, W \cup B),
      weights |-> [t \in DOMAIN weights \cup W |->
                     IF t \in W THEN [folded |-> 0, transed |-> 0] ELSE weights[t]]]

\* ConvBatchnorm's InitParam: the first net folds the normalisation.  A node
\* without bias gets an empty one, to which the fold gives memory.
InitParam(m, st, k) ==
  LET n == st.nodes[k]
      flagged == [st EXCEPT !.nodes[k].is_param_updated = TRUE]
      used == use(st.guard, {n.w, n.b}, 0)
      folded == [flagged EXCEPT !.guard = used, !.weights[n.w].folded = @ + 1]
  IN IF n.op = "Convolution" \/ n.is_param_updated THEN st
     ELSE IF ~ block_access(st.guard, 0, n.w, n.b) THEN flagged
     ELSE IF n.b # Null THEN folded
     ELSE [folded EXCEPT !.guard = moved(used, Bias(m, k)), !.nodes[k].b = Bias(m, k)]

\* Convolution transposes at level 0, an operator that folds at level 1.
trans_level(op) == IF op = "Convolution" THEN 0 ELSE 1

\* Faulty variant: the flag is_weights_transed is not looked at.
Init_NoFlag(m, st, k) ==
  LET n == st.nodes[k]
      l == trans_level(n.op)
      flagged == [st EXCEPT !.nodes[k].is_weights_transed = TRUE]
  IN IF tensor_access(st.guard, l, n.w, n.b)
     THEN [flagged EXCEPT !.guard = use(@, {n.w, n.b}, l),
                          !.weights[n.w].transed = @ + 1]
     ELSE flagged

\* Init: the first net transposes the weights; a later one applies the
\* function to two empty tensors, of which only their guard takes notice.
Init(m, st, k) ==
  LET n == st.nodes[k]
      l == trans_level(n.op)
      flagged == [st EXCEPT !.nodes[k].is_weights_transed = TRUE]
  IN CASE n.is_weights_transed -> [st EXCEPT !.guard = use(@, {Null}, l)]
       [] ~ n.is_weights_transed /\ tensor_access(st.guard, l, n.w, n.b) ->
            [flagged EXCEPT !.guard = use(@, {n.w, n.b}, l),
                            !.weights[n.w].transed = @ + 1]
       [] OTHER -> flagged

\* The two loops of Net::init, as far as node k.
ParamLoop(m, st) ==
  LET f[k \in 0 .. MaxNodes] == IF k = 0 THEN st ELSE InitParam(m, f[k - 1], k) IN f

InitLoop(m, st) ==
  LET f[k \in 0 .. MaxNodes] == IF k = 0 THEN st ELSE Init(m, f[k - 1], k) IN f

\* Net::init: InitParam of all nodes, then Init of all nodes.
net_init(m, st) == InitLoop(m, ParamLoop(m, st)[MaxNodes])[MaxNodes]

-----------------------------------------------------------------------------
\* The map f with v for k.
Put(f, k, v) == [x \in DOMAIN f \cup {k} |-> IF x = k THEN v ELSE f[x]]

\* A thread of Worker p starts; the system gives it an id no living thread has.
StartThread(p, i) ==
  /\ owner[i] = None
  /\ owner' = [owner EXCEPT ![i] = p]
  /\ UNCHANGED <<file, _model_path, _in_shapes, initialised, _graph_map,
                 _thread_to_net, _res_guard, weights>>

\* initial(): the first thread of a model loads the graph, reshapes it as its
\* Worker wants and optimises it; every thread whose id is not in the map yet
\* makes its net from that graph.
Initial(i) ==
  /\ owner[i] # None /\ i \notin initialised
  /\ LET m == _model_path[owner[i]]
         loaded == m \in DOMAIN _graph_map
         s == IF loaded THEN _graph_map[m].shape ELSE _in_shapes[owner[i]]
         st == IF loaded THEN [nodes   |-> _graph_map[m].nodes,
                               guard   |-> _res_guard,
                               weights |-> weights]
               ELSE load(m)
         new == i \notin DOMAIN _thread_to_net
         end == IF new THEN net_init(m, st) ELSE st
     IN /\ _graph_map' = Put(_graph_map, m, [shape |-> s, nodes |-> end.nodes])
        /\ _res_guard' = end.guard
        /\ weights' = end.weights
        /\ _thread_to_net' = IF new
             THEN Put(_thread_to_net, i, [model |-> m, shape |-> s])
             ELSE _thread_to_net
  /\ initialised' = initialised \cup {i}
  /\ UNCHANGED <<file, _model_path, _in_shapes, owner>>

\* ~ThreadPool has joined the thread: its id is free again.
JoinThread(i) ==
  /\ i \in initialised
  /\ owner' = [owner EXCEPT ![i] = None]
  /\ initialised' = initialised \ {i}
  /\ UNCHANGED <<file, _model_path, _in_shapes, _graph_map, _thread_to_net,
                 _res_guard, weights>>

WrapperNext == \E i \in Ids : \/ \E p \in Pools : StartThread(p, i)
                              \/ Initial(i) \/ JoinThread(i)

WrapperSpec == WrapperInit /\ [][WrapperNext]_wrapperVars

-----------------------------------------------------------------------------
NetsOf(m) == {i \in DOMAIN _thread_to_net : _thread_to_net[i].model = m}

\* The nodes of m that share a weight or a bias share both and do the same
\* with them, and have a bias if it is to be folded.
WellShared(m) ==
  \A j, k \in 1 .. MaxNodes :
    LET x == file[m][j]
        y == file[m][k]
    IN j # k /\ (x.w = y.w \/ (x.b = y.b /\ x.b # 0)) =>
         x = y /\ (x.op = "Convolution" \/ x.b # 0)

\* Some Convolution was initialised with an empty tensor: one without bias, or
\* one of a net that is not the first of its model.
EmptyTensorMet ==
  \E m \in Models, k \in 1 .. MaxNodes :
    /\ NetsOf(m) # {}
    /\ file[m][k].op = "Convolution"
    /\ file[m][k].b = 0 \/ Cardinality(NetsOf(m)) > 1

\* When the first net of a model is made every weight is transposed exactly
\* once and every normalisation folded exactly once, whatever graphs and nets
\* there are in the process, with the one exception that the guards make: a
\* normalisation without bias is not folded at all if a Convolution met an
\* empty tensor before, whose guard it shares.
PreparedByFirstNet ==
  [][\A m \in Models :
       NetsOf(m) = {} /\ NetsOf(m)' # {} /\ WellShared(m) =>
         \A k \in 1 .. MaxNodes :
           LET n == file[m][k]
               lost == n.b = 0 /\ EmptyTensorMet
           IN /\ weights'[Weight(m, n.w)].transed = 1
              /\ weights'[Weight(m, n.w)].folded =
                   IF n.op = "ConvBatchnorm" /\ ~ lost THEN 1 ELSE 0]_wrapperVars

\* What a net shares with its graph never changes once there is a net, which
\* may be predicting: not the shape, and not the weights and biases, although
\* later nets run the same initialisation over them.
SharedStateStable ==
  [][\A m \in Models : NetsOf(m) # {} =>
       /\ _graph_map'[m].shape = _graph_map[m].shape
       /\ \A k \in 1 .. MaxNodes :
            /\ _graph_map'[m].nodes[k].b = _graph_map[m].nodes[k].b
            /\ weights'[Weight(m, file[m][k].w)] = weights[Weight(m, file[m][k].w)]
    ]_wrapperVars

\* A Worker serves the model it was made for.
ServesOwnModel ==
  \A i \in initialised : _thread_to_net[i].model = _model_path[owner[i]]
=============================================================================
