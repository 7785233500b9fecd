----------------------- MODULE ConvElsFusionScheduler -----------------------
(***************************************************************************)
(* framework/graph/llvm/optimizer/conv_elewise_fusion_scheduler.cpp: the   *)
(* scheduler that Graph::Optimize runs behind the first one to merge an    *)
(* Eltwise into one of the convolutions that feed it.  The merged          *)
(* convolution adds its result to the Eltwise's other input, the addend,   *)
(* which must be computed before it.  callable() holds a convolution back  *)
(* until its sibling is launched, and chooses the one that is merged;      *)
(* get_exec_node_in_order moves the addend before it.  An Eltwise may have *)
(* any number of inputs, the code looks at the first it finds.             *)
(***************************************************************************)
EXTENDS Scheduler

CONSTANT Ops    \* the operators considered, as functions on Nodes

ASSUME OpsAssumption == Ops \subseteq [Nodes -> {"conv", "elt", "other"}]

VARIABLES
  op,                 \* opName: "conv" for Convolution and ConvBatchnormScale,
                      \* "elt" for Eltwise and EltwiseRelu
  elt_node_in_its,    \* the vertices an Eltwise reads from, as its arcs list them
  _node_need_to_wait, \* convolutions that are held back
  _pairs,             \* convolution and Eltwise to be merged
  _force_order,       \* vertex to be run before a vertex; itself if none
  order,              \* ret of get_exec_node_in_order
  listed              \* its loop variable; 0 before the pairs are merged

fusionVars == <<op, elt_node_in_its, _node_need_to_wait, _pairs, _force_order, order,
                listed>>
helperVars == <<_node_need_to_wait, _pairs, _force_order>>
allVars == <<schedVars, fusionVars>>

FusionTypeOK ==
  /\ SchedTypeOK
  /\ op \in [Nodes -> {"conv", "elt", "other", "conv_elt", "gather"}]
  /\ DOMAIN elt_node_in_its \subseteq Nodes
  /\ \A n \in DOMAIN elt_node_in_its : elt_node_in_its[n] \in Seq(Nodes)
  /\ _node_need_to_wait \subseteq Nodes
  /\ _pairs \subseteq Nodes \X Nodes
  /\ _force_order \in [Nodes -> Nodes]
  /\ order \in Seq(Nodes)
  /\ listed \in 0..(Len(_exec_que) + 1)

Sources(n) == {a[1] : a \in InArcs(n)}
Eltwises == {n \in Nodes : op[n] = "elt"}

\* A convolution has one input; the lists of arcs are in any order.
FusionInit ==
  /\ SchedInit
  /\ op \in Ops
  /\ \A n \in Nodes : op[n] = "conv" => Cardinality(InArcs(n)) = 1
  /\ elt_node_in_its \in [Eltwises -> UNION {Orderings(Sources(n)) : n \in Eltwises}]
  /\ \A n \in Eltwises : elt_node_in_its[n] \in Orderings(Sources(n))
  /\ _node_need_to_wait = {}
  /\ _pairs = {}
  /\ _force_order = [n \in Nodes |-> n]
  /\ order = <<>>
  /\ listed = 0

-----------------------------------------------------------------------------
(* callable(), called for the vertex op_it points to.                      *)

Turn == phase = "run" /\ pos <= Len(_wait_que)
NextOf(n) == CHOOSE m \in Succ(n) : TRUE

\* Faulty variant: an output is enough.
OneOutput_AtLeast(n) == op[n] = "conv" => OutArcs(n) # {}

\* CHECK_EQ: a convolution has one output.
OneOutput(n) == op[n] = "conv" => Cardinality(OutArcs(n)) = 1

OutputFails ==
  /\ Turn
  /\ ~OneOutput(_wait_que[pos])
  /\ phase' = "fatal" /\ fatal' = "out_arcs"
  /\ UNCHANGED <<que, graphVars, tagVars, runVars, fusionVars>>

\* Faulty variant: a sibling that is held back itself is waited for.
Siblings_Held(n) ==
  IF op[n] = "conv" /\ op[NextOf(n)] = "elt" THEN Sources(NextOf(n)) \ {n} ELSE {}

\* The other inputs of the Eltwise behind a convolution that are not held back
\* themselves.
Siblings(n) ==
  IF op[n] = "conv" /\ op[NextOf(n)] = "elt"
  THEN Sources(NextOf(n)) \ ({n} \cup _node_need_to_wait)
  ELSE {}

\* The one the loop over the arcs finds: it is left with the first.
Sibling(n) ==
  {p \in Siblings(n) :
     LET its == elt_node_in_its[NextOf(n)]
     IN \E i \in DOMAIN its : its[i] = p /\ \A j \in 1..(i - 1) : its[j] \notin Siblings(n)}

\* The convolution to be merged and the vertex to be run before it: a sibling
\* that is a convolution is merged, otherwise the one that is held back.
Merge(n, p) == IF op[p] = "conv" THEN <<p, n>> ELSE <<n, p>>

\* The sibling has not been launched: the convolution is held back.
Hold ==
  /\ Turn
  /\ LET n == _wait_que[pos]
     IN /\ OneOutput(n)
        /\ \E p \in Sibling(n) :
             /\ p \in Ran(_wait_que)
             /\ LET m == Merge(n, p)
                IN /\ _pairs' = _pairs \cup {<<m[1], NextOf(n)>>}
                   /\ _force_order' = [_force_order EXCEPT ![m[1]] = m[2]]
        /\ _node_need_to_wait' = _node_need_to_wait \cup {n}
  /\ pos' = pos + 1
  /\ UNCHANGED <<phase, fatal, que, graphVars, tagVars, _wait_que, wait_que_size,
                 _exec_que, op, elt_node_in_its, order, listed>>

\* The sibling has been launched, or there is none: the convolution is
\* released, and launched when its inputs are available.
Try ==
  /\ Turn
  /\ LET n == _wait_que[pos]
     IN /\ OneOutput(n)
        /\ \/ Siblings(n) = {} /\ UNCHANGED _node_need_to_wait
           \/ /\ \E p \in Sibling(n) : p \notin Ran(_wait_que)
              /\ _node_need_to_wait' = _node_need_to_wait \ {n}
  /\ launch \/ skip
  /\ UNCHANGED <<op, elt_node_in_its, _pairs, _force_order, order, listed>>

\* Run has no check of progress.
FusionNextPass ==
  /\ PassEnds
  /\ pos' = 1
  /\ wait_que_size' = Len(_wait_que)
  /\ UNCHANGED <<phase, fatal, que, graphVars, tagVars, _wait_que, _exec_que, fusionVars>>

-----------------------------------------------------------------------------
(* The end of Run.                                                         *)

Launched == phase = "run" /\ _wait_que = <<>>

\* The pairs are merged: the Eltwise is left as a Gather.
MergePairs ==
  /\ Launched /\ listed = 0
  /\ op' = [n \in Nodes |-> IF \E p \in _pairs : p[1] = n THEN "conv_elt"
                            ELSE IF \E p \in _pairs : p[2] = n THEN "gather"
                            ELSE op[n]]
  /\ listed' = 1
  /\ UNCHANGED <<schedVars, helperVars, elt_node_in_its, order>>

\* The forced vertex of the i-th one comes later: it is moved before it.
Moved(i) == \E j \in (i + 1)..Len(_exec_que) : _exec_que[j] = _force_order[_exec_que[i]]

\* push_back of what is not listed yet.
PushNew(s, n) == IF n \in Ran(s) THEN s ELSE Append(s, n)

\* The order with what goes before the i-th vertex.
WithForced(i) == IF Moved(i) THEN PushNew(order, _force_order[_exec_que[i]]) ELSE order

\* Faulty variant: a vertex that was moved is listed a second time.
get_exec_node_in_order_Twice ==
  /\ Launched /\ listed \in 1..Len(_exec_que)
  /\ order' = Append(WithForced(listed), _exec_que[listed])
  /\ listed' = listed + 1
  /\ UNCHANGED <<schedVars, helperVars, op, elt_node_in_its>>

\* Faulty variant: the forced vertices are not moved.
get_exec_node_in_order_AsLaunched ==
  /\ Launched /\ listed \in 1..Len(_exec_que)
  /\ order' = PushNew(order, _exec_que[listed])
  /\ listed' = listed + 1
  /\ UNCHANGED <<schedVars, helperVars, op, elt_node_in_its>>

\* One turn of the loop of get_exec_node_in_order.
get_exec_node_in_order ==
  /\ Launched /\ listed \in 1..Len(_exec_que)
  /\ order' = PushNew(WithForced(listed), _exec_que[listed])
  /\ listed' = listed + 1
  /\ UNCHANGED <<schedVars, helperVars, op, elt_node_in_its>>

\* The order is complete and is set.
SetExecOrder == listed > Len(_exec_que) /\ Finish /\ UNCHANGED fusionVars

\* RegIOResource is the base class's.
FusionNext ==
  \/ (NoInputs \/ StartWalk \/ VisitVertex \/ StartRun) /\ UNCHANGED fusionVars
  \/ OutputFails \/ Hold \/ Try \/ FusionNextPass
  \/ MergePairs \/ get_exec_node_in_order \/ SetExecOrder

FusionSpec == FusionInit /\ [][FusionNext]_allVars
FusionFairSpec == FusionSpec /\ WF_allVars(FusionNext)

-----------------------------------------------------------------------------
(* Properties.                                                             *)

\* The order has every vertex once, whatever was moved.
FusedOrderComplete ==
  phase = "done" => Ran(order) = backup /\ Len(order) = Cardinality(backup)

\* The Eltwise adds two tensors.  callable() does not ask for that, but only of
\* such an Eltwise does one forced vertex stand for all the other inputs.
Binary(e) == Cardinality(Sources(e)) = 2

\* A convolution that is merged with an Eltwise of two inputs runs after the
\* vertex that computes its addend.
AddendReady ==
  phase = "done" =>
    \A p \in _pairs : Binary(p[2]) =>
      \A m \in Sources(p[2]) \ {p[1]} : Before(order, m, p[1])

\* An Eltwise of two inputs is merged into one of its convolutions at most:
\* merged into two, its sum would be added twice.
MergedOnce == \A p, q \in _pairs : p[2] = q[2] /\ Binary(p[2]) => p[1] = q[1]

\* A convolution that is merged feeds its Eltwise and nothing else, although a
\* sibling is registered as one half of a pair before its outputs are counted.
\* A second reader would get the sum in place of the convolution's result.
MergedHasOneReader == phase = "done" => \A p \in _pairs : OutArcs(p[1]) = {p}

\* No vertex runs before the vertices it reads from.
FusedOrderTopological ==
  phase = "done" => \A a \in arcs : a[2] \in backup => Before(order, a[1], a[2])

\* Run ends although it holds vertices back and has no check of progress.
FusionEnds == <>(phase \in {"done", "fatal"})
=============================================================================
