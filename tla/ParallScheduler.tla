--------------------------- MODULE ParallScheduler --------------------------
(***************************************************************************)
(* framework/graph/llvm/optimizer/parall_scheduler.cpp: the second pass of *)
(* Graph::Optimize.  A Scheduler has set the execution order of the graph; *)
(* a ParallScheduler, a new object, walks and runs the same graph to give  *)
(* every vertex and every io a lane (a stream) and to mark the vertices    *)
(* that must wait for other lanes.  Its Run has no check of progress: it   *)
(* relies on the Scheduler that ran before.                                *)
(***************************************************************************)
EXTENDS Scheduler

VARIABLES
  who,              \* the scheduler that works
  _nodes_exec_order,\* of the virtual graph, set by the Scheduler
  lane,             \* lane of each vertex of the virtual graph
  need_wait,        \* its synchronisation flag
  _map_io_to_lane,  \* lane of each io; 0 for one that is not in the map
  has_lanes         \* SyncFlagController::init was called

laneVars == <<lane, need_wait, _map_io_to_lane>>
parallVars == <<who, _nodes_exec_order, lane, need_wait, _map_io_to_lane, has_lanes>>
allVars == <<schedVars, parallVars>>

Lanes == 0..(Cardinality(Nodes) - 1)

ParallTypeOK ==
  /\ SchedTypeOK
  /\ who \in {"Scheduler", "ParallScheduler"}
  /\ _nodes_exec_order \in Seq(Nodes)
  /\ lane \in [Nodes -> Lanes]
  /\ need_wait \in [Nodes -> BOOLEAN]
  /\ _map_io_to_lane \in [Nodes \X Nodes -> Lanes]
  /\ has_lanes \in BOOLEAN

ParallInit ==
  /\ SchedInit
  /\ who = "Scheduler"
  /\ _nodes_exec_order = <<>>
  /\ lane = [n \in Nodes |-> 0]
  /\ need_wait = [n \in Nodes |-> FALSE]
  /\ _map_io_to_lane = [a \in Nodes \X Nodes |-> 0]
  /\ has_lanes = FALSE

\* Optimize: the Scheduler has set the order; a ParallScheduler begins.
StartParall ==
  /\ who = "Scheduler" /\ phase = "done"
  /\ who' = "ParallScheduler"
  /\ _nodes_exec_order' = _exec_que
  /\ phase' = "ins"
  /\ backup' = {} /\ registered' = {} /\ on' = {}
  /\ _exec_que' = <<>>
  /\ UNCHANGED <<arcs, fatal, que, _wait_que, pos, wait_que_size, laneVars, has_lanes>>

\* Faulty variant: the lanes are counted from one.
init_FromOne ==
  /\ who = "ParallScheduler" /\ phase = "run" /\ ~has_lanes
  /\ \A n \in GraphIns : Cardinality(OutArcs(n)) = 1
  /\ \E s \in Orderings(GraphIns) :
       LET l == [n \in GraphIns |-> (CHOOSE i \in DOMAIN s : s[i] = n)]
       IN /\ lane' = [n \in Nodes |-> IF n \in GraphIns THEN l[n] ELSE lane[n]]
          /\ _map_io_to_lane' = [a \in Nodes \X Nodes |->
               IF a \in arcs /\ a[1] \in GraphIns THEN l[a[1]] ELSE _map_io_to_lane[a]]
  /\ need_wait' = [n \in Nodes |-> n \notin GraphIns /\ need_wait[n]]
  /\ has_lanes' = TRUE
  /\ UNCHANGED <<schedVars, who, _nodes_exec_order>>

\* SyncFlagController::init: every input of the graph gets a lane, which its
\* only arc takes over.
init ==
  /\ who = "ParallScheduler" /\ phase = "run" /\ ~has_lanes
  /\ \A n \in GraphIns : Cardinality(OutArcs(n)) = 1
  /\ \E s \in Orderings(GraphIns) :
       LET l == [n \in GraphIns |-> (CHOOSE i \in DOMAIN s : s[i] = n) - 1]
       IN /\ lane' = [n \in Nodes |-> IF n \in GraphIns THEN l[n] ELSE lane[n]]
          /\ _map_io_to_lane' = [a \in Nodes \X Nodes |->
               IF a \in arcs /\ a[1] \in GraphIns THEN l[a[1]] ELSE _map_io_to_lane[a]]
  /\ need_wait' = [n \in Nodes |-> n \notin GraphIns /\ need_wait[n]]
  /\ has_lanes' = TRUE
  /\ UNCHANGED <<schedVars, who, _nodes_exec_order>>

\* CHECK_EQ: an input of the graph has one out arc.
initFails ==
  /\ who = "ParallScheduler" /\ phase = "run" /\ ~has_lanes
  /\ \E n \in GraphIns : Cardinality(OutArcs(n)) # 1
  /\ phase' = "fatal" /\ fatal' = "out_arcs"
  /\ UNCHANGED <<que, graphVars, tagVars, runVars, parallVars>>

\* The lanes of the inputs of a vertex.
InLanes(n) == {_map_io_to_lane[a] : a \in InArcs(n)}

\* Faulty variant: only a vertex with three lanes or more has to wait.
node_sync_flags_Third(n) ==
  IF InArcs(n) = {} THEN UNCHANGED <<lane, need_wait>>
  ELSE /\ \E l \in InLanes(n) : lane' = [lane EXCEPT ![n] = l]
       /\ need_wait' = IF Cardinality(InLanes(n)) > 2
                       THEN [need_wait EXCEPT ![n] = TRUE] ELSE need_wait

\* node_sync_flags: a vertex runs in the lane of its first input, which may be
\* any of them, and waits when its inputs are in several lanes.
node_sync_flags(n) ==
  IF InArcs(n) = {} THEN UNCHANGED <<lane, need_wait>>
  ELSE /\ \E l \in InLanes(n) : lane' = [lane EXCEPT ![n] = l]
       /\ need_wait' = IF Cardinality(InLanes(n)) >= 2
                       THEN [need_wait EXCEPT ![n] = TRUE] ELSE need_wait

\* io_sync_flags: its outputs are in its lane.
io_sync_flags(n) ==
  _map_io_to_lane' = [a \in Nodes \X Nodes |->
                        IF a \in OutArcs(n) THEN lane'[n] ELSE _map_io_to_lane[a]]

ParallLaunch ==
  /\ who = "ParallScheduler" /\ has_lanes
  /\ launch
  /\ node_sync_flags(_wait_que[pos])
  /\ io_sync_flags(_wait_que[pos])
  /\ UNCHANGED <<who, _nodes_exec_order, has_lanes>>

\* Faulty variant: a pass does not begin at the head of the queue again.
ParallNextPass_KeepsPos ==
  /\ who = "ParallScheduler" /\ has_lanes
  /\ PassEnds
  /\ pos' = Len(_wait_que)
  /\ wait_que_size' = Len(_wait_que)
  /\ UNCHANGED <<phase, fatal, que, graphVars, tagVars, _wait_que, _exec_que, parallVars>>

\* The next pass, without a look at what this one did (wait_que_size is not
\* a variable of ParallScheduler::Run; here it records the length for the
\* property ParallProgress).
ParallNextPass ==
  /\ who = "ParallScheduler" /\ has_lanes
  /\ PassEnds
  /\ pos' = 1
  /\ wait_que_size' = Len(_wait_que)
  /\ UNCHANGED <<phase, fatal, que, graphVars, tagVars, _wait_que, _exec_que, parallVars>>

\* RegIOResource, callable and the end of Run are the base class's.
Inherited ==
  \/ NoInputs \/ StartWalk \/ VisitVertex \/ StartRun
  \/ has_lanes /\ (skip \/ Finish)

ParallNext ==
  \/ who = "Scheduler" /\ SchedNext /\ UNCHANGED parallVars
  \/ StartParall
  \/ who = "ParallScheduler" /\ Inherited /\ UNCHANGED parallVars
  \/ init \/ initFails \/ ParallLaunch \/ ParallNextPass

ParallSpec == ParallInit /\ [][ParallNext]_allVars
ParallFairSpec == ParallSpec /\ WF_allVars(ParallNext)

-----------------------------------------------------------------------------
(* Properties.                                                             *)

Planned == who = "ParallScheduler" /\ phase = "done"

\* Every pass of ParallScheduler::Run launches a vertex, although the code
\* does not look: the loop ends because a Scheduler ran on the graph before.
ParallProgress ==
  who = "ParallScheduler" /\ PassEnds => Len(_wait_que) < wait_que_size

\* A vertex that is not marked to wait is in the lane of all its producers:
\* the order within one stream is enough for it.
LanesAgree ==
  Planned => \A a \in arcs : a[2] \in backup /\ ~need_wait[a[2]] => lane[a[1]] = lane[a[2]]

\* "the total number of lane is equal to that of graph inputs": the lanes in
\* use are those of the inputs, one each.
LanesOfInputs ==
  Planned => {lane[n] : n \in backup} = 0..(Cardinality(GraphIns) - 1)

\* The two passes of Optimize end.
OptimizeEnds == <>(Planned \/ phase = "fatal")
=============================================================================
