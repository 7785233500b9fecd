----------------------------- MODULE Scheduler ------------------------------
(***************************************************************************)
(* framework/graph/llvm/scheduler.cpp, schedule_base.h: the dependency     *)
(* scheduler that turns the virtual graph of a model into an execution     *)
(* order.  RegIOResource walks the graph breadth first, tags the io of     *)
(* every arc it meets as not available and queues every vertex; Run passes *)
(* over the queue, launches the vertices whose inputs are all available    *)
(* and gives up when a whole pass launches none.                           *)
(*                                                                         *)
(* An io is named by its arc.  The lists of arcs of a vertex hold them in  *)
(* an order that depends on the model file: any order is possible.         *)
(***************************************************************************)
EXTENDS Naturals, Sequences, FiniteSets

CONSTANTS Nodes,     \* the vertices of the virtual graph
          Graphs     \* the graphs considered, as sets of arcs

ASSUME NodesAssumption == IsFiniteSet(Nodes)
ASSUME GraphsAssumption == Graphs \subseteq SUBSET (Nodes \X Nodes)

VARIABLES
  arcs,           \* the arcs of the graph, <<bottom, top>>
  phase,          \* "ins", "bfs": RegIOResource; "run": Run; "done"; "fatal"
  fatal,          \* the message of LOG(FATAL)
  que,            \* queue of the breadth first walk
  backup,         \* vertices that were ever in it
  registered,     \* the ios _rw_resources has a tag for
  on,             \* the ios whose tag is on: available
  _wait_que,      \* vertices to be launched
  pos,            \* op_it, as a position in _wait_que
  wait_que_size,  \* length of _wait_que when the pass began
  _exec_que       \* launched vertices, in order

graphVars == <<arcs, backup>>
tagVars == <<registered, on>>
runVars == <<_wait_que, pos, wait_que_size, _exec_que>>
schedVars == <<arcs, phase, fatal, que, backup, registered, on, _wait_que, pos,
               wait_que_size, _exec_que>>

Ran(s) == {s[i] : i \in DOMAIN s}
InArcs(n) == {a \in arcs : a[2] = n}
OutArcs(n) == {a \in arcs : a[1] = n}
Succ(n) == {a[2] : a \in OutArcs(n)}

\* get_graph_ins: the vertices with arcs of which none comes in.
GraphIns == {n \in Nodes : OutArcs(n) # {} /\ InArcs(n) = {}}

\* The sequences that list every element of a set once.
Orderings(S) == {s \in [1..Cardinality(S) -> S] :
                   /\ S = Ran(s)
                   /\ \A i, j \in 1..Cardinality(S) : s[i] = s[j] => i = j}

SchedTypeOK ==
  /\ arcs \subseteq Nodes \X Nodes
  /\ phase \in {"ins", "bfs", "run", "done", "fatal"}
  /\ fatal \in {"none", "no_inputs", "lack", "topo", "out_arcs"}
  /\ que \in Seq(Nodes)
  /\ backup \subseteq Nodes
  /\ registered \subseteq arcs /\ on \subseteq registered
  /\ _wait_que \in Seq(Nodes)
  /\ pos \in 1..(Len(_wait_que) + 1)
  /\ wait_que_size \in Nat
  /\ _exec_que \in Seq(Nodes)

SchedInit ==
  /\ arcs \in Graphs
  /\ phase = "ins"
  /\ fatal = "none"
  /\ que = <<>>
  /\ backup = {}
  /\ registered = {} /\ on = {}
  /\ _wait_que = <<>>
  /\ pos = 1
  /\ wait_que_size = 0
  /\ _exec_que = <<>>

-----------------------------------------------------------------------------
(* RegIOResource.  BFS_Edge and BFS visit the vertices in the same order:  *)
(* one walk stands for both, it tags the arcs out of a vertex and queues   *)
(* the vertex.                                                             *)

NoInputs ==
  /\ phase = "ins"
  /\ GraphIns = {}
  /\ phase' = "fatal"
  /\ fatal' = "no_inputs"
  /\ UNCHANGED <<que, graphVars, tagVars, runVars>>

StartWalk ==
  /\ phase = "ins"
  /\ GraphIns # {}
  /\ que' \in Orderings(GraphIns)
  /\ backup' = GraphIns
  /\ phase' = "bfs"
  /\ UNCHANGED <<arcs, fatal, tagVars, runVars>>

\* Faulty variant: a vertex that meets only known tops is not queued.
VisitVertex_SkipsLeaves ==
  /\ phase = "bfs"
  /\ que # <<>>
  /\ LET n == Head(que)
     IN /\ registered' = registered \cup OutArcs(n)
        /\ _wait_que' = IF Succ(n) \subseteq backup THEN _wait_que
                                                    ELSE Append(_wait_que, n)
        /\ \E s \in Orderings(Succ(n) \ backup) : que' = Tail(que) \o s
        /\ backup' = backup \cup Succ(n)
  /\ UNCHANGED <<arcs, phase, fatal, on, pos, wait_que_size, _exec_que>>

VisitVertex ==
  /\ phase = "bfs"
  /\ que # <<>>
  /\ LET n == Head(que)
     IN /\ registered' = registered \cup OutArcs(n)
        /\ _wait_que' = Append(_wait_que, n)
        /\ \E s \in Orderings(Succ(n) \ backup) : que' = Tail(que) \o s
        /\ backup' = backup \cup Succ(n)
  /\ UNCHANGED <<arcs, phase, fatal, on, pos, wait_que_size, _exec_que>>

StartRun ==
  /\ phase = "bfs"
  /\ que = <<>>
  /\ phase' = "run"
  /\ pos' = 1
  /\ wait_que_size' = Len(_wait_que)
  /\ UNCHANGED <<fatal, que, graphVars, tagVars, _wait_que, _exec_que>>

-----------------------------------------------------------------------------
(* Run.                                                                    *)

\* Faulty variant: one available input is enough.
callable_Any(n) == InArcs(n) = {} \/ InArcs(n) \cap on # {}

callable(n) == InArcs(n) \subseteq on

\* _wait_que.erase(op_it)
Erase(s, i) == [j \in 1..(Len(s) - 1) |-> IF j < i THEN s[j] ELSE s[j + 1]]

\* Faulty variant: the vertex stays in the queue, the one after it goes.
launch_ErasesNext ==
  /\ phase = "run"
  /\ pos <= Len(_wait_que)
  /\ callable(_wait_que[pos])
  /\ _exec_que' = Append(_exec_que, _wait_que[pos])
  /\ on' = on \cup (OutArcs(_wait_que[pos]) \cap registered)
  /\ _wait_que' = Erase(_wait_que, pos + 1)
  /\ UNCHANGED <<phase, fatal, que, graphVars, registered, pos, wait_que_size>>

\* Faulty variant: the iterator moves on although erase() returned the next.
launch_Advances ==
  /\ phase = "run"
  /\ pos <= Len(_wait_que)
  /\ callable(_wait_que[pos])
  /\ _exec_que' = Append(_exec_que, _wait_que[pos])
  /\ on' = on \cup (OutArcs(_wait_que[pos]) \cap registered)
  /\ _wait_que' = Erase(_wait_que, pos)
  /\ pos' = pos + 1
  /\ UNCHANGED <<phase, fatal, que, graphVars, registered, wait_que_size>>

\* The vertex op_it points to is launched and erased: its outputs become
\* available, op_it is then at the next vertex.
launch ==
  /\ phase = "run"
  /\ pos <= Len(_wait_que)
  /\ callable(_wait_que[pos])
  /\ _exec_que' = Append(_exec_que, _wait_que[pos])
  /\ on' = on \cup (OutArcs(_wait_que[pos]) \cap registered)
  /\ _wait_que' = Erase(_wait_que, pos)
  /\ UNCHANGED <<phase, fatal, que, graphVars, registered, pos, wait_que_size>>

\* Faulty variant: the pass ends at the first vertex that has to wait.
skip_Breaks ==
  /\ phase = "run"
  /\ pos <= Len(_wait_que)
  /\ ~callable(_wait_que[pos])
  /\ pos' = Len(_wait_que) + 1
  /\ UNCHANGED <<phase, fatal, que, graphVars, tagVars, _wait_que, wait_que_size,
                 _exec_que>>

skip ==
  /\ phase = "run"
  /\ pos <= Len(_wait_que)
  /\ ~callable(_wait_que[pos])
  /\ pos' = pos + 1
  /\ UNCHANGED <<phase, fatal, que, graphVars, tagVars, _wait_que, wait_que_size,
                 _exec_que>>

PassEnds == phase = "run" /\ pos > Len(_wait_que) /\ _wait_que # <<>>

\* Faulty variant: the next pass begins whether or not this one got anywhere.
NextPass_Always ==
  /\ PassEnds
  /\ pos' = 1
  /\ wait_que_size' = Len(_wait_que)
  /\ UNCHANGED <<phase, fatal, que, graphVars, tagVars, _wait_que, _exec_que>>

NextPass ==
  /\ PassEnds
  /\ wait_que_size # Len(_wait_que)
  /\ pos' = 1
  /\ wait_que_size' = Len(_wait_que)
  /\ UNCHANGED <<phase, fatal, que, graphVars, tagVars, _wait_que, _exec_que>>

\* The unavailable inputs of op that are no unavailable output of another op.
lack_of(op) ==
  (InArcs(op) \ on)
    \ UNION {OutArcs(p) \ on : p \in Ran(_wait_que) \ {op}}

Stuck ==
  /\ PassEnds
  /\ wait_que_size = Len(_wait_que)
  /\ phase' = "fatal"
  /\ fatal' = IF \E op \in Ran(_wait_que) : lack_of(op) # {} THEN "lack" ELSE "topo"
  /\ UNCHANGED <<que, graphVars, tagVars, runVars>>

\* The queue is empty: Run sets the execution order and returns.
Finish ==
  /\ phase = "run"
  /\ _wait_que = <<>>
  /\ phase' = "done"
  /\ UNCHANGED <<fatal, que, graphVars, tagVars, runVars>>

SchedNext == \/ NoInputs \/ StartWalk \/ VisitVertex \/ StartRun
             \/ launch \/ skip \/ NextPass \/ Stuck \/ Finish

SchedSpec == SchedInit /\ [][SchedNext]_schedVars

-----------------------------------------------------------------------------
(* Properties.                                                             *)

Before(s, m, n) == \E i, j \in DOMAIN s : i < j /\ s[i] = m /\ s[j] = n

\* Every vertex is launched after all the vertices whose outputs it reads.
TopologicalOrder ==
  \A a \in arcs : a[2] \in Ran(_exec_que) => Before(_exec_que, a[1], a[2])

\* From the end of the walk on, every vertex the walk found is in exactly one
\* of the two queues, once.
NodesConserved ==
  phase \in {"run", "done"} =>
    /\ Ran(_wait_que) \cup Ran(_exec_que) = backup
    /\ Len(_wait_que) + Len(_exec_que) = Cardinality(backup)

\* The order that is set is complete: it has the inputs of the graph and with
\* a vertex all its successors, that is everything that can be reached.
ScheduleComplete ==
  phase = "done" =>
    /\ GraphIns \subseteq Ran(_exec_que)
    /\ \A a \in arcs : a[1] \in Ran(_exec_que) => a[2] \in Ran(_exec_que)

\* LOG(FATAL) is only reached on a graph without execution order, and the
\* message tells why: a vertex is fed by one that no input leads to, or by
\* itself ("lack of data provision"), or else every waiting vertex waits for
\* another one that waits ("unkown topo problem").
FatalExplained ==
  LET W == Ran(_wait_que)
  IN /\ fatal \in {"lack", "topo"} =>
          W # {} /\ \A n \in W : \E a \in InArcs(n) : a[1] \in W \cup (Nodes \ backup)
     /\ fatal = "lack" => \E n \in W : \E a \in InArcs(n) :
                             a[1] = n \/ a[1] \notin backup
     /\ fatal = "topo" => \A n \in W : \E a \in InArcs(n) : a[1] \in W \ {n}
=============================================================================
