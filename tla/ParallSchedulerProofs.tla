----------------------- MODULE ParallSchedulerProofs ------------------------
(* Proofs about the two schedulers in a row, for every graph: the second,  *)
(* which does not check its progress, always makes some, and what it marks *)
(* is enough.                                                              *)
EXTENDS ParallScheduler, SchedulerProofs, WellFoundedInduction

-----------------------------------------------------------------------------
(* Numbers and sequences.                                                  *)

LEMMA LeastNat ==
  ASSUME NEW T \in SUBSET Nat, T # {}
  PROVE  \E x \in T : \A y \in T : x <= y
<1>1. PICK x \in T : \A y \in T : ~ (<<y, x>> \in OpToRel(<, Nat))
  BY NatLessThanWellFounded, WFMin
<1>2. ASSUME NEW y \in T PROVE x <= y
  <2>1. ~(y < x)
    BY <1>1 DEF OpToRel
  <2> QED
    BY <2>1
<1> QED
  BY <1>2

-----------------------------------------------------------------------------
(* The inductive invariant.                                                *)

\* Nothing but an input of the graph is found without a producer.
Rooted == \A n \in backup : n \in GraphIns \/ InArcs(n) # {}

\* The order that the Scheduler leaves to the ParallScheduler.
OrderInv ==
  who = "ParallScheduler" =>
    LET O == _nodes_exec_order
    IN /\ GraphIns \subseteq Ran(O)
       /\ \A a \in arcs : a[1] \in Ran(O) => a[2] \in Ran(O)
       /\ \A a \in arcs : \A j \in DOMAIN O : O[j] = a[2] =>
            \E i \in DOMAIN O : i < j /\ O[i] = a[1]
       /\ \A n \in Ran(O) : n \in GraphIns \/ InArcs(n) # {}
       /\ backup \subseteq Ran(O)

\* The lanes of ios and vertices while ParallScheduler::Run works.
LaneInv ==
  /\ has_lanes => who = "ParallScheduler" /\ phase \in {"run", "done"}
  /\ who = "ParallScheduler" /\ ~has_lanes => _exec_que = <<>> /\ phase # "done"
  /\ has_lanes =>
       /\ \A a \in arcs : a[1] \in Ran(_exec_que) \cup GraphIns =>
            _map_io_to_lane[a] = lane[a[1]]
       /\ \A a \in arcs : a[2] \in Ran(_exec_que) /\ ~need_wait[a[2]] =>
            _map_io_to_lane[a] = lane[a[2]]

ParallInv == ParallTypeOK /\ SchedInv /\ Rooted /\ OrderInv /\ LaneInv

LEMMA ParallInvInit == ParallInit => ParallInv
<1> SUFFICES ASSUME ParallInit PROVE ParallInv
  OBVIOUS
<1>1. SchedInv /\ SchedTypeOK
  BY InvInit DEF ParallInit, SchedInv, RunInv
<1>2. ParallTypeOK
  <2>1. ASSUME NEW n \in Nodes PROVE 0 \in Lanes
    <3>1. Cardinality(Nodes) \in Nat /\ Cardinality(Nodes) # 0
      BY NodesAssumption, FS_CardinalityType, FS_EmptySet
    <3> QED
      BY <3>1 DEF Lanes
  <2>2. need_wait \in [Nodes -> BOOLEAN] /\ has_lanes \in BOOLEAN
    BY Zenon DEF ParallInit
  <2>3. lane \in [Nodes -> Lanes] /\ _map_io_to_lane \in [Nodes \X Nodes -> Lanes]
    BY <2>1 DEF ParallInit
  <2> QED
    BY <1>1, <2>2, <2>3 DEF ParallInit, ParallTypeOK
<1>3. Rooted /\ OrderInv /\ LaneInv
  BY DEF ParallInit, SchedInit, Rooted, OrderInv, LaneInv
<1> QED
  BY <1>1, <1>2, <1>3 DEF ParallInv

\* The second walk finds what the first one found.
LEMMA SameVertices ==
  ASSUME SchedInv, Rooted, OrderInv, _nodes_exec_order \in Seq(Nodes),
         who = "ParallScheduler", phase \in {"run", "done"}
  PROVE  Ran(_nodes_exec_order) = backup
<1> DEFINE O == _nodes_exec_order
           K == {k \in DOMAIN O : O[k] \notin backup}
<1>1. SUFFICES ASSUME K # {} PROVE FALSE
  BY DEF OrderInv, Ran
<1>2. K \in SUBSET Nat /\ DOMAIN O = 1..Len(O) /\ Len(O) \in Nat
  OBVIOUS
<1>3. PICK k \in K : \A j \in K : k <= j
  BY <1>1, <1>2, LeastNat
<1>4. O[k] \in Ran(O) /\ O[k] \notin backup
  BY <1>3 DEF Ran
<1>5. GraphIns \subseteq backup
  BY DEF SchedInv, RunInv, WalkInv
<1>6. PICK a \in InArcs(O[k]) : TRUE
  BY <1>4, <1>5 DEF OrderInv
<1>7. a \in arcs /\ a[2] = O[k]
  BY <1>6 DEF InArcs
<1>8. PICK i \in DOMAIN O : i < k /\ O[i] = a[1]
  BY <1>3, <1>7 DEF OrderInv
<1>9. O[i] \in backup
  BY <1>2, <1>3, <1>8
<1>10. backup = Ran(_wait_que) \cup Ran(_exec_que)
  BY InvImplies DEF NodesConserved, SchedInv
<1>11. a[2] \in backup
  BY <1>7, <1>8, <1>9, <1>10 DEF SchedInv, RunInv, WalkInv
<1> QED
  BY <1>4, <1>7, <1>11

\* A pass of the ParallScheduler that ends has launched a vertex.
LEMMA Progress == ParallInv => ParallProgress
<1> SUFFICES ASSUME ParallInv, who = "ParallScheduler", PassEnds
             PROVE  Len(_wait_que) < wait_que_size
  BY DEF ParallProgress
<1> DEFINE O == _nodes_exec_order
           W == Ran(_wait_que)
           K == {k \in DOMAIN O : O[k] \in W}
<1>0. /\ SchedInv /\ phase = "run" /\ _wait_que \in Seq(Nodes) /\ _wait_que # <<>>
      /\ Len(_wait_que) \in Nat /\ wait_que_size \in Nat /\ Len(_wait_que) <= wait_que_size
      /\ O \in Seq(Nodes)
  BY DEF ParallInv, SchedInv, RunInv, SchedTypeOK, PassInv, PassEnds, ParallTypeOK
<1>1. SUFFICES ASSUME wait_que_size = Len(_wait_que) PROVE FALSE
  BY <1>0
<1>2. \A n \in W : \E a \in InArcs(n) \ on : a[1] \notin Ran(_exec_que)
  BY <1>0, <1>1, NothingCallable
<1>3. Ran(O) = backup /\ backup = W \cup Ran(_exec_que)
  <2>1. Ran(O) = backup
    BY <1>0, SameVertices DEF ParallInv
  <2>2. backup = W \cup Ran(_exec_que)
    BY <1>0, InvImplies DEF NodesConserved, SchedInv
  <2> QED
    BY <2>1, <2>2
<1>4. K \in SUBSET Nat /\ K # {}
  <2>1. 1 \in DOMAIN _wait_que
    BY <1>0
  <2>2. _wait_que[1] \in W
    BY <2>1 DEF Ran
  <2>3. PICK k \in DOMAIN O : O[k] = _wait_que[1]
    BY <1>3, <2>2 DEF Ran
  <2>4. DOMAIN O \in SUBSET Nat
    BY <1>0
  <2> QED
    BY <2>2, <2>3, <2>4
<1>5. PICK k \in K : \A j \in K : k <= j
  BY <1>4, LeastNat
<1>6. PICK a \in InArcs(O[k]) : a[1] \notin Ran(_exec_que)
  BY <1>2, <1>5
<1>7. a \in arcs /\ a[2] = O[k]
  BY <1>6 DEF InArcs
<1>8. PICK i \in DOMAIN O : i < k /\ O[i] = a[1]
  BY <1>5, <1>7 DEF ParallInv, OrderInv
<1>9. O[i] \in W
  BY <1>3, <1>6, <1>8 DEF Ran
<1>10. i \in K /\ i \in Nat /\ k \in Nat
  BY <1>0, <1>5, <1>8, <1>9
<1> QED
  BY <1>5, <1>8, <1>10

-----------------------------------------------------------------------------
(* Steps of the Scheduler, and those the ParallScheduler inherits.         *)

\* The walk finds inputs of the graph and successors of what it has found.
LEMMA WalkStep ==
  ASSUME SchedInv, Rooted, StartWalk \/ VisitVertex
  PROVE  /\ Rooted' /\ GraphIns' = GraphIns /\ arcs' = arcs
         /\ \A m : InArcs(m)' = InArcs(m)
         /\ \A m \in backup' :
              m \in backup \cup GraphIns \/ \E a \in arcs : a[1] \in backup /\ a[2] = m
<1>0. /\ GraphIns' = GraphIns /\ arcs' = arcs /\ \A m : InArcs(m)' = InArcs(m)
  BY DEF StartWalk, VisitVertex, GraphIns, InArcs, OutArcs
<1>1. CASE StartWalk
  BY <1>0, <1>1 DEF StartWalk, Rooted
<1>2. CASE VisitVertex
  <2>1. Head(que) \in backup
    <3>1. que \in Seq(Nodes) /\ que # <<>>
      BY <1>2 DEF VisitVertex, SchedInv, RunInv, SchedTypeOK
    <3>2. 1 \in DOMAIN que /\ Head(que) = que[1]
      BY <3>1
    <3> QED
      BY <3>2 DEF SchedInv, RunInv, WalkInv, Ran
  <2>2. backup' = backup \cup Succ(Head(que))
    BY <1>2 DEF VisitVertex
  <2>3. \A m \in Succ(Head(que)) : \E a \in arcs : a[1] \in backup /\ a[2] = m
    BY <2>1 DEF Succ, OutArcs
  <2>4. \A m \in Succ(Head(que)) : InArcs(m) # {}
    BY <2>3 DEF InArcs
  <2> QED
    BY <1>0, <2>2, <2>3, <2>4 DEF Rooted
<1> QED
  BY <1>1, <1>2

\* Steps that leave the graph and what was found alone.
LEMMA StillStep ==
  ASSUME Rooted, UNCHANGED <<arcs, backup>>
  PROVE  /\ Rooted' /\ GraphIns' = GraphIns /\ \A m : InArcs(m)' = InArcs(m)
  BY DEF Rooted, GraphIns, InArcs, OutArcs

LEMMA TypeStep ==
  ASSUME ParallTypeOK, SchedInv', UNCHANGED parallVars
  PROVE  ParallTypeOK'
  BY DEF ParallTypeOK, parallVars, SchedInv, RunInv

LEMMA SchedulerStep ==
  ASSUME ParallInv, who = "Scheduler", SchedNext, UNCHANGED parallVars
  PROVE  ParallInv'
<1>1. SchedInv'
  BY InvNext DEF ParallInv
<1>2. ParallTypeOK'
  BY <1>1, TypeStep DEF ParallInv
<1>3. Rooted'
  <2>1. CASE StartWalk \/ VisitVertex
    BY <2>1, WalkStep DEF ParallInv
  <2>2. CASE ~(StartWalk \/ VisitVertex)
    <3>1. UNCHANGED <<arcs, backup>>
      BY <2>2 DEF SchedNext, NoInputs, StartRun, launch, skip, NextPass, Stuck, Finish, graphVars
    <3> QED
      BY <3>1, StillStep DEF ParallInv
  <2> QED
    BY <2>1, <2>2
<1>4. OrderInv' /\ LaneInv'
  BY DEF ParallInv, OrderInv, LaneInv, parallVars
<1> QED
  BY <1>1, <1>2, <1>3, <1>4 DEF ParallInv

LEMMA InheritedStep ==
  ASSUME ParallInv, who = "ParallScheduler", Inherited, UNCHANGED parallVars
  PROVE  ParallInv'
<1>1. SchedInv'
  BY InvNext DEF ParallInv, Inherited, SchedNext
<1>2. ParallTypeOK'
  BY <1>1, TypeStep DEF ParallInv
<1>3. CASE StartWalk \/ VisitVertex
  <2>1. /\ Rooted' /\ GraphIns' = GraphIns /\ arcs' = arcs
        /\ \A m : InArcs(m)' = InArcs(m)
        /\ \A m \in backup' : m \in backup \cup GraphIns
                                \/ \E a \in arcs : a[1] \in backup /\ a[2] = m
    BY <1>3, WalkStep DEF ParallInv
  <2>2. backup' \subseteq Ran(_nodes_exec_order)
    BY <2>1 DEF ParallInv, OrderInv
  <2>3. OrderInv'
    BY <2>1, <2>2 DEF ParallInv, OrderInv, parallVars
  <2>4. LaneInv'
    BY <1>3 DEF ParallInv, LaneInv, parallVars, StartWalk, VisitVertex, runVars
  <2> QED
    BY <1>1, <1>2, <2>1, <2>3, <2>4 DEF ParallInv
<1>4. CASE NoInputs \/ StartRun \/ (has_lanes /\ (skip \/ Finish))
  <2>1. UNCHANGED <<arcs, backup>> /\ UNCHANGED _exec_que
    BY <1>4 DEF NoInputs, StartRun, skip, Finish, graphVars, runVars
  <2>2. Rooted' /\ GraphIns' = GraphIns /\ \A m : InArcs(m)' = InArcs(m)
    BY <2>1, StillStep DEF ParallInv
  <2>3. OrderInv'
    BY <2>1, <2>2 DEF ParallInv, OrderInv, parallVars
  <2>4. /\ has_lanes => phase' \in {"run", "done"}
        /\ ~has_lanes => phase' # "done"
    BY <1>4 DEF ParallInv, LaneInv, NoInputs, StartRun, skip, Finish
  <2>5. LaneInv'
    BY <2>1, <2>2, <2>4 DEF ParallInv, LaneInv, parallVars
  <2> QED
    BY <1>1, <1>2, <2>2, <2>3, <2>5 DEF ParallInv
<1> QED
  BY <1>3, <1>4 DEF Inherited

LEMMA StartParallStep == ParallInv /\ StartParall => ParallInv'
<1> SUFFICES ASSUME ParallInv, StartParall PROVE ParallInv'
  OBVIOUS
<1>0. /\ who' = "ParallScheduler" /\ phase = "done" /\ phase' = "ins" /\ arcs' = arcs
      /\ backup' = {} /\ registered' = {} /\ on' = {} /\ _exec_que' = <<>>
      /\ _nodes_exec_order' = _exec_que /\ ~has_lanes /\ has_lanes' = has_lanes
      /\ UNCHANGED <<fatal, que, _wait_que, pos, wait_que_size, lane, need_wait, _map_io_to_lane>>
      /\ que = <<>> /\ _wait_que = <<>> /\ fatal = "none"
      /\ GraphIns' = GraphIns /\ \A m : InArcs(m)' = InArcs(m)
  BY DEF StartParall, laneVars, ParallInv, SchedInv, RunInv, WalkInv, LaneInv, GraphIns,
         InArcs, OutArcs
<1>1. Ran(<<>>) = {} /\ Len(<<>>) = 0 /\ <<>> \in Seq(Nodes)
  BY DEF Ran
<1>2. SchedTypeOK'
  BY <1>0, <1>1 DEF ParallInv, SchedInv, RunInv, SchedTypeOK
<1>3. SchedInv'
  <2>1. WalkInv' /\ TagInv' /\ PassInv' /\ InputsFirst' /\ FatalExplained'
    BY <1>0, <1>1 DEF WalkInv, TagInv, PassInv, InputsFirst, FatalExplained
  <2>2. CountInv'
    BY <1>0, <1>1, FS_EmptySet DEF CountInv
  <2> QED
    BY <1>2, <2>1, <2>2 DEF SchedInv, RunInv
<1>4. ParallTypeOK'
  BY <1>0, <1>2 DEF ParallInv, ParallTypeOK, SchedInv, RunInv, SchedTypeOK
<1>5. Rooted' /\ LaneInv'
  BY <1>0 DEF Rooted, LaneInv
<1>6. OrderInv'
  <2>1. Ran(_exec_que) = backup
    BY <1>0, <1>1, InvImplies DEF ParallInv, NodesConserved, SchedInv
  <2>2. /\ GraphIns \subseteq Ran(_exec_que)
        /\ \A a \in arcs : a[1] \in Ran(_exec_que) => a[2] \in Ran(_exec_que)
    BY <1>0, InvImplies DEF ParallInv, ScheduleComplete, SchedInv
  <2>3. \A a \in arcs : \A j \in DOMAIN _exec_que : _exec_que[j] = a[2] =>
          \E i \in DOMAIN _exec_que : i < j /\ _exec_que[i] = a[1]
    BY DEF ParallInv, SchedInv, RunInv, InputsFirst
  <2>4. \A n \in Ran(_exec_que) : n \in GraphIns \/ InArcs(n) # {}
    BY <2>1 DEF ParallInv, Rooted
  <2> QED
    BY <1>0, <2>2, <2>3, <2>4 DEF OrderInv
<1> QED
  BY <1>3, <1>4, <1>5, <1>6 DEF ParallInv

-----------------------------------------------------------------------------
(* Steps of ParallScheduler::Run.                                          *)

\* init: the lanes of the inputs are numbers below that of the vertices.
LEMMA InitStep == ParallInv /\ init => ParallInv'
<1> SUFFICES ASSUME ParallInv, init PROVE ParallInv'
  OBVIOUS
<1>0. /\ UNCHANGED schedVars /\ who' = who /\ _nodes_exec_order' = _nodes_exec_order
      /\ UNCHANGED <<arcs, backup, phase, _exec_que>> /\ who = "ParallScheduler"
      /\ phase = "run" /\ ~has_lanes /\ has_lanes' = TRUE /\ _exec_que = <<>>
  BY DEF init, schedVars, ParallInv, LaneInv
<1>1. SchedInv'
  BY <1>0, InvNext DEF ParallInv
<1>2. /\ Rooted' /\ GraphIns' = GraphIns /\ \A m : InArcs(m)' = InArcs(m)
  BY <1>0, StillStep DEF ParallInv
<1>3. PICK s \in Orderings(GraphIns) :
        LET l == [n \in GraphIns |-> (CHOOSE i \in DOMAIN s : s[i] = n) - 1]
        IN /\ lane' = [n \in Nodes |-> IF n \in GraphIns THEN l[n] ELSE lane[n]]
           /\ _map_io_to_lane' = [a \in Nodes \X Nodes |->
                IF a \in arcs /\ a[1] \in GraphIns THEN l[a[1]] ELSE _map_io_to_lane[a]]
  BY DEF init
<1> DEFINE l == [n \in GraphIns |-> (CHOOSE i \in DOMAIN s : s[i] = n) - 1]
<1>4. /\ lane' = [n \in Nodes |-> IF n \in GraphIns THEN l[n] ELSE lane[n]]
      /\ _map_io_to_lane' = [a \in Nodes \X Nodes |->
           IF a \in arcs /\ a[1] \in GraphIns THEN l[a[1]] ELSE _map_io_to_lane[a]]
  BY <1>3
<1>5. ASSUME NEW n \in GraphIns PROVE l[n] \in Lanes
  <2>1. /\ GraphIns \in SUBSET Nodes /\ IsFiniteSet(GraphIns)
        /\ Cardinality(GraphIns) \in Nat /\ Cardinality(Nodes) \in Nat
        /\ Cardinality(GraphIns) <= Cardinality(Nodes)
    <3>1. GraphIns \in SUBSET Nodes
      BY DEF GraphIns
    <3> QED
      BY <3>1, NodesAssumption, FS_Subset, FS_CardinalityType
  <2>2. s \in Seq(GraphIns) /\ Len(s) = Cardinality(GraphIns) /\ Ran(s) = GraphIns
    BY <2>1, OrderingFacts
  <2>3. \E i \in DOMAIN s : s[i] = n
    BY <2>2 DEF Ran
  <2> DEFINE c == CHOOSE i \in DOMAIN s : s[i] = n
  <2>4. c \in DOMAIN s
    BY <2>3
  <2>5. l[n] = c - 1
    OBVIOUS
  <2>6. c \in 1..Cardinality(GraphIns)
    BY <2>2, <2>4
  <2> HIDE DEF c
  <2> QED
    BY <2>1, <2>5, <2>6 DEF Lanes
<1> HIDE DEF l
<1>6. lane' \in [Nodes -> Lanes] /\ _map_io_to_lane' \in [Nodes \X Nodes -> Lanes]
  BY <1>4, <1>5 DEF ParallInv, ParallTypeOK
<1>7. need_wait' \in [Nodes -> BOOLEAN]
  BY Zenon DEF init
<1>8. ParallTypeOK'
  BY <1>0, <1>1, <1>6, <1>7 DEF ParallInv, ParallTypeOK, SchedInv, RunInv
<1>9. OrderInv'
  BY <1>0, <1>2 DEF ParallInv, OrderInv
<1>10. LaneInv'
  <2>1. Ran(_exec_que') = {}
    BY <1>0 DEF Ran
  <2>2. ASSUME NEW a \in arcs, a[1] \in GraphIns PROVE _map_io_to_lane'[a] = lane'[a[1]]
    BY <1>4, <2>2 DEF ParallInv, SchedInv, RunInv, SchedTypeOK
  <2> QED
    BY <1>0, <1>2, <2>1, <2>2 DEF LaneInv
<1> QED
  BY <1>1, <1>2, <1>8, <1>9, <1>10 DEF ParallInv

\* init: CHECK_EQ ends the process.
LEMMA InitFailsStep == ParallInv /\ initFails => ParallInv'
<1> SUFFICES ASSUME ParallInv, initFails PROVE ParallInv'
  OBVIOUS
<1>0. /\ UNCHANGED <<que, arcs, backup, registered, on, _wait_que, pos, wait_que_size,
                     _exec_que>>
      /\ UNCHANGED parallVars /\ phase = "run" /\ phase' = "fatal" /\ fatal' = "out_arcs"
      /\ ~has_lanes
  BY DEF initFails, graphVars, tagVars, runVars
<1>1. /\ Rooted' /\ GraphIns' = GraphIns /\ \A m : InArcs(m)' = InArcs(m)
  BY <1>0, StillStep DEF ParallInv
<1>2. SchedTypeOK'
  BY <1>0 DEF ParallInv, SchedInv, RunInv, SchedTypeOK
<1>3. SchedInv'
  <2>1. WalkInv' /\ CountInv' /\ TagInv'
    BY <1>0, <1>1 DEF ParallInv, SchedInv, RunInv, WalkInv, CountInv, TagInv
  <2>2. PassInv' /\ InputsFirst' /\ FatalExplained'
    BY <1>0 DEF ParallInv, SchedInv, RunInv, PassInv, InputsFirst, FatalExplained
  <2> QED
    BY <1>2, <2>1, <2>2 DEF SchedInv, RunInv
<1>4. ParallTypeOK'
  BY <1>0, <1>3, TypeStep DEF ParallInv
<1>5. OrderInv' /\ LaneInv'
  BY <1>0, <1>1 DEF ParallInv, OrderInv, LaneInv, parallVars
<1> QED
  BY <1>1, <1>3, <1>4, <1>5 DEF ParallInv

\* Where the lanes of the inputs of a vertex are fewer than two, they are one.
LEMMA TwoLanes ==
  ASSUME NEW m \in Nodes, NEW x \in InLanes(m), NEW y \in InLanes(m),
         arcs \subseteq Nodes \X Nodes, ~(Cardinality(InLanes(m)) >= 2)
  PROVE  x = y
<1>1. SUFFICES ASSUME x # y PROVE FALSE
  OBVIOUS
<1>2. IsFiniteSet(InLanes(m))
  <2>1. IsFiniteSet(Nodes \X Nodes)
    BY NodesAssumption, FS_Product
  <2>2. IsFiniteSet(InArcs(m))
    <3>1. InArcs(m) \in SUBSET (Nodes \X Nodes)
      BY DEF InArcs
    <3> QED
      BY <2>1, <3>1, FS_Subset
  <2> DEFINE f == [a \in InArcs(m) |-> _map_io_to_lane[a]]
  <2>3. f \in Surjection(InArcs(m), InLanes(m))
    BY DEF Surjection, InLanes
  <2> HIDE DEF f
  <2> QED
    BY <2>2, <2>3, FS_Surjection
<1>3. {x, y} \in SUBSET InLanes(m)
  OBVIOUS
<1>4. Cardinality({x, y}) = 2
  <2>1. IsFiniteSet({x}) /\ Cardinality({x}) = 1
    BY FS_Singleton
  <2>2. y \notin {x}
    BY <1>1
  <2>3. Cardinality({x} \cup {y}) = IF y \in {x} THEN Cardinality({x}) ELSE Cardinality({x}) + 1
    BY <2>1, FS_AddElement, Zenon
  <2>4. {x, y} = {x} \cup {y}
    OBVIOUS
  <2> QED
    BY <2>1, <2>2, <2>3, <2>4
<1> QED
  BY <1>2, <1>3, <1>4, FS_Subset, FS_CardinalityType

\* launch: the vertex takes the lane of one of its inputs; if it is not marked
\* to wait, they all are in that lane.
LEMMA LaunchStep == ParallInv /\ ParallLaunch => ParallInv'
<1> SUFFICES ASSUME ParallInv, ParallLaunch PROVE ParallInv'
  OBVIOUS
<1> DEFINE n == _wait_que[pos]
<1>0. /\ who = "ParallScheduler" /\ has_lanes /\ launch /\ phase = "run"
      /\ UNCHANGED <<who, _nodes_exec_order, has_lanes, arcs, backup, phase>>
      /\ SchedInv /\ lane \in [Nodes -> Lanes] /\ need_wait \in [Nodes -> BOOLEAN]
      /\ _map_io_to_lane \in [Nodes \X Nodes -> Lanes] /\ arcs \subseteq Nodes \X Nodes
  BY DEF ParallLaunch, launch, graphVars, ParallInv, ParallTypeOK, SchedInv, RunInv, SchedTypeOK
<1>1. SchedInv'
  BY <1>0, InvLaunch
<1>2. /\ Rooted' /\ GraphIns' = GraphIns /\ \A m : InArcs(m)' = InArcs(m)
  BY <1>0, StillStep DEF ParallInv
<1>3. OrderInv'
  BY <1>0, <1>2 DEF ParallInv, OrderInv
<1>4. n \in Nodes /\ n \in Ran(_wait_que) /\ callable(n)
  BY <1>0 DEF launch, SchedInv, RunInv, SchedTypeOK, Ran
<1>5. Ran(_exec_que') = Ran(_exec_que) \cup {n}
  BY <1>0, <1>4, RanAppend DEF launch, SchedInv, RunInv, SchedTypeOK
<1>6. n \notin Ran(_exec_que)
  BY <1>0, <1>4, WaitingNotLaunched DEF SchedInv
<1>7. /\ lane' \in [Nodes -> Lanes] /\ need_wait' \in [Nodes -> BOOLEAN]
      /\ \A m \in Nodes \ {n} : lane'[m] = lane[m] /\ need_wait'[m] = need_wait[m]
      /\ InArcs(n) # {} => lane'[n] \in InLanes(n)
      /\ InArcs(n) # {} /\ ~need_wait'[n] => ~(Cardinality(InLanes(n)) >= 2)
  <2>0. node_sync_flags(n)
    BY DEF ParallLaunch
  <2>1. CASE InArcs(n) = {}
    BY <1>0, <2>0, <2>1 DEF node_sync_flags
  <2>2. CASE InArcs(n) # {}
    <3>1. PICK x \in InLanes(n) : lane' = [lane EXCEPT ![n] = x]
      BY <2>0, <2>2 DEF node_sync_flags
    <3>2. x \in Lanes
      BY <1>0, <3>1 DEF InLanes, InArcs
    <3>3. need_wait' = IF Cardinality(InLanes(n)) >= 2
                       THEN [need_wait EXCEPT ![n] = TRUE] ELSE need_wait
      BY <2>0, <2>2 DEF node_sync_flags
    <3> HIDE DEF n
    <3>4. /\ need_wait' \in [Nodes -> BOOLEAN]
          /\ \A m \in Nodes \ {n} : need_wait'[m] = need_wait[m]
          /\ ~need_wait'[n] => ~(Cardinality(InLanes(n)) >= 2)
      <4>1. CASE Cardinality(InLanes(n)) >= 2
        <5>1. need_wait' = [need_wait EXCEPT ![n] = TRUE]
          BY <3>3, <4>1
        <5>2. need_wait' \in [Nodes -> BOOLEAN] /\ need_wait'[n] = TRUE
          BY <1>0, <1>4, <5>1, Zenon
        <5>3. \A m \in Nodes \ {n} : need_wait'[m] = need_wait[m]
          BY <1>0, <5>1, Zenon
        <5> QED
          BY <5>2, <5>3
      <4>2. CASE ~(Cardinality(InLanes(n)) >= 2)
        BY <1>0, <3>3, <4>2
      <4> QED
        BY <4>1, <4>2
    <3> QED
      BY <1>0, <1>4, <3>1, <3>2, <3>4
  <2> QED
    BY <2>1, <2>2
<1>8. _map_io_to_lane' = [a \in Nodes \X Nodes |->
                            IF a \in OutArcs(n) THEN lane'[n] ELSE _map_io_to_lane[a]]
  BY DEF ParallLaunch, io_sync_flags
<1>9. ParallTypeOK'
  <2>1. _map_io_to_lane' \in [Nodes \X Nodes -> Lanes]
    BY <1>0, <1>4, <1>7, <1>8
  <2> QED
    BY <1>0, <1>1, <1>7, <2>1 DEF ParallInv, ParallTypeOK, SchedInv, RunInv
\* No input of the vertex, and no input of one launched before, is its output.
<1>10. ASSUME NEW a \in arcs, a[2] \in Ran(_exec_que) \cup {n} PROVE a[1] \in Ran(_exec_que)
  <2>1. CASE a[2] = n
    BY <1>0, <1>4, <2>1 DEF callable, InArcs, SchedInv, RunInv, TagInv
  <2>2. CASE a[2] \in Ran(_exec_que)
    <3>1. PICK j \in DOMAIN _exec_que : _exec_que[j] = a[2]
      BY <2>2 DEF Ran
    <3>2. PICK i \in DOMAIN _exec_que : _exec_que[i] = a[1]
      BY <1>0, <3>1 DEF SchedInv, RunInv, InputsFirst
    <3> QED
      BY <3>2 DEF Ran
  <2> QED
    BY <1>10, <2>1, <2>2
<1> HIDE DEF n
<1>11. ASSUME NEW a \in arcs, a[1] \in Ran(_exec_que) \cup {n} \cup GraphIns
       PROVE  _map_io_to_lane'[a] = lane'[a[1]]
  <2>1. a \in Nodes \X Nodes /\ a[1] \in Nodes
    BY <1>0
  <2>2. CASE a[1] = n
    BY <1>8, <2>1, <2>2 DEF OutArcs
  <2>3. CASE a[1] # n
    <3>1. _map_io_to_lane'[a] = _map_io_to_lane[a] /\ lane'[a[1]] = lane[a[1]]
      BY <1>7, <1>8, <2>1, <2>3 DEF OutArcs
    <3> QED
      BY <1>0, <1>11, <2>3, <3>1 DEF ParallInv, LaneInv
  <2> QED
    BY <2>2, <2>3
<1>12. ASSUME NEW a \in arcs, a[2] \in Ran(_exec_que) \cup {n}, ~need_wait'[a[2]]
       PROVE  _map_io_to_lane'[a] = lane'[a[2]]
  <2>1. a \in Nodes \X Nodes /\ a[1] \in Ran(_exec_que) /\ a[1] # n
    BY <1>0, <1>6, <1>10, <1>12
  <2>2. _map_io_to_lane'[a] = _map_io_to_lane[a]
    BY <1>8, <2>1 DEF OutArcs
  <2>3. CASE a[2] = n
    <3>1. a \in InArcs(n) /\ _map_io_to_lane[a] \in InLanes(n)
      BY <2>3 DEF InArcs, InLanes
    <3>2. lane'[n] \in InLanes(n) /\ ~(Cardinality(InLanes(n)) >= 2)
      BY <1>7, <1>12, <2>3, <3>1
    <3>3. _map_io_to_lane[a] = lane'[n]
      BY <1>0, <1>4, <3>1, <3>2, TwoLanes
    <3> QED
      BY <2>2, <2>3, <3>3
  <2>4. CASE a[2] # n
    <3>1. lane'[a[2]] = lane[a[2]] /\ need_wait'[a[2]] = need_wait[a[2]]
      BY <1>0, <1>7, <2>4
    <3>2. a[2] \in Ran(_exec_que) /\ ~need_wait[a[2]]
      BY <1>12, <2>4, <3>1
    <3> QED
      BY <1>0, <2>2, <3>1, <3>2 DEF ParallInv, LaneInv
  <2> QED
    BY <2>3, <2>4
<1>13. LaneInv'
  BY <1>0, <1>2, <1>5, <1>11, <1>12 DEF LaneInv
<1> QED
  BY <1>1, <1>2, <1>3, <1>9, <1>13 DEF ParallInv

LEMMA PassStep == ParallInv /\ ParallNextPass => ParallInv'
<1> SUFFICES ASSUME ParallInv, ParallNextPass PROVE ParallInv'
  OBVIOUS
<1>0. /\ UNCHANGED <<arcs, backup, phase, _exec_que>> /\ UNCHANGED parallVars
      /\ phase = "run"
  BY DEF ParallNextPass, PassEnds, graphVars
<1>1. SchedInv'
  BY InvPass DEF ParallNextPass, ParallInv, SchedInv
<1>2. ParallTypeOK'
  BY <1>0, <1>1, TypeStep DEF ParallInv
<1>3. /\ Rooted' /\ GraphIns' = GraphIns /\ \A m : InArcs(m)' = InArcs(m)
  BY <1>0, StillStep DEF ParallInv
<1>4. OrderInv' /\ LaneInv'
  BY <1>0, <1>3 DEF ParallInv, OrderInv, LaneInv, parallVars
<1> QED
  BY <1>1, <1>2, <1>3, <1>4 DEF ParallInv

LEMMA ParallInvNext == ParallInv /\ [ParallNext]_allVars => ParallInv'
<1> SUFFICES ASSUME ParallInv, [ParallNext]_allVars PROVE ParallInv'
  OBVIOUS
<1>1. CASE UNCHANGED allVars
  <2>0. UNCHANGED schedVars /\ UNCHANGED parallVars /\ UNCHANGED <<arcs, backup, phase, _exec_que>>
    BY <1>1 DEF allVars, schedVars
  <2>1. SchedInv'
    BY <2>0, InvNext DEF ParallInv
  <2>2. ParallTypeOK'
    BY <2>0, <2>1, TypeStep DEF ParallInv
  <2>3. Rooted' /\ GraphIns' = GraphIns /\ \A m : InArcs(m)' = InArcs(m)
    BY <2>0, StillStep DEF ParallInv
  <2>4. OrderInv' /\ LaneInv'
    BY <2>0, <2>3 DEF ParallInv, OrderInv, LaneInv, parallVars
  <2> QED
    BY <2>1, <2>2, <2>3, <2>4 DEF ParallInv
<1>2. CASE ParallNext
  BY <1>2, SchedulerStep, StartParallStep, InheritedStep, InitStep, InitFailsStep,
     LaunchStep, PassStep
  DEF ParallNext
<1> QED
  BY <1>1, <1>2

-----------------------------------------------------------------------------
(* The theorems.                                                           *)

\* The lanes stay below the number of vertices, and op_it inside the list.
THEOREM ParallTypeCorrect == ParallSpec => []ParallTypeOK
<1>1. ParallInv => ParallTypeOK
  BY DEF ParallInv
<1> QED
  BY <1>1, ParallInvInit, ParallInvNext, PTL DEF ParallSpec

\* ParallScheduler::Run, which never looks whether a pass launched a vertex,
\* launches one in every pass because Scheduler::Run has been through.
THEOREM ParallRunProgresses == ParallSpec => []ParallProgress
<1> QED
  BY Progress, ParallInvInit, ParallInvNext, PTL DEF ParallSpec

\* A vertex without the synchronisation flag shares the lane of its producers.
THEOREM UnmarkedShareALane == ParallSpec => []LanesAgree
<1>1. ParallInv => LanesAgree
  <2> SUFFICES ASSUME ParallInv, Planned, NEW a \in arcs, a[2] \in backup,
                      ~need_wait[a[2]]
               PROVE  lane[a[1]] = lane[a[2]]
    BY DEF LanesAgree
  <2>1. who = "ParallScheduler" /\ phase = "done" /\ has_lanes
    BY DEF Planned, ParallInv, LaneInv
  <2>2. Ran(_exec_que) = backup
    <3>1. _wait_que = <<>>
      BY <2>1 DEF ParallInv, SchedInv, RunInv, WalkInv
    <3> QED
      BY <2>1, <3>1, InvImplies DEF ParallInv, NodesConserved, Ran, SchedInv
  <2>3. PICK j \in DOMAIN _exec_que : _exec_que[j] = a[2]
    BY <2>2 DEF Ran
  <2>4. PICK i \in DOMAIN _exec_que : _exec_que[i] = a[1]
    BY <2>3 DEF ParallInv, SchedInv, RunInv, InputsFirst
  <2>5. a[1] \in Ran(_exec_que) /\ a[2] \in Ran(_exec_que)
    BY <2>3, <2>4 DEF Ran
  <2> QED
    BY <2>1, <2>5 DEF ParallInv, LaneInv
<1> QED
  BY <1>1, ParallInvInit, ParallInvNext, PTL DEF ParallSpec

-----------------------------------------------------------------------------
(* The number of lanes.                                                    *)

\* The inputs of the graph have the lanes from 0 on, one each; whatever was
\* launched is in one of them.
InputLanes ==
  has_lanes =>
    /\ {lane[n] : n \in GraphIns} = 0..(Cardinality(GraphIns) - 1)
    /\ \A n \in Ran(_exec_que) : lane[n] \in {lane[m] : m \in GraphIns}

\* init numbers the inputs in the order in which it meets them.
LEMMA InputLanesInit == ParallInv /\ init => InputLanes'
<1> SUFFICES ASSUME ParallInv, init PROVE InputLanes'
  OBVIOUS
<1>1. /\ GraphIns' = GraphIns /\ GraphIns \in SUBSET Nodes
      /\ _exec_que' = <<>>
  BY DEF init, schedVars, ParallInv, LaneInv, GraphIns, InArcs, OutArcs
<1>2. Cardinality(GraphIns) \in Nat
  BY <1>1, FiniteSubset, FS_CardinalityType
<1>3. PICK s \in Orderings(GraphIns) :
        lane' = [n \in Nodes |->
                   IF n \in GraphIns
                   THEN [m \in GraphIns |-> (CHOOSE i \in DOMAIN s : s[i] = m) - 1][n]
                   ELSE lane[n]]
  BY DEF init
<1>4. /\ DOMAIN s = 1..Cardinality(GraphIns)
      /\ \A i \in DOMAIN s : s[i] \in GraphIns
      /\ \A n \in GraphIns : \E i \in DOMAIN s : s[i] = n
      /\ \A i, j \in DOMAIN s : s[i] = s[j] => i = j
  BY <1>3 DEF Orderings, Ran
<1>5. \A n \in GraphIns : \E i \in DOMAIN s : s[i] = n /\ lane'[n] = i - 1
  <2> TAKE n \in GraphIns
  <2>1. (CHOOSE i \in DOMAIN s : s[i] = n) \in DOMAIN s
        /\ s[CHOOSE i \in DOMAIN s : s[i] = n] = n
    BY <1>4
  <2>2. lane'[n] = (CHOOSE i \in DOMAIN s : s[i] = n) - 1
    BY <1>1, <1>3
  <2> QED
    BY <2>1, <2>2
<1>6. ASSUME NEW k \in 0..(Cardinality(GraphIns) - 1)
      PROVE \E n \in GraphIns : lane'[n] = k
  <2>1. k + 1 \in DOMAIN s /\ (k + 1) - 1 = k
    BY <1>2, <1>4
  <2>2. PICK i \in DOMAIN s : s[i] = s[k + 1] /\ lane'[s[k + 1]] = i - 1
    BY <1>4, <1>5, <2>1
  <2>3. i = k + 1
    BY <1>4, <2>1, <2>2
  <2> QED
    BY <1>4, <2>1, <2>2, <2>3
<1>7. ASSUME NEW n \in GraphIns PROVE lane'[n] \in 0..(Cardinality(GraphIns) - 1)
  BY <1>2, <1>4, <1>5
<1>8. {lane'[n] : n \in GraphIns} = 0..(Cardinality(GraphIns) - 1)
  BY <1>6, <1>7
<1>9. Ran(_exec_que') = {}
  BY <1>1 DEF Ran
<1> QED
  BY <1>1, <1>8, <1>9 DEF InputLanes

\* A vertex with producers takes the lane of one of them, which was launched.
LEMMA InputLanesLaunch ==
  ParallInv /\ InputLanes /\ ParallLaunch => InputLanes'
<1> SUFFICES ASSUME ParallInv, InputLanes, ParallLaunch PROVE InputLanes'
  OBVIOUS
<1> DEFINE n == _wait_que[pos]
           L == {lane[m] : m \in GraphIns}
<1>0. /\ has_lanes /\ launch /\ phase = "run" /\ node_sync_flags(n)
      /\ UNCHANGED <<has_lanes, arcs>>
      /\ SchedInv /\ lane \in [Nodes -> Lanes] /\ arcs \subseteq Nodes \X Nodes
  BY DEF ParallLaunch, launch, graphVars, ParallInv, ParallTypeOK, SchedInv, RunInv, SchedTypeOK
<1>1. GraphIns' = GraphIns /\ GraphIns \subseteq Nodes
  BY <1>0 DEF GraphIns, InArcs, OutArcs
<1>2. n \in Nodes /\ n \in Ran(_wait_que) /\ callable(n)
  BY <1>0 DEF launch, SchedInv, RunInv, SchedTypeOK, Ran
<1>3. Ran(_exec_que') = Ran(_exec_que) \cup {n} /\ Ran(_exec_que) \subseteq Nodes
  <2>1. Ran(_exec_que') = Ran(_exec_que) \cup {n}
    BY <1>0, <1>2, RanAppend DEF launch, SchedInv, RunInv, SchedTypeOK
  <2>2. Ran(_exec_que) \subseteq Nodes
    BY <1>0 DEF SchedInv, RunInv, SchedTypeOK, Ran
  <2> QED
    BY <2>1, <2>2
<1>4. L = 0..(Cardinality(GraphIns) - 1) /\ \A m \in Ran(_exec_que) : lane[m] \in L
  BY <1>0 DEF InputLanes
<1>5. n \notin Ran(_exec_que)
  BY <1>0, <1>2, WaitingNotLaunched DEF SchedInv
<1>6. CASE InArcs(n) = {}
  <2>1. n \in GraphIns
    <3>1. n \in backup
      BY <1>0, <1>2, InvImplies DEF NodesConserved, SchedInv
    <3> QED
      BY <1>6, <3>1 DEF ParallInv, Rooted
  <2>2. lane' = lane
    BY <1>0, <1>6 DEF node_sync_flags
  <2> HIDE DEF n
  <2> QED
    BY <1>0, <1>1, <1>3, <1>4, <2>1, <2>2 DEF InputLanes
<1>7. CASE InArcs(n) # {}
  <2>1. PICK x \in InLanes(n) : lane' = [lane EXCEPT ![n] = x]
    BY <1>0, <1>7 DEF node_sync_flags
  <2>2. PICK a \in InArcs(n) : x = _map_io_to_lane[a]
    BY <2>1 DEF InLanes
  <2>3. a \in arcs /\ a[1] \in Ran(_exec_que)
    BY <1>0, <1>2, <2>2 DEF callable, InArcs, SchedInv, RunInv, TagInv
  <2>4. x = lane[a[1]]
    BY <1>0, <2>2, <2>3 DEF ParallInv, LaneInv
  <2>5. x \in L
    BY <1>4, <2>3, <2>4
  <2>6. n \notin GraphIns
    BY <1>7 DEF GraphIns
  <2> HIDE DEF n
  <2>7. \A m \in GraphIns : lane'[m] = lane[m]
    BY <1>0, <1>1, <2>1, <2>6
  <2>8. {lane'[m] : m \in GraphIns} = L
    BY <2>7
  <2>9. \A m \in Ran(_exec_que) \cup {n} : lane'[m] \in L
    BY <1>0, <1>2, <1>3, <1>4, <1>5, <2>1, <2>5
  <2> QED
    BY <1>0, <1>1, <1>3, <1>4, <2>8, <2>9 DEF InputLanes
<1> QED
  BY <1>6, <1>7

LEMMA InputLanesNext ==
  ParallInv /\ InputLanes /\ [ParallNext]_allVars => InputLanes'
<1> SUFFICES ASSUME ParallInv, InputLanes, [ParallNext]_allVars PROVE InputLanes'
  OBVIOUS
<1>0. has_lanes => who = "ParallScheduler" /\ phase \in {"run", "done"}
  BY DEF ParallInv, LaneInv
<1>1. ASSUME UNCHANGED <<has_lanes, arcs, lane, _exec_que>> PROVE InputLanes'
  <2>1. GraphIns' = GraphIns
    BY <1>1 DEF GraphIns, InArcs, OutArcs
  <2> QED
    BY <1>1, <2>1 DEF InputLanes
<1>2. CASE UNCHANGED allVars
  BY <1>1, <1>2 DEF allVars, schedVars, parallVars
<1>3. ASSUME UNCHANGED has_lanes, ~has_lanes PROVE InputLanes'
  BY <1>3 DEF InputLanes
<1>4. CASE who = "Scheduler" /\ SchedNext /\ UNCHANGED parallVars
  BY <1>0, <1>3, <1>4 DEF parallVars
<1>5. CASE StartParall
  BY <1>0, <1>3, <1>5 DEF StartParall
<1>6. CASE who = "ParallScheduler" /\ Inherited /\ UNCHANGED parallVars
  <2>1. CASE ~has_lanes
    BY <1>3, <1>6, <2>1 DEF parallVars
  <2>2. CASE has_lanes
    <3>1. skip \/ Finish
      BY <1>0, <1>6, <2>2 DEF Inherited, NoInputs, StartWalk, VisitVertex, StartRun
    <3> QED
      BY <1>1, <1>6, <3>1 DEF skip, Finish, graphVars, runVars, parallVars
  <2> QED
    BY <2>1, <2>2
<1>7. CASE init
  BY <1>7, InputLanesInit
<1>8. CASE initFails
  BY <1>3, <1>8 DEF initFails, parallVars
<1>9. CASE ParallLaunch
  BY <1>9, InputLanesLaunch
<1>10. CASE ParallNextPass
  BY <1>1, <1>10 DEF ParallNextPass, graphVars, parallVars
<1> QED
  BY <1>2, <1>4, <1>5, <1>6, <1>7, <1>8, <1>9, <1>10 DEF ParallNext

\* The comment of parall_scheduler.h on the number of lanes: the lanes in use
\* are exactly as many as the graph has inputs, and every one is used.
THEOREM AsManyLanesAsInputs == ParallSpec => []LanesOfInputs
<1>1. ParallInv /\ InputLanes => LanesOfInputs
  <2> SUFFICES ASSUME ParallInv, InputLanes, Planned
               PROVE {lane[n] : n \in backup} = 0..(Cardinality(GraphIns) - 1)
    BY DEF LanesOfInputs
  <2>1. /\ has_lanes /\ phase = "done" /\ _wait_que = <<>>
        /\ GraphIns \subseteq backup
    BY DEF Planned, ParallInv, LaneInv, SchedInv, RunInv, WalkInv
  <2>2. Ran(_exec_que) = backup
    BY <2>1, InvImplies DEF ParallInv, NodesConserved, Ran, SchedInv
  <2> QED
    BY <2>1, <2>2 DEF InputLanes
<1>2. ParallInit => InputLanes
  BY DEF ParallInit, InputLanes
<1> QED
  BY <1>1, <1>2, InputLanesNext, ParallInvInit, ParallInvNext, PTL DEF ParallSpec
=============================================================================
