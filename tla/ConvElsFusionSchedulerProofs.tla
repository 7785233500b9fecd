-------------------- MODULE ConvElsFusionSchedulerProofs --------------------
(* Proofs about ConvElsFusionScheduler, for every graph and every          *)
(* placement of the operators on it.                                       *)
EXTENDS ConvElsFusionScheduler, SchedulerProofs

-----------------------------------------------------------------------------
(* The inductive invariant.                                                *)

\* The vertex leads to one other vertex at most.
Single(n) == \A a, b \in OutArcs(n) : a = b

\* The stages of Run follow one another.
StageInv ==
  /\ phase \in {"ins", "bfs"} => _pairs = {} /\ listed = 0
  /\ listed = 0 => order = <<>> /\ phase # "done"
  /\ listed # 0 => _wait_que = <<>> /\ phase \in {"run", "done"}
  /\ phase = "done" => listed = Len(_exec_que) + 1

\* A pair is an Eltwise and a convolution it reads from.  One that is launched
\* leads to nothing else, and its forced vertex is another input.
PairInv ==
  \A q \in _pairs :
    /\ q \in arcs /\ q[1] \in backup
    /\ listed = 0 => op[q[1]] = "conv"
    /\ Single(q[1]) => _force_order[q[1]] # q[1] /\ <<_force_order[q[1]], q[2]>> \in arcs
    /\ q[1] \in Ran(_exec_que) => Single(q[1])

\* Nothing else has a forced vertex.
ForceInv ==
  \A n \in Nodes : _force_order[n] # n =>
    _force_order[n] \in backup /\ \E q \in _pairs : q[1] = n

\* Of the two convolutions of an Eltwise the one that is not merged is held back
\* until the other one is launched.
HoldInv ==
  listed = 0 =>
    \A q \in _pairs : Binary(q[2]) =>
      \A m \in Sources(q[2]) \ {q[1]} :
        op[m] = "conv" => m \in _node_need_to_wait \/ q[1] \notin Ran(_wait_que)

Distinct(s) == \A i, j \in DOMAIN s : s[i] = s[j] => i = j

\* The order as far as it is made.
ListInv ==
  /\ Distinct(order)
  /\ Ran(order) \subseteq backup
  /\ \A i \in 1..(listed - 1) : _exec_que[i] \in Ran(order)
  /\ \A q \in _pairs : Binary(q[2]) /\ q[1] \in Ran(order) =>
                      Before(order, _force_order[q[1]], q[1])

FusionInv == /\ FusionTypeOK /\ RunInv /\ StageInv /\ PairInv /\ ForceInv
             /\ HoldInv /\ MergedOnce /\ ListInv

-----------------------------------------------------------------------------
(* Small sets and the arcs of a vertex.                                    *)

LEMMA TwoElements ==
  ASSUME NEW S, IsFiniteSet(S), Cardinality(S) = 2,
         NEW x \in S, NEW y \in S, x # y, NEW z \in S
  PROVE  z = x \/ z = y
<1>1. IsFiniteSet(S \ {x}) /\ Cardinality(S \ {x}) = 1
  BY FS_RemoveElement
<1>2. \E w : S \ {x} = {w}
  BY <1>1, FS_Singleton
<1> QED
  BY <1>2

\* The arcs of the graph are pairs of vertices, and finite in number.
LEMMA ArcSets ==
  ASSUME SchedTypeOK
  PROVE  /\ \A a \in arcs : a[1] \in Nodes /\ a[2] \in Nodes /\ a = <<a[1], a[2]>>
         /\ \A n : IsFiniteSet(InArcs(n)) /\ IsFiniteSet(OutArcs(n))
<1>1. arcs \in SUBSET (Nodes \X Nodes)
  BY DEF SchedTypeOK
<1>2. IsFiniteSet(Nodes \X Nodes)
  BY NodesAssumption, FS_Product
<1>3. IsFiniteSet(arcs)
  BY <1>1, <1>2, FS_Subset
<1>4. \A n : InArcs(n) \in SUBSET arcs /\ OutArcs(n) \in SUBSET arcs
  BY DEF InArcs, OutArcs
<1> QED
  BY <1>1, <1>3, <1>4, FS_Subset

\* What an Eltwise of two inputs reads from.
LEMMA TwoInputs ==
  ASSUME SchedTypeOK, NEW e, Binary(e),
         NEW m, NEW n, <<m, e>> \in arcs, <<n, e>> \in arcs, m # n,
         NEW k \in Sources(e)
  PROVE  k = m \/ k = n
<1>1. m \in Sources(e) /\ n \in Sources(e)
  BY DEF Sources, InArcs
<1>2. Sources(e) \in SUBSET Nodes
  BY ArcSets DEF Sources, InArcs
<1>3. IsFiniteSet(Sources(e))
  BY <1>2, NodesAssumption, FS_Subset
<1> QED
  BY <1>1, <1>3, TwoElements DEF Binary

\* The output of a convolution that has passed the check.
LEMMA OneNext ==
  ASSUME SchedTypeOK, NEW n, Cardinality(OutArcs(n)) = 1
  PROVE  Single(n) /\ <<n, NextOf(n)>> \in arcs
<1>1. PICK a : OutArcs(n) = {a}
  BY ArcSets, FS_Singleton
<1>2. a \in arcs /\ a[1] = n /\ a = <<a[1], a[2]>>
  BY <1>1, ArcSets DEF OutArcs
<1>3. Succ(n) = {a[2]}
  BY <1>1 DEF Succ
<1>4. NextOf(n) = a[2]
  BY <1>3 DEF NextOf
<1> QED
  BY <1>1, <1>2, <1>4 DEF Single

-----------------------------------------------------------------------------
(* Lists without repetition.                                               *)

LEMMA DistinctLength ==
  ASSUME NEW S, NEW s \in Seq(S), Distinct(s)
  PROVE  Cardinality(Ran(s)) = Len(s)
<1>1. Len(s) \in Nat /\ DOMAIN s = 1..Len(s)
  OBVIOUS
<1>2. IsFiniteSet(1..Len(s)) /\ Cardinality(1..Len(s)) = Len(s)
  BY <1>1, FS_Interval
<1>3. s \in Surjection(1..Len(s), Ran(s)) /\ s \in Injection(1..Len(s), Ran(s))
  BY <1>1 DEF Surjection, Injection, IsInjective, Ran, Distinct
<1> QED
  BY <1>2, <1>3, FS_Surjection

LEMMA PushNewFacts ==
  ASSUME NEW s \in Seq(Nodes), Distinct(s), NEW n \in Nodes
  PROVE  /\ PushNew(s, n) \in Seq(Nodes) /\ Distinct(PushNew(s, n))
         /\ Ran(PushNew(s, n)) = Ran(s) \cup {n}
         /\ \A x, y : Before(s, x, y) => Before(PushNew(s, n), x, y)
         /\ \A x \in Ran(s) : n \notin Ran(s) => Before(PushNew(s, n), x, n)
<1>1. CASE n \in Ran(s)
  BY <1>1 DEF PushNew
<1>2. CASE n \notin Ran(s)
  <2>1. PushNew(s, n) = Append(s, n)
    BY <1>2 DEF PushNew
  <2>2. Ran(Append(s, n)) = Ran(s) \cup {n}
    BY RanAppend
  <2>3. /\ Len(s) \in Nat /\ DOMAIN s = 1..Len(s)
        /\ Append(s, n) \in Seq(Nodes) /\ DOMAIN Append(s, n) = 1..(Len(s) + 1)
        /\ \A i \in 1..Len(s) : Append(s, n)[i] = s[i]
        /\ Append(s, n)[Len(s) + 1] = n
    OBVIOUS
  <2>4. \A i \in 1..Len(s) : s[i] # n
    BY <1>2, <2>3 DEF Ran
  <2>5. Distinct(Append(s, n))
    BY <2>3, <2>4 DEF Distinct
  <2>6. ASSUME NEW x, NEW y, Before(s, x, y) PROVE Before(Append(s, n), x, y)
    BY <2>3, <2>6 DEF Before
  <2>7. ASSUME NEW x \in Ran(s) PROVE Before(Append(s, n), x, n)
    <3>1. PICK i \in 1..Len(s) : s[i] = x
      BY <2>3 DEF Ran
    <3>2. /\ i \in 1..(Len(s) + 1) /\ Len(s) + 1 \in 1..(Len(s) + 1) /\ i < Len(s) + 1
      BY <2>3
    <3> QED
      BY <2>3, <3>1, <3>2 DEF Before
  <2> QED
    BY <2>1, <2>2, <2>3, <2>5, <2>6, <2>7
<1> QED
  BY <1>1, <1>2

-----------------------------------------------------------------------------
(* The steps before and around the launches.                               *)

LEMMA FusionInvInit == FusionInit => FusionInv
<1> SUFFICES ASSUME FusionInit PROVE FusionInv
  OBVIOUS
<1>0. Ran(<<>>) = {} /\ DOMAIN <<>> = {}
  BY DEF Ran
<1>1. RunInv /\ SchedTypeOK
  BY InvInit DEF FusionInit, SchedInv, RunInv
<1>2. op \in [Nodes -> {"conv", "elt", "other", "conv_elt", "gather"}]
  BY OpsAssumption DEF FusionInit
<1>a. /\ DOMAIN elt_node_in_its \subseteq Nodes
      /\ \A n \in DOMAIN elt_node_in_its : elt_node_in_its[n] \in Seq(Nodes)
  <2>1. /\ DOMAIN elt_node_in_its = Eltwises
        /\ \A n \in Eltwises : elt_node_in_its[n] \in Orderings(Sources(n))
    BY DEF FusionInit
  <2>2. \A n : Sources(n) \in SUBSET Nodes
    BY <1>1, ArcSets DEF Sources, InArcs
  <2>3. \A n : Cardinality(Sources(n)) \in Nat
    BY <2>2, NodesAssumption, FS_Subset, FS_CardinalityType
  <2>4. \A n : \A l \in Orderings(Sources(n)) : l \in Seq(Nodes)
    BY <2>2, <2>3 DEF Orderings
  <2> QED
    BY <2>1, <2>4 DEF Eltwises
<1>3. FusionTypeOK
  BY <1>1, <1>2, <1>a DEF FusionInit, SchedInit, FusionTypeOK
<1>4. StageInv
  BY DEF FusionInit, SchedInit, StageInv
<1>5. PairInv /\ ForceInv /\ HoldInv /\ MergedOnce
  BY DEF FusionInit, PairInv, ForceInv, HoldInv, MergedOnce
<1>6. ListInv
  BY <1>0 DEF FusionInit, ListInv, Distinct
<1> QED
  BY <1>1, <1>3, <1>4, <1>5, <1>6 DEF FusionInv

\* As long as there are no pairs, only the walk matters.
LEMMA FusionWalk ==
  ASSUME FusionInv, NoInputs \/ StartWalk \/ VisitVertex \/ StartRun, UNCHANGED fusionVars
  PROVE  FusionInv'
<1>0. /\ FusionTypeOK /\ RunInv /\ StageInv /\ ForceInv
      /\ _pairs = {} /\ listed = 0 /\ order = <<>> /\ arcs' = arcs
      /\ phase' \in {"fatal", "bfs", "run"} /\ _exec_que' = _exec_que
      /\ UNCHANGED <<op, elt_node_in_its, _node_need_to_wait, _pairs, _force_order, order, listed>>
  BY DEF FusionInv, StageInv, NoInputs, StartWalk, VisitVertex, StartRun, graphVars,
         runVars, fusionVars
<1>1. RunInv'
  BY <1>0, InvNoInputs, InvStartWalk, InvVisitVertex, InvStartRun DEF SchedInv
<1>2. FusionTypeOK'
  BY <1>0, <1>1 DEF FusionTypeOK, RunInv
<1>3. StageInv'
  BY <1>0 DEF StageInv
<1>4. PairInv' /\ ForceInv' /\ HoldInv' /\ MergedOnce'
  BY <1>0 DEF PairInv, ForceInv, HoldInv, MergedOnce
<1>5. ListInv'
  <2>1. Ran(<<>>) = {} /\ DOMAIN <<>> = {}
    BY DEF Ran
  <2> QED
    BY <1>0, <2>1 DEF ListInv, Distinct
<1> QED
  BY <1>1, <1>2, <1>3, <1>4, <1>5 DEF FusionInv

\* Steps that leave the pairs and what was launched alone.
LEMMA PairsKept ==
  ASSUME FusionInv,
         UNCHANGED <<arcs, backup, op, elt_node_in_its, _pairs, _force_order, _wait_que, _exec_que,
                     _node_need_to_wait, order, listed>>
  PROVE  PairInv' /\ ForceInv' /\ HoldInv' /\ MergedOnce' /\ ListInv'
<1>0. PairInv /\ ForceInv /\ HoldInv /\ MergedOnce /\ ListInv
  BY DEF FusionInv
<1>1. PairInv'
  BY <1>0 DEF PairInv, Single, InArcs, OutArcs
<1>2. ForceInv' /\ MergedOnce' /\ ListInv'
  BY <1>0 DEF ForceInv, MergedOnce, ListInv, Binary, Sources, InArcs
<1>3. HoldInv'
  BY <1>0 DEF HoldInv, Binary, Sources, InArcs
<1> QED
  BY <1>1, <1>2, <1>3

LEMMA FusionOutputFails == FusionInv /\ OutputFails => FusionInv'
<1> SUFFICES ASSUME FusionInv, OutputFails PROVE FusionInv'
  OBVIOUS
<1>0. /\ FusionTypeOK /\ RunInv /\ StageInv /\ phase = "run" /\ pos <= Len(_wait_que)
      /\ phase' = "fatal" /\ fatal' = "out_arcs"
      /\ UNCHANGED <<arcs, que, backup, registered, on, _wait_que, pos, wait_que_size,
                     _exec_que, op, elt_node_in_its, _node_need_to_wait, _pairs, _force_order, order,
                     listed>>
  BY DEF FusionInv, OutputFails, Turn, graphVars, tagVars, runVars, fusionVars
<1>1. listed = 0
  BY <1>0 DEF StageInv, RunInv, SchedTypeOK
<1>2. RunInv'
  <2>1. SchedTypeOK' /\ CountInv' /\ TagInv' /\ InputsFirst'
    BY <1>0 DEF RunInv, SchedTypeOK, CountInv, TagInv, InputsFirst
  <2>2. WalkInv'
    BY <1>0 DEF RunInv, WalkInv
  <2> QED
    BY <2>1, <2>2 DEF RunInv
<1>3. FusionTypeOK'
  BY <1>0, <1>2 DEF FusionTypeOK, RunInv
<1>4. StageInv'
  BY <1>0, <1>1 DEF StageInv
<1>5. PairInv' /\ ForceInv' /\ HoldInv' /\ MergedOnce' /\ ListInv'
  BY <1>0, PairsKept
<1> QED
  BY <1>2, <1>3, <1>4, <1>5 DEF FusionInv

LEMMA FusionPass == FusionInv /\ FusionNextPass => FusionInv'
<1> SUFFICES ASSUME FusionInv, FusionNextPass PROVE FusionInv'
  OBVIOUS
<1>0. /\ FusionTypeOK /\ RunInv /\ StageInv
      /\ UNCHANGED <<arcs, phase, backup, _wait_que, _exec_que, op, elt_node_in_its, _node_need_to_wait,
                     _pairs, _force_order, order, listed>>
  BY DEF FusionInv, FusionNextPass, graphVars, fusionVars
<1>1. RunInv'
  BY <1>0, InvPass DEF FusionNextPass, SchedInv
<1>2. FusionTypeOK'
  BY <1>0, <1>1 DEF FusionTypeOK, RunInv
<1>3. StageInv'
  BY <1>0 DEF StageInv
<1>4. PairInv' /\ ForceInv' /\ HoldInv' /\ MergedOnce' /\ ListInv'
  BY <1>0, PairsKept
<1> QED
  BY <1>1, <1>2, <1>3, <1>4 DEF FusionInv

LEMMA FusionSetOrder == FusionInv /\ SetExecOrder => FusionInv'
<1> SUFFICES ASSUME FusionInv, SetExecOrder PROVE FusionInv'
  OBVIOUS
<1>0. /\ FusionTypeOK /\ RunInv /\ StageInv /\ Finish /\ listed > Len(_exec_que)
      /\ phase = "run" /\ phase' = "done" /\ _wait_que = <<>>
      /\ UNCHANGED <<arcs, backup, _wait_que, _exec_que, op, elt_node_in_its, _node_need_to_wait,
                     _pairs, _force_order, order, listed>>
  BY DEF FusionInv, SetExecOrder, Finish, graphVars, runVars, fusionVars
<1>1. RunInv'
  BY <1>0, InvFinish DEF SchedInv
<1>2. FusionTypeOK'
  BY <1>0, <1>1 DEF FusionTypeOK, RunInv
<1>3. listed = Len(_exec_que) + 1 /\ listed # 0
  BY <1>0 DEF FusionTypeOK, SchedTypeOK
<1>4. StageInv'
  BY <1>0, <1>3 DEF StageInv
<1>5. PairInv' /\ ForceInv' /\ HoldInv' /\ MergedOnce' /\ ListInv'
  BY <1>0, PairsKept
<1> QED
  BY <1>1, <1>2, <1>4, <1>5 DEF FusionInv

LEMMA FusionMerge == FusionInv /\ MergePairs => FusionInv'
<1> SUFFICES ASSUME FusionInv, MergePairs PROVE FusionInv'
  OBVIOUS
<1>0. /\ FusionTypeOK /\ RunInv /\ StageInv /\ PairInv /\ ForceInv /\ MergedOnce /\ ListInv
      /\ phase = "run" /\ _wait_que = <<>> /\ listed = 0 /\ listed' = 1
      /\ op' = [n \in Nodes |-> IF \E p \in _pairs : p[1] = n THEN "conv_elt"
                                ELSE IF \E p \in _pairs : p[2] = n THEN "gather"
                                ELSE op[n]]
      /\ UNCHANGED schedVars
      /\ UNCHANGED <<arcs, phase, backup, _wait_que, _exec_que, elt_node_in_its,
                     _node_need_to_wait, _pairs, _force_order, order>>
  BY DEF FusionInv, MergePairs, Launched, schedVars, helperVars
<1>1. RunInv'
  BY <1>0, RunStutter
<1>2. FusionTypeOK'
  <2>1. op' \in [Nodes -> {"conv", "elt", "other", "conv_elt", "gather"}]
    BY <1>0 DEF FusionTypeOK
  <2>2. 1 \in 0..(Len(_exec_que) + 1)
    BY <1>0 DEF FusionTypeOK, SchedTypeOK
  <2> QED
    BY <1>0, <1>1, <2>1, <2>2 DEF FusionTypeOK, RunInv
<1>3. StageInv'
  <2>1. \A n \in Nodes : op'[n] = "elt" => op[n] = "elt"
    BY <1>0
  <2> QED
    BY <1>0, <2>1 DEF StageInv
<1>4. PairInv' /\ ForceInv' /\ HoldInv' /\ MergedOnce'
  BY <1>0 DEF PairInv, ForceInv, HoldInv, MergedOnce, Single, Binary, Sources, InArcs,
            OutArcs
<1>5. ListInv'
  BY <1>0 DEF ListInv, Binary, Sources, InArcs
<1> QED
  BY <1>1, <1>2, <1>3, <1>4, <1>5 DEF FusionInv

-----------------------------------------------------------------------------
(* A convolution is held back.                                             *)

\* n is held back because of p; c is to be merged into e, after d.
Holds(n, p, c, d, e) ==
  /\ n \in Ran(_wait_que) /\ p \in Ran(_wait_que) /\ n # p
  /\ p \notin _node_need_to_wait
  /\ op[n] = "conv" /\ op[c] = "conv"
  /\ \/ c = p /\ d = n /\ op[p] = "conv"
     \/ c = n /\ d = p /\ op[p] # "conv"
  /\ <<c, e>> \in arcs /\ <<d, e>> \in arcs
  /\ _pairs' = _pairs \cup {<<c, e>>}
  /\ _force_order' = [_force_order EXCEPT ![c] = d]
  /\ _node_need_to_wait' = _node_need_to_wait \cup {n}

LEMMA HoldFacts ==
  ASSUME FusionInv, Hold
  PROVE  \E n, p, c, d, e \in Nodes : Holds(n, p, c, d, e)
<1> DEFINE n == _wait_que[pos]
           e == NextOf(n)
<1>0. SchedTypeOK /\ StageInv /\ _wait_que \in Seq(Nodes) /\ pos \in 1..Len(_wait_que)
  BY DEF FusionInv, FusionTypeOK, SchedTypeOK, Hold, Turn
<1>1. n \in Nodes /\ n \in Ran(_wait_que)
  BY <1>0 DEF Ran
<1>2. PICK p \in Sibling(n) :
        /\ p \in Ran(_wait_que)
        /\ _pairs' = _pairs \cup {<<Merge(n, p)[1], e>>}
        /\ _force_order' = [_force_order EXCEPT ![Merge(n, p)[1]] = Merge(n, p)[2]]
  BY DEF Hold
<1>3. OneOutput(n) /\ _node_need_to_wait' = _node_need_to_wait \cup {n}
  BY DEF Hold
<1>4. /\ op[n] = "conv" /\ op[e] = "elt" /\ p # n /\ p \notin _node_need_to_wait
      /\ p \in Sources(e)
  BY <1>2 DEF Siblings, Sibling
<1>5. <<n, e>> \in arcs
  BY <1>0, <1>3, <1>4, OneNext DEF OneOutput
<1>6. e \in Nodes
  BY <1>0, <1>5 DEF SchedTypeOK
<1>7. <<p, e>> \in arcs /\ p \in Nodes
  BY <1>0, <1>4, ArcSets DEF InArcs, Sources
<1> HIDE DEF n, e
<1>9. CASE op[p] = "conv"
  <2>1. Merge(n, p)[1] = p /\ Merge(n, p)[2] = n
    BY <1>9 DEF Merge
  <2>2. Holds(n, p, p, n, e)
    BY <1>1, <1>2, <1>3, <1>4, <1>5, <1>7, <1>9, <2>1 DEF Holds
  <2> QED
    BY <1>1, <1>6, <1>7, <2>2
<1>10. CASE op[p] # "conv"
  <2>1. Merge(n, p)[1] = n /\ Merge(n, p)[2] = p
    BY <1>10 DEF Merge
  <2>2. Holds(n, p, n, p, e)
    BY <1>1, <1>2, <1>3, <1>4, <1>5, <1>7, <1>10, <2>1 DEF Holds
  <2> QED
    BY <1>1, <1>6, <1>7, <2>2
<1> QED
  BY <1>9, <1>10

LEMMA FusionHold == FusionInv /\ Hold => FusionInv'
<1> SUFFICES ASSUME FusionInv, Hold PROVE FusionInv'
  OBVIOUS
<1>0. /\ FusionTypeOK /\ RunInv /\ StageInv /\ PairInv /\ ForceInv /\ HoldInv
      /\ MergedOnce /\ SchedTypeOK /\ PassOver /\ phase = "run" /\ pos <= Len(_wait_que)
      /\ UNCHANGED <<arcs, phase, backup, _wait_que, _exec_que, op, elt_node_in_its, order, listed>>
  BY DEF FusionInv, FusionTypeOK, Hold, Turn, PassOver, graphVars
<1>1. PICK n, p, c, d, e \in Nodes : Holds(n, p, c, d, e)
  BY HoldFacts
<1>2. /\ c # d /\ op[c] = "conv" /\ <<c, e>> \in arcs /\ <<d, e>> \in arcs
      /\ c \in Ran(_wait_que) /\ d \in Ran(_wait_que)
      /\ _pairs' = _pairs \cup {<<c, e>>}
      /\ _force_order' = [_force_order EXCEPT ![c] = d]
      /\ _node_need_to_wait' = _node_need_to_wait \cup {n}
  BY <1>1 DEF Holds
<1>3. listed = 0 /\ order = <<>>
  BY <1>0 DEF StageInv, SchedTypeOK
<1>4. RunInv'
  BY <1>0, RunPassOver
<1>5. c \in backup /\ d \in backup /\ c \notin Ran(_exec_que)
  <2>1. Ran(_wait_que) \cap Ran(_exec_que) = {}
    BY <1>0, WaitingNotLaunched
  <2> QED
    BY <1>0, <1>2, <2>1 DEF RunInv, WalkInv
<1>6. /\ _force_order' \in [Nodes -> Nodes] /\ _force_order'[c] = d
      /\ \A m \in Nodes : m # c => _force_order'[m] = _force_order[m]
  BY <1>0, <1>2 DEF FusionTypeOK
<1>7. FusionTypeOK'
  BY <1>0, <1>2, <1>4, <1>6 DEF FusionTypeOK, RunInv
<1>8. StageInv'
  BY <1>0, <1>3 DEF StageInv
<1>9. PairInv'
  <2> SUFFICES ASSUME NEW q \in _pairs'
               PROVE  /\ q \in arcs /\ q[1] \in backup
                      /\ op[q[1]] = "conv"
                      /\ Single(q[1]) => /\ _force_order'[q[1]] # q[1]
                                         /\ <<_force_order'[q[1]], q[2]>> \in arcs
                      /\ q[1] \in Ran(_exec_que) => Single(q[1])
    BY <1>0 DEF PairInv, Single, InArcs, OutArcs
  <2>1. CASE q = <<c, e>>
    BY <1>2, <1>5, <1>6, <2>1
  <2>2. CASE q # <<c, e>>
    <3>1. /\ q \in arcs /\ q[1] \in backup
          /\ op[q[1]] = "conv"
          /\ Single(q[1]) => /\ _force_order[q[1]] # q[1]
                             /\ <<_force_order[q[1]], q[2]>> \in arcs
          /\ q[1] \in Ran(_exec_que) => Single(q[1])
      BY <1>0, <1>2, <1>3, <2>2 DEF PairInv
    <3>2. q[1] \in Nodes
      BY <1>0, <3>1, ArcSets
    <3>3. Single(q[1]) => q[1] # c
      BY <1>2, <2>2, <3>1 DEF Single, OutArcs
    <3> QED
      BY <1>6, <3>1, <3>2, <3>3
  <2> QED
    BY <2>1, <2>2
<1>10. ForceInv'
  <2> SUFFICES ASSUME NEW m \in Nodes, _force_order'[m] # m
               PROVE  _force_order'[m] \in backup /\ \E q \in _pairs' : q[1] = m
    BY <1>0 DEF ForceInv
  <2>1. CASE m = c
    <3>1. <<c, e>> \in _pairs' /\ <<c, e>>[1] = m
      BY <1>2, <2>1
    <3> QED
      BY <1>5, <1>6, <2>1, <3>1
  <2>2. CASE m # c
    BY <1>0, <1>2, <1>6, <2>2 DEF ForceInv
  <2> QED
    BY <2>1, <2>2
\* If the inputs of e are two, they are c and d.
<1>11. Binary(e) => \A m \in Sources(e) : m = c \/ m = d
  BY <1>0, <1>2, TwoInputs
<1>a. /\ \A m : Sources(m)' = Sources(m) /\ (Binary(m)' <=> Binary(m))
  BY <1>0 DEF Binary, Sources, InArcs
<1>12. HoldInv'
  <2> SUFFICES ASSUME NEW q \in _pairs', Binary(q[2]), NEW m \in Sources(q[2]) \ {q[1]},
                      op[m] = "conv"
               PROVE  m \in _node_need_to_wait' \/ q[1] \notin Ran(_wait_que)
    BY <1>0, <1>a DEF HoldInv
  <2>1. CASE q = <<c, e>>
    <3>1. m = d
      BY <1>11, <2>1
    <3>2. d = n
      BY <1>1, <3>1 DEF Holds
    <3> QED
      BY <1>2, <3>1, <3>2
  <2>2. CASE q # <<c, e>>
    BY <1>0, <1>2, <1>3, <2>2 DEF HoldInv
  <2> QED
    BY <2>1, <2>2
\* The other input is in no pair: it would be the vertex that is held back.
<1>13. ASSUME NEW r \in _pairs, r[2] = e, Binary(e) PROVE r[1] = c
  <2>1. r \in arcs /\ op[r[1]] = "conv" /\ r[1] \in Sources(e)
    BY <1>0, <1>3, <1>13 DEF PairInv, InArcs, Sources
  <2>2. SUFFICES ASSUME r[1] = d PROVE FALSE
    BY <1>11, <1>13, <2>1
  <2>3. c = p /\ d = n /\ op[p] = "conv" /\ p \notin _node_need_to_wait /\ n # p
    BY <1>1, <2>1, <2>2 DEF Holds
  <2>4. c \in Sources(r[2]) \ {r[1]}
    BY <1>2, <1>13, <2>2 DEF InArcs, Sources
  <2>5. c \in _node_need_to_wait \/ d \notin Ran(_wait_que)
    BY <1>0, <1>2, <1>3, <1>13, <2>2, <2>4 DEF HoldInv
  <2> QED
    BY <1>2, <2>3, <2>5
<1>14. MergedOnce'
  <2> SUFFICES ASSUME NEW q \in _pairs', NEW r \in _pairs', q[2] = r[2], Binary(q[2])
               PROVE  q[1] = r[1]
    BY <1>a DEF MergedOnce
  <2>1. CASE q = <<c, e>> \/ r = <<c, e>>
    BY <1>2, <1>13, <2>1
  <2>2. CASE q # <<c, e>> /\ r # <<c, e>>
    BY <1>0, <1>2, <2>2 DEF MergedOnce
  <2> QED
    BY <2>1, <2>2
<1>15. ListInv'
  <2>1. Ran(<<>>) = {} /\ DOMAIN <<>> = {}
    BY DEF Ran
  <2> QED
    BY <1>0, <1>3, <2>1 DEF ListInv, Distinct
<1> QED
  BY <1>4, <1>7, <1>8, <1>9, <1>10, <1>12, <1>14, <1>15 DEF FusionInv

-----------------------------------------------------------------------------
(* A vertex is launched, or waits for its inputs.                          *)

LEMMA FusionTry == FusionInv /\ Try => FusionInv'
<1> SUFFICES ASSUME FusionInv, Try PROVE FusionInv'
  OBVIOUS
<1> DEFINE n == _wait_que[pos]
<1>0. /\ FusionTypeOK /\ RunInv /\ StageInv /\ PairInv /\ ForceInv /\ HoldInv
      /\ MergedOnce /\ SchedTypeOK /\ phase = "run" /\ OneOutput(n)
      /\ pos \in 1..Len(_wait_que) /\ _wait_que \in Seq(Nodes) /\ _exec_que \in Seq(Nodes)
      /\ UNCHANGED <<op, elt_node_in_its, _pairs, _force_order, order, listed>>
  BY DEF FusionInv, FusionTypeOK, SchedTypeOK, Try, Turn
<1>1. listed = 0 /\ order = <<>>
  BY <1>0 DEF StageInv
<1>2. n \in Nodes /\ n \in Ran(_wait_que)
  BY <1>0 DEF Ran
<1>3. RunInv' /\ arcs' = arcs /\ backup' = backup /\ phase' = phase
  <2>1. CASE launch
    BY <1>0, <2>1, RunLaunch DEF launch, graphVars
  <2>2. CASE skip
    BY <1>0, <2>2, RunPassOver DEF skip, PassOver, graphVars
  <2> QED
    BY <2>1, <2>2 DEF Try
<1>4. /\ Ran(_wait_que') \subseteq Ran(_wait_que)
      /\ Ran(_exec_que') \subseteq Ran(_exec_que) \cup {n}
      /\ Len(_exec_que') \in Nat /\ Len(_exec_que') >= Len(_exec_que)
  <2>1. CASE launch
    <3>a. Ran(_wait_que) = Ran(Erase(_wait_que, pos)) \cup {n}
      BY <1>0, EraseFacts
    <3>b. Ran(Append(_exec_que, n)) = Ran(_exec_que) \cup {n}
      BY <1>0, <1>2, RanAppend
    <3>c. Len(Append(_exec_que, n)) = Len(_exec_que) + 1 /\ Len(_exec_que) \in Nat
      BY <1>0, <1>2
    <3>1. /\ Ran(_wait_que) = Ran(Erase(_wait_que, pos)) \cup {n}
          /\ Ran(Append(_exec_que, n)) = Ran(_exec_que) \cup {n}
          /\ Len(Append(_exec_que, n)) = Len(_exec_que) + 1 /\ Len(_exec_que) \in Nat
      BY <3>a, <3>b, <3>c
    <3>2. _wait_que' = Erase(_wait_que, pos) /\ _exec_que' = Append(_exec_que, n)
      BY <2>1 DEF launch
    <3> HIDE DEF n
    <3> QED
      BY <3>1, <3>2
  <2>2. CASE skip
    BY <1>0, <2>2 DEF skip
  <2> QED
    BY <2>1, <2>2 DEF Try
<1>5. \/ _node_need_to_wait' = _node_need_to_wait
      \/ /\ Siblings(n) \ Ran(_wait_que) # {}
         /\ _node_need_to_wait' = _node_need_to_wait \ {n}
  BY DEF Try, Sibling
<1> HIDE DEF n
<1>6. FusionTypeOK'
  BY <1>0, <1>1, <1>3, <1>4, <1>5 DEF FusionTypeOK, RunInv
<1>7. StageInv'
  BY <1>0, <1>1, <1>3 DEF StageInv
<1>8. PairInv'
  <2>1. ASSUME NEW q \in _pairs, q[1] \in Ran(_exec_que') PROVE Single(q[1])
    <3>1. CASE q[1] = n
      <4>1. op[n] = "conv"
        BY <1>0, <1>1, <3>1 DEF PairInv
      <4> QED
        BY <1>0, <3>1, <4>1, OneNext DEF OneOutput
    <3>2. CASE q[1] # n
      BY <1>0, <1>4, <2>1, <3>2 DEF PairInv
    <3> QED
      BY <3>1, <3>2
  <2>2. \A m : InArcs(m)' = InArcs(m) /\ (Single(m)' <=> Single(m))
    BY <1>3 DEF Single, InArcs, OutArcs
  <2> QED
    BY <1>0, <1>3, <2>1, <2>2 DEF PairInv
<1>9. ForceInv' /\ MergedOnce'
  BY <1>0, <1>3 DEF ForceInv, MergedOnce, Binary, Sources, InArcs
<1>10. HoldInv'
  <2> SUFFICES ASSUME NEW q \in _pairs, Binary(q[2]), NEW m \in Sources(q[2]) \ {q[1]},
                      op[m] = "conv", q[1] \in Ran(_wait_que)
               PROVE  m \in _node_need_to_wait'
    BY <1>0, <1>3, <1>4 DEF HoldInv, Binary, Sources, InArcs
  <2>1. m \in _node_need_to_wait
    BY <1>0, <1>1 DEF HoldInv
  <2>2. SUFFICES ASSUME m = n, Siblings(n) \ Ran(_wait_que) # {} PROVE FALSE
    BY <1>5, <2>1
  <2>3. <<n, q[2]>> \in arcs /\ q \in arcs
    BY <1>0, <2>2, ArcSets DEF InArcs, Sources, PairInv
  <2>4. Single(n) /\ <<n, NextOf(n)>> \in arcs
    BY <1>0, <2>2, OneNext DEF OneOutput
  <2>5. <<n, q[2]>> = <<n, NextOf(n)>>
    BY <2>3, <2>4 DEF Single, OutArcs
  <2>6. NextOf(n) = q[2]
    BY <2>5
  <2>7. PICK k \in Sources(q[2]) : k # n /\ k \notin Ran(_wait_que)
    BY <2>2, <2>6 DEF Siblings
  <2>8. <<q[1], q[2]>> \in arcs /\ q[1] # n
    BY <1>0, <2>2, <2>3, ArcSets
  <2>9. k = n \/ k = q[1]
    BY <1>0, <2>3, <2>8, TwoInputs
  <2> QED
    BY <2>7, <2>9
<1>11. ListInv'
  <2>1. Ran(<<>>) = {} /\ DOMAIN <<>> = {}
    BY DEF Ran
  <2> QED
    BY <1>0, <1>1, <2>1 DEF ListInv, Distinct
<1> QED
  BY <1>3, <1>6, <1>7, <1>8, <1>9, <1>10, <1>11 DEF FusionInv

-----------------------------------------------------------------------------
(* The order is made.                                                      *)

\* All vertices are launched when it begins.
LEMMA AllLaunched ==
  ASSUME RunInv, phase \in {"run", "done"}, _wait_que = <<>>
  PROVE  Ran(_exec_que) = backup /\ Len(_exec_que) = Cardinality(backup)
<1>1. Ran(<<>>) = {} /\ Len(<<>>) = 0 /\ Len(_exec_que) \in Nat
  BY DEF Ran, RunInv, SchedTypeOK
<1>2. /\ Ran(_wait_que) \cup Ran(_exec_que) = backup
      /\ Len(_wait_que) + Len(_exec_que) = Cardinality(backup)
  BY InvImplies DEF NodesConserved
<1>3. Ran(_wait_que) = {} /\ Len(_wait_que) = 0
  BY <1>1
<1>4. 0 + Len(_exec_que) = Len(_exec_que)
  BY <1>1
<1> QED
  BY <1>2, <1>3, <1>4

\* The convolution merged with an Eltwise of two inputs is forced before no other.
LEMMA ForcedNotMerged ==
  ASSUME FusionInv, Ran(_exec_que) = backup, NEW n \in Nodes, NEW q \in _pairs,
         Binary(q[2]), _force_order[n] # n
  PROVE  _force_order[n] # q[1]
<1>0. SchedTypeOK /\ PairInv /\ ForceInv /\ MergedOnce
  BY DEF FusionInv, FusionTypeOK
<1>1. SUFFICES ASSUME _force_order[n] = q[1] PROVE FALSE
  OBVIOUS
<1>2. PICK r \in _pairs : r[1] = n
  BY <1>0 DEF ForceInv
<1>3. Single(r[1]) /\ Single(q[1]) /\ q \in arcs
  BY <1>0 DEF PairInv
<1>4. <<q[1], r[2]>> \in arcs
  BY <1>0, <1>1, <1>2, <1>3 DEF PairInv
<1>5. q = <<q[1], r[2]>>
  BY <1>3, <1>4 DEF Single, OutArcs
<1>6. q[2] = r[2]
  BY <1>5
<1>7. q[1] = n
  BY <1>0, <1>2, <1>6 DEF MergedOnce
<1> QED
  BY <1>1, <1>7

LEMMA FusionList == FusionInv /\ get_exec_node_in_order => FusionInv'
<1> SUFFICES ASSUME FusionInv, get_exec_node_in_order PROVE FusionInv'
  OBVIOUS
<1> DEFINE n == _exec_que[listed]
           f == _force_order[n]
           w == WithForced(listed)
<1>0. /\ FusionTypeOK /\ RunInv /\ SchedTypeOK /\ StageInv /\ PairInv /\ ForceInv
      /\ MergedOnce /\ ListInv
      /\ phase = "run" /\ _wait_que = <<>>
      /\ listed \in 1..Len(_exec_que) /\ listed' = listed + 1
      /\ order \in Seq(Nodes) /\ _exec_que \in Seq(Nodes)
      /\ _force_order \in [Nodes -> Nodes] /\ Len(_exec_que) \in Nat
      /\ UNCHANGED schedVars
      /\ UNCHANGED <<arcs, phase, backup, _wait_que, _exec_que, op, elt_node_in_its, _node_need_to_wait,
                     _pairs, _force_order>>
  BY DEF FusionInv, FusionTypeOK, SchedTypeOK, get_exec_node_in_order, Launched,
         schedVars, helperVars
<1>1. order' = PushNew(w, n) /\ n \in Nodes /\ f \in Nodes /\ n \in Ran(_exec_que)
  BY <1>0 DEF get_exec_node_in_order, Ran
<1>2. w = IF Moved(listed) THEN PushNew(order, f) ELSE order
  BY DEF WithForced
<1>3. Ran(_exec_que) = backup
  BY <1>0, AllLaunched
<1>4. Distinct(order) /\ Ran(order) \subseteq backup
  BY <1>0 DEF ListInv
<1>5. Moved(listed) => f \in backup
  BY <1>0, <1>3 DEF Moved, Ran
<1> HIDE DEF w
<1>6. /\ w \in Seq(Nodes) /\ Distinct(w) /\ Ran(order) \subseteq Ran(w)
      /\ Ran(w) \subseteq backup
      /\ \A x, y : Before(order, x, y) => Before(w, x, y)
      /\ Ran(w) \subseteq Ran(order) \cup {f}
      /\ Moved(listed) => f \in Ran(w)
      /\ ~Moved(listed) => w = order
  <2>1. CASE Moved(listed)
    <3>1. /\ PushNew(order, f) \in Seq(Nodes) /\ Distinct(PushNew(order, f))
          /\ Ran(PushNew(order, f)) = Ran(order) \cup {f}
          /\ \A x, y : Before(order, x, y) => Before(PushNew(order, f), x, y)
      BY <1>0, <1>1, <1>4, PushNewFacts
    <3> QED
      BY <1>2, <1>4, <1>5, <2>1, <3>1
  <2>2. CASE ~Moved(listed)
    BY <1>0, <1>2, <1>4, <2>2
  <2> QED
    BY <2>1, <2>2
<1>7. /\ order' \in Seq(Nodes) /\ Distinct(order')
      /\ Ran(order') = Ran(w) \cup {n}
      /\ \A x, y : Before(w, x, y) => Before(order', x, y)
      /\ \A x \in Ran(w) : n \notin Ran(w) => Before(order', x, n)
  BY <1>1, <1>6, PushNewFacts
\* A vertex that has a forced one finds it listed.
<1>8. ASSUME f # n PROVE f \in Ran(w)
  <2>1. f \in Ran(_exec_que)
    <3>1. \A x \in Nodes : _force_order[x] # x => _force_order[x] \in backup
      BY <1>0 DEF ForceInv
    <3>2. n \in Nodes /\ _force_order[n] # n
      BY <1>1, <1>8
    <3> HIDE DEF n
    <3>3. f \in backup
      BY <3>1, <3>2
    <3> QED
      BY <1>3, <3>3
  <2>2. PICK j \in 1..Len(_exec_que) : _exec_que[j] = f
    <3>1. DOMAIN _exec_que = 1..Len(_exec_que)
      BY <1>0
    <3> HIDE DEF f
    <3> QED
      BY <2>1, <3>1 DEF Ran
  <2>3. CASE j > listed
    <3>1. j \in (listed + 1)..Len(_exec_que)
      BY <1>0, <2>2, <2>3
    <3>2. Moved(listed)
      BY <2>2, <3>1 DEF Moved
    <3> QED
      BY <1>6, <3>2
  <2>4. CASE j < listed
    <3>1. j \in 1..(listed - 1)
      BY <1>0, <2>2, <2>4
    <3> QED
      BY <1>0, <1>6, <2>2, <3>1 DEF ListInv
  <2>5. j # listed
    BY <1>8, <2>2
  <2> QED
    BY <1>0, <2>2, <2>3, <2>4, <2>5
<1>9. ASSUME NEW q \in _pairs, Binary(q[2]), q[1] \in Ran(order')
      PROVE  Before(order', _force_order[q[1]], q[1])
  <2>0. q[1] \in Nodes /\ _force_order[q[1]] # q[1]
    <3>1. q \in arcs /\ Single(q[1])
      BY <1>0, <1>3 DEF PairInv
    <3> QED
      BY <1>0, <3>1, ArcSets DEF PairInv
  <2>1. CASE q[1] \in Ran(order)
    <3>1. Before(order, _force_order[q[1]], q[1])
      BY <1>0, <1>9, <2>1 DEF ListInv
    <3> QED
      BY <1>6, <1>7, <3>1
  <2>2. CASE q[1] = n /\ n \notin Ran(w)
    BY <1>7, <1>8, <2>0, <2>2
  <2>3. CASE q[1] = f /\ q[1] # n
    BY <1>1, <1>3, <1>9, <2>3, ForcedNotMerged
  <2>4. q[1] = n \/ q[1] = f \/ q[1] \in Ran(order)
    BY <1>6, <1>7, <1>9
  <2>5. CASE q[1] = n /\ n \in Ran(w) /\ n \notin Ran(order)
    BY <1>6, <2>0, <2>5
  <2> QED
    BY <2>1, <2>2, <2>3, <2>4, <2>5
<1>10. ListInv'
  <2>1. ASSUME NEW i \in 1..listed PROVE _exec_que[i] \in Ran(order')
    <3>1. CASE i = listed
      BY <1>7, <3>1
    <3>2. CASE i # listed
      <4>1. i \in 1..(listed - 1)
        BY <1>0, <3>2
      <4>2. _exec_que[i] \in Ran(order)
        BY <1>0, <4>1 DEF ListInv
      <4> QED
        BY <1>6, <1>7, <4>2
    <3> QED
      BY <3>1, <3>2
  <2>2. listed' - 1 = listed
    BY <1>0
  <2>3. Ran(order') \subseteq backup
    BY <1>1, <1>3, <1>6, <1>7
  <2>4. \A e : Binary(e)' <=> Binary(e)
    BY <1>0 DEF Binary, Sources, InArcs
  <2> QED
    BY <1>0, <1>7, <1>9, <2>1, <2>2, <2>3, <2>4 DEF ListInv
<1>11. RunInv'
  BY <1>0, RunStutter
<1>12. listed' # 0 /\ listed # 0 /\ listed' \in 0..(Len(_exec_que) + 1)
  BY <1>0
<1>13. FusionTypeOK'
  BY <1>0, <1>7, <1>11, <1>12 DEF FusionTypeOK, RunInv
<1>14. StageInv'
  BY <1>0, <1>12 DEF StageInv
<1>15. PairInv' /\ ForceInv' /\ HoldInv' /\ MergedOnce'
  <2>1. PairInv'
    BY <1>0, <1>12 DEF PairInv, Single, InArcs, OutArcs
  <2>2. ForceInv' /\ HoldInv' /\ MergedOnce'
    BY <1>0, <1>12 DEF ForceInv, HoldInv, MergedOnce, Binary, Sources, InArcs
  <2> QED
    BY <2>1, <2>2
<1> QED
  BY <1>10, <1>11, <1>13, <1>14, <1>15 DEF FusionInv

LEMMA FusionInvNext == FusionInv /\ [FusionNext]_allVars => FusionInv'
<1> SUFFICES ASSUME FusionInv, [FusionNext]_allVars PROVE FusionInv'
  OBVIOUS
<1>1. CASE UNCHANGED allVars
  <2>0. /\ FusionTypeOK /\ RunInv /\ StageInv /\ UNCHANGED schedVars
        /\ UNCHANGED <<arcs, phase, backup, op, elt_node_in_its, _pairs, _force_order, _wait_que,
                       _exec_que, _node_need_to_wait, order, listed>>
    BY <1>1 DEF allVars, schedVars, fusionVars, FusionInv
  <2>1. RunInv'
    BY <2>0, RunStutter
  <2>2. FusionTypeOK' /\ StageInv'
    BY <2>0, <2>1 DEF FusionTypeOK, RunInv, StageInv, InArcs
  <2>3. PairInv' /\ ForceInv' /\ HoldInv' /\ MergedOnce' /\ ListInv'
    BY <2>0, PairsKept
  <2> QED
    BY <2>1, <2>2, <2>3 DEF FusionInv
<1> QED
  BY <1>1, FusionWalk, FusionOutputFails, FusionHold, FusionTry, FusionPass, FusionMerge,
     FusionList, FusionSetOrder DEF FusionNext

LEMMA FusionInvariant == FusionSpec => []FusionInv
BY FusionInvInit, FusionInvNext, PTL DEF FusionSpec

-----------------------------------------------------------------------------
(* The theorems.                                                           *)

\* Every variable keeps its type: op_it stays inside _wait_que although
\* callable() holds vertices back, and the list is never read past its end.
THEOREM FusionTypeCorrect == FusionSpec => []FusionTypeOK
<1>1. FusionInv => FusionTypeOK
  BY DEF FusionInv
<1> QED
  BY <1>1, FusionInvariant, PTL

\* An Eltwise of two inputs is merged into one of its convolutions at most, in
\* whichever order callable() comes to them and however often.
THEOREM EltwiseMergedOnce == FusionSpec => []MergedOnce
<1>1. FusionInv => MergedOnce
  BY DEF FusionInv
<1> QED
  BY <1>1, FusionInvariant, PTL

\* get_exec_node_in_order loses and repeats no vertex when it moves some.
THEOREM FusedOrderIsComplete == FusionSpec => []FusedOrderComplete
<1>1. FusionInv => FusedOrderComplete
  <2>1. SUFFICES ASSUME FusionInv, phase = "done"
                 PROVE Ran(order) = backup /\ Len(order) = Cardinality(backup)
    BY DEF FusedOrderComplete
  <2>2. /\ RunInv /\ ListInv /\ listed = Len(_exec_que) + 1 /\ order \in Seq(Nodes)
        /\ _exec_que \in Seq(Nodes) /\ _wait_que = <<>>
    BY <2>1 DEF FusionInv, StageInv, FusionTypeOK, RunInv, WalkInv, SchedTypeOK
  <2>3. Ran(_exec_que) = backup
    BY <2>1, <2>2, AllLaunched
  <2>4. listed - 1 = Len(_exec_que) /\ DOMAIN _exec_que = 1..Len(_exec_que)
    BY <2>2
  <2>5. Ran(_exec_que) \subseteq Ran(order)
    BY <2>2, <2>4 DEF ListInv, Ran
  <2>6. Ran(order) = backup
    BY <2>2, <2>3, <2>5 DEF ListInv
  <2>7. Cardinality(Ran(order)) = Len(order)
    BY <2>2, DistinctLength DEF ListInv
  <2> QED
    BY <2>6, <2>7
<1> QED
  BY <1>1, FusionInvariant, PTL

\* In the order that is set, a convolution merged with an Eltwise of two inputs
\* is behind the vertex that computes its addend.
THEOREM AddendIsReady == FusionSpec => []AddendReady
<1>1. FusionInv => AddendReady
  <2>1. SUFFICES ASSUME FusionInv, phase = "done", NEW q \in _pairs, Binary(q[2]),
                        NEW m \in Sources(q[2]) \ {q[1]}
                 PROVE  Before(order, m, q[1])
    BY DEF AddendReady
  <2>2. /\ RunInv /\ SchedTypeOK /\ ListInv /\ PairInv /\ _wait_que = <<>>
        /\ listed = Len(_exec_que) + 1 /\ _exec_que \in Seq(Nodes)
    BY <2>1 DEF FusionInv, StageInv, FusionTypeOK, RunInv, WalkInv, SchedTypeOK
  <2>3. Ran(_exec_que) = backup
    BY <2>1, <2>2, AllLaunched
  <2>4. /\ q \in arcs /\ q[1] \in Ran(_exec_que)
        /\ _force_order[q[1]] # q[1] /\ <<_force_order[q[1]], q[2]>> \in arcs
    BY <2>2, <2>3 DEF PairInv
  <2>5. <<q[1], q[2]>> \in arcs
    BY <2>2, <2>4, ArcSets
  <2>6. m = _force_order[q[1]]
    BY <2>1, <2>2, <2>4, <2>5, TwoInputs
  <2>7. listed - 1 = Len(_exec_que) /\ DOMAIN _exec_que = 1..Len(_exec_que)
    BY <2>2
  <2>8. q[1] \in Ran(order)
    BY <2>2, <2>4, <2>7 DEF ListInv, Ran
  <2> QED
    BY <2>1, <2>2, <2>6, <2>8 DEF ListInv
<1> QED
  BY <1>1, FusionInvariant, PTL

\* A merged convolution has no reader but its Eltwise: callable() may register it
\* before it has looked at its outputs, but launches it only after that.
THEOREM MergedFeedsItsEltwise == FusionSpec => []MergedHasOneReader
<1>1. FusionInv => MergedHasOneReader
  <2>1. SUFFICES ASSUME FusionInv, phase = "done", NEW q \in _pairs
                 PROVE  OutArcs(q[1]) = {q}
    BY DEF MergedHasOneReader
  <2>2. RunInv /\ PairInv /\ _wait_que = <<>>
    BY <2>1 DEF FusionInv, StageInv, RunInv, WalkInv
  <2>3. Ran(_exec_que) = backup
    BY <2>1, <2>2, AllLaunched
  <2>4. q \in OutArcs(q[1]) /\ Single(q[1])
    BY <2>2, <2>3 DEF PairInv, OutArcs
  <2> QED
    BY <2>4 DEF Single
<1> QED
  BY <1>1, FusionInvariant, PTL

\* The order of the launches, before vertices are moved, is topological, also
\* where convolutions are held back.
THEOREM LaunchesAreTopological == FusionSpec => []TopologicalOrder
<1>1. FusionInv => TopologicalOrder
  BY InvImplies DEF FusionInv
<1> QED
  BY <1>1, FusionInvariant, PTL
=============================================================================
