--------------------------- MODULE SchedulerProofs --------------------------
(* Proofs about Scheduler, for every finite set of vertices and every      *)
(* graph on it.                                                            *)
EXTENDS Scheduler, FiniteSetTheorems, TLAPS

-----------------------------------------------------------------------------
(* Sequences.                                                              *)

\* Appending adds one element to the range.

LEMMA RanAppend ==
  ASSUME NEW S, NEW s \in Seq(S), NEW x \in S
  PROVE  Ran(Append(s, x)) = Ran(s) \cup {x}
<1>1. /\ Append(s, x) \in Seq(S) /\ Len(Append(s, x)) = Len(s) + 1
      /\ \A i \in 1..Len(s) : Append(s, x)[i] = s[i]
      /\ Append(s, x)[Len(s) + 1] = x
  OBVIOUS
<1>2. DOMAIN s = 1..Len(s) /\ DOMAIN Append(s, x) = 1..(Len(s) + 1) /\ Len(s) \in Nat
  OBVIOUS
<1>3. ASSUME NEW y \in Ran(Append(s, x)) PROVE y \in Ran(s) \cup {x}
  BY <1>1, <1>2 DEF Ran
<1>4. ASSUME NEW y \in Ran(s) \cup {x} PROVE y \in Ran(Append(s, x))
  <2>1. CASE y = x
    BY <1>1, <1>2, <2>1 DEF Ran
  <2>2. CASE y \in Ran(s)
    <3>1. PICK i \in 1..Len(s) : y = s[i]
      BY <2>2, <1>2 DEF Ran
    <3> QED
      BY <3>1, <1>1, <1>2 DEF Ran
  <2> QED
    BY <2>1, <2>2, <1>4
<1> QED
  BY <1>3, <1>4

\* erase() takes one element out, everything else stays.

LEMMA EraseFacts ==
  ASSUME NEW S, NEW s \in Seq(S), NEW p \in 1..Len(s)
  PROVE  /\ Erase(s, p) \in Seq(S)
         /\ Len(Erase(s, p)) = Len(s) - 1
         /\ DOMAIN Erase(s, p) = 1..(Len(s) - 1)
         /\ \A j \in 1..(Len(s) - 1) :
              Erase(s, p)[j] = IF j < p THEN s[j] ELSE s[j + 1]
         /\ Ran(s) = Ran(Erase(s, p)) \cup {s[p]}
<1> DEFINE e == Erase(s, p)
<1>0. Len(s) \in Nat /\ DOMAIN s = 1..Len(s) /\ \A i \in 1..Len(s) : s[i] \in S
  OBVIOUS
<1>1. /\ DOMAIN e = 1..(Len(s) - 1)
      /\ \A j \in 1..(Len(s) - 1) : e[j] = IF j < p THEN s[j] ELSE s[j + 1]
  BY DEF Erase
<1>2. e \in [1..(Len(s) - 1) -> S]
  <2>1. \A j \in 1..(Len(s) - 1) : (IF j < p THEN s[j] ELSE s[j + 1]) \in S
    BY <1>0
  <2> QED
    BY <2>1 DEF Erase
<1>3. e \in Seq(S) /\ Len(e) = Len(s) - 1
  <2>1. Len(s) - 1 \in Nat
    BY <1>0
  <2> QED
    BY <1>2, <2>1
<1>4. ASSUME NEW y \in Ran(s) PROVE y \in Ran(e) \cup {s[p]}
  <2>1. PICK i \in 1..Len(s) : y = s[i]
    BY <1>0 DEF Ran
  <2>2. CASE i < p
    <3>1. i \in 1..(Len(s) - 1) /\ e[i] = s[i]
      BY <1>0, <1>1, <2>2
    <3> QED
      BY <3>1, <2>1, <1>1 DEF Ran
  <2>3. CASE i > p
    <3>1. i - 1 \in 1..(Len(s) - 1) /\ e[i - 1] = s[i]
      BY <1>0, <1>1, <2>3
    <3> QED
      BY <3>1, <2>1, <1>1 DEF Ran
  <2>4. CASE i = p
    BY <2>1, <2>4
  <2> QED
    BY <2>2, <2>3, <2>4, <1>0
<1>5. ASSUME NEW y \in Ran(e) \cup {s[p]} PROVE y \in Ran(s)
  <2>1. CASE y = s[p]
    BY <2>1, <1>0 DEF Ran
  <2>2. CASE y \in Ran(e)
    <3>1. PICK j \in 1..(Len(s) - 1) : y = e[j]
      BY <2>2, <1>1 DEF Ran
    <3>2. j \in 1..Len(s) /\ j + 1 \in 1..Len(s) /\ (y = s[j] \/ y = s[j + 1])
      BY <3>1, <1>0, <1>1
    <3> QED
      BY <3>2, <1>0 DEF Ran
  <2> QED
    BY <2>1, <2>2, <1>5
<1> QED
  BY <1>1, <1>3, <1>4, <1>5

\* The range of a sequence made of a tail and another one.

LEMMA RanTailConcat ==
  ASSUME NEW S, NEW s \in Seq(S), s # <<>>, NEW t \in Seq(S)
  PROVE  /\ Tail(s) \o t \in Seq(S)
         /\ Len(Tail(s) \o t) = Len(s) - 1 + Len(t)
         /\ Ran(s) \cup Ran(t) = {Head(s)} \cup Ran(Tail(s) \o t)
<1> DEFINE u == Tail(s) \o t
<1>0. /\ Len(s) \in Nat \ {0} /\ DOMAIN s = 1..Len(s)
      /\ Len(t) \in Nat /\ DOMAIN t = 1..Len(t)
      /\ Head(s) = s[1] /\ Head(s) \in S
      /\ Tail(s) \in Seq(S) /\ Len(Tail(s)) = Len(s) - 1
      /\ \A i \in 1..(Len(s) - 1) : Tail(s)[i] = s[i + 1]
  OBVIOUS
<1>1. /\ u \in Seq(S) /\ Len(u) = Len(s) - 1 + Len(t) /\ DOMAIN u = 1..Len(u)
      /\ \A i \in 1..Len(u) : u[i] = IF i <= Len(s) - 1 THEN Tail(s)[i]
                                                       ELSE t[i - (Len(s) - 1)]
  BY <1>0
<1> HIDE DEF u
<1>2. ASSUME NEW y \in Ran(s) PROVE y \in {Head(s)} \cup Ran(u)
  <2>1. PICK i \in 1..Len(s) : y = s[i]
    BY <1>0 DEF Ran
  <2>2. CASE i = 1
    BY <2>1, <2>2, <1>0
  <2>3. CASE i # 1
    <3>1. i - 1 \in 1..Len(u) /\ u[i - 1] = s[i]
      BY <2>3, <1>0, <1>1
    <3> QED
      BY <3>1, <2>1, <1>1 DEF Ran
  <2> QED
    BY <2>2, <2>3
<1>3. ASSUME NEW y \in Ran(t) PROVE y \in Ran(u)
  <2>1. PICK i \in 1..Len(t) : y = t[i]
    BY <1>0 DEF Ran
  <2>2. i + Len(s) - 1 \in 1..Len(u) /\ u[i + Len(s) - 1] = t[i]
    BY <1>0, <1>1
  <2> QED
    BY <2>2, <2>1, <1>1 DEF Ran
<1>4. ASSUME NEW y \in Ran(u) PROVE y \in Ran(s) \cup Ran(t)
  <2>1. PICK i \in 1..Len(u) : y = u[i]
    BY <1>1 DEF Ran
  <2>2. CASE i <= Len(s) - 1
    <3>1. i + 1 \in 1..Len(s) /\ y = s[i + 1]
      BY <2>1, <2>2, <1>0, <1>1
    <3> QED
      BY <3>1, <1>0 DEF Ran
  <2>3. CASE i > Len(s) - 1
    <3>1. i - (Len(s) - 1) \in 1..Len(t) /\ y = t[i - (Len(s) - 1)]
      BY <2>1, <2>3, <1>0, <1>1
    <3> QED
      BY <3>1, <1>0 DEF Ran
  <2> QED
    BY <2>2, <2>3, <1>0, <1>1
<1>5. Head(s) \in Ran(s)
  BY <1>0 DEF Ran
<1>6. Ran(s) \cup Ran(t) = {Head(s)} \cup Ran(u)
  BY <1>2, <1>3, <1>4, <1>5
<1> QED
  BY <1>1, <1>6 DEF u

\* Orderings of a finite set are sequences without repetition.

LEMMA OrderingFacts ==
  ASSUME NEW S, IsFiniteSet(S), NEW s \in Orderings(S)
  PROVE  s \in Seq(S) /\ Len(s) = Cardinality(S) /\ Ran(s) = S
<1>1. Cardinality(S) \in Nat
  BY FS_CardinalityType
<1> QED
  BY <1>1 DEF Orderings

\* A sequence has at least as many elements as its range.
LEMMA RanCardinality ==
  ASSUME NEW S, NEW s \in Seq(S)
  PROVE  IsFiniteSet(Ran(s)) /\ Cardinality(Ran(s)) \in Nat /\ Cardinality(Ran(s)) <= Len(s)
<1>1. Len(s) \in Nat /\ DOMAIN s = 1..Len(s)
  OBVIOUS
<1>2. IsFiniteSet(1..Len(s)) /\ Cardinality(1..Len(s)) = Len(s)
  BY <1>1, FS_Interval
<1>3. s \in Surjection(1..Len(s), Ran(s))
  BY <1>1 DEF Surjection, Ran
<1> QED
  BY <1>2, <1>3, FS_Surjection, FS_CardinalityType

-----------------------------------------------------------------------------
(* The inductive invariant.                                                *)

\* The walk: what it has found, and what it has tagged of that.
WalkInv ==
  /\ phase = "ins" => que = <<>> /\ backup = {} /\ registered = {}
                       /\ _wait_que = <<>>
  /\ phase \in {"ins", "bfs"} => _exec_que = <<>>
  /\ phase \notin {"ins", "fatal"} => GraphIns \subseteq backup
  /\ phase \in {"run", "done"} => que = <<>>
  /\ phase = "done" => _wait_que = <<>>
  /\ fatal # "none" => phase = "fatal"
  /\ backup = Ran(que) \cup Ran(_wait_que) \cup Ran(_exec_que)
  /\ \A a \in arcs : a[1] \in Ran(_wait_que) \cup Ran(_exec_que) =>
                       a[2] \in backup /\ a \in registered

\* Every vertex that was found is in one queue, once.
CountInv == Len(que) + Len(_wait_que) + Len(_exec_que) = Cardinality(backup)

\* The tags say which vertices were launched.
TagInv ==
  /\ \A a \in on : a[1] \in Ran(_exec_que)
  /\ \A a \in arcs : a[1] \in Ran(_exec_que) => a \in on

\* Every launch came after those it depends on, also if there were several.
InputsFirst ==
  \A a \in arcs : \A j \in DOMAIN _exec_que : _exec_que[j] = a[2] =>
    \E i \in DOMAIN _exec_que : i < j /\ _exec_que[i] = a[1]

\* While a pass has launched nothing, what it has passed is not callable.
PassInv ==
  phase = "run" =>
    /\ Len(_wait_que) <= wait_que_size
    /\ wait_que_size = Len(_wait_que) =>
         \A i \in 1..(pos - 1) : ~callable(_wait_que[i])

\* What every scheduler of this kind keeps, whatever it holds back.
RunInv == SchedTypeOK /\ WalkInv /\ CountInv /\ TagInv /\ InputsFirst

SchedInv == RunInv /\ PassInv /\ FatalExplained

LEMMA FiniteSubset ==
  ASSUME NEW S \in SUBSET Nodes
  PROVE  IsFiniteSet(S)
  BY FS_Subset, NodesAssumption

LEMMA InvInit == SchedInit => SchedInv
<1> SUFFICES ASSUME SchedInit PROVE SchedInv
  OBVIOUS
<1> USE DEF SchedInit
<1>0. Ran(<<>>) = {}
  BY DEF Ran
<1>1. SchedTypeOK
  BY GraphsAssumption DEF SchedTypeOK
<1>2. WalkInv
  BY <1>0 DEF WalkInv
<1>3. CountInv
  BY FS_EmptySet DEF CountInv
<1>4. TagInv /\ PassInv /\ InputsFirst /\ FatalExplained
  BY <1>0 DEF TagInv, PassInv, InputsFirst, FatalExplained
<1> QED
  BY <1>1, <1>2, <1>3, <1>4 DEF SchedInv, RunInv

LEMMA InvNoInputs == RunInv /\ NoInputs => SchedInv'
<1> SUFFICES ASSUME RunInv, NoInputs PROVE SchedInv'
  OBVIOUS
<1> USE DEF NoInputs, RunInv, graphVars, tagVars, runVars
<1>1. SchedTypeOK'
  BY DEF SchedTypeOK
<1>2. WalkInv' /\ TagInv'
  BY DEF WalkInv, TagInv, SchedTypeOK
<1>3. CountInv' /\ PassInv'
  BY DEF CountInv, PassInv
<1>4. InputsFirst' /\ FatalExplained'
  BY DEF InputsFirst, FatalExplained
<1> QED
  BY <1>1, <1>2, <1>3, <1>4 DEF SchedInv

LEMMA InvStartWalk == RunInv /\ StartWalk => SchedInv'
<1> SUFFICES ASSUME RunInv, StartWalk PROVE SchedInv'
  OBVIOUS
<1> USE DEF StartWalk, tagVars, runVars
<1>0. /\ arcs' = arcs /\ GraphIns' = GraphIns
      /\ que' \in Seq(Nodes) /\ Ran(que') = GraphIns /\ Len(que') = Cardinality(GraphIns)
  <2>1. GraphIns \in SUBSET Nodes
    BY DEF GraphIns
  <2>2. que' \in Seq(GraphIns) /\ Ran(que') = GraphIns /\ Len(que') = Cardinality(GraphIns)
    BY <2>1, FiniteSubset, OrderingFacts
  <2>3. que' \in Seq(Nodes)
    BY <2>1, <2>2
  <2> QED
    BY <2>2, <2>3 DEF GraphIns, InArcs, OutArcs
<1>1. SchedTypeOK'
  BY <1>0 DEF RunInv, SchedTypeOK, GraphIns
<1>2. WalkInv'
  <2>1. Ran(<<>>) = {}
    BY DEF Ran
  <2> QED
    BY <1>0, <2>1 DEF RunInv, WalkInv, SchedTypeOK
<1>3. CountInv'
  <2>1. Len(_wait_que) = 0 /\ Len(_exec_que) = 0
    BY DEF RunInv, WalkInv
  <2>2. Cardinality(GraphIns) \in Nat
    BY FiniteSubset, FS_CardinalityType DEF GraphIns
  <2> QED
    BY <1>0, <2>1, <2>2 DEF CountInv
<1>4. TagInv' /\ PassInv' /\ InputsFirst' /\ FatalExplained'
  BY <1>0 DEF RunInv, TagInv, PassInv, InputsFirst, FatalExplained, WalkInv, SchedTypeOK
<1> QED
  BY <1>1, <1>2, <1>3, <1>4 DEF SchedInv, RunInv

LEMMA InvVisitVertex == RunInv /\ VisitVertex => SchedInv'
<1> SUFFICES ASSUME RunInv, VisitVertex PROVE SchedInv'
  OBVIOUS
<1> DEFINE n == Head(que)
           F == Succ(n) \ backup
<1>0. /\ n \in Nodes /\ n \in Ran(que) /\ Succ(n) \in SUBSET Nodes
      /\ F \in SUBSET Nodes /\ F \cap backup = {}
  BY DEF VisitVertex, RunInv, SchedTypeOK, Succ, OutArcs, Ran
<1>1. PICK s \in Orderings(F) : que' = Tail(que) \o s
  BY DEF VisitVertex
<1>2. s \in Seq(Nodes) /\ Ran(s) = F /\ Len(s) = Cardinality(F)
  <2>1. s \in Seq(F) /\ Ran(s) = F /\ Len(s) = Cardinality(F)
    BY <1>0, FiniteSubset, OrderingFacts
  <2> QED
    BY <1>0, <2>1
<1>3. /\ que' \in Seq(Nodes) /\ Len(que') = Len(que) - 1 + Cardinality(F)
      /\ Ran(que) \cup F = {n} \cup Ran(que')
  <2>1. que \in Seq(Nodes) /\ que # <<>>
    BY DEF VisitVertex, RunInv, SchedTypeOK
  <2> HIDE DEF F
  <2>2. /\ Tail(que) \o s \in Seq(Nodes) /\ Len(Tail(que) \o s) = Len(que) - 1 + Len(s)
        /\ Ran(que) \cup Ran(s) = {Head(que)} \cup Ran(Tail(que) \o s)
    BY <1>2, <2>1, RanTailConcat
  <2> QED
    BY <1>1, <1>2, <2>2
<1>4. /\ _wait_que' \in Seq(Nodes) /\ Len(_wait_que') = Len(_wait_que) + 1
      /\ Ran(_wait_que') = Ran(_wait_que) \cup {n}
  BY <1>0, RanAppend DEF VisitVertex, RunInv, SchedTypeOK
<1>5. /\ arcs' = arcs /\ phase = "bfs" /\ phase' = "bfs" /\ fatal' = fatal /\ on' = on
      /\ pos' = pos /\ wait_que_size' = wait_que_size /\ _exec_que' = _exec_que
      /\ backup' = backup \cup Succ(n) /\ registered' = registered \cup OutArcs(n)
      /\ GraphIns' = GraphIns
  BY DEF VisitVertex, GraphIns, InArcs, OutArcs
<1> HIDE DEF n, F
<1>6. SchedTypeOK'
  <2>1. Len(_wait_que) \in Nat
    BY DEF RunInv, SchedTypeOK
  <2> QED
    BY <1>0, <1>3, <1>4, <1>5, <2>1 DEF RunInv, SchedTypeOK, OutArcs
<1>7. WalkInv'
  <2>1. backup' = Ran(que') \cup Ran(_wait_que') \cup Ran(_exec_que')
    BY <1>0, <1>3, <1>4, <1>5 DEF RunInv, WalkInv, F
  <2>2. ASSUME NEW a \in arcs, a[1] \in Ran(_wait_que') \cup Ran(_exec_que')
        PROVE  a[2] \in backup' /\ a \in registered'
    <3>1. CASE a[1] = n
      BY <3>1, <1>5 DEF Succ, OutArcs
    <3>2. CASE a[1] # n
      BY <3>2, <2>2, <1>4, <1>5 DEF RunInv, WalkInv
    <3> QED
      BY <3>1, <3>2
  <2> QED
    BY <1>5, <2>1, <2>2 DEF RunInv, WalkInv
<1>8. CountInv'
  <2>1. backup' = backup \cup F /\ IsFiniteSet(backup) /\ IsFiniteSet(F)
    BY <1>0, <1>5, FiniteSubset DEF RunInv, SchedTypeOK, F
  <2>2. Cardinality(backup') = Cardinality(backup) + Cardinality(F)
    <3>1. Cardinality(backup \cap F) = 0
      BY <1>0, FS_EmptySet
    <3> QED
      <4>1. Cardinality(backup \cup F)
              = Cardinality(backup) + Cardinality(F) - Cardinality(backup \cap F)
        BY <2>1, FS_Union
      <4>2. Cardinality(backup) \in Nat /\ Cardinality(F) \in Nat
        BY <2>1, FS_CardinalityType
      <4> QED
        BY <2>1, <3>1, <4>1, <4>2
  <2>3. /\ Len(que) \in Nat /\ Len(_wait_que) \in Nat /\ Len(_exec_que) \in Nat
        /\ Cardinality(F) \in Nat /\ Cardinality(backup) \in Nat
    BY <2>1, FS_CardinalityType DEF RunInv, SchedTypeOK
  <2> QED
    BY <1>3, <1>4, <1>5, <2>2, <2>3 DEF RunInv, CountInv
<1>9. TagInv' /\ InputsFirst'
  BY <1>5 DEF RunInv, TagInv, InputsFirst
<1>10. PassInv' /\ FatalExplained'
  BY <1>5 DEF RunInv, WalkInv, PassInv, FatalExplained
<1> QED
  BY <1>6, <1>7, <1>8, <1>9, <1>10 DEF SchedInv, RunInv

LEMMA InvStartRun == RunInv /\ StartRun => SchedInv'
<1> SUFFICES ASSUME RunInv, StartRun PROVE SchedInv'
  OBVIOUS
<1> USE DEF StartRun, graphVars, tagVars
<1>1. SchedTypeOK'
  BY DEF RunInv, SchedTypeOK
<1>2. WalkInv'
  <2>1. GraphIns' = GraphIns
    BY DEF GraphIns, InArcs, OutArcs
  <2> QED
    BY <2>1 DEF RunInv, WalkInv
<1>3. CountInv' /\ TagInv' /\ InputsFirst'
  BY DEF RunInv, CountInv, TagInv, InputsFirst
<1>4. PassInv' /\ FatalExplained'
  BY DEF RunInv, SchedTypeOK, WalkInv, PassInv, FatalExplained
<1> QED
  BY <1>1, <1>2, <1>3, <1>4 DEF SchedInv, RunInv

LEMMA RunLaunch == RunInv /\ launch => RunInv' /\ FatalExplained'
<1> SUFFICES ASSUME RunInv, launch PROVE RunInv' /\ FatalExplained'
  OBVIOUS
<1> DEFINE n == _wait_que[pos]
<1>0. /\ pos \in 1..Len(_wait_que) /\ _wait_que \in Seq(Nodes) /\ n \in Nodes
      /\ _exec_que \in Seq(Nodes) /\ Len(_wait_que) \in Nat /\ Len(_exec_que) \in Nat
      /\ n \in Ran(_wait_que)
  BY DEF launch, RunInv, SchedTypeOK, Ran
<1>1. /\ _wait_que' \in Seq(Nodes) /\ Len(_wait_que') = Len(_wait_que) - 1
      /\ Ran(_wait_que) = Ran(_wait_que') \cup {n}
  BY <1>0, EraseFacts DEF launch
<1>2. /\ _exec_que' \in Seq(Nodes) /\ Len(_exec_que') = Len(_exec_que) + 1
      /\ Ran(_exec_que') = Ran(_exec_que) \cup {n}
  BY <1>0, RanAppend DEF launch
<1>3. /\ arcs' = arcs /\ phase = "run" /\ phase' = "run" /\ fatal' = fatal /\ que' = que
      /\ backup' = backup /\ registered' = registered /\ pos' = pos
      /\ wait_que_size' = wait_que_size /\ GraphIns' = GraphIns
      /\ on' = on \cup (OutArcs(n) \cap registered) /\ InArcs(n) \subseteq on
  BY DEF launch, graphVars, GraphIns, InArcs, OutArcs, callable
<1>4. Append(_exec_que, n) = _exec_que'
  BY DEF launch
<1> HIDE DEF n
<1>5. SchedTypeOK'
  BY <1>0, <1>1, <1>2, <1>3 DEF RunInv, SchedTypeOK
<1>6. WalkInv'
  BY <1>1, <1>2, <1>3 DEF RunInv, WalkInv
<1>7. CountInv'
  <2>1. Len(que) \in Nat
    BY DEF RunInv, SchedTypeOK
  <2> QED
    BY <1>0, <1>1, <1>2, <1>3, <2>1 DEF RunInv, CountInv
<1>8. TagInv'
  <2>1. ASSUME NEW a \in arcs, a[1] = n PROVE a \in registered
    BY <1>0, <2>1 DEF RunInv, WalkInv
  <2> QED
    BY <1>2, <1>3, <2>1 DEF RunInv, TagInv, OutArcs, SchedTypeOK
<1>9. InputsFirst'
  <2> SUFFICES ASSUME NEW a \in arcs, NEW j \in DOMAIN _exec_que', _exec_que'[j] = a[2]
               PROVE  \E i \in DOMAIN _exec_que' : i < j /\ _exec_que'[i] = a[1]
    BY <1>3 DEF InputsFirst
  <2>1. /\ DOMAIN _exec_que' = 1..(Len(_exec_que) + 1) /\ DOMAIN _exec_que = 1..Len(_exec_que)
        /\ \A i \in 1..Len(_exec_que) : _exec_que'[i] = _exec_que[i]
        /\ _exec_que'[Len(_exec_que) + 1] = n
    BY <1>0, <1>4
  <2>2. CASE j \in 1..Len(_exec_que)
    <3>1. PICK i \in DOMAIN _exec_que : i < j /\ _exec_que[i] = a[1]
      BY <2>1, <2>2 DEF RunInv, InputsFirst
    <3> QED
      BY <1>0, <2>1, <3>1
  <2>3. CASE j = Len(_exec_que) + 1
    <3>1. a[1] \in Ran(_exec_que)
      BY <2>1, <2>3, <1>3 DEF InArcs, RunInv, TagInv
    <3>2. PICK i \in 1..Len(_exec_que) : _exec_que[i] = a[1]
      BY <3>1, <2>1 DEF Ran
    <3> QED
      BY <1>0, <2>1, <2>3, <3>2
  <2> QED
    BY <2>1, <2>2, <2>3, <1>0
<1>10. FatalExplained'
  BY <1>3 DEF RunInv, WalkInv, FatalExplained
<1> QED
  BY <1>5, <1>6, <1>7, <1>8, <1>9, <1>10 DEF RunInv

LEMMA InvLaunch == SchedInv /\ launch => SchedInv'
<1> SUFFICES ASSUME SchedInv, launch PROVE SchedInv'
  OBVIOUS
<1>1. RunInv' /\ FatalExplained'
  BY RunLaunch DEF SchedInv
<1>2. PassInv'
  <2>1. pos \in 1..Len(_wait_que) /\ _wait_que \in Seq(Nodes) /\ Len(_wait_que) \in Nat
    BY DEF launch, SchedInv, RunInv, SchedTypeOK
  <2>2. Len(_wait_que') = Len(_wait_que) - 1
    BY <2>1, EraseFacts DEF launch
  <2> QED
    BY <2>1, <2>2 DEF launch, SchedInv, RunInv, PassInv, SchedTypeOK
<1> QED
  BY <1>1, <1>2 DEF SchedInv

\* Passing over a vertex, for whatever reason.
PassOver ==
  /\ phase = "run" /\ pos <= Len(_wait_que) /\ pos' = pos + 1
  /\ UNCHANGED <<phase, fatal, que, graphVars, tagVars, _wait_que, wait_que_size,
                 _exec_que>>

LEMMA RunPassOver == RunInv /\ PassOver => RunInv' /\ FatalExplained'
<1> SUFFICES ASSUME RunInv, PassOver PROVE RunInv' /\ FatalExplained'
  OBVIOUS
<1> USE DEF PassOver, graphVars, tagVars
<1>1. SchedTypeOK'
  BY DEF RunInv, SchedTypeOK
<1>2. WalkInv'
  <2>1. GraphIns' = GraphIns
    BY DEF GraphIns, InArcs, OutArcs
  <2> QED
    BY <2>1 DEF RunInv, WalkInv
<1>3. CountInv' /\ TagInv' /\ InputsFirst'
  BY DEF RunInv, CountInv, TagInv, InputsFirst
<1>4. FatalExplained'
  BY DEF RunInv, WalkInv, FatalExplained
<1> QED
  BY <1>1, <1>2, <1>3, <1>4 DEF RunInv

LEMMA InvSkip == SchedInv /\ skip => SchedInv'
<1> SUFFICES ASSUME SchedInv, skip PROVE SchedInv'
  OBVIOUS
<1>1. RunInv' /\ FatalExplained'
  BY RunPassOver DEF SchedInv, skip, PassOver
<1>2. PassInv'
  <2> USE DEF skip, graphVars, tagVars
  <2>1. \A m : callable(m)' <=> callable(m)
    BY DEF callable, InArcs
  <2>2. pos \in 1..(Len(_wait_que) + 1) /\ Len(_wait_que) \in Nat
    BY DEF SchedInv, RunInv, SchedTypeOK
  <2>3. ASSUME wait_que_size = Len(_wait_que), NEW i \in 1..pos
        PROVE  ~callable(_wait_que[i])
    BY <2>2, <2>3 DEF SchedInv, PassInv
  <2> QED
    BY <2>1, <2>2, <2>3 DEF SchedInv, PassInv
<1> QED
  BY <1>1, <1>2 DEF SchedInv

\* A new pass keeps the invariant whether or not the last one got anywhere.
LEMMA InvPass ==
  ASSUME RunInv, PassEnds, pos' = 1, wait_que_size' = Len(_wait_que),
         UNCHANGED <<phase, fatal, que, graphVars, tagVars, _wait_que, _exec_que>>
  PROVE  SchedInv'
<1> USE DEF PassEnds, graphVars, tagVars
<1>1. SchedTypeOK'
  BY DEF RunInv, SchedTypeOK
<1>2. WalkInv'
  <2>1. GraphIns' = GraphIns
    BY DEF GraphIns, InArcs, OutArcs
  <2> QED
    BY <2>1 DEF RunInv, WalkInv
<1>3. CountInv' /\ TagInv' /\ InputsFirst'
  BY DEF RunInv, CountInv, TagInv, InputsFirst
<1>4. PassInv' /\ FatalExplained'
  BY DEF RunInv, SchedTypeOK, WalkInv, PassInv, FatalExplained
<1> QED
  BY <1>1, <1>2, <1>3, <1>4 DEF SchedInv, RunInv
\* What the waiting vertices wait for when a pass has launched nothing.
LEMMA NothingCallable ==
  ASSUME SchedInv, PassEnds, wait_que_size = Len(_wait_que)
  PROVE  \A n \in Ran(_wait_que) : \E a \in InArcs(n) \ on : a[1] \notin Ran(_exec_que)
<1> SUFFICES ASSUME NEW n \in Ran(_wait_que)
             PROVE  \E a \in InArcs(n) \ on : a[1] \notin Ran(_exec_que)
  OBVIOUS
<1>1. PICK i \in 1..Len(_wait_que) : n = _wait_que[i]
  BY DEF Ran, SchedInv, RunInv, SchedTypeOK
<1>2. i \in 1..(pos - 1)
  BY <1>1 DEF PassEnds, SchedInv, RunInv, SchedTypeOK
<1>3. ~callable(n)
  BY <1>1, <1>2 DEF PassEnds, SchedInv, RunInv, PassInv
<1>4. PICK a \in InArcs(n) : a \notin on
  BY <1>3 DEF callable
<1> QED
  BY <1>4 DEF InArcs, SchedInv, RunInv, TagInv

LEMMA InvStuck == SchedInv /\ Stuck => SchedInv'
<1> SUFFICES ASSUME SchedInv, Stuck PROVE SchedInv'
  OBVIOUS
<1> DEFINE W == Ran(_wait_que)
<1>0. /\ UNCHANGED <<arcs, que, backup, registered, on, _wait_que, pos, wait_que_size,
                     _exec_que>>
      /\ phase = "run" /\ phase' = "fatal" /\ que = <<>> /\ PassEnds
      /\ wait_que_size = Len(_wait_que)
      /\ fatal' = IF \E op \in W : lack_of(op) # {} THEN "lack" ELSE "topo"
  BY DEF Stuck, PassEnds, graphVars, tagVars, runVars, SchedInv, RunInv, WalkInv
<1>1. SchedTypeOK'
  BY <1>0 DEF SchedInv, RunInv, SchedTypeOK
<1>2. WalkInv' /\ CountInv' /\ TagInv' /\ InputsFirst'
  BY <1>0 DEF SchedInv, RunInv, WalkInv, CountInv, TagInv, InputsFirst
<1>3. PassInv'
  BY <1>0 DEF PassInv
<1>4. FatalExplained'
  <2>1. backup = W \cup Ran(_exec_que)
    <3>1. Ran(<<>>) = {}
      BY DEF Ran
    <3> QED
      BY <1>0, <3>1 DEF SchedInv, RunInv, WalkInv
  <2>2. \A m \in W : \E a \in InArcs(m) \ on : a[1] \notin Ran(_exec_que)
    BY <1>0, NothingCallable
  <2>3. \A a \in arcs : a[1] \in Nodes
    BY DEF SchedInv, RunInv, SchedTypeOK
  <2>4. W # {} /\ \A m \in W : \E a \in InArcs(m) : a[1] \in W \cup (Nodes \ backup)
    <3>1. W # {}
      <4>1. _wait_que \in Seq(Nodes) /\ _wait_que # <<>>
        BY <1>0 DEF PassEnds, SchedInv, RunInv, SchedTypeOK
      <4>2. 1 \in DOMAIN _wait_que
        BY <4>1
      <4> QED
        BY <4>2 DEF Ran
    <3> QED
      BY <3>1, <2>1, <2>2, <2>3 DEF InArcs
  <2>5. ASSUME \E m \in W : lack_of(m) # {}
        PROVE  \E m \in W : \E a \in InArcs(m) : a[1] = m \/ a[1] \notin backup
    <3>1. PICK m \in W : lack_of(m) # {}
      BY <2>5
    <3>2. PICK a \in lack_of(m) : TRUE
      BY <3>1
    <3>3. a \in InArcs(m) /\ a \notin on /\ \A p \in W \ {m} : a \notin OutArcs(p)
      BY <3>2 DEF lack_of
    <3>4. a \in arcs /\ a[1] \notin W \ {m}
      BY <3>3 DEF InArcs, OutArcs
    <3>5. a[1] \notin Ran(_exec_que)
      BY <3>3, <3>4 DEF SchedInv, RunInv, TagInv
    <3> QED
      BY <3>1, <3>3, <3>4, <3>5, <2>1
  <2>6. ASSUME \A m \in W : lack_of(m) = {}
        PROVE  \A m \in W : \E a \in InArcs(m) : a[1] \in W \ {m}
    <3> SUFFICES ASSUME NEW m \in W PROVE \E a \in InArcs(m) : a[1] \in W \ {m}
      OBVIOUS
    <3>1. PICK a \in InArcs(m) : a \notin on
      BY <2>2
    <3>2. PICK p \in W \ {m} : a \in OutArcs(p)
      BY <3>1, <2>6 DEF lack_of
    <3> QED
      BY <3>1, <3>2 DEF OutArcs
  <2>7. \A m : InArcs(m)' = InArcs(m)
    BY <1>0 DEF InArcs
  <2>8. Ran(_wait_que') = W
    BY <1>0
  <2> QED
    BY <1>0, <2>4, <2>5, <2>6, <2>7, <2>8 DEF FatalExplained
<1> QED
  BY <1>1, <1>2, <1>3, <1>4 DEF SchedInv, RunInv

LEMMA InvFinish == RunInv /\ Finish => SchedInv'
<1> SUFFICES ASSUME RunInv, Finish PROVE SchedInv'
  OBVIOUS
<1> USE DEF Finish, graphVars, tagVars, runVars
<1>1. SchedTypeOK'
  BY DEF RunInv, SchedTypeOK
<1>2. WalkInv'
  <2>1. GraphIns' = GraphIns
    BY DEF GraphIns, InArcs, OutArcs
  <2> QED
    BY <2>1 DEF RunInv, WalkInv
<1>3. CountInv' /\ TagInv' /\ InputsFirst' /\ PassInv'
  BY DEF RunInv, CountInv, TagInv, InputsFirst, PassInv
<1>4. FatalExplained'
  BY DEF RunInv, WalkInv, FatalExplained
<1> QED
  BY <1>1, <1>2, <1>3, <1>4 DEF SchedInv, RunInv

LEMMA RunStutter == RunInv /\ UNCHANGED schedVars => RunInv'
<1> SUFFICES ASSUME RunInv, UNCHANGED schedVars PROVE RunInv'
  OBVIOUS
<1>1. SchedTypeOK' /\ CountInv' /\ TagInv' /\ InputsFirst'
  BY DEF schedVars, RunInv, SchedTypeOK, CountInv, TagInv, InputsFirst
<1>2. WalkInv'
  BY DEF schedVars, RunInv, WalkInv, GraphIns, InArcs, OutArcs
<1> QED
  BY <1>1, <1>2 DEF RunInv

LEMMA InvNext == SchedInv /\ [SchedNext]_schedVars => SchedInv'
<1> SUFFICES ASSUME SchedInv, [SchedNext]_schedVars PROVE SchedInv'
  OBVIOUS
<1>1. CASE NextPass
  BY <1>1, InvPass DEF NextPass, SchedInv
<1>2. CASE UNCHANGED schedVars
  <2>1. RunInv'
    BY <1>2, RunStutter DEF SchedInv
  <2>2. PassInv'
    BY <1>2 DEF schedVars, SchedInv, PassInv, callable, InArcs
  <2>3. FatalExplained'
    BY <1>2 DEF schedVars, SchedInv, FatalExplained, InArcs
  <2> QED
    BY <2>1, <2>2, <2>3 DEF SchedInv
<1> QED
  BY <1>1, <1>2, InvNoInputs, InvStartWalk, InvVisitVertex, InvStartRun, InvLaunch,
     InvSkip, InvStuck, InvFinish
  DEF SchedNext, SchedInv

-----------------------------------------------------------------------------
(* The theorems.                                                           *)

\* What the invariant says of the two queues.

LEMMA InvImplies == RunInv => TopologicalOrder /\ NodesConserved /\ ScheduleComplete
<1> SUFFICES ASSUME RunInv PROVE TopologicalOrder /\ NodesConserved /\ ScheduleComplete
  OBVIOUS
<1>0. Ran(<<>>) = {} /\ Len(<<>>) = 0
  BY DEF Ran
<1>1. ASSUME phase \in {"run", "done"}
      PROVE  /\ Ran(_wait_que) \cup Ran(_exec_que) = backup
             /\ Len(_wait_que) + Len(_exec_que) = Cardinality(backup)
  <2>1. que = <<>> /\ Len(_wait_que) \in Nat /\ Len(_exec_que) \in Nat
    BY <1>1 DEF RunInv, WalkInv, SchedTypeOK
  <2> QED
    BY <1>0, <2>1 DEF RunInv, WalkInv, CountInv
<1>2. ASSUME phase = "done"
      PROVE  /\ GraphIns \subseteq Ran(_exec_que)
             /\ \A a \in arcs : a[1] \in Ran(_exec_que) => a[2] \in Ran(_exec_que)
  <2>1. Ran(_exec_que) = backup
    BY <1>0, <1>1, <1>2 DEF RunInv, WalkInv
  <2> QED
    BY <1>2, <2>1 DEF RunInv, WalkInv
<1>3. TopologicalOrder
  BY DEF RunInv, InputsFirst, TopologicalOrder, Before, Ran
<1> QED
  BY <1>1, <1>2, <1>3 DEF NodesConserved, ScheduleComplete

\* A vertex that waits has not been launched.
LEMMA WaitingNotLaunched ==
  ASSUME RunInv, phase = "run"
  PROVE  Ran(_wait_que) \cap Ran(_exec_que) = {}
<1> DEFINE W == Ran(_wait_que)
           E == Ran(_exec_que)
<1>1. /\ IsFiniteSet(W) /\ Cardinality(W) \in Nat /\ Cardinality(W) <= Len(_wait_que)
      /\ IsFiniteSet(E) /\ Cardinality(E) \in Nat /\ Cardinality(E) <= Len(_exec_que)
      /\ Len(_wait_que) \in Nat /\ Len(_exec_que) \in Nat
  BY RanCardinality DEF RunInv, SchedTypeOK
<1>2. Cardinality(W \cup E) = Len(_wait_que) + Len(_exec_que)
  BY InvImplies DEF NodesConserved
<1>3. Cardinality(W \cup E) = Cardinality(W) + Cardinality(E) - Cardinality(W \cap E)
  BY <1>1, FS_Union
<1>4. IsFiniteSet(W \cap E) /\ Cardinality(W \cap E) \in Nat
  <2>1. W \cap E \in SUBSET W
    OBVIOUS
  <2> QED
    BY <1>1, <2>1, FS_Subset, FS_CardinalityType
<1> HIDE DEF W, E
<1>5. Cardinality(W \cap E) = 0
  BY <1>1, <1>2, <1>3, <1>4
<1>6. W \cap E = {}
  BY <1>4, <1>5, FS_EmptySet
<1> QED
  BY <1>6 DEF W, E

\* Every variable of the scheduler keeps its type: in particular op_it stays
\* inside the list that Run erases from while it walks it.
THEOREM SchedTypeCorrect == SchedSpec => []SchedTypeOK
<1>1. SchedInv => SchedTypeOK
  BY DEF SchedInv, RunInv
<1> QED
  BY <1>1, InvInit, InvNext, PTL DEF SchedSpec

\* Run launches every vertex behind the vertices it reads from, for every
\* graph and every order of its arc lists.
THEOREM OrderIsTopological == SchedSpec => []TopologicalOrder
<1>1. SchedInv => TopologicalOrder
  BY InvImplies DEF SchedInv
<1> QED
  BY <1>1, InvInit, InvNext, PTL DEF SchedSpec

\* No vertex is lost or listed twice by the passes over _wait_que.
THEOREM VerticesConserved == SchedSpec => []NodesConserved
<1>1. SchedInv => NodesConserved
  BY InvImplies DEF SchedInv
<1> QED
  BY <1>1, InvInit, InvNext, PTL DEF SchedSpec

\* An order that is set has all that the inputs of the graph lead to.
THEOREM OrderIsComplete == SchedSpec => []ScheduleComplete
<1>1. SchedInv => ScheduleComplete
  BY InvImplies DEF SchedInv
<1> QED
  BY <1>1, InvInit, InvNext, PTL DEF SchedSpec

\* LOG(FATAL) in Run is reached only on graphs without an execution order, and
\* its message names the reason.
THEOREM FatalIsExplained == SchedSpec => []FatalExplained
<1>1. SchedInv => FatalExplained
  BY DEF SchedInv
<1> QED
  BY <1>1, InvInit, InvNext, PTL DEF SchedSpec

=============================================================================
