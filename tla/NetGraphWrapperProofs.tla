------------------------ MODULE NetGraphWrapperProofs ------------------------
(* Proofs about NetGraphWrapper, for any number of Workers, threads,       *)
(* models and convolutions of a model.                                     *)
EXTENDS NetGraphWrapper, FiniteSetTheorems, NaturalsInduction, TLAPS

-----------------------------------------------------------------------------
(* The state that load and Net::init work on.                              *)

Steps == 1 .. MaxNodes
Weights(m) == {Weight(m, file[m][k].w) : k \in Steps}
Biases(m) == {Bias(m, k) : k \in Steps}

\* The attributes of the nodes of model m.
Node(m) == [op : {"Convolution", "ConvBatchnorm"}, w : Weights(m),
            b : {Null} \cup Biases(m),
            is_param_updated : BOOLEAN, is_weights_transed : BOOLEAN]

NodesOK(m, ns) ==
  /\ ns \in [Steps -> Node(m)]
  /\ \A k \in Steps : ns[k].op = file[m][k].op /\ ns[k].w = Weight(m, file[m][k].w)

\* The state that load and net_init work on: the nodes of model m, the guards
\* and the weights fit together.
StateOK(m, st) ==
  /\ st = [nodes |-> st.nodes, guard |-> st.guard, weights |-> st.weights]
  /\ NodesOK(m, st.nodes)
  /\ st.guard \in [DOMAIN st.guard -> SUBSET Levels] /\ Null \in DOMAIN st.guard
  /\ st.weights \in [DOMAIN st.weights -> [folded : Nat, transed : Nat]]
  /\ Weights(m) \subseteq DOMAIN st.guard /\ Weights(m) \subseteq DOMAIN st.weights
  /\ \A k \in Steps : st.nodes[k].b \in DOMAIN st.guard

-----------------------------------------------------------------------------
(* The loops of Net::init.                                                 *)

LEMMA LeastNat ==
  ASSUME NEW K \in SUBSET Nat, K # {}
  PROVE  \E k \in K : \A j \in K : k <= j
<1>1. PICK k \in K : \A j \in K : ~(<<j, k>> \in OpToRel(<, Nat))
  BY WFMin, NatLessThanWellFounded, Zenon
<1>2. \A j \in K : ~(j < k)
  BY <1>1 DEF OpToRel
<1> QED
  BY <1>2

\* What holds before the first node, and of a node if of the one before it.
LEMMA LoopInduction ==
  ASSUME NEW M \in Nat, NEW K, 0 \in K, \A k \in 1 .. M : k - 1 \in K => k \in K
  PROVE  \A k \in 0 .. M : k \in K
<1> DEFINE T == {k \in 0 .. M : k \notin K}
<1>1. SUFFICES ASSUME T # {} PROVE FALSE
  OBVIOUS
<1>2. PICK k \in T : \A j \in T : k <= j
  <2>1. T \in SUBSET Nat
    OBVIOUS
  <2> HIDE DEF T
  <2> QED
    BY <1>1, <2>1, LeastNat
<1>3. k \in 1 .. M /\ k - 1 \in 0 .. M /\ k - 1 \notin T
  BY <1>2
<1> QED
  BY <1>2, <1>3

LEMMA ParamLoopDef ==
  ASSUME NEW m, NEW st
  PROVE  /\ ParamLoop(m, st)[0] = st
         /\ \A k \in Steps : ParamLoop(m, st)[k] = InitParam(m, ParamLoop(m, st)[k - 1], k)
<1> DEFINE Is(f, n) == f = [k \in 0 .. n |-> IF k = 0 THEN st ELSE InitParam(m, f[k - 1], k)]
           K == {n \in Nat : \E f : Is(f, n)}
<1>0. MaxNodes \in Nat
  BY WrapperAssumption
<1>1. 0 \in K
  <2> DEFINE f == [k \in 0 .. 0 |-> st]
  <2>1. Is(f, 0)
    OBVIOUS
  <2> QED
    BY <2>1
<1>2. ASSUME NEW n \in Steps, n - 1 \in K PROVE n \in K
  <2>1. PICK g : Is(g, n - 1)
    BY <1>2
  <2> DEFINE f == [k \in 0 .. n |-> IF k = n THEN InitParam(m, g[n - 1], n) ELSE g[k]]
  <2>2. ASSUME NEW k \in 0 .. n
        PROVE  f[k] = IF k = 0 THEN st ELSE InitParam(m, f[k - 1], k)
    <3> HIDE DEF Is
    <3>1. n \in Nat /\ n # 0
      BY <1>0 DEF Steps
    <3>2. \A j \in 0 .. (n - 1) : g[j] = IF j = 0 THEN st ELSE InitParam(m, g[j - 1], j)
      BY <2>1, Zenon DEF Is
    <3>3. CASE k = n
      <4>1. f[k] = InitParam(m, g[n - 1], n) /\ f[n - 1] = g[n - 1]
        BY <3>1, <3>3
      <4> QED
        BY <3>1, <3>3, <4>1
    <3>4. CASE k # n
      <4>1. k \in 0 .. (n - 1) /\ f[k] = g[k]
        BY <3>1, <3>4
      <4>2. k # 0 => f[k - 1] = g[k - 1]
        BY <3>1, <4>1
      <4> HIDE DEF f
      <4> QED
        BY <3>2, <4>1, <4>2
    <3> QED
      BY <3>3, <3>4
  <2>3. Is(f, n)
    BY <2>2
  <2>4. n \in Nat
    BY <1>0 DEF Steps
  <2> HIDE DEF Is, f
  <2> QED
    BY <2>3, <2>4
<1>3. MaxNodes \in K
  <2> HIDE DEF K
  <2>1. \A k \in 1 .. MaxNodes : k - 1 \in K => k \in K
    BY <1>2 DEF Steps
  <2>2. \A k \in 0 .. MaxNodes : k \in K
    BY <1>0, <1>1, <2>1, LoopInduction
  <2> QED
    BY <1>0, <2>2
<1>4. \E f : Is(f, MaxNodes)
  BY <1>3
<1>5. Is(ParamLoop(m, st), MaxNodes)
  BY <1>4 DEF ParamLoop
<1> QED
  BY <1>0, <1>5 DEF Steps

LEMMA InitLoopDef ==
  ASSUME NEW m, NEW st
  PROVE  /\ InitLoop(m, st)[0] = st
         /\ \A k \in Steps : InitLoop(m, st)[k] = Init(m, InitLoop(m, st)[k - 1], k)
<1> DEFINE Is(f, n) == f = [k \in 0 .. n |-> IF k = 0 THEN st ELSE Init(m, f[k - 1], k)]
           K == {n \in Nat : \E f : Is(f, n)}
<1>0. MaxNodes \in Nat
  BY WrapperAssumption
<1>1. 0 \in K
  <2> DEFINE f == [k \in 0 .. 0 |-> st]
  <2>1. Is(f, 0)
    OBVIOUS
  <2> QED
    BY <2>1
<1>2. ASSUME NEW n \in Steps, n - 1 \in K PROVE n \in K
  <2>1. PICK g : Is(g, n - 1)
    BY <1>2
  <2> DEFINE f == [k \in 0 .. n |-> IF k = n THEN Init(m, g[n - 1], n) ELSE g[k]]
  <2>2. ASSUME NEW k \in 0 .. n
        PROVE  f[k] = IF k = 0 THEN st ELSE Init(m, f[k - 1], k)
    <3> HIDE DEF Is
    <3>1. n \in Nat /\ n # 0
      BY <1>0 DEF Steps
    <3>2. \A j \in 0 .. (n - 1) : g[j] = IF j = 0 THEN st ELSE Init(m, g[j - 1], j)
      BY <2>1, Zenon DEF Is
    <3>3. CASE k = n
      <4>1. f[k] = Init(m, g[n - 1], n) /\ f[n - 1] = g[n - 1]
        BY <3>1, <3>3
      <4> QED
        BY <3>1, <3>3, <4>1
    <3>4. CASE k # n
      <4>1. k \in 0 .. (n - 1) /\ f[k] = g[k]
        BY <3>1, <3>4
      <4>2. k # 0 => f[k - 1] = g[k - 1]
        BY <3>1, <4>1
      <4> HIDE DEF f
      <4> QED
        BY <3>2, <4>1, <4>2
    <3> QED
      BY <3>3, <3>4
  <2>3. Is(f, n)
    BY <2>2
  <2>4. n \in Nat
    BY <1>0 DEF Steps
  <2> HIDE DEF Is, f
  <2> QED
    BY <2>3, <2>4
<1>3. MaxNodes \in K
  <2> HIDE DEF K
  <2>1. \A k \in 1 .. MaxNodes : k - 1 \in K => k \in K
    BY <1>2 DEF Steps
  <2>2. \A k \in 0 .. MaxNodes : k \in K
    BY <1>0, <1>1, <2>1, LoopInduction
  <2> QED
    BY <1>0, <2>2
<1>4. \E f : Is(f, MaxNodes)
  BY <1>3
<1>5. Is(InitLoop(m, st), MaxNodes)
  BY <1>4 DEF InitLoop
<1> QED
  BY <1>0, <1>5 DEF Steps

-----------------------------------------------------------------------------
(* InitParam and Init, case by case.                                       *)

Updated(ns, k) == [ns EXCEPT ![k].is_param_updated = TRUE]
Transed(ns, k) == [ns EXCEPT ![k].is_weights_transed = TRUE]
Biased(m, ns, k) == [ns EXCEPT ![k].b = Bias(m, k)]
Due(st, k) == st.nodes[k].op = "ConvBatchnorm" /\ ~st.nodes[k].is_param_updated
Access(st, k) == block_access(st.guard, 0, st.nodes[k].w, st.nodes[k].b)
Both(st, k) == {st.nodes[k].w, st.nodes[k].b}

ParamSkips(st, k, r) == ~Due(st, k) /\ r = st

\* The guard is used up: the node counts as updated.
ParamRefused(st, k, r) ==
  /\ Due(st, k) /\ ~Access(st, k)
  /\ r = [nodes |-> Updated(st.nodes, k), guard |-> st.guard, weights |-> st.weights]

ParamFolds(st, k, r) ==
  /\ Due(st, k) /\ Access(st, k) /\ st.nodes[k].b # Null
  /\ r = [nodes   |-> Updated(st.nodes, k),
          guard   |-> use(st.guard, Both(st, k), 0),
          weights |-> [st.weights EXCEPT ![st.nodes[k].w].folded = @ + 1]]

ParamMoves(m, st, k, r) ==
  /\ Due(st, k) /\ Access(st, k) /\ st.nodes[k].b = Null
  /\ r = [nodes   |-> Biased(m, Updated(st.nodes, k), k),
          guard   |-> moved(use(st.guard, Both(st, k), 0), Bias(m, k)),
          weights |-> [st.weights EXCEPT ![st.nodes[k].w].folded = @ + 1]]

LEMMA ParamCases ==
  ASSUME NEW m, NEW st, StateOK(m, st), NEW k \in Steps
  PROVE  LET r == InitParam(m, st, k)
         IN \/ ParamSkips(st, k, r) \/ ParamRefused(st, k, r)
            \/ ParamFolds(st, k, r) \/ ParamMoves(m, st, k, r)
<1>1. st = [nodes |-> st.nodes, guard |-> st.guard, weights |-> st.weights]
  BY DEF StateOK
<1>2. st.nodes[k].op \in {"Convolution", "ConvBatchnorm"} /\ st.nodes[k].is_param_updated \in BOOLEAN
  BY DEF StateOK, NodesOK, Node
<1> DEFINE ns == st.nodes
           g == st.guard
           ws == st.weights
<1>3. st = [nodes |-> ns, guard |-> g, weights |-> ws]
  BY <1>1
<1> HIDE DEF ns, g, ws
<1>4. st.nodes = ns /\ st.guard = g /\ st.weights = ws
  BY <1>3
<1>5. CASE ~Due(st, k)
  BY <1>2, <1>5 DEF InitParam, ParamSkips, Due
<1>6. CASE Due(st, k) /\ ~Access(st, k)
  BY <1>3, <1>4, <1>6 DEF InitParam, ParamRefused, Due, Access, Updated
<1>7. CASE Due(st, k) /\ Access(st, k) /\ st.nodes[k].b # Null
  BY <1>3, <1>4, <1>7 DEF InitParam, ParamFolds, Due, Access, Both, Updated
<1>8. CASE Due(st, k) /\ Access(st, k) /\ st.nodes[k].b = Null
  BY <1>3, <1>4, <1>8 DEF InitParam, ParamMoves, Due, Access, Both, Updated, Biased
<1> QED
  BY <1>5, <1>6, <1>7, <1>8

Level(st, k) == trans_level(st.nodes[k].op)
TransAccess(st, k) == tensor_access(st.guard, Level(st, k), st.nodes[k].w, st.nodes[k].b)

\* A later net: only the guard of the empty tensors takes notice.
InitAgain(st, k, r) ==
  /\ st.nodes[k].is_weights_transed
  /\ r = [nodes |-> st.nodes, guard |-> use(st.guard, {Null}, Level(st, k)),
          weights |-> st.weights]

InitTransposes(st, k, r) ==
  /\ ~st.nodes[k].is_weights_transed /\ TransAccess(st, k)
  /\ r = [nodes   |-> Transed(st.nodes, k),
          guard   |-> use(st.guard, Both(st, k), Level(st, k)),
          weights |-> [st.weights EXCEPT ![st.nodes[k].w].transed = @ + 1]]

InitRefused(st, k, r) ==
  /\ ~st.nodes[k].is_weights_transed /\ ~TransAccess(st, k)
  /\ r = [nodes |-> Transed(st.nodes, k), guard |-> st.guard, weights |-> st.weights]

LEMMA InitCases ==
  ASSUME NEW m, NEW st, StateOK(m, st), NEW k \in Steps
  PROVE  LET r == Init(m, st, k)
         IN InitAgain(st, k, r) \/ InitTransposes(st, k, r) \/ InitRefused(st, k, r)
<1>1. st = [nodes |-> st.nodes, guard |-> st.guard, weights |-> st.weights]
  BY DEF StateOK
<1>2. st.nodes[k].is_weights_transed \in BOOLEAN
  BY DEF StateOK, NodesOK, Node
<1> DEFINE ns == st.nodes
           g == st.guard
           ws == st.weights
<1>3. st = [nodes |-> ns, guard |-> g, weights |-> ws]
  BY <1>1
<1> HIDE DEF ns, g, ws
<1>4. st.nodes = ns /\ st.guard = g /\ st.weights = ws
  BY <1>3
<1> QED
  BY <1>2, <1>3, <1>4 DEF Init, InitAgain, InitTransposes, InitRefused, TransAccess,
     Level, Both, Transed

\* What InitParam and Init of model m leave alone: the tensors of the others.
Kept(m, st, r) ==
  /\ DOMAIN r.weights = DOMAIN st.weights
  /\ \A t \in DOMAIN st.weights \ Weights(m) : r.weights[t] = st.weights[t]
  /\ DOMAIN st.guard \subseteq DOMAIN r.guard
  /\ DOMAIN r.guard \subseteq DOMAIN st.guard \cup Biases(m)
  /\ \A t \in DOMAIN st.guard : t \notin Weights(m) \cup Biases(m) \cup {Null}
                                  => r.guard[t] = st.guard[t]

LEMMA KeptTransitive ==
  ASSUME NEW m, NEW s, NEW t, NEW u, Kept(m, s, t), Kept(m, t, u)
  PROVE  Kept(m, s, u)
BY DEF Kept

\* The guards after moved.
LEMMA MovedFacts ==
  ASSUME NEW g, g \in [DOMAIN g -> SUBSET Levels], NEW b, Null \in DOMAIN g, b # Null
  PROVE  /\ moved(g, b) \in [DOMAIN g \cup {b} -> SUBSET Levels]
         /\ DOMAIN moved(g, b) = DOMAIN g \cup {b}
         /\ moved(g, b)[b] = g[Null]
         /\ b \notin DOMAIN g => moved(g, b)[Null] = Levels
         /\ \A t \in DOMAIN g \ {b, Null} : moved(g, b)[t] = g[t]
BY DEF moved, make_lock

LEMMA WeightsFacts ==
  ASSUME NEW ws, ws \in [DOMAIN ws -> [folded : Nat, transed : Nat]], NEW w \in DOMAIN ws
  PROVE  /\ [ws EXCEPT ![w].folded = @ + 1] \in [DOMAIN ws -> [folded : Nat, transed : Nat]]
         /\ [ws EXCEPT ![w].transed = @ + 1] \in [DOMAIN ws -> [folded : Nat, transed : Nat]]
         /\ [ws EXCEPT ![w].folded = @ + 1][w] =
              [folded |-> ws[w].folded + 1, transed |-> ws[w].transed]
         /\ [ws EXCEPT ![w].transed = @ + 1][w] =
              [folded |-> ws[w].folded, transed |-> ws[w].transed + 1]
         /\ \A t \in DOMAIN ws \ {w} : /\ [ws EXCEPT ![w].folded = @ + 1][t] = ws[t]
                                       /\ [ws EXCEPT ![w].transed = @ + 1][t] = ws[t]
OBVIOUS

\* The nodes after a flag is set, and after a bias is given.
LEMMA OthersKept ==
  ASSUME NEW m, NEW ns, NodesOK(m, ns), NEW k \in Steps, NEW j \in Steps, j # k
  PROVE  /\ Updated(ns, k)[j] = ns[j] /\ Transed(ns, k)[j] = ns[j]
         /\ Biased(m, ns, k)[j] = ns[j]
BY DEF NodesOK, Updated, Transed, Biased

LEMMA UpdatedFacts ==
  ASSUME NEW m, NEW ns, NodesOK(m, ns), NEW k \in Steps
  PROVE  /\ NodesOK(m, Updated(ns, k))
         /\ Updated(ns, k)[k].b = ns[k].b
         /\ Updated(ns, k)[k].is_param_updated
         /\ Updated(ns, k)[k].is_weights_transed = ns[k].is_weights_transed
<1>1. /\ ns \in [Steps -> Node(m)]
      /\ \A j \in Steps : ns[j].op = file[m][j].op /\ ns[j].w = Weight(m, file[m][j].w)
  BY DEF NodesOK
<1> DEFINE u == [ns[k] EXCEPT !.is_param_updated = TRUE]
<1>2. ns[k] \in Node(m)
  BY <1>1
<1>3. u \in Node(m) /\ u.op = ns[k].op /\ u.w = ns[k].w /\ u.b = ns[k].b
  BY <1>2 DEF Node
<1>4. u.is_param_updated /\ u.is_weights_transed = ns[k].is_weights_transed
  BY <1>2 DEF Node
<1>5. Updated(ns, k) = [ns EXCEPT ![k] = u]
  BY <1>1 DEF Updated
<1> HIDE DEF u
<1>6. NodesOK(m, Updated(ns, k)) /\ Updated(ns, k)[k] = u
  BY <1>1, <1>3, <1>5 DEF NodesOK
<1> QED
  BY <1>3, <1>4, <1>6, Zenon

LEMMA TransedFacts ==
  ASSUME NEW m, NEW ns, NodesOK(m, ns), NEW k \in Steps
  PROVE  /\ NodesOK(m, Transed(ns, k))
         /\ Transed(ns, k)[k].b = ns[k].b
         /\ Transed(ns, k)[k].is_param_updated = ns[k].is_param_updated
         /\ Transed(ns, k)[k].is_weights_transed
<1>1. /\ ns \in [Steps -> Node(m)]
      /\ \A j \in Steps : ns[j].op = file[m][j].op /\ ns[j].w = Weight(m, file[m][j].w)
  BY DEF NodesOK
<1> DEFINE t == [ns[k] EXCEPT !.is_weights_transed = TRUE]
<1>2. ns[k] \in Node(m)
  BY <1>1
<1>3. t \in Node(m) /\ t.op = ns[k].op /\ t.w = ns[k].w /\ t.b = ns[k].b
  BY <1>2 DEF Node
<1>4. t.is_weights_transed /\ t.is_param_updated = ns[k].is_param_updated
  BY <1>2 DEF Node
<1>5. Transed(ns, k) = [ns EXCEPT ![k] = t]
  BY <1>1 DEF Transed
<1> HIDE DEF t
<1>6. NodesOK(m, Transed(ns, k)) /\ Transed(ns, k)[k] = t
  BY <1>1, <1>3, <1>5 DEF NodesOK
<1> QED
  BY <1>3, <1>4, <1>6, Zenon

LEMMA BiasFacts ==
  ASSUME NEW m, NEW ns, NodesOK(m, ns), NEW k \in Steps
  PROVE  /\ NodesOK(m, Biased(m, ns, k))
         /\ Biased(m, ns, k)[k].b = Bias(m, k)
         /\ Biased(m, ns, k)[k].is_param_updated = ns[k].is_param_updated
         /\ Biased(m, ns, k)[k].is_weights_transed = ns[k].is_weights_transed
<1>1. /\ ns \in [Steps -> Node(m)] /\ Bias(m, k) \in Biases(m)
      /\ \A j \in Steps : ns[j].op = file[m][j].op /\ ns[j].w = Weight(m, file[m][j].w)
  BY DEF NodesOK, Biases
<1> DEFINE u == [ns[k] EXCEPT !.b = Bias(m, k)]
           r == Biased(m, ns, k)
<1>2. ns[k] \in Node(m)
  BY <1>1
<1>3. u \in Node(m) /\ u.op = ns[k].op /\ u.w = ns[k].w /\ u.b = Bias(m, k)
  BY <1>1, <1>2 DEF Node
<1>4. /\ u.is_param_updated = ns[k].is_param_updated
      /\ u.is_weights_transed = ns[k].is_weights_transed
  BY <1>2 DEF Node
<1>5. r = [ns EXCEPT ![k] = u]
  BY <1>1 DEF Biased
<1> HIDE DEF u, r
<1>6. NodesOK(m, r) /\ r[k] = u
  BY <1>1, <1>3, <1>5 DEF NodesOK
<1>7. /\ NodesOK(m, r) /\ r[k].b = Bias(m, k)
      /\ r[k].is_param_updated = ns[k].is_param_updated
      /\ r[k].is_weights_transed = ns[k].is_weights_transed
  BY <1>3, <1>4, <1>6, Zenon
<1> QED
  BY <1>7, Zenon DEF r

\* The state after InitParam of node k.
ParamDone(m, st, k, r) ==
  /\ StateOK(m, r) /\ Kept(m, st, r)
  /\ \A j \in Steps : j # k => r.nodes[j] = st.nodes[j]
  /\ r.nodes[k].is_weights_transed = st.nodes[k].is_weights_transed
  /\ r.nodes[k].op = "ConvBatchnorm" => r.nodes[k].is_param_updated

LEMMA ParamStep ==
  ASSUME NEW m \in Models, NEW st, StateOK(m, st), NEW k \in Steps,
         NEW r, r = InitParam(m, st, k)
  PROVE  ParamDone(m, st, k, r)
<1> DEFINE ns == st.nodes
           g == st.guard
           ws == st.weights
           w == ns[k].w
           b == Bias(m, k)
<1>0. /\ NodesOK(m, ns) /\ g \in [DOMAIN g -> SUBSET Levels] /\ Null \in DOMAIN g
      /\ ws \in [DOMAIN ws -> [folded : Nat, transed : Nat]]
      /\ Weights(m) \subseteq DOMAIN g /\ Weights(m) \subseteq DOMAIN ws
      /\ \A j \in Steps : ns[j].b \in DOMAIN g
  BY DEF StateOK
<1>1. w \in Weights(m) /\ ns[k].b \in {Null} \cup Biases(m) /\ b \in Biases(m) /\ b # Null
  BY <1>0, WrapperAssumption DEF NodesOK, Node, Biases, Steps
<1> DEFINE up == Updated(ns, k)
           fold == [ws EXCEPT ![w].folded = @ + 1]
           used == use(g, Both(st, k), 0)
<1>n. NodesOK(m, ns)
  BY <1>0
<1>t. g \in [DOMAIN g -> SUBSET Levels]
  BY <1>0
<1>u. /\ NodesOK(m, up)
      /\ up[k].b = ns[k].b
      /\ up[k].is_param_updated
      /\ up[k].is_weights_transed = ns[k].is_weights_transed
  BY <1>n, UpdatedFacts, Zenon
<1>o. \A j \in Steps : j # k => up[j] = ns[j]
  BY <1>n, OthersKept
<1>f. /\ fold \in [DOMAIN ws -> [folded : Nat, transed : Nat]]
      /\ \A t \in DOMAIN ws \ {w} : fold[t] = ws[t]
  <2>1. w \in DOMAIN ws
    BY <1>0, <1>1
  <2> QED
    BY <1>0, <2>1, WeightsFacts, Zenon
<1>g. /\ used \in [DOMAIN g -> SUBSET Levels] /\ DOMAIN used = DOMAIN g
      /\ \A t \in DOMAIN g : t \notin Both(st, k) => used[t] = g[t]
  <2>1. \A t \in DOMAIN g : used[t] = IF t \in Both(st, k) THEN g[t] \ {0} ELSE g[t]
    BY <1>t DEF use
  <2> QED
    BY <1>t, <2>1 DEF use
<1>2. /\ ns[k].op \in {"Convolution", "ConvBatchnorm"} /\ ns[k].is_param_updated \in BOOLEAN
  BY <1>0 DEF NodesOK, Node
<1>3. CASE ParamSkips(st, k, r)
  BY <1>2, <1>3 DEF ParamSkips, Due, Kept, ParamDone
<1>b. \A j \in Steps : up[j].b = ns[j].b
  BY <1>u, <1>o
<1> HIDE DEF up, fold, used
<1>4. CASE ParamRefused(st, k, r)
  <2>1. r = [nodes |-> up, guard |-> g, weights |-> ws]
    BY <1>4 DEF ParamRefused, up
  <2>2. r.nodes = up /\ r.guard = g /\ r.weights = ws
    BY <2>1
  <2>3. StateOK(m, r)
    BY <1>0, <1>u, <1>b, <2>1 DEF StateOK
  <2>4. Kept(m, st, r)
    BY <2>2 DEF Kept
  <2> QED
    BY <1>u, <1>o, <2>2, <2>3, <2>4, Zenon DEF ParamDone
<1>5. CASE ParamFolds(st, k, r)
  <2>1. r = [nodes |-> up, guard |-> used, weights |-> fold]
    BY <1>5 DEF ParamFolds, up, used, fold
  <2>2. r.nodes = up /\ r.guard = used /\ r.weights = fold
    BY <2>1
  <2>3. StateOK(m, r)
    BY <1>0, <1>u, <1>b, <1>f, <1>g, <2>1 DEF StateOK
  <2>4. Kept(m, st, r)
    BY <1>1, <1>f, <1>g, <2>2 DEF Kept, Both
  <2> QED
    BY <1>u, <1>o, <2>2, <2>3, <2>4, Zenon DEF ParamDone
<1>6. CASE ParamMoves(m, st, k, r)
  <2> DEFINE v == Biased(m, up, k)
             d == moved(used, b)
  <2>1. r = [nodes |-> v, guard |-> d, weights |-> fold] /\ ns[k].b = Null
    BY <1>6 DEF ParamMoves, up, used, fold
  <2>8. \A j \in Steps : j # k => v[j] = up[j]
    BY <1>u, OthersKept
  <2>2. /\ NodesOK(m, v)
        /\ v[k].b = b
        /\ v[k].is_param_updated = up[k].is_param_updated
        /\ v[k].is_weights_transed = up[k].is_weights_transed
    <3>1. NodesOK(m, up)
      BY <1>u
    <3>2. NodesOK(m, v) /\ v[k].b = b
      BY <3>1, BiasFacts
    <3>3. v[k].is_param_updated = up[k].is_param_updated
      BY <3>1, BiasFacts
    <3>4. v[k].is_weights_transed = up[k].is_weights_transed
      BY <3>1, BiasFacts
    <3> QED
      BY <3>2, <3>3, <3>4, Zenon
  <2>3. /\ d \in [DOMAIN g \cup {b} -> SUBSET Levels] /\ DOMAIN d = DOMAIN g \cup {b}
        /\ \A t \in DOMAIN g \ {b, Null} : d[t] = used[t]
    <3>1. used \in [DOMAIN used -> SUBSET Levels] /\ Null \in DOMAIN used
      BY <1>0, <1>g
    <3>2. /\ d \in [DOMAIN used \cup {b} -> SUBSET Levels] /\ DOMAIN d = DOMAIN used \cup {b}
          /\ \A t \in DOMAIN used \ {b, Null} : d[t] = used[t]
      BY <1>1, <3>1, MovedFacts, Zenon
    <3> QED
      BY <1>g, <3>2
  <2> HIDE DEF v, d
  <2>4. r.nodes = v /\ r.guard = d /\ r.weights = fold
    BY <2>1
  <2>5. \A j \in Steps : v[j].b \in DOMAIN d
    BY <1>0, <1>b, <2>2, <2>3, <2>8
  <2>6. StateOK(m, r)
    BY <1>0, <1>f, <2>1, <2>2, <2>3, <2>5 DEF StateOK
  <2>7. Kept(m, st, r)
    BY <1>1, <1>f, <1>g, <2>1, <2>3, <2>4 DEF Kept, Both
  <2> QED
    BY <1>u, <1>o, <2>2, <2>4, <2>6, <2>7, <2>8, Zenon DEF ParamDone
<1> QED
  BY <1>3, <1>4, <1>5, <1>6, ParamCases

\* The state after Init of node k.
InitDone(m, st, k, r) ==
  /\ StateOK(m, r) /\ Kept(m, st, r)
  /\ \A j \in Steps : j # k => r.nodes[j] = st.nodes[j]
  /\ r.nodes[k].b = st.nodes[k].b
  /\ r.nodes[k].is_param_updated = st.nodes[k].is_param_updated
  /\ r.nodes[k].is_weights_transed

LEMMA InitStep ==
  ASSUME NEW m \in Models, NEW st, StateOK(m, st), NEW k \in Steps,
         NEW r, r = Init(m, st, k)
  PROVE  InitDone(m, st, k, r)
<1> DEFINE ns == st.nodes
           g == st.guard
           ws == st.weights
           w == ns[k].w
<1>0. /\ NodesOK(m, ns) /\ g \in [DOMAIN g -> SUBSET Levels] /\ Null \in DOMAIN g
      /\ ws \in [DOMAIN ws -> [folded : Nat, transed : Nat]]
      /\ Weights(m) \subseteq DOMAIN g /\ Weights(m) \subseteq DOMAIN ws
      /\ \A j \in Steps : ns[j].b \in DOMAIN g
  BY DEF StateOK
<1>1. w \in Weights(m) /\ ns[k].b \in {Null} \cup Biases(m)
  BY <1>0 DEF NodesOK, Node
<1> DEFINE up == Transed(ns, k)
           trans == [ws EXCEPT ![w].transed = @ + 1]
           l == Level(st, k)
           used == use(g, Both(st, k), l)
           null == use(g, {Null}, l)
<1>n. NodesOK(m, ns)
  BY <1>0
<1>t. g \in [DOMAIN g -> SUBSET Levels]
  BY <1>0
<1>u. /\ NodesOK(m, up)
      /\ up[k].b = ns[k].b
      /\ up[k].is_param_updated = ns[k].is_param_updated
      /\ up[k].is_weights_transed
  BY <1>n, TransedFacts, Zenon
<1>o. \A j \in Steps : j # k => up[j] = ns[j]
  BY <1>n, OthersKept
<1>f. /\ trans \in [DOMAIN ws -> [folded : Nat, transed : Nat]]
      /\ \A t \in DOMAIN ws \ {w} : trans[t] = ws[t]
  <2>1. w \in DOMAIN ws
    BY <1>0, <1>1
  <2> QED
    BY <1>0, <2>1, WeightsFacts, Zenon
<1>g. /\ used \in [DOMAIN g -> SUBSET Levels] /\ DOMAIN used = DOMAIN g
      /\ null \in [DOMAIN g -> SUBSET Levels] /\ DOMAIN null = DOMAIN g
      /\ \A t \in DOMAIN g : t \notin Weights(m) \cup Biases(m) \cup {Null}
                               => used[t] = g[t] /\ null[t] = g[t]
  <2>1. /\ \A t \in DOMAIN g : used[t] = IF t \in Both(st, k) THEN g[t] \ {l} ELSE g[t]
        /\ \A t \in DOMAIN g : null[t] = IF t \in {Null} THEN g[t] \ {l} ELSE g[t]
    BY <1>t DEF use
  <2>2. \A t \in Both(st, k) : t \in Weights(m) \cup Biases(m) \cup {Null}
    BY <1>1 DEF Both
  <2>3. /\ used \in [DOMAIN g -> SUBSET Levels] /\ DOMAIN used = DOMAIN g
        /\ null \in [DOMAIN g -> SUBSET Levels] /\ DOMAIN null = DOMAIN g
    BY <1>t DEF use
  <2> HIDE DEF used, null
  <2> QED
    BY <2>1, <2>2, <2>3
<1>b. \A j \in Steps : up[j].b = ns[j].b
  BY <1>u, <1>o
<1> HIDE DEF up, trans, used, null
<1>4. CASE InitAgain(st, k, r)
  <2>1. r = [nodes |-> ns, guard |-> null, weights |-> ws]
    BY <1>4 DEF InitAgain, null
  <2>2. r.nodes = ns /\ r.guard = null /\ r.weights = ws
    BY <2>1
  <2>3. StateOK(m, r)
    BY <1>0, <1>g, <2>1 DEF StateOK
  <2>4. Kept(m, st, r)
    BY <1>g, <2>2 DEF Kept
  <2>5. ns[k].is_weights_transed
    BY <1>4, Zenon DEF InitAgain
  <2> QED
    BY <2>2, <2>3, <2>4, <2>5, Zenon DEF InitDone
<1>5. CASE InitTransposes(st, k, r)
  <2>1. r = [nodes |-> up, guard |-> used, weights |-> trans]
    BY <1>5 DEF InitTransposes, up, used, trans
  <2>2. r.nodes = up /\ r.guard = used /\ r.weights = trans
    BY <2>1
  <2>3. StateOK(m, r)
    BY <1>0, <1>u, <1>b, <1>f, <1>g, <2>1 DEF StateOK
  <2>4. Kept(m, st, r)
    BY <1>1, <1>f, <1>g, <2>2 DEF Kept
  <2> QED
    BY <1>u, <1>o, <2>2, <2>3, <2>4, Zenon DEF InitDone
<1>6. CASE InitRefused(st, k, r)
  <2>1. r = [nodes |-> up, guard |-> g, weights |-> ws]
    BY <1>6 DEF InitRefused, up
  <2>2. r.nodes = up /\ r.guard = g /\ r.weights = ws
    BY <2>1
  <2>3. StateOK(m, r)
    BY <1>0, <1>u, <1>b, <2>1 DEF StateOK
  <2>4. Kept(m, st, r)
    BY <2>2 DEF Kept
  <2> QED
    BY <1>u, <1>o, <2>2, <2>3, <2>4, Zenon DEF InitDone
<1> QED
  BY <1>4, <1>5, <1>6, InitCases

-----------------------------------------------------------------------------
(* Net::init as a whole.                                                   *)

\* Nothing is left to be done to the weights.
Flagged(m, ns) ==
  \A k \in Steps : /\ file[m][k].op = "ConvBatchnorm" => ns[k].is_param_updated
                   /\ ns[k].is_weights_transed

\* The state after InitParam of the nodes up to k.
ParamUpTo(m, st, k, r) ==
  /\ StateOK(m, r) /\ Kept(m, st, r)
  /\ \A j \in 1 .. k : file[m][j].op = "ConvBatchnorm" => r.nodes[j].is_param_updated

LEMMA ParamLoopFacts ==
  ASSUME NEW m \in Models, NEW st, StateOK(m, st)
  PROVE  \A k \in 0 .. MaxNodes : ParamUpTo(m, st, k, ParamLoop(m, st)[k])
<1> USE DEF ParamUpTo
<1> DEFINE f == ParamLoop(m, st)
           Good(k) == ParamUpTo(m, st, k, f[k])
           K == {k \in 0 .. MaxNodes : Good(k)}
<1>0. MaxNodes \in Nat
  BY WrapperAssumption
<1>1. 0 \in K
  <2>1. f[0] = st
    BY ParamLoopDef
  <2>2. Kept(m, st, st)
    BY DEF Kept
  <2> QED
    BY <1>0, <2>1, <2>2
<1>2. ASSUME NEW k \in 1 .. MaxNodes, k - 1 \in K PROVE k \in K
  <2>1. k \in Steps /\ f[k] = InitParam(m, f[k - 1], k)
    BY ParamLoopDef DEF Steps
  <2>2. Good(k - 1)
    BY <1>2
  <2> HIDE DEF f
  <2> DEFINE s == f[k - 1]
             r == f[k]
  <2>3. StateOK(m, s) /\ Kept(m, st, s) /\ r = InitParam(m, s, k)
    BY <2>1, <2>2
  <2>4. /\ \A j \in 1 .. (k - 1) : file[m][j].op = "ConvBatchnorm"
                                    => s.nodes[j].is_param_updated
    BY <2>2
  <2> HIDE DEF s, r
  <2>5. /\ StateOK(m, r) /\ Kept(m, s, r)
        /\ \A j \in Steps : j # k => r.nodes[j] = s.nodes[j]
        /\ r.nodes[k].op = "ConvBatchnorm" => r.nodes[k].is_param_updated
    <3>1. k \in Steps /\ StateOK(m, s) /\ r = InitParam(m, s, k)
      BY <2>1, <2>3
    <3>2. ParamDone(m, s, k, r)
      BY <3>1, ParamStep
    <3> QED
      BY <3>2, Zenon DEF ParamDone
  <2>6. Kept(m, st, r)
    BY <2>3, <2>5, KeptTransitive
  <2>7. ASSUME NEW j \in 1 .. k, file[m][j].op = "ConvBatchnorm"
        PROVE r.nodes[j].is_param_updated
    <3>1. CASE j = k
      <4>1. r.nodes[k].op = "ConvBatchnorm"
        BY <2>1, <2>5, <2>7, <3>1 DEF StateOK, NodesOK
      <4> QED
        BY <2>5, <3>1, <4>1, Zenon
    <3>2. CASE j # k
      <4>1. j \in 1 .. (k - 1) /\ j \in Steps
        BY <1>0, <3>2 DEF Steps
      <4>2. r.nodes[j] = s.nodes[j] /\ s.nodes[j].is_param_updated
        BY <2>4, <2>5, <2>7, <3>2, <4>1, Zenon
      <4> QED
        BY <4>2, Zenon
    <3> QED
      BY <3>1, <3>2
  <2>8. Good(k)
    BY <2>5, <2>6, <2>7 DEF r
  <2> HIDE DEF Good
  <2> QED
    BY <1>0, <2>8
<1>3. \A k \in 0 .. MaxNodes : k \in K
  <2> HIDE DEF K
  <2> QED
    BY <1>0, <1>1, <1>2, LoopInduction
<1> QED
  BY <1>3, Zenon

\* The state after Init of the nodes up to k.
SameParams(st, r) ==
  \A j \in Steps : /\ r.nodes[j].b = st.nodes[j].b
                   /\ r.nodes[j].is_param_updated = st.nodes[j].is_param_updated

InitUpTo(m, st, k, r) ==
  /\ StateOK(m, r) /\ Kept(m, st, r) /\ SameParams(st, r)
  /\ \A j \in 1 .. k : r.nodes[j].is_weights_transed

LEMMA InitLoopFacts ==
  ASSUME NEW m \in Models, NEW st, StateOK(m, st)
  PROVE  \A k \in 0 .. MaxNodes : InitUpTo(m, st, k, InitLoop(m, st)[k])
<1> USE DEF InitUpTo
<1> DEFINE f == InitLoop(m, st)
           Good(k) == InitUpTo(m, st, k, f[k])
           K == {k \in 0 .. MaxNodes : Good(k)}
<1>0. MaxNodes \in Nat
  BY WrapperAssumption
<1>1. 0 \in K
  <2>1. f[0] = st
    BY InitLoopDef
  <2>2. Kept(m, st, st) /\ SameParams(st, st)
    BY DEF Kept, SameParams
  <2> HIDE DEF f
  <2> QED
    BY <1>0, <2>1, <2>2
<1>2. ASSUME NEW k \in 1 .. MaxNodes, k - 1 \in K PROVE k \in K
  <2>1. k \in Steps /\ f[k] = Init(m, f[k - 1], k)
    BY InitLoopDef DEF Steps
  <2>2. Good(k - 1)
    BY <1>2
  <2> HIDE DEF f
  <2> DEFINE s == f[k - 1]
             r == f[k]
  <2>3. StateOK(m, s) /\ Kept(m, st, s) /\ SameParams(st, s) /\ r = Init(m, s, k)
    BY <2>1, <2>2, Zenon
  <2>4. \A j \in 1 .. (k - 1) : s.nodes[j].is_weights_transed
    BY <2>2
  <2> HIDE DEF s, r
  <2>5. /\ StateOK(m, r) /\ Kept(m, s, r)
        /\ \A j \in Steps : j # k => r.nodes[j] = s.nodes[j]
        /\ r.nodes[k].b = s.nodes[k].b
        /\ r.nodes[k].is_param_updated = s.nodes[k].is_param_updated
        /\ r.nodes[k].is_weights_transed
    <3>1. k \in Steps /\ StateOK(m, s) /\ r = Init(m, s, k)
      BY <2>1, <2>3
    <3>2. InitDone(m, s, k, r)
      BY <3>1, InitStep
    <3> QED
      BY <3>2, Zenon DEF InitDone
  <2>6. Kept(m, st, r)
    BY <2>3, <2>5, KeptTransitive
  <2>7. SameParams(st, r)
    BY <2>3, <2>5, Zenon DEF SameParams
  <2>9. ASSUME NEW j \in 1 .. k PROVE r.nodes[j].is_weights_transed
    <3>1. CASE j = k
      BY <2>5, <3>1, Zenon
    <3>2. CASE j # k
      <4>1. j \in 1 .. (k - 1) /\ j \in Steps
        BY <1>0, <3>2 DEF Steps
      <4>2. r.nodes[j] = s.nodes[j] /\ s.nodes[j].is_weights_transed
        BY <2>4, <2>5, <3>2, <4>1, Zenon
      <4> QED
        BY <4>2, Zenon
    <3> QED
      BY <3>1, <3>2
  <2>8. Good(k)
    BY <2>5, <2>6, <2>7, <2>9, Zenon DEF r
  <2> HIDE DEF Good
  <2> QED
    BY <1>0, <2>8
<1>3. \A k \in 0 .. MaxNodes : k \in K
  <2> HIDE DEF K
  <2> QED
    BY <1>0, <1>1, <1>2, LoopInduction
<1> QED
  BY <1>3, Zenon

\* A net that is not the first of its model changes nothing but guards.
LEMMA ParamLoopIdle ==
  ASSUME NEW m \in Models, NEW st, StateOK(m, st), Flagged(m, st.nodes)
  PROVE  \A k \in 0 .. MaxNodes : ParamLoop(m, st)[k] = st
<1> DEFINE f == ParamLoop(m, st)
           K == {k \in 0 .. MaxNodes : f[k] = st}
<1>0. MaxNodes \in Nat
  BY WrapperAssumption
<1>1. 0 \in K
  BY <1>0, ParamLoopDef
<1>2. ASSUME NEW k \in 1 .. MaxNodes, k - 1 \in K PROVE k \in K
  <2>1. k \in Steps /\ f[k] = InitParam(m, st, k)
    BY <1>2, ParamLoopDef DEF Steps
  <2>2. st.nodes[k].op = "Convolution" \/ st.nodes[k].is_param_updated
    <3>1. /\ st.nodes[k].op = file[m][k].op
          /\ st.nodes[k].op \in {"Convolution", "ConvBatchnorm"}
      BY <2>1 DEF StateOK, NodesOK, Node
    <3>2. file[m][k].op = "ConvBatchnorm" => st.nodes[k].is_param_updated
      BY <2>1, Zenon DEF Flagged
    <3> QED
      BY <3>1, <3>2, Zenon
  <2>3. f[k] = st
    BY <2>1, <2>2 DEF InitParam
  <2> QED
    BY <1>0, <2>3
<1>3. \A k \in 0 .. MaxNodes : k \in K
  <2> HIDE DEF K
  <2> QED
    BY <1>0, <1>1, <1>2, LoopInduction
<1> QED
  BY <1>3

LEMMA InitLoopIdle ==
  ASSUME NEW m \in Models, NEW st, StateOK(m, st), Flagged(m, st.nodes)
  PROVE  \A k \in 0 .. MaxNodes :
           LET r == InitLoop(m, st)[k]
           IN StateOK(m, r) /\ r.nodes = st.nodes /\ r.weights = st.weights
<1> DEFINE f == InitLoop(m, st)
           Good(k) == StateOK(m, f[k]) /\ f[k].nodes = st.nodes /\ f[k].weights = st.weights
           K == {k \in 0 .. MaxNodes : Good(k)}
<1>0. MaxNodes \in Nat
  BY WrapperAssumption
<1>1. 0 \in K
  <2>1. f[0] = st
    BY InitLoopDef
  <2> HIDE DEF f
  <2> QED
    BY <1>0, <2>1
<1>2. ASSUME NEW k \in 1 .. MaxNodes, k - 1 \in K PROVE k \in K
  <2>1. k \in Steps /\ f[k] = Init(m, f[k - 1], k)
    BY InitLoopDef DEF Steps
  <2>2. Good(k - 1)
    BY <1>2
  <2> HIDE DEF f
  <2> DEFINE s == f[k - 1]
             r == f[k]
  <2>3. StateOK(m, s) /\ s.nodes = st.nodes /\ s.weights = st.weights /\ r = Init(m, s, k)
    BY <2>1, <2>2
  <2> HIDE DEF s, r
  <2>4. InitDone(m, s, k, r)
    BY <2>1, <2>3, InitStep
  <2>5. StateOK(m, r)
    BY <2>4 DEF InitDone
  <2>6. s.nodes[k].is_weights_transed
    BY <2>1, <2>3, Zenon DEF Flagged
  <2>7. InitAgain(s, k, r) \/ InitTransposes(s, k, r) \/ InitRefused(s, k, r)
    BY <2>1, <2>3, InitCases
  <2>8. InitAgain(s, k, r)
    BY <2>6, <2>7, Zenon DEF InitTransposes, InitRefused
  <2>9. r.nodes = s.nodes /\ r.weights = s.weights
    BY <2>8 DEF InitAgain
  <2>10. Good(k)
    BY <2>3, <2>5, <2>9 DEF r
  <2> HIDE DEF Good
  <2> QED
    BY <1>0, <2>10
<1>3. \A k \in 0 .. MaxNodes : k \in K
  <2> HIDE DEF K
  <2> QED
    BY <1>0, <1>1, <1>2, LoopInduction
<1> QED
  BY <1>3

\* The first net leaves nothing to be done, a later one finds nothing to do.
NetDone(m, st, r) ==
  /\ StateOK(m, r) /\ Kept(m, st, r) /\ Flagged(m, r.nodes)
  /\ Flagged(m, st.nodes) => r.nodes = st.nodes /\ r.weights = st.weights

LEMMA NetInitFacts ==
  ASSUME NEW m \in Models, NEW st, StateOK(m, st)
  PROVE  NetDone(m, st, net_init(m, st))
<1> DEFINE p == ParamLoop(m, st)[MaxNodes]
           r == InitLoop(m, p)[MaxNodes]
<1>0. MaxNodes \in Nat /\ MaxNodes \in 0 .. MaxNodes /\ Steps = 1 .. MaxNodes
  BY WrapperAssumption DEF Steps
<1>1. ParamUpTo(m, st, MaxNodes, p)
  BY <1>0, ParamLoopFacts
<1>2. StateOK(m, p) /\ Kept(m, st, p)
  BY <1>1 DEF ParamUpTo
<1> HIDE DEF p
<1>3. InitUpTo(m, p, MaxNodes, r)
  BY <1>0, <1>2, InitLoopFacts
<1>4. StateOK(m, r) /\ Kept(m, p, r)
  BY <1>3 DEF InitUpTo
<1>5. ASSUME Flagged(m, st.nodes) PROVE r.nodes = st.nodes /\ r.weights = st.weights
  <2>1. p = st
    BY <1>0, <1>5, ParamLoopIdle DEF p
  <2> QED
    BY <1>0, <1>5, <2>1, InitLoopIdle
<1>6. net_init(m, st) = r
  BY DEF net_init, p
<1> HIDE DEF r
<1>7. Kept(m, st, r)
  BY <1>2, <1>4, KeptTransitive
<1>8. Flagged(m, r.nodes)
  <2>1. \A j \in Steps : file[m][j].op = "ConvBatchnorm" => p.nodes[j].is_param_updated
    BY <1>0, <1>1, Zenon DEF ParamUpTo
  <2>2. \A j \in Steps : r.nodes[j].is_param_updated = p.nodes[j].is_param_updated
    BY <1>3, Zenon DEF InitUpTo, SameParams
  <2>3. \A j \in Steps : r.nodes[j].is_weights_transed
    BY <1>0, <1>3, Zenon DEF InitUpTo
  <2> QED
    BY <2>1, <2>2, <2>3, Zenon DEF Flagged
<1> QED
  BY <1>4, <1>5, <1>6, <1>7, <1>8 DEF NetDone

-----------------------------------------------------------------------------
(* The state of the process.                                               *)

StateOf(m) == [nodes |-> _graph_map[m].nodes, guard |-> _res_guard, weights |-> weights]

WrapperTypeOK ==
  /\ file \in [Models -> Files]
  /\ _model_path \in [Pools -> Models] /\ _in_shapes \in [Pools -> Shapes]
  /\ owner \in [Ids -> Pools \cup {None}] /\ initialised \in SUBSET Ids
  /\ _thread_to_net \in [DOMAIN _thread_to_net -> [model : Models, shape : Shapes]]
  /\ DOMAIN _thread_to_net \subseteq Ids
  /\ DOMAIN _graph_map \subseteq Models
  /\ _res_guard \in [DOMAIN _res_guard -> SUBSET Levels] /\ Null \in DOMAIN _res_guard
  /\ weights \in [DOMAIN weights -> [folded : Nat, transed : Nat]]

\* The graphs in the map: their tensors are registered, and every node of one
\* that has a net is prepared.
GraphInv ==
  /\ \A m \in DOMAIN _graph_map : StateOK(m, StateOf(m)) /\ _graph_map[m].shape \in Shapes
  /\ \A i \in DOMAIN _thread_to_net :
       LET m == _thread_to_net[i].model
       IN m \in DOMAIN _graph_map /\ Flagged(m, _graph_map[m].nodes)

\* The weights of two models are different tensors.
LEMMA OwnWeights ==
  ASSUME NEW m, NEW n, m # n
  PROVE  /\ \A k : Weight(n, k) \notin Weights(m) \cup Biases(m)
         /\ \A k : Bias(n, k) \notin Weights(m) \cup Biases(m)
BY DEF Weights, Biases, Weight, Bias

\* What load leaves alone, and what it makes.
Loaded(m, r) ==
  /\ StateOK(m, r)
  /\ DOMAIN r.weights = DOMAIN weights \cup Weights(m)
  /\ \A t \in DOMAIN weights \ Weights(m) : r.weights[t] = weights[t]
  /\ DOMAIN _res_guard \subseteq DOMAIN r.guard

LEMMA LoadFacts ==
  ASSUME WrapperTypeOK, NEW m \in Models
  PROVE  Loaded(m, load(m))
<1> DEFINE nodes == parse(m)
           W == {nodes[k].w : k \in Steps}
           B == {nodes[k].b : k \in Steps} \ {Null}
           g == new_block(_res_guard, W \cup B)
           ws == [t \in DOMAIN weights \cup W |->
                    IF t \in W THEN [folded |-> 0, transed |-> 0] ELSE weights[t]]
<1>1. load(m) = [nodes |-> nodes, guard |-> g, weights |-> ws]
  BY DEF load, Steps
<1>2. \A k \in Steps : file[m][k].op \in {"Convolution", "ConvBatchnorm"}
                       /\ file[m][k].w \in Steps /\ file[m][k].b \in {0} \cup Steps
  <2>1. file[m] \in [Steps -> FileNode(MaxNodes)]
    BY DEF WrapperTypeOK, Files, Steps
  <2>2. ASSUME NEW k \in Steps
        PROVE /\ file[m][k].op \in {"Convolution", "ConvBatchnorm"}
              /\ file[m][k].w \in 1 .. MaxNodes /\ file[m][k].b \in 0 .. MaxNodes
    <3>1. file[m][k] \in FileNode(MaxNodes)
      BY <2>1
    <3> QED
      BY <3>1 DEF FileNode
  <2>3. 0 .. MaxNodes = {0} \cup Steps
    BY WrapperAssumption DEF Steps
  <2> QED
    BY <2>2, <2>3 DEF Steps
<1>3. NodesOK(m, nodes)
  <2>1. ASSUME NEW k \in Steps
        PROVE /\ nodes[k] \in Node(m)
              /\ nodes[k].op = file[m][k].op /\ nodes[k].w = Weight(m, file[m][k].w)
    <3>1. /\ Weight(m, file[m][k].w) \in Weights(m)
          /\ (IF file[m][k].b = 0 THEN Null ELSE Bias(m, file[m][k].b)) \in {Null} \cup Biases(m)
      BY <1>2 DEF Weights, Biases
    <3> QED
      BY <1>2, <3>1 DEF parse, Steps, Node
  <2>2. nodes = [k \in Steps |-> nodes[k]]
    BY DEF parse, Steps
  <2> HIDE DEF nodes
  <2> QED
    BY <2>1, <2>2 DEF NodesOK
<1>4. W = Weights(m)
  BY <1>3 DEF NodesOK, Weights
<1> HIDE DEF nodes
<1>5. /\ g \in [DOMAIN _res_guard \cup W \cup B -> SUBSET Levels]
      /\ DOMAIN g = DOMAIN _res_guard \cup W \cup B
  BY DEF WrapperTypeOK, new_block, make_lock
<1>6. /\ ws \in [DOMAIN weights \cup W -> [folded : Nat, transed : Nat]]
      /\ DOMAIN ws = DOMAIN weights \cup W
      /\ \A t \in DOMAIN weights \ W : ws[t] = weights[t]
  BY DEF WrapperTypeOK
<1>7. \A k \in Steps : nodes[k].b \in B \cup {Null}
  OBVIOUS
<1>8. Null \in DOMAIN _res_guard
  BY DEF WrapperTypeOK
<1> HIDE DEF W, B, g, ws
<1>9. StateOK(m, [nodes |-> nodes, guard |-> g, weights |-> ws])
  BY <1>3, <1>4, <1>5, <1>6, <1>7, <1>8 DEF StateOK
<1> QED
  BY <1>1, <1>4, <1>5, <1>6, <1>9 DEF Loaded

LEMMA WrapperInvInit == WrapperInit => WrapperTypeOK /\ GraphInv
BY DEF WrapperInit, WrapperTypeOK, GraphInv, GraphGlobalMem, make_lock

\* initial(), with the state the net is made from and the one it leaves.
InitialEnds(i, m, s, st, end) ==
  /\ m \in Models /\ s \in Shapes /\ i \in Ids
  /\ m \in DOMAIN _graph_map => st = StateOf(m) /\ s = _graph_map[m].shape
  /\ m \notin DOMAIN _graph_map => st = load(m)
  /\ end = IF i \notin DOMAIN _thread_to_net THEN net_init(m, st) ELSE st
  /\ _graph_map' = Put(_graph_map, m, [shape |-> s, nodes |-> end.nodes])
  /\ _res_guard' = end.guard /\ weights' = end.weights
  /\ _thread_to_net' = IF i \notin DOMAIN _thread_to_net
                       THEN Put(_thread_to_net, i, [model |-> m, shape |-> s])
                       ELSE _thread_to_net
  /\ initialised' = initialised \cup {i}
  /\ UNCHANGED <<file, _model_path, _in_shapes, owner>>

LEMMA InitialSplit ==
  ASSUME WrapperTypeOK, GraphInv, NEW i \in Ids, Initial(i)
  PROVE  \E m, s, st, end : InitialEnds(i, m, s, st, end)
<1> DEFINE m == _model_path[owner[i]]
           s == IF m \in DOMAIN _graph_map THEN _graph_map[m].shape ELSE _in_shapes[owner[i]]
           st == IF m \in DOMAIN _graph_map THEN StateOf(m) ELSE load(m)
           end == IF i \notin DOMAIN _thread_to_net THEN net_init(m, st) ELSE st
<1>1. owner[i] \in Pools
  BY DEF Initial, WrapperTypeOK
<1>2. m \in Models /\ s \in Shapes
  BY <1>1 DEF WrapperTypeOK, GraphInv
<1>3. /\ _graph_map' = Put(_graph_map, m, [shape |-> s, nodes |-> end.nodes])
      /\ _res_guard' = end.guard /\ weights' = end.weights
      /\ _thread_to_net' = IF i \notin DOMAIN _thread_to_net
                           THEN Put(_thread_to_net, i, [model |-> m, shape |-> s])
                           ELSE _thread_to_net
      /\ initialised' = initialised \cup {i}
      /\ UNCHANGED <<file, _model_path, _in_shapes, owner>>
  BY Zenon DEF Initial, StateOf
<1>4. InitialEnds(i, m, s, st, end)
  <2> HIDE DEF m
  <2> QED
    BY <1>2, <1>3 DEF InitialEnds
<1> QED
  BY <1>4

\* What initial() does to the graph of its model and leaves alone of the others'.
InitialDone(i, m, s, st, end) ==
  /\ StateOK(m, end)
  /\ DOMAIN weights \subseteq DOMAIN weights' /\ DOMAIN _res_guard \subseteq DOMAIN _res_guard'
  /\ \A t \in DOMAIN weights \ Weights(m) : weights'[t] = weights[t]
  /\ i \notin DOMAIN _thread_to_net => Flagged(m, end.nodes)
  /\ m \in DOMAIN _graph_map /\ Flagged(m, _graph_map[m].nodes) =>
       end.nodes = _graph_map[m].nodes /\ end.weights = weights

LEMMA InitialFacts ==
  ASSUME WrapperTypeOK, GraphInv, NEW i, NEW m, NEW s, NEW st, NEW end,
         InitialEnds(i, m, s, st, end)
  PROVE  InitialDone(i, m, s, st, end)
<1>0. m \in Models
  BY DEF InitialEnds
<1>1. /\ StateOK(m, st) /\ DOMAIN weights \subseteq DOMAIN st.weights
      /\ DOMAIN _res_guard \subseteq DOMAIN st.guard
      /\ \A t \in DOMAIN weights \ Weights(m) : st.weights[t] = weights[t]
      /\ m \in DOMAIN _graph_map => st.nodes = _graph_map[m].nodes /\ st.weights = weights
  <2>1. CASE m \in DOMAIN _graph_map
    <3>1. st = StateOf(m) /\ StateOK(m, StateOf(m))
      BY <2>1 DEF InitialEnds, GraphInv
    <3>2. st.nodes = _graph_map[m].nodes /\ st.weights = weights /\ st.guard = _res_guard
      BY <3>1 DEF StateOf
    <3> QED
      BY <3>1, <3>2
  <2>2. CASE m \notin DOMAIN _graph_map
    <3>1. Loaded(m, st)
      BY <1>0, <2>2, LoadFacts DEF InitialEnds
    <3> QED
      BY <2>2, <3>1 DEF Loaded
  <2> QED
    BY <2>1, <2>2
<1>2. weights' = end.weights /\ _res_guard' = end.guard
  BY DEF InitialEnds
<1>3. CASE i \in DOMAIN _thread_to_net
  <2>1. end = st
    BY <1>3 DEF InitialEnds
  <2> QED
    BY <1>1, <1>2, <1>3, <2>1 DEF InitialDone
<1>4. CASE i \notin DOMAIN _thread_to_net
  <2>1. NetDone(m, st, end)
    BY <1>0, <1>1, <1>4, NetInitFacts DEF InitialEnds
  <2>2. StateOK(m, end) /\ Kept(m, st, end) /\ Flagged(m, end.nodes)
    BY <2>1 DEF NetDone
  <2>3. /\ DOMAIN weights \subseteq DOMAIN weights' /\ DOMAIN _res_guard \subseteq DOMAIN _res_guard'
        /\ \A t \in DOMAIN weights \ Weights(m) : weights'[t] = weights[t]
    BY <1>1, <1>2, <2>2 DEF Kept
  <2>4. m \in DOMAIN _graph_map /\ Flagged(m, _graph_map[m].nodes) =>
          end.nodes = _graph_map[m].nodes /\ end.weights = weights
    BY <1>1, <2>1 DEF NetDone
  <2> QED
    BY <2>2, <2>3, <2>4 DEF InitialDone
<1> QED
  BY <1>3, <1>4

LEMMA InitialKeepsInv ==
  ASSUME WrapperTypeOK, GraphInv, NEW i, NEW m, NEW s, NEW st, NEW end,
         InitialEnds(i, m, s, st, end)
  PROVE  WrapperTypeOK' /\ GraphInv'
<1>0. /\ m \in Models /\ s \in Shapes /\ i \in Ids
      /\ weights' = end.weights /\ _res_guard' = end.guard
      /\ _graph_map' = Put(_graph_map, m, [shape |-> s, nodes |-> end.nodes])
      /\ UNCHANGED <<file, _model_path, _in_shapes, owner>>
      /\ initialised' = initialised \cup {i}
  BY DEF InitialEnds
<1>1. InitialDone(i, m, s, st, end)
  BY InitialFacts
<1>2. /\ DOMAIN _graph_map' = DOMAIN _graph_map \cup {m}
      /\ _graph_map'[m] = [shape |-> s, nodes |-> end.nodes]
      /\ \A n \in DOMAIN _graph_map : n # m => _graph_map'[n] = _graph_map[n]
  BY <1>0 DEF Put
<1>3. /\ _thread_to_net' \in [DOMAIN _thread_to_net' -> [model : Models, shape : Shapes]]
      /\ DOMAIN _thread_to_net' = DOMAIN _thread_to_net \cup {i}
      /\ \A j \in DOMAIN _thread_to_net : _thread_to_net'[j] = _thread_to_net[j]
      /\ i \notin DOMAIN _thread_to_net => _thread_to_net'[i].model = m
  BY <1>0 DEF InitialEnds, Put, WrapperTypeOK
<1>4. /\ _res_guard' \in [DOMAIN _res_guard' -> SUBSET Levels] /\ Null \in DOMAIN _res_guard'
      /\ weights' \in [DOMAIN weights' -> [folded : Nat, transed : Nat]]
  BY <1>0, <1>1 DEF InitialDone, StateOK
<1>5. WrapperTypeOK'
  BY <1>0, <1>2, <1>3, <1>4 DEF WrapperTypeOK
<1>6. \A n : Weights(n)' = Weights(n) /\ Node(n)' = Node(n)
  BY <1>0 DEF Weights, Node, Biases, Steps
<1>7. ASSUME NEW n \in DOMAIN _graph_map'
      PROVE  StateOK(n, StateOf(n))' /\ _graph_map'[n].shape \in Shapes
  <2>1. CASE n = m
    <3>1. StateOf(n)' = end
      BY <1>0, <1>1, <1>2, <2>1 DEF StateOf, InitialDone, StateOK
    <3>2. StateOK(n, end)'
      BY <1>0, <1>1, <1>6, <2>1 DEF StateOf, InitialDone, StateOK, NodesOK
    <3> QED
      BY <1>0, <1>2, <2>1, <3>1, <3>2
  <2>2. CASE n # m
    <3>1. n \in DOMAIN _graph_map /\ _graph_map'[n] = _graph_map[n]
      BY <1>2, <2>2
    <3>2. StateOK(n, StateOf(n)) /\ _graph_map[n].shape \in Shapes
      BY <3>1 DEF GraphInv
    <3> DEFINE ns == _graph_map[n].nodes
    <3>3. /\ NodesOK(n, ns) /\ Weights(n) \subseteq DOMAIN _res_guard
          /\ Weights(n) \subseteq DOMAIN weights
          /\ \A k \in Steps : ns[k].b \in DOMAIN _res_guard
      BY <3>2 DEF StateOK, StateOf
    <3>4. /\ Weights(n) \subseteq DOMAIN _res_guard' /\ Weights(n) \subseteq DOMAIN weights'
          /\ \A k \in Steps : ns[k].b \in DOMAIN _res_guard'
      BY <1>1, <3>3 DEF InitialDone
    <3>5. NodesOK(n, ns)'
      BY <1>0, <1>6, <3>1, <3>3 DEF NodesOK
    <3> HIDE DEF ns
    <3>6. StateOf(n)' = [nodes |-> ns', guard |-> _res_guard', weights |-> weights'] /\ ns' = ns
      BY <3>1 DEF StateOf, ns
    <3>7. StateOK(n, StateOf(n))'
      BY <1>4, <1>6, <3>4, <3>5, <3>6 DEF StateOK
    <3> QED
      BY <3>1, <3>2, <3>7
  <2> QED
    BY <2>1, <2>2
<1>8. ASSUME NEW j \in DOMAIN _thread_to_net',
             NEW n, n = _thread_to_net'[j].model
      PROVE  n \in DOMAIN _graph_map' /\ Flagged(n, _graph_map[n].nodes)'
  <2>1. CASE j \in DOMAIN _thread_to_net
    <3>1. n \in DOMAIN _graph_map /\ Flagged(n, _graph_map[n].nodes)
      BY <1>3, <1>8, <2>1 DEF GraphInv
    <3>2. _graph_map'[n].nodes = _graph_map[n].nodes
      BY <1>1, <1>2, <3>1 DEF InitialDone
    <3> QED
      BY <1>0, <1>2, <3>1, <3>2, Zenon DEF Flagged
  <2>2. CASE j \notin DOMAIN _thread_to_net
    <3>1. n = m /\ i \notin DOMAIN _thread_to_net
      BY <1>3, <1>8, <2>2
    <3>2. Flagged(m, end.nodes) /\ _graph_map'[m].nodes = end.nodes
      BY <1>1, <1>2, <3>1 DEF InitialDone
    <3> QED
      BY <1>0, <1>2, <3>1, <3>2, Zenon DEF Flagged
  <2> QED
    BY <2>1, <2>2
<1> QED
  BY <1>5, <1>7, <1>8 DEF GraphInv

LEMMA WrapperInvNext ==
  WrapperTypeOK /\ GraphInv /\ [WrapperNext]_wrapperVars => WrapperTypeOK' /\ GraphInv'
<1> SUFFICES ASSUME WrapperTypeOK, GraphInv, [WrapperNext]_wrapperVars
             PROVE  WrapperTypeOK' /\ GraphInv'
  OBVIOUS
<1>1. ASSUME NEW i \in Ids, Initial(i) PROVE WrapperTypeOK' /\ GraphInv'
  BY <1>1, InitialSplit, InitialKeepsInv
<1>2. ASSUME UNCHANGED <<file, _model_path, _in_shapes, _graph_map, _thread_to_net,
                         _res_guard, weights>>,
             owner' \in [Ids -> Pools \cup {None}], initialised' \in SUBSET Ids
      PROVE  WrapperTypeOK' /\ GraphInv'
  <2>1. WrapperTypeOK'
    BY <1>2 DEF WrapperTypeOK
  <2>2. /\ \A m : StateOf(m)' = StateOf(m) /\ Weights(m)' = Weights(m) /\ Node(m)' = Node(m)
    BY <1>2 DEF StateOf, Weights, Node, Biases, Steps
  <2>3. \A m, x : StateOK(m, x)' <=> StateOK(m, x)
    BY <1>2, <2>2 DEF StateOK, NodesOK, Weights, Node, Biases, Steps
  <2>4. GraphInv'
    BY <1>2, <2>2, <2>3, Zenon DEF GraphInv, Flagged
  <2> QED
    BY <2>1, <2>4
<1>3. ASSUME NEW i \in Ids, NEW p \in Pools, StartThread(p, i)
      PROVE  WrapperTypeOK' /\ GraphInv'
  <2>1. owner' \in [Ids -> Pools \cup {None}] /\ initialised' \in SUBSET Ids
    BY <1>3 DEF StartThread, WrapperTypeOK
  <2> QED
    BY <1>2, <1>3, <2>1 DEF StartThread
<1>4. ASSUME NEW i \in Ids, JoinThread(i) PROVE WrapperTypeOK' /\ GraphInv'
  <2>1. owner' \in [Ids -> Pools \cup {None}] /\ initialised' \in SUBSET Ids
    BY <1>4 DEF JoinThread, WrapperTypeOK
  <2> QED
    BY <1>2, <1>4, <2>1 DEF JoinThread
<1>5. CASE UNCHANGED wrapperVars
  <2>1. owner' \in [Ids -> Pools \cup {None}] /\ initialised' \in SUBSET Ids
    BY <1>5 DEF wrapperVars, WrapperTypeOK
  <2> QED
    BY <1>2, <1>5, <2>1 DEF wrapperVars
<1> QED
  BY <1>1, <1>3, <1>4, <1>5 DEF WrapperNext

LEMMA WrapperInvariant == WrapperSpec => [](WrapperTypeOK /\ GraphInv)
BY WrapperInvInit, WrapperInvNext, PTL DEF WrapperSpec

\* What a net of m has in common with the graph of m.
Stable(m) ==
  /\ _graph_map'[m].shape = _graph_map[m].shape
  /\ \A k \in 1 .. MaxNodes :
       /\ _graph_map'[m].nodes[k].b = _graph_map[m].nodes[k].b
       /\ weights'[Weight(m, file[m][k].w)] = weights[Weight(m, file[m][k].w)]

LEMMA StepIsStable ==
  WrapperTypeOK /\ GraphInv /\ WrapperNext => \A m \in Models : NetsOf(m) # {} => Stable(m)
<1> SUFFICES ASSUME WrapperTypeOK, GraphInv, WrapperNext,
                    NEW m \in Models, NetsOf(m) # {}
             PROVE  Stable(m)
  OBVIOUS
<1>1. m \in DOMAIN _graph_map /\ Flagged(m, _graph_map[m].nodes)
  BY DEF NetsOf, GraphInv
<1>2. CASE UNCHANGED <<_graph_map, weights>>
  BY <1>2 DEF Stable
<1>3. ASSUME NEW i, NEW n, NEW s, NEW st, NEW end, InitialEnds(i, n, s, st, end)
      PROVE  Stable(m)
  <2>1. InitialDone(i, n, s, st, end)
    BY <1>3, InitialFacts
  <2>2. /\ _graph_map' = Put(_graph_map, n, [shape |-> s, nodes |-> end.nodes])
        /\ weights' = end.weights
    BY <1>3 DEF InitialEnds
  <2>3. CASE n = m
    <3>1. end.nodes = _graph_map[m].nodes /\ weights' = weights /\ s = _graph_map[m].shape
      BY <1>1, <1>3, <2>1, <2>2, <2>3 DEF InitialDone, InitialEnds
    <3>2. _graph_map'[m] = [shape |-> s, nodes |-> end.nodes]
      BY <2>2, <2>3 DEF Put
    <3> QED
      BY <3>1, <3>2 DEF Stable
  <2>4. CASE n # m
    <3>1. _graph_map'[m] = _graph_map[m]
      BY <1>1, <2>2, <2>4 DEF Put
    <3>2. ASSUME NEW k \in 1 .. MaxNodes
          PROVE  weights'[Weight(m, file[m][k].w)] = weights[Weight(m, file[m][k].w)]
      <4>1. Weight(m, file[m][k].w) \in Weights(m)
        BY DEF Weights, Steps
      <4>2. Weights(m) \subseteq DOMAIN weights
        BY <1>1 DEF GraphInv, StateOK, StateOf
      <4>3. Weight(m, file[m][k].w) \notin Weights(n)
        BY <2>4, OwnWeights
      <4> QED
        BY <2>1, <4>1, <4>2, <4>3 DEF InitialDone
    <3> QED
      BY <3>1, <3>2 DEF Stable
  <2> QED
    BY <2>3, <2>4
<1>4. ASSUME NEW i \in Ids, Initial(i) PROVE Stable(m)
  BY <1>3, <1>4, InitialSplit
<1> QED
  BY <1>2, <1>4 DEF WrapperNext, StartThread, JoinThread

\* Nets that are made later, of this model or another, and graphs that are
\* loaded later change nothing a net shares with its graph.
THEOREM SharedStateIsStable == WrapperSpec => SharedStateStable
<1>1. WrapperTypeOK /\ GraphInv /\ [WrapperNext]_wrapperVars =>
        [\A m \in Models : NetsOf(m) # {} =>
           /\ _graph_map'[m].shape = _graph_map[m].shape
           /\ \A k \in 1 .. MaxNodes :
                /\ _graph_map'[m].nodes[k].b = _graph_map[m].nodes[k].b
                /\ weights'[Weight(m, file[m][k].w)] = weights[Weight(m, file[m][k].w)]
        ]_wrapperVars
  BY StepIsStable DEF Stable
<1> QED
  BY <1>1, WrapperInvariant, PTL DEF WrapperSpec, SharedStateStable

-----------------------------------------------------------------------------
(* What InitParam and Init do to the guards and the weights.               *)

ParamIdle(st, k, r) ==
  /\ ~Due(st, k) \/ ~Access(st, k)
  /\ r.guard = st.guard /\ r.weights = st.weights /\ r.nodes[k].b = st.nodes[k].b

ParamFold(m, st, k, r) ==
  LET w == st.nodes[k].w
      b == st.nodes[k].b
      u == IF b = Null THEN Bias(m, k) ELSE b   \* the bias after it
  IN /\ Due(st, k) /\ Access(st, k)
     /\ r.nodes[k].b = u /\ DOMAIN r.guard = DOMAIN st.guard \cup {u}
     /\ r.guard[w] = st.guard[w] \ {0}
     /\ b # Null => r.guard[b] = st.guard[b] \ {0}
     /\ b = Null /\ u \notin DOMAIN st.guard => r.guard[Null] = Levels
     /\ \A t \in DOMAIN st.guard : t \notin {w, b, u} => r.guard[t] = st.guard[t]
     /\ r.weights[w] = [folded |-> st.weights[w].folded + 1, transed |-> st.weights[w].transed]
     /\ \A t \in DOMAIN st.weights : t # w => r.weights[t] = st.weights[t]

\* The tensors of a model are different from nullptr and from each other.
LEMMA Tensors ==
  ASSUME NEW m \in Models, file \in [Models -> Files]
  PROVE  /\ \A k \in Steps : Weight(m, k) # Null /\ Bias(m, k) # Null
         /\ \A j, k : Weight(m, j) # Bias(m, k)
         /\ \A j, k : Weight(m, j) = Weight(m, k) => j = k
         /\ \A j, k : Bias(m, j) = Bias(m, k) => j = k
         /\ \A k \in Steps : file[m][k].w \in Steps
         /\ \A k \in Steps : file[m][k].b \in {0} \cup Steps
         /\ \A k \in Steps : file[m][k].op \in {"Convolution", "ConvBatchnorm"}
         /\ \A k \in Steps : file[m][k].b # 0 => file[m][file[m][k].b].b = file[m][k].b
<1>1. file[m] \in Files
  OBVIOUS
<1>2. ASSUME NEW k \in Steps
      PROVE /\ file[m][k].op \in {"Convolution", "ConvBatchnorm"}
            /\ file[m][k].w \in 1 .. MaxNodes /\ file[m][k].b \in 0 .. MaxNodes
            /\ file[m][k].b # 0 => file[m][file[m][k].b].b = file[m][k].b
  <2>1. file[m][k] \in FileNode(MaxNodes)
    BY <1>1 DEF Files, Steps
  <2>2. file[m][k].b # 0 => file[m][file[m][k].b].b = file[m][k].b
    BY <1>1 DEF Files, Steps
  <2> QED
    BY <2>1, <2>2 DEF FileNode
<1>3. 0 .. MaxNodes = {0} \cup Steps
  BY WrapperAssumption DEF Steps
<1>4. \A k \in Steps : Weight(m, k) # Null /\ Bias(m, k) # Null
  BY WrapperAssumption DEF Steps
<1>5. /\ \A j, k : Weight(m, j) # Bias(m, k)
      /\ \A j, k : Weight(m, j) = Weight(m, k) => j = k
      /\ \A j, k : Bias(m, j) = Bias(m, k) => j = k
  BY DEF Weight, Bias
<1> QED
  BY <1>2, <1>3, <1>4, <1>5 DEF Steps

LEMMA ParamEffect ==
  ASSUME NEW m \in Models, file \in [Models -> Files], NEW st, StateOK(m, st), NEW k \in Steps,
         NEW r, r = InitParam(m, st, k)
  PROVE  ParamIdle(st, k, r) \/ ParamFold(m, st, k, r)
<1> DEFINE ns == st.nodes
           g == st.guard
           ws == st.weights
           w == ns[k].w
           b == ns[k].b
           used == use(g, {w, b}, 0)
           fold == [ws EXCEPT ![w].folded = @ + 1]
<1>0. /\ NodesOK(m, ns) /\ g \in [DOMAIN g -> SUBSET Levels] /\ Null \in DOMAIN g
      /\ ws \in [DOMAIN ws -> [folded : Nat, transed : Nat]]
      /\ w \in DOMAIN g /\ w \in DOMAIN ws /\ b \in DOMAIN g
      /\ w # Null /\ w # Bias(m, k) /\ Bias(m, k) # Null /\ w # b
  <2>1. /\ NodesOK(m, ns) /\ g \in [DOMAIN g -> SUBSET Levels] /\ Null \in DOMAIN g
        /\ ws \in [DOMAIN ws -> [folded : Nat, transed : Nat]]
        /\ Weights(m) \subseteq DOMAIN g /\ Weights(m) \subseteq DOMAIN ws /\ b \in DOMAIN g
    BY DEF StateOK
  <2>2. w = Weight(m, file[m][k].w) /\ w \in Weights(m) /\ b \in {Null} \cup Biases(m)
    BY <2>1 DEF NodesOK, Node
  <2>3. w # Null /\ w # Bias(m, k) /\ Bias(m, k) # Null /\ w # b
    BY <2>2, Tensors DEF Biases
  <2> QED
    BY <2>1, <2>2, <2>3
<1>1. /\ fold[w] = [folded |-> ws[w].folded + 1, transed |-> ws[w].transed]
      /\ \A t \in DOMAIN ws : t # w => fold[t] = ws[t]
  BY <1>0, WeightsFacts
<1>2. /\ used \in [DOMAIN g -> SUBSET Levels] /\ DOMAIN used = DOMAIN g
      /\ \A t \in DOMAIN g : used[t] = IF t \in {w, b} THEN g[t] \ {0} ELSE g[t]
  BY <1>0 DEF use
<1>3. Both(st, k) = {w, b}
  BY DEF Both
<1>4. Updated(ns, k)[k].b = b
  BY <1>0, UpdatedFacts
<1>5. NodesOK(m, Updated(ns, k))
  BY <1>0, UpdatedFacts
<1>6. Biased(m, Updated(ns, k), k)[k].b = Bias(m, k)
  BY <1>5, BiasFacts
<1> DEFINE d == moved(used, Bias(m, k))
<1>7. /\ DOMAIN d = DOMAIN g \cup {Bias(m, k)}
      /\ Bias(m, k) \notin DOMAIN g => d[Null] = Levels
      /\ \A t \in DOMAIN g : t \notin {Null, Bias(m, k)} => d[t] = used[t]
  <2>1. used \in [DOMAIN used -> SUBSET Levels] /\ Null \in DOMAIN used /\ Bias(m, k) # Null
    BY <1>0, <1>2
  <2> HIDE DEF used
  <2>2. /\ DOMAIN d = DOMAIN used \cup {Bias(m, k)}
        /\ Bias(m, k) \notin DOMAIN used => d[Null] = Levels
        /\ \A t \in DOMAIN used \ {Bias(m, k), Null} : d[t] = used[t]
    BY <2>1, MovedFacts
  <2> HIDE DEF d
  <2> QED
    BY <1>2, <2>2
<1> HIDE DEF fold, used, d
<1>8. CASE ParamSkips(st, k, r)
  BY <1>8 DEF ParamSkips, ParamIdle
<1>9. CASE ParamRefused(st, k, r)
  BY <1>4, <1>9 DEF ParamRefused, ParamIdle
<1>10. CASE ParamFolds(st, k, r)
  <2>1. /\ r.nodes = Updated(ns, k) /\ r.guard = used /\ r.weights = fold
        /\ Due(st, k) /\ Access(st, k) /\ b # Null
    BY <1>3, <1>10 DEF ParamFolds, used, fold
  <2> QED
    BY <1>0, <1>1, <1>2, <1>4, <2>1 DEF ParamFold
<1>11. CASE ParamMoves(m, st, k, r)
  <2>1. /\ r.nodes = Biased(m, Updated(ns, k), k) /\ r.guard = d /\ r.weights = fold
        /\ Due(st, k) /\ Access(st, k) /\ b = Null
    BY <1>3, <1>11 DEF ParamMoves, used, fold, d
  <2> QED
    BY <1>0, <1>1, <1>2, <1>6, <1>7, <2>1 DEF ParamFold
<1> QED
  BY <1>8, <1>9, <1>10, <1>11, ParamCases

InitUse(st, k, r) ==
  LET w == st.nodes[k].w
      b == st.nodes[k].b
      l == Level(st, k)
  IN /\ ~st.nodes[k].is_weights_transed /\ TransAccess(st, k)
     /\ DOMAIN r.guard = DOMAIN st.guard
     /\ \A t \in DOMAIN st.guard : r.guard[t] = IF t \in {w, b} THEN st.guard[t] \ {l}
                                                ELSE st.guard[t]
     /\ r.weights[w] = [folded |-> st.weights[w].folded, transed |-> st.weights[w].transed + 1]
     /\ \A t \in DOMAIN st.weights : t # w => r.weights[t] = st.weights[t]

InitAgainUses(st, k, r) ==
  /\ st.nodes[k].is_weights_transed
  /\ DOMAIN r.guard = DOMAIN st.guard
  /\ \A t \in DOMAIN st.guard :
       r.guard[t] = IF t = Null THEN st.guard[t] \ {Level(st, k)} ELSE st.guard[t]

InitIdle(st, k, r) ==
  /\ ~st.nodes[k].is_weights_transed /\ ~TransAccess(st, k)
  /\ r.guard = st.guard /\ r.weights = st.weights

LEMMA InitEffect ==
  ASSUME NEW m \in Models, NEW st, StateOK(m, st), NEW k \in Steps,
         NEW r, r = Init(m, st, k)
  PROVE  InitUse(st, k, r) \/ InitAgainUses(st, k, r) \/ InitIdle(st, k, r)
<1> DEFINE ns == st.nodes
           g == st.guard
           ws == st.weights
           w == ns[k].w
           b == ns[k].b
           trans == [ws EXCEPT ![w].transed = @ + 1]
<1>0. /\ g \in [DOMAIN g -> SUBSET Levels] /\ ws \in [DOMAIN ws -> [folded : Nat, transed : Nat]]
      /\ w \in DOMAIN ws
  BY DEF StateOK, NodesOK, Node
<1>1. /\ trans[w] = [folded |-> ws[w].folded, transed |-> ws[w].transed + 1]
      /\ \A t \in DOMAIN ws : t # w => trans[t] = ws[t]
  BY <1>0, WeightsFacts
<1> HIDE DEF trans
<1>2. CASE InitAgain(st, k, r)
  <2>1. r.guard = use(g, {Null}, Level(st, k)) /\ st.nodes[k].is_weights_transed
    BY <1>2 DEF InitAgain
  <2> QED
    BY <1>0, <2>1 DEF use, InitAgainUses
<1>3. CASE InitTransposes(st, k, r)
  <2>1. /\ r.guard = use(g, {w, b}, Level(st, k)) /\ r.weights = trans
        /\ ~st.nodes[k].is_weights_transed /\ TransAccess(st, k)
    BY <1>3 DEF InitTransposes, Both, trans
  <2> QED
    BY <1>0, <1>1, <2>1 DEF use, InitUse
<1>4. CASE InitRefused(st, k, r)
  BY <1>4 DEF InitRefused, InitIdle
<1> QED
  BY <1>2, <1>3, <1>4, InitCases

-----------------------------------------------------------------------------
(* The first net of a model.                                               *)

\* A graph as load leaves it.
Fresh(m, st) ==
  /\ st.nodes = parse(m)
  /\ \A j \in Steps :
       LET n == file[m][j]
       IN /\ st.weights[Weight(m, n.w)] = [folded |-> 0, transed |-> 0]
          /\ st.guard[Weight(m, n.w)] = Levels
          /\ n.b # 0 => st.guard[Bias(m, n.b)] = Levels
          /\ n.b = 0 => Bias(m, j) \notin DOMAIN st.guard

\* The nodes the loop of InitParam has not reached are as in the file; the
\* empty tensor is accessible at level 0 as it was before.
ParamNull(m, st, k, r) ==
  /\ 0 \in r.guard[Null] <=> 0 \in st.guard[Null]
  /\ \A j \in Steps : j > k =>
       r.nodes[j] = parse(m)[j] /\ (file[m][j].b = 0 => Bias(m, j) \notin DOMAIN r.guard)
  /\ \A j \in Steps :
       /\ r.nodes[j].is_weights_transed = FALSE
       /\ file[m][j].b # 0 => r.nodes[j].b = Bias(m, file[m][j].b)
       /\ file[m][j].b = 0 /\ file[m][j].op = "Convolution" => r.nodes[j].b = Null

LEMMA ParseFacts ==
  ASSUME NEW m, NEW j \in Steps
  PROVE  /\ parse(m)[j].op = file[m][j].op
         /\ parse(m)[j].w = Weight(m, file[m][j].w)
         /\ parse(m)[j].b = IF file[m][j].b = 0 THEN Null ELSE Bias(m, file[m][j].b)
         /\ parse(m)[j].is_param_updated = FALSE
         /\ parse(m)[j].is_weights_transed = FALSE
BY DEF parse, Steps

LEMMA ParamNullStep ==
  ASSUME NEW m \in Models, file \in [Models -> Files], NEW st, NEW s, StateOK(m, s), NEW k \in Steps,
         ParamNull(m, st, k - 1, s), NEW r, r = InitParam(m, s, k)
  PROVE  ParamNull(m, st, k, r)
<1>0. k \in Nat /\ \A j \in Steps : j \in Nat
  BY WrapperAssumption DEF Steps
<1>1. ParamDone(m, s, k, r)
  BY ParamStep
<1>2. \A j \in Steps : j # k => r.nodes[j] = s.nodes[j]
  BY <1>1 DEF ParamDone
<1>3. s.nodes[k] = parse(m)[k] /\ (file[m][k].b = 0 => Bias(m, k) \notin DOMAIN s.guard)
  BY <1>0 DEF ParamNull
<1>4. /\ s.nodes[k].op = file[m][k].op /\ s.nodes[k].w = Weight(m, file[m][k].w)
      /\ s.nodes[k].b = IF file[m][k].b = 0 THEN Null ELSE Bias(m, file[m][k].b)
  BY <1>3, ParseFacts
<1>5. /\ Null \in DOMAIN s.guard /\ s.nodes[k].w # Null /\ Bias(m, k) # Null
      /\ file[m][k].b # 0 => s.nodes[k].b # Null
  BY <1>4, Tensors DEF StateOK
<1>6. /\ 0 \in r.guard[Null] <=> 0 \in s.guard[Null]
      /\ DOMAIN r.guard \subseteq DOMAIN s.guard \cup {s.nodes[k].b, Bias(m, k)}
      /\ s.nodes[k].b # Null => r.nodes[k].b = s.nodes[k].b
      /\ s.nodes[k].op = "Convolution" => r.nodes[k].b = s.nodes[k].b
  <2>1. CASE ParamIdle(s, k, r)
    BY <2>1 DEF ParamIdle
  <2>2. CASE ParamFold(m, s, k, r)
    <3>1. Due(s, k) /\ Access(s, k)
      BY <2>2 DEF ParamFold
    <3>2. s.nodes[k].op = "ConvBatchnorm" /\ 0 \in s.guard[s.nodes[k].b]
      BY <3>1 DEF Due, Access, block_access
    <3>3. CASE s.nodes[k].b = Null
      <4>1. file[m][k].b = 0 /\ r.guard[Null] = Levels
        BY <1>3, <1>5, <2>2, <3>3 DEF ParamFold
      <4> QED
        BY <2>2, <3>2, <3>3, <4>1 DEF ParamFold, Levels
    <3>4. CASE s.nodes[k].b # Null
      BY <1>5, <2>2, <3>2, <3>4 DEF ParamFold
    <3> QED
      BY <3>3, <3>4
  <2> QED
    BY <2>1, <2>2, ParamEffect
<1>7. 0 \in r.guard[Null] <=> 0 \in st.guard[Null]
  BY <1>6 DEF ParamNull
<1>8. ASSUME NEW j \in Steps, j > k
      PROVE  r.nodes[j] = parse(m)[j] /\ (file[m][j].b = 0 => Bias(m, j) \notin DOMAIN r.guard)
  <2>1. /\ s.nodes[j] = parse(m)[j] /\ r.nodes[j] = s.nodes[j] /\ j # k
        /\ file[m][j].b = 0 => Bias(m, j) \notin DOMAIN s.guard
    BY <1>0, <1>2, <1>8 DEF ParamNull
  <2>2. ASSUME file[m][j].b = 0 PROVE Bias(m, j) \notin {s.nodes[k].b, Bias(m, k)}
    BY <1>4, <2>1, <2>2, Tensors
  <2> QED
    BY <1>6, <2>1, <2>2
<1>9. ASSUME NEW j \in Steps
      PROVE  /\ r.nodes[j].is_weights_transed = FALSE
             /\ file[m][j].b # 0 => r.nodes[j].b = Bias(m, file[m][j].b)
             /\ file[m][j].b = 0 /\ file[m][j].op = "Convolution" => r.nodes[j].b = Null
  <2>1. r.nodes[j].is_weights_transed = s.nodes[j].is_weights_transed
    BY <1>1, <1>2 DEF ParamDone
  <2>2. CASE j # k
    BY <1>2, <2>1, <2>2 DEF ParamNull
  <2>3. CASE j = k
    BY <1>4, <1>5, <1>6, <2>1, <2>3 DEF ParamNull
  <2> QED
    BY <2>2, <2>3
<1> QED
  BY <1>7, <1>8, <1>9 DEF ParamNull

\* The normalisation of node j is one that the net folds.
Folds(m, st, j) ==
  file[m][j].op = "ConvBatchnorm" /\ (file[m][j].b # 0 \/ 0 \in st.guard[Null])

Reached(m, k, j) == \E i \in 1 .. k : file[m][i].w = file[m][j].w

\* The weights and the guards after InitParam of the nodes up to k.
ParamPrepared(m, st, k, r) ==
  \A j \in Steps :
    LET w == Weight(m, file[m][j].w)
        b == Bias(m, file[m][j].b)
        done == Folds(m, st, j) /\ Reached(m, k, j)
    IN /\ r.weights[w] = [folded |-> IF done THEN 1 ELSE 0, transed |-> 0]
       /\ 1 \in r.guard[w] /\ (0 \in r.guard[w] <=> ~done)
       /\ file[m][j].b # 0 => (0 \in r.guard[b] <=> ~done)

LEMMA Sharing ==
  ASSUME NEW m, WellShared(m), NEW i \in Steps, NEW j \in Steps
  PROVE  /\ file[m][i].w = file[m][j].w => file[m][i] = file[m][j]
         /\ file[m][i].b = file[m][j].b /\ file[m][i].b # 0 => file[m][i] = file[m][j]
         /\ file[m][i].w = file[m][j].w /\ i # j =>
              file[m][i].op = "Convolution" \/ file[m][i].b # 0
BY DEF WellShared, Steps

LEMMA ReachedNext ==
  ASSUME NEW m, NEW k \in Steps, NEW j \in Steps
  PROVE  /\ Reached(m, k, j) <=> Reached(m, k - 1, j) \/ file[m][k].w = file[m][j].w
         /\ ~Reached(m, 0, j)
<1>0. k \in Nat /\ k >= 1
  BY WrapperAssumption DEF Steps
<1>1. 1 .. k = (1 .. (k - 1)) \cup {k}
  BY <1>0
<1>2. 1 .. 0 = {}
  OBVIOUS
<1> QED
  BY <1>1, <1>2 DEF Reached

LEMMA ParamPreparedStep ==
  ASSUME NEW m \in Models, file \in [Models -> Files], WellShared(m),
         NEW st, NEW s, StateOK(m, s), NEW k \in Steps,
         ParamNull(m, st, k - 1, s), ParamPrepared(m, st, k - 1, s),
         NEW r, r = InitParam(m, s, k)
  PROVE  ParamPrepared(m, st, k, r)
<1> DEFINE W(j) == Weight(m, file[m][j].w)
           B(j) == Bias(m, file[m][j].b)
           Did(j) == Folds(m, st, j) /\ Reached(m, k - 1, j)
           Does(j) == Folds(m, st, j) /\ Reached(m, k, j)
<1>0. k \in Nat /\ \A j \in Steps : j \in Nat
  BY WrapperAssumption DEF Steps
<1>1. /\ s.nodes[k] = parse(m)[k]
      /\ file[m][k].b = 0 => Bias(m, k) \notin DOMAIN s.guard
      /\ 0 \in s.guard[Null] <=> 0 \in st.guard[Null]
  BY <1>0 DEF ParamNull
<1>2. /\ s.nodes[k].op = file[m][k].op /\ s.nodes[k].w = W(k)
      /\ s.nodes[k].b = (IF file[m][k].b = 0 THEN Null ELSE B(k))
      /\ s.nodes[k].is_param_updated = FALSE
  <2>1. /\ s.nodes[k].op = file[m][k].op /\ s.nodes[k].w = W(k)
        /\ s.nodes[k].b = (IF file[m][k].b = 0 THEN Null ELSE B(k))
    BY <1>1, ParseFacts
  <2>2. s.nodes[k].is_param_updated = FALSE
    <3>1. parse(m)[k].is_param_updated = FALSE
      BY DEF parse, Steps
    <3> QED
      BY <1>1, <3>1, Zenon
  <2> QED
    BY <2>1, <2>2
<1>3. \A j \in Steps :
        /\ s.weights[W(j)] = [folded |-> IF Did(j) THEN 1 ELSE 0, transed |-> 0]
        /\ 1 \in s.guard[W(j)] /\ (0 \in s.guard[W(j)] <=> ~Did(j))
        /\ file[m][j].b # 0 => (0 \in s.guard[B(j)] <=> ~Did(j))
  BY DEF ParamPrepared
<1>4. \A j \in Steps : Does(j) <=> Did(j) \/ (Folds(m, st, j) /\ file[m][k].w = file[m][j].w)
  BY ReachedNext
<1>5. \A j \in Steps : file[m][k].w = file[m][j].w =>
                         (Folds(m, st, j) <=> Folds(m, st, k)) /\ (Did(j) <=> Did(k))
  <2>1. ASSUME NEW j \in Steps, file[m][k].w = file[m][j].w
        PROVE  (Folds(m, st, j) <=> Folds(m, st, k)) /\ (Did(j) <=> Did(k))
    <3>1. file[m][k] = file[m][j]
      BY <2>1, Sharing
    <3> QED
      BY <3>1 DEF Folds, Reached
  <2> QED
    BY <2>1
<1>6. \A j \in Steps : file[m][j].b # 0 /\ file[m][j].b = file[m][k].b
                         => file[m][k].w = file[m][j].w
  BY Sharing
<1>7. /\ \A j \in Steps : W(j) # Null /\ W(j) # Bias(m, k)
      /\ \A i, j \in Steps : W(i) # B(j)
      /\ \A j \in Steps : W(j) = W(k) => file[m][j].w = file[m][k].w
      /\ \A j \in Steps : file[m][j].b # 0 => B(j) # Null
      /\ \A j \in Steps : B(j) = B(k) => file[m][j].b = file[m][k].b
      /\ \A j \in Steps : file[m][j].b # 0 /\ file[m][k].b = 0 => B(j) # Bias(m, k)
  BY Tensors
<1>8. /\ \A j \in Steps : W(j) \in DOMAIN s.guard /\ W(j) \in DOMAIN s.weights
      /\ \A j \in Steps : file[m][j].b # 0 => B(j) \in DOMAIN s.guard
  <2>1. \A j \in Steps : file[m][j].b # 0 => s.nodes[j].b = B(j)
    BY DEF ParamNull
  <2> QED
    BY <2>1 DEF StateOK, Weights
<1> SUFFICES ASSUME NEW j \in Steps
             PROVE  /\ r.weights[W(j)] = [folded |-> IF Does(j) THEN 1 ELSE 0, transed |-> 0]
                    /\ 1 \in r.guard[W(j)] /\ (0 \in r.guard[W(j)] <=> ~Does(j))
                    /\ file[m][j].b # 0 => (0 \in r.guard[B(j)] <=> ~Does(j))
  BY DEF ParamPrepared
<1> HIDE DEF W, B
<1>9. CASE ParamIdle(s, k, r)
  <2>1. Does(j) <=> Did(j)
    <3>1. SUFFICES ASSUME Folds(m, st, k), file[m][k].w = file[m][j].w PROVE Did(k)
      BY <1>4, <1>5
    <3>2. Due(s, k)
      BY <1>2, <3>1 DEF Due, Folds
    <3>3. ~(0 \in s.guard[W(k)] /\ 0 \in s.guard[s.nodes[k].b])
      BY <1>2, <1>9, <3>2 DEF ParamIdle, Access, block_access
    <3>4. CASE file[m][k].b # 0
      BY <1>2, <1>3, <3>3, <3>4
    <3>5. CASE file[m][k].b = 0
      <4>1. 0 \in s.guard[s.nodes[k].b]
        BY <1>1, <1>2, <3>1, <3>5 DEF Folds
      <4> QED
        BY <1>3, <3>3, <4>1
    <3> QED
      BY <3>4, <3>5
  <2>2. r.guard = s.guard /\ r.weights = s.weights
    BY <1>9 DEF ParamIdle
  <2> QED
    BY <1>3, <2>1, <2>2
<1>10. CASE ParamFold(m, s, k, r)
  <2>1. Due(s, k) /\ Access(s, k)
    BY <1>10 DEF ParamFold
  <2>2. file[m][k].op = "ConvBatchnorm" /\ 0 \in s.guard[W(k)] /\ 0 \in s.guard[s.nodes[k].b]
    BY <1>2, <2>1 DEF Due, Access, block_access
  <2>3. Folds(m, st, k) /\ ~Did(k)
    BY <1>1, <1>2, <1>3, <2>2 DEF Folds
  <2> DEFINE b == s.nodes[k].b
             u == IF b = Null THEN Bias(m, k) ELSE b
  <2>4. /\ r.guard[W(k)] = s.guard[W(k)] \ {0}
        /\ b # Null => r.guard[b] = s.guard[b] \ {0}
        /\ \A t \in DOMAIN s.guard : t \notin {W(k), b, u} => r.guard[t] = s.guard[t]
        /\ r.weights[W(k)] = [folded |-> s.weights[W(k)].folded + 1,
                              transed |-> s.weights[W(k)].transed]
        /\ \A t \in DOMAIN s.weights : t # W(k) => r.weights[t] = s.weights[t]
    BY <1>2, <1>10 DEF ParamFold
  <2>5. W(j) \notin {b, u}
    BY <1>2, <1>7
  <2>6. CASE file[m][j].w = file[m][k].w
    <3>1. Does(j) /\ ~Did(j) /\ W(j) = W(k)
      BY <1>4, <1>5, <2>3, <2>6 DEF W
    <3>2. r.weights[W(j)] = [folded |-> 1, transed |-> 0]
      <4>1. s.weights[W(k)] = [folded |-> 0, transed |-> 0]
        BY <1>3, <2>3
      <4> QED
        BY <2>4, <3>1, <4>1
    <3>3. 1 \in r.guard[W(j)] /\ 0 \notin r.guard[W(j)]
      <4>1. 1 \in s.guard[W(k)]
        BY <1>3
      <4>2. r.guard[W(j)] = s.guard[W(k)] \ {0}
        BY <2>4, <3>1
      <4> QED
        BY <4>1, <4>2
    <3>4. ASSUME file[m][j].b # 0 PROVE 0 \notin r.guard[B(j)]
      <4>1. file[m][j] = file[m][k]
        BY <2>6, Sharing
      <4>2. b = B(j) /\ b # Null
        BY <1>2, <1>7, <3>4, <4>1 DEF B
      <4> QED
        BY <2>4, <4>2
    <3> QED
      BY <3>1, <3>2, <3>3, <3>4
  <2>7. CASE file[m][j].w # file[m][k].w
    <3>1. (Does(j) <=> Did(j)) /\ W(j) # W(k)
      BY <1>4, <1>7, <2>7
    <3>2. r.weights[W(j)] = s.weights[W(j)] /\ r.guard[W(j)] = s.guard[W(j)]
      BY <1>8, <2>4, <2>5, <3>1
    <3>3. ASSUME file[m][j].b # 0 PROVE r.guard[B(j)] = s.guard[B(j)]
      <4>1. file[m][j].b # file[m][k].b
        BY <1>6, <2>7, <3>3
      <4>2. B(j) \notin {W(k), b, u}
        BY <1>2, <1>7, <3>3, <4>1
      <4> QED
        BY <1>8, <2>4, <3>3, <4>2
    <3> QED
      BY <1>3, <3>1, <3>2, <3>3
  <2> QED
    BY <2>6, <2>7
<1> QED
  BY <1>9, <1>10, ParamEffect

\* The nodes up to k whose Init meets an empty tensor at level 0.
Meets(m, st, k) ==
  \E i \in 1 .. k : /\ file[m][i].op = "Convolution"
                    /\ st.nodes[i].is_weights_transed \/ st.nodes[i].b = Null

\* The loop of Init: the nodes it has not reached, and the empty tensor.
InitNull(m, st, k, r) ==
  /\ 0 \in r.guard[Null] <=> 0 \in st.guard[Null] /\ ~Meets(m, st, k)
  /\ \A j \in Steps : j > k => r.nodes[j] = st.nodes[j]

LEMMA NodeFacts ==
  ASSUME NEW m \in Models, file \in [Models -> Files], NEW s, StateOK(m, s), NEW k \in Steps
  PROVE  /\ s.nodes[k].op = file[m][k].op /\ s.nodes[k].w = Weight(m, file[m][k].w)
         /\ file[m][k].op \in {"Convolution", "ConvBatchnorm"}
         /\ s.nodes[k].w # Null /\ s.nodes[k].w \in DOMAIN s.guard
         /\ s.nodes[k].w \in DOMAIN s.weights
         /\ s.nodes[k].b \in DOMAIN s.guard /\ Null \in DOMAIN s.guard
         /\ s.nodes[k].b \in {Null} \cup Biases(m)
         /\ Level(s, k) = IF file[m][k].op = "Convolution" THEN 0 ELSE 1
<1>1. s.nodes[k].op = file[m][k].op /\ s.nodes[k].w = Weight(m, file[m][k].w)
  BY DEF StateOK, NodesOK
<1>2. s.nodes[k].w \in Weights(m) /\ s.nodes[k].b \in {Null} \cup Biases(m)
  BY DEF StateOK, NodesOK, Node
<1>3. s.nodes[k].w # Null /\ file[m][k].op \in {"Convolution", "ConvBatchnorm"}
  BY <1>1, Tensors
<1>4. s.nodes[k].w \in DOMAIN s.guard /\ s.nodes[k].w \in DOMAIN s.weights
  BY <1>2 DEF StateOK
<1>5. s.nodes[k].b \in DOMAIN s.guard /\ Null \in DOMAIN s.guard
  BY DEF StateOK
<1>6. Level(s, k) = IF file[m][k].op = "Convolution" THEN 0 ELSE 1
  BY <1>1 DEF Level, trans_level
<1> QED
  BY <1>1, <1>2, <1>3, <1>4, <1>5, <1>6

LEMMA MeetsNext ==
  ASSUME NEW m, NEW st, NEW k \in Steps
  PROVE  Meets(m, st, k) <=>
           \/ Meets(m, st, k - 1)
           \/ /\ file[m][k].op = "Convolution"
              /\ st.nodes[k].is_weights_transed \/ st.nodes[k].b = Null
<1>0. k \in Nat /\ k >= 1
  BY WrapperAssumption DEF Steps
<1>1. 1 .. k = (1 .. (k - 1)) \cup {k}
  BY <1>0
<1> QED
  BY <1>1, Zenon DEF Meets

LEMMA InitNullStep ==
  ASSUME NEW m \in Models, file \in [Models -> Files], NEW st, NEW s, StateOK(m, s), NEW k \in Steps,
         InitNull(m, st, k - 1, s), NEW r, r = Init(m, s, k)
  PROVE  InitNull(m, st, k, r)
<1>0. k \in Nat /\ \A j \in Steps : j \in Nat
  BY WrapperAssumption DEF Steps
<1>1. \A j \in Steps : j > k => r.nodes[j] = st.nodes[j]
  <2>1. InitDone(m, s, k, r)
    BY InitStep
  <2>2. \A j \in Steps : j # k => r.nodes[j] = s.nodes[j]
    BY <2>1 DEF InitDone
  <2> QED
    BY <1>0, <2>2 DEF InitNull
<1>2. s.nodes[k] = st.nodes[k]
  BY <1>0 DEF InitNull
<1> DEFINE b == s.nodes[k].b
           l == Level(s, k)
           conv == file[m][k].op = "Convolution"
<1>3. l = (IF conv THEN 0 ELSE 1) /\ s.nodes[k].w # Null
  BY NodeFacts
<1>4. Null \in DOMAIN s.guard /\ {s.nodes[k].w, b} \subseteq DOMAIN s.guard
  BY NodeFacts
<1>5. 0 \in r.guard[Null] <=>
        /\ 0 \in s.guard[Null]
        /\ ~(conv /\ (s.nodes[k].is_weights_transed \/ b = Null))
  <2>1. CASE InitUse(s, k, r)
    <3>1. ~s.nodes[k].is_weights_transed
      BY <2>1, Zenon DEF InitUse
    <3>2. r.guard[Null] = IF b = Null THEN s.guard[Null] \ {l} ELSE s.guard[Null]
      BY <1>3, <1>4, <2>1 DEF InitUse
    <3>3. 0 \in r.guard[Null] <=> 0 \in s.guard[Null] /\ ~(conv /\ b = Null)
      BY <1>3, <3>2
    <3> QED
      BY <3>1, <3>3, Zenon
  <2>2. CASE InitAgainUses(s, k, r)
    <3>1. s.nodes[k].is_weights_transed
      BY <2>2, Zenon DEF InitAgainUses
    <3>2. r.guard[Null] = s.guard[Null] \ {l}
      BY <1>4, <2>2 DEF InitAgainUses
    <3>3. 0 \in r.guard[Null] <=> 0 \in s.guard[Null] /\ ~conv
      BY <1>3, <3>2
    <3> QED
      BY <3>1, <3>3, Zenon
  <2>3. CASE InitIdle(s, k, r)
    <3>1. ~s.nodes[k].is_weights_transed
      BY <2>3, Zenon DEF InitIdle
    <3>2. r.guard = s.guard /\ ~TransAccess(s, k)
      BY <2>3 DEF InitIdle
    <3>3. conv /\ b = Null => 0 \notin s.guard[Null]
      BY <1>3, <1>4, <3>2 DEF TransAccess, tensor_access
    <3> QED
      BY <3>1, <3>2, <3>3, Zenon
  <2> QED
    BY <2>1, <2>2, <2>3, InitEffect
<1>6. 0 \in s.guard[Null] <=> 0 \in st.guard[Null] /\ ~Meets(m, st, k - 1)
  BY DEF InitNull
<1>7. Meets(m, st, k) <=> \/ Meets(m, st, k - 1)
                          \/ conv /\ (s.nodes[k].is_weights_transed \/ b = Null)
  BY <1>2, MeetsNext
<1> HIDE DEF b, l, conv
<1>8. 0 \in r.guard[Null] <=> 0 \in st.guard[Null] /\ ~Meets(m, st, k)
  BY <1>5, <1>6, <1>7, Zenon
<1> QED
  BY <1>1, <1>8 DEF InitNull

\* The weights and the guards after Init of the nodes up to k.
InitPrepared(m, p, k, r) ==
  \A j \in Steps :
    LET w == Weight(m, file[m][j].w)
        l == trans_level(file[m][j].op)
    IN /\ r.weights[w] = [folded |-> p.weights[w].folded,
                          transed |-> IF Reached(m, k, j) THEN 1 ELSE 0]
       /\ l \in r.guard[w] <=> ~Reached(m, k, j)
       /\ j > k /\ Reached(m, k, j) => l \notin r.guard[p.nodes[j].b]

LEMMA InitPreparedStep ==
  ASSUME NEW m \in Models, file \in [Models -> Files], WellShared(m),
         NEW st, NEW p, StateOK(m, p), ParamNull(m, st, MaxNodes, p),
         NEW s, StateOK(m, s), NEW k \in Steps,
         InitNull(m, p, k - 1, s), InitPrepared(m, p, k - 1, s),
         Kept(m, p, s),
         NEW r, r = Init(m, s, k)
  PROVE  InitPrepared(m, p, k, r)
<1> DEFINE W(j) == Weight(m, file[m][j].w)
           L(j) == trans_level(file[m][j].op)
           b == p.nodes[k].b
<1>0. k \in Nat /\ \A j \in Steps : j \in Nat
  BY WrapperAssumption DEF Steps
<1>1. s.nodes[k] = p.nodes[k]
  BY <1>0 DEF InitNull
<1>2. /\ s.nodes[k].w = W(k) /\ Level(s, k) = L(k)
      /\ W(k) \in DOMAIN s.guard /\ b \in DOMAIN s.guard
  <2>1. Level(s, k) = L(k)
    BY NodeFacts DEF Level
  <2> QED
    BY <1>1, <2>1, NodeFacts
<1>3. \A j \in Steps :
        /\ s.weights[W(j)] = [folded |-> p.weights[W(j)].folded,
                              transed |-> IF Reached(m, k - 1, j) THEN 1 ELSE 0]
        /\ L(j) \in s.guard[W(j)] <=> ~Reached(m, k - 1, j)
        /\ j > k - 1 /\ Reached(m, k - 1, j) => L(j) \notin s.guard[p.nodes[j].b]
  BY DEF InitPrepared
<1>4. \A j \in Steps : Reached(m, k, j) <=>
                         Reached(m, k - 1, j) \/ file[m][k].w = file[m][j].w
  BY ReachedNext
<1>5. \A j \in Steps : file[m][k].w = file[m][j].w =>
                         file[m][k] = file[m][j] /\ (j # k => p.nodes[j].b = b)
  <2>1. ASSUME NEW j \in Steps, file[m][k].w = file[m][j].w
        PROVE  file[m][k] = file[m][j] /\ (j # k => p.nodes[j].b = b)
    <3>1. file[m][k] = file[m][j]
      BY <2>1, Sharing
    <3>2. ASSUME j # k PROVE p.nodes[j].b = b
      <4>1. file[m][k].op = "Convolution" \/ file[m][k].b # 0
        BY <2>1, <3>2, Sharing
      <4> QED
        BY <3>1, <4>1 DEF ParamNull
    <3> QED
      BY <3>1, <3>2
  <2> QED
    BY <2>1
<1>6. /\ \A j \in Steps : W(j) # b /\ (W(j) = W(k) <=> file[m][j].w = file[m][k].w)
      /\ \A j \in Steps : W(j) \in DOMAIN s.guard /\ W(j) \in DOMAIN s.weights
      /\ \A j \in Steps : p.nodes[j].b \in DOMAIN s.guard
  <2>1. b \in {Null} \cup Biases(m)
    BY NodeFacts
  <2>2. \A j \in Steps : W(j) # b /\ (W(j) = W(k) <=> file[m][j].w = file[m][k].w)
    BY <2>1, Tensors DEF Biases
  <2>3. \A j \in Steps : W(j) \in DOMAIN s.guard /\ W(j) \in DOMAIN s.weights
    BY NodeFacts
  <2>4. \A j \in Steps : p.nodes[j].b \in DOMAIN s.guard
    BY NodeFacts DEF Kept
  <2> QED
    BY <2>2, <2>3, <2>4
<1>7. ~s.nodes[k].is_weights_transed
  BY <1>1, Zenon DEF ParamNull
<1> SUFFICES ASSUME NEW j \in Steps
             PROVE  /\ r.weights[W(j)] = [folded |-> p.weights[W(j)].folded,
                                          transed |-> IF Reached(m, k, j) THEN 1 ELSE 0]
                    /\ L(j) \in r.guard[W(j)] <=> ~Reached(m, k, j)
                    /\ j > k /\ Reached(m, k, j) => L(j) \notin r.guard[p.nodes[j].b]
  BY DEF InitPrepared
<1>r. j > k => j > k - 1 /\ j # k
  BY <1>0
<1> HIDE DEF W, L, b
<1>8. CASE InitUse(s, k, r)
  <2>1. /\ \A t \in DOMAIN s.guard : r.guard[t] = IF t \in {W(k), b} THEN s.guard[t] \ {L(k)}
                                                   ELSE s.guard[t]
        /\ r.weights[W(k)] = [folded |-> s.weights[W(k)].folded,
                              transed |-> s.weights[W(k)].transed + 1]
        /\ \A t \in DOMAIN s.weights : t # W(k) => r.weights[t] = s.weights[t]
    BY <1>1, <1>2, <1>8 DEF InitUse, b
  <2>2. L(k) \in s.guard[W(k)] \/ L(k) \in s.guard[b]
    BY <1>1, <1>2, <1>8 DEF InitUse, TransAccess, tensor_access, b
  <2>3. ~Reached(m, k - 1, k)
    <3>1. k > k - 1
      BY <1>0
    <3>2. /\ L(k) \in s.guard[W(k)] <=> ~Reached(m, k - 1, k)
          /\ Reached(m, k - 1, k) => L(k) \notin s.guard[b]
      BY <1>3, <3>1, Zenon DEF b
    <3> QED
      BY <2>2, <3>2
  <2>4. CASE file[m][j].w = file[m][k].w
    <3>1. file[m][j] = file[m][k] /\ W(j) = W(k) /\ L(j) = L(k)
      BY <1>5, <2>4 DEF W, L
    <3>2. Reached(m, k, j) /\ ~Reached(m, k - 1, j)
      BY <1>4, <2>3, <2>4 DEF Reached
    <3>3. r.weights[W(j)] = [folded |-> p.weights[W(j)].folded, transed |-> 1]
      <4>1. s.weights[W(k)] = [folded |-> p.weights[W(k)].folded, transed |-> 0]
        BY <1>3, <2>3
      <4> QED
        BY <2>1, <3>1, <4>1
    <3>4. L(j) \notin r.guard[W(j)]
      BY <1>2, <2>1, <3>1
    <3>5. ASSUME j > k PROVE L(j) \notin r.guard[p.nodes[j].b]
      <4>1. p.nodes[j].b = b
        BY <1>5, <1>r, <2>4, <3>5
      <4> QED
        BY <1>2, <2>1, <3>1, <4>1
    <3> QED
      BY <3>2, <3>3, <3>4, <3>5
  <2>5. CASE file[m][j].w # file[m][k].w
    <3>1. (Reached(m, k, j) <=> Reached(m, k - 1, j)) /\ W(j) \notin {W(k), b}
      BY <1>4, <1>6, <2>5
    <3>2. r.weights[W(j)] = s.weights[W(j)] /\ r.guard[W(j)] = s.guard[W(j)]
      BY <1>6, <2>1, <3>1
    <3>3. \A x : x \notin s.guard[p.nodes[j].b] => x \notin r.guard[p.nodes[j].b]
      BY <1>6, <2>1
    <3> QED
      BY <1>3, <1>r, <3>1, <3>2, <3>3
  <2> QED
    BY <2>4, <2>5
<1>9. CASE InitIdle(s, k, r)
  <2>1. r.guard = s.guard /\ r.weights = s.weights /\ ~TransAccess(s, k)
    BY <1>9 DEF InitIdle
  <2>2. L(k) \notin s.guard[W(k)]
    BY <1>1, <1>2, <2>1 DEF TransAccess, tensor_access, b
  <2>3. Reached(m, k - 1, k)
    BY <1>3, <2>2
  <2>4. Reached(m, k, j) <=> Reached(m, k - 1, j)
    BY <1>4, <2>3 DEF Reached
  <2> QED
    BY <1>3, <1>r, <2>1, <2>4
<1>10. ~InitAgainUses(s, k, r)
  BY <1>7, Zenon DEF InitAgainUses
<1> QED
  BY <1>8, <1>9, <1>10, InitEffect

-----------------------------------------------------------------------------
(* The loops for the first net of a model, and the empty tensor.           *)

LEMMA FirstParamLoop ==
  ASSUME NEW m \in Models, file \in [Models -> Files], NEW st, StateOK(m, st), Fresh(m, st)
  PROVE  \A k \in 0 .. MaxNodes :
           /\ ParamNull(m, st, k, ParamLoop(m, st)[k])
           /\ WellShared(m) => ParamPrepared(m, st, k, ParamLoop(m, st)[k])
<1> DEFINE f == ParamLoop(m, st)
           Good(k) == /\ ParamNull(m, st, k, f[k])
                      /\ WellShared(m) => ParamPrepared(m, st, k, f[k])
           K == {k \in 0 .. MaxNodes : Good(k)}
<1>0. MaxNodes \in Nat
  BY WrapperAssumption
<1>1. 0 \in K
  <2>1. f[0] = st
    BY ParamLoopDef
  <2> HIDE DEF f
  <2>2. ParamNull(m, st, 0, st)
    <3>1. \A j \in Steps : j > 0 =>
            st.nodes[j] = parse(m)[j] /\ (file[m][j].b = 0 => Bias(m, j) \notin DOMAIN st.guard)
      BY DEF Fresh
    <3>2. ASSUME NEW j \in Steps
          PROVE  /\ st.nodes[j].is_weights_transed = FALSE
                 /\ file[m][j].b # 0 => st.nodes[j].b = Bias(m, file[m][j].b)
                 /\ file[m][j].b = 0 /\ file[m][j].op = "Convolution" => st.nodes[j].b = Null
      <4>1. st.nodes = parse(m)
        BY DEF Fresh
      <4>2. st.nodes[j].is_weights_transed = FALSE
        BY <4>1 DEF parse, Steps
      <4>3. st.nodes[j].b = IF file[m][j].b = 0 THEN Null ELSE Bias(m, file[m][j].b)
        BY <4>1, ParseFacts
      <4> QED
        BY <4>2, <4>3
    <3> QED
      BY <3>1, <3>2 DEF ParamNull
  <2>3. ParamPrepared(m, st, 0, st)
    <3>1. \A j \in Steps : ~Reached(m, 0, j)
      BY ReachedNext
    <3> QED
      BY <3>1 DEF Fresh, ParamPrepared, Levels
  <2> QED
    BY <1>0, <2>1, <2>2, <2>3
<1>2. ASSUME NEW k \in 1 .. MaxNodes, k - 1 \in K PROVE k \in K
  <2>1. k \in Steps /\ f[k] = InitParam(m, f[k - 1], k)
    BY ParamLoopDef DEF Steps
  <2>2. Good(k - 1) /\ k - 1 \in 0 .. MaxNodes
    BY <1>2
  <2>3. ParamUpTo(m, st, k - 1, f[k - 1])
    BY <2>2, ParamLoopFacts
  <2>4. StateOK(m, f[k - 1])
    BY <2>3 DEF ParamUpTo
  <2> HIDE DEF f
  <2>5. ParamNull(m, st, k, f[k])
    BY <2>1, <2>2, <2>4, ParamNullStep
  <2>6. WellShared(m) => ParamPrepared(m, st, k, f[k])
    BY <2>1, <2>2, <2>4, ParamPreparedStep
  <2> QED
    BY <1>0, <2>5, <2>6
<1>3. \A k \in 0 .. MaxNodes : k \in K
  <2> HIDE DEF K
  <2> QED
    BY <1>0, <1>1, <1>2, LoopInduction
<1> QED
  BY <1>3

LEMMA InitLoopNull ==
  ASSUME NEW m \in Models, file \in [Models -> Files], NEW st, StateOK(m, st)
  PROVE  \A k \in 0 .. MaxNodes : InitNull(m, st, k, InitLoop(m, st)[k])
<1> DEFINE f == InitLoop(m, st)
           K == {k \in 0 .. MaxNodes : InitNull(m, st, k, f[k])}
<1>0. MaxNodes \in Nat
  BY WrapperAssumption
<1>1. 0 \in K
  <2>1. f[0] = st
    BY InitLoopDef
  <2> HIDE DEF f
  <2>2. ~Meets(m, st, 0)
    BY DEF Meets
  <2>3. InitNull(m, st, 0, st)
    BY <2>2 DEF InitNull
  <2> QED
    BY <1>0, <2>1, <2>3
<1>2. ASSUME NEW k \in 1 .. MaxNodes, k - 1 \in K PROVE k \in K
  <2>1. k \in Steps /\ f[k] = Init(m, f[k - 1], k)
    BY InitLoopDef DEF Steps
  <2>2. InitNull(m, st, k - 1, f[k - 1]) /\ k - 1 \in 0 .. MaxNodes
    BY <1>2
  <2>3. InitUpTo(m, st, k - 1, f[k - 1])
    BY <2>2, InitLoopFacts
  <2>4. StateOK(m, f[k - 1])
    BY <2>3 DEF InitUpTo
  <2> HIDE DEF f
  <2>5. InitNull(m, st, k, f[k])
    BY <2>1, <2>2, <2>4, InitNullStep
  <2> QED
    BY <1>0, <2>5
<1>3. \A k \in 0 .. MaxNodes : k \in K
  <2> HIDE DEF K
  <2> QED
    BY <1>0, <1>1, <1>2, LoopInduction
<1> QED
  BY <1>3

LEMMA FirstInitLoop ==
  ASSUME NEW m \in Models, file \in [Models -> Files], WellShared(m),
         NEW st, NEW p, StateOK(m, p), ParamNull(m, st, MaxNodes, p),
         ParamPrepared(m, st, MaxNodes, p)
  PROVE  \A k \in 0 .. MaxNodes : InitPrepared(m, p, k, InitLoop(m, p)[k])
<1> DEFINE f == InitLoop(m, p)
           K == {k \in 0 .. MaxNodes : InitPrepared(m, p, k, f[k])}
<1>0. MaxNodes \in Nat
  BY WrapperAssumption
<1>1. 0 \in K
  <2>1. f[0] = p
    BY InitLoopDef
  <2> HIDE DEF f
  <2>2. \A j \in Steps : ~Reached(m, 0, j)
    BY ReachedNext
  <2>3. ASSUME NEW j \in Steps
        PROVE LET w == Weight(m, file[m][j].w)
              IN /\ p.weights[w] = [folded |-> p.weights[w].folded, transed |-> 0]
                 /\ trans_level(file[m][j].op) \in p.guard[w]
    <3> DEFINE w == Weight(m, file[m][j].w)
               done == Folds(m, st, j) /\ Reached(m, MaxNodes, j)
    <3>1. /\ p.weights[w] = [folded |-> IF done THEN 1 ELSE 0, transed |-> 0]
          /\ 1 \in p.guard[w] /\ (0 \in p.guard[w] <=> ~done)
      BY DEF ParamPrepared
    <3>2. file[m][j].op = "Convolution" => 0 \in p.guard[w]
      BY <3>1 DEF Folds
    <3> QED
      BY <3>1, <3>2 DEF trans_level
  <2>4. InitPrepared(m, p, 0, p)
    BY <2>2, <2>3 DEF InitPrepared
  <2> QED
    BY <1>0, <2>1, <2>4
<1>2. ASSUME NEW k \in 1 .. MaxNodes, k - 1 \in K PROVE k \in K
  <2>1. k \in Steps /\ f[k] = Init(m, f[k - 1], k)
    BY InitLoopDef DEF Steps
  <2>2. InitPrepared(m, p, k - 1, f[k - 1]) /\ k - 1 \in 0 .. MaxNodes
    BY <1>2
  <2>3. InitUpTo(m, p, k - 1, f[k - 1]) /\ InitNull(m, p, k - 1, f[k - 1])
    BY <2>2, InitLoopFacts, InitLoopNull
  <2>4. StateOK(m, f[k - 1]) /\ Kept(m, p, f[k - 1])
    BY <2>3 DEF InitUpTo
  <2> HIDE DEF f
  <2>5. InitPrepared(m, p, k, f[k])
    BY <2>1, <2>2, <2>3, <2>4, InitPreparedStep
  <2> QED
    BY <1>0, <2>5
<1>3. \A k \in 0 .. MaxNodes : k \in K
  <2> HIDE DEF K
  <2> QED
    BY <1>0, <1>1, <1>2, LoopInduction
<1> QED
  BY <1>3

\* What Net::init does to the weights and to the guard of the empty tensors
\* when it makes the first net of a model.
FirstNet(m, st, r) ==
  /\ 0 \in r.guard[Null] <=>
       /\ 0 \in st.guard[Null]
       /\ ~\E k \in Steps : file[m][k].op = "Convolution" /\ file[m][k].b = 0
  /\ WellShared(m) => \A k \in Steps :
       r.weights[Weight(m, file[m][k].w)] =
         [folded |-> IF Folds(m, st, k) THEN 1 ELSE 0, transed |-> 1]

LEMMA FirstNetFacts ==
  ASSUME NEW m \in Models, file \in [Models -> Files], NEW st, StateOK(m, st), Fresh(m, st)
  PROVE  FirstNet(m, st, net_init(m, st))
<1> DEFINE p == ParamLoop(m, st)[MaxNodes]
           r == InitLoop(m, p)[MaxNodes]
<1>0. MaxNodes \in Nat /\ MaxNodes \in 0 .. MaxNodes /\ Steps = 1 .. MaxNodes
  BY WrapperAssumption DEF Steps
<1>1. ParamUpTo(m, st, MaxNodes, p)
  BY <1>0, ParamLoopFacts
<1>2. /\ ParamNull(m, st, MaxNodes, p)
      /\ WellShared(m) => ParamPrepared(m, st, MaxNodes, p)
  BY <1>0, FirstParamLoop
<1>3. StateOK(m, p)
  BY <1>1 DEF ParamUpTo
<1>4. net_init(m, st) = r
  BY DEF net_init
<1> HIDE DEF p
<1>5. InitNull(m, p, MaxNodes, r)
  BY <1>0, <1>3, InitLoopNull
<1>6. WellShared(m) => InitPrepared(m, p, MaxNodes, r)
  BY <1>0, <1>2, <1>3, FirstInitLoop
<1> HIDE DEF r
<1>7. Meets(m, p, MaxNodes) <=>
        \E k \in Steps : file[m][k].op = "Convolution" /\ file[m][k].b = 0
  <2>1. ASSUME NEW k \in Steps, file[m][k].op = "Convolution"
        PROVE  p.nodes[k].b = Null <=> file[m][k].b = 0
    <3>1. file[m][k].b # 0 => Bias(m, file[m][k].b) # Null
      BY Tensors
    <3> QED
      BY <1>2, <2>1, <3>1 DEF ParamNull
  <2>2. \A k \in Steps : ~p.nodes[k].is_weights_transed
    BY <1>2, Zenon DEF ParamNull
  <2> QED
    BY <1>0, <2>1, <2>2, Zenon DEF Meets
<1>8. 0 \in r.guard[Null] <=>
        /\ 0 \in st.guard[Null]
        /\ ~\E k \in Steps : file[m][k].op = "Convolution" /\ file[m][k].b = 0
  BY <1>2, <1>5, <1>7, Zenon DEF InitNull, ParamNull
<1>9. ASSUME WellShared(m), NEW k \in Steps
      PROVE  r.weights[Weight(m, file[m][k].w)] =
               [folded |-> IF Folds(m, st, k) THEN 1 ELSE 0, transed |-> 1]
  <2> DEFINE w == Weight(m, file[m][k].w)
  <2>1. Reached(m, MaxNodes, k)
    BY <1>0 DEF Reached
  <2>2. p.weights[w] = [folded |-> IF Folds(m, st, k) THEN 1 ELSE 0, transed |-> 0]
    BY <1>2, <1>9, <2>1 DEF ParamPrepared
  <2>3. r.weights[w] = [folded |-> p.weights[w].folded, transed |-> 1]
    BY <1>6, <1>9, <2>1 DEF InitPrepared
  <2> QED
    BY <2>2, <2>3
<1> QED
  BY <1>4, <1>8, <1>9 DEF FirstNet

\* A later net.
LEMMA LaterNetFacts ==
  ASSUME NEW m \in Models, file \in [Models -> Files], NEW st, StateOK(m, st),
         Flagged(m, st.nodes)
  PROVE  0 \in net_init(m, st).guard[Null] <=>
           0 \in st.guard[Null] /\ ~\E k \in Steps : file[m][k].op = "Convolution"
<1>0. MaxNodes \in Nat /\ MaxNodes \in 0 .. MaxNodes /\ Steps = 1 .. MaxNodes
  BY WrapperAssumption DEF Steps
<1>1. ParamLoop(m, st)[MaxNodes] = st
  BY <1>0, ParamLoopIdle
<1>2. InitNull(m, st, MaxNodes, net_init(m, st))
  BY <1>0, <1>1, InitLoopNull DEF net_init
<1>3. Meets(m, st, MaxNodes) <=> \E k \in Steps : file[m][k].op = "Convolution"
  BY <1>0, Zenon DEF Meets, Flagged
<1> QED
  BY <1>2, <1>3 DEF InitNull

-----------------------------------------------------------------------------
(* The graphs without a net, and the guard of the empty tensors.           *)

FreshInv ==
  /\ \A m \in DOMAIN _graph_map : NetsOf(m) = {} => Fresh(m, StateOf(m))
  /\ \A m \in Models \ DOMAIN _graph_map : \A k \in Steps : Bias(m, k) \notin DOMAIN _res_guard

\* The guard of nullptr is used up exactly when a Convolution met an empty
\* tensor.
NullInv == 0 \in _res_guard[Null] <=> ~EmptyTensorMet

WrapperInv == WrapperTypeOK /\ GraphInv /\ FreshInv /\ NullInv

GuardKept(m, g, h) ==
  /\ DOMAIN g \subseteq DOMAIN h
  /\ DOMAIN h \subseteq DOMAIN g \cup Weights(m) \cup Biases(m)
  /\ \A t \in DOMAIN g : t \notin Weights(m) \cup Biases(m) \cup {Null} => h[t] = g[t]

LEMMA LoadFresh ==
  ASSUME WrapperTypeOK, NEW m \in Models, \A k \in Steps : Bias(m, k) \notin DOMAIN _res_guard
  PROVE  LET r == load(m)
         IN Fresh(m, r) /\ GuardKept(m, _res_guard, r.guard) /\ r.guard[Null] = _res_guard[Null]
<1> DEFINE nodes == parse(m)
           W == {nodes[k].w : k \in Steps}
           B == {nodes[k].b : k \in Steps} \ {Null}
           g == new_block(_res_guard, W \cup B)
           ws == [t \in DOMAIN weights \cup W |->
                    IF t \in W THEN [folded |-> 0, transed |-> 0] ELSE weights[t]]
<1>0. file \in [Models -> Files] /\ Null \in DOMAIN _res_guard
  BY DEF WrapperTypeOK
<1>1. load(m) = [nodes |-> nodes, guard |-> g, weights |-> ws]
  BY DEF load, Steps
<1>2. \A k \in Steps : /\ nodes[k].w = Weight(m, file[m][k].w)
                       /\ nodes[k].b = IF file[m][k].b = 0 THEN Null ELSE Bias(m, file[m][k].b)
  BY ParseFacts
<1> HIDE DEF nodes
<1>3. /\ W \subseteq Weights(m) /\ B \subseteq Biases(m)
      /\ \A k \in Steps : Weight(m, file[m][k].w) \in W
      /\ \A k \in Steps : file[m][k].b # 0 => Bias(m, file[m][k].b) \in B
  <2>1. W \subseteq Weights(m) /\ \A k \in Steps : Weight(m, file[m][k].w) \in W
    BY <1>2 DEF Weights
  <2>2. \A k \in Steps : file[m][k].b # 0 => /\ Bias(m, file[m][k].b) \in Biases(m)
                                             /\ Bias(m, file[m][k].b) # Null
    BY <1>0, Tensors DEF Biases
  <2> QED
    BY <1>2, <2>1, <2>2
<1>4. /\ DOMAIN g = DOMAIN _res_guard \cup W \cup B
      /\ \A t \in W \cup B : g[t] = Levels
      /\ \A t \in DOMAIN _res_guard : t \notin W \cup B => g[t] = _res_guard[t]
  BY DEF new_block, make_lock
<1>5. \A t \in W : ws[t] = [folded |-> 0, transed |-> 0]
  OBVIOUS
<1>6. Null \notin W \cup B
  <2>1. \A k \in Steps : Weight(m, file[m][k].w) # Null
    BY <1>0, Tensors
  <2> QED
    BY <1>2, <2>1
<1>7. \A j \in Steps : file[m][j].b = 0 => Bias(m, j) \notin W \cup B
  BY <1>0, <1>2, Tensors
<1> HIDE DEF W, B, g, ws
<1>8. GuardKept(m, _res_guard, g) /\ g[Null] = _res_guard[Null]
  BY <1>0, <1>3, <1>4, <1>6 DEF GuardKept
<1>9. Fresh(m, [nodes |-> nodes, guard |-> g, weights |-> ws])
  <2>1. \A j \in Steps : file[m][j].b = 0 => Bias(m, j) \notin DOMAIN g
    BY <1>4, <1>7
  <2>2. \A j \in Steps : /\ ws[Weight(m, file[m][j].w)] = [folded |-> 0, transed |-> 0]
                         /\ g[Weight(m, file[m][j].w)] = Levels
                         /\ file[m][j].b # 0 => g[Bias(m, file[m][j].b)] = Levels
    BY <1>3, <1>4, <1>5
  <2> QED
    BY <2>1, <2>2 DEF Fresh, nodes
<1> QED
  BY <1>1, <1>8, <1>9

\* The state that a net is made from.
StartOK(m, st) ==
  /\ StateOK(m, st) /\ GuardKept(m, _res_guard, st.guard) /\ st.guard[Null] = _res_guard[Null]
  /\ NetsOf(m) = {} => Fresh(m, st)
  /\ NetsOf(m) # {} => Flagged(m, st.nodes)

LEMMA InitialStart ==
  ASSUME WrapperInv, NEW i, NEW m, NEW s, NEW st, NEW end, InitialEnds(i, m, s, st, end)
  PROVE  StartOK(m, st)
<1>0. WrapperTypeOK /\ GraphInv /\ FreshInv /\ m \in Models
  BY DEF WrapperInv, InitialEnds
<1>1. NetsOf(m) # {} => m \in DOMAIN _graph_map /\ Flagged(m, _graph_map[m].nodes)
  BY <1>0 DEF NetsOf, GraphInv
<1>2. CASE m \in DOMAIN _graph_map
  <2>1. st = StateOf(m) /\ StateOK(m, st)
    BY <1>0, <1>2 DEF InitialEnds, GraphInv
  <2>2. st.nodes = _graph_map[m].nodes /\ st.guard = _res_guard
    BY <2>1 DEF StateOf
  <2>3. NetsOf(m) = {} => Fresh(m, st)
    BY <1>0, <1>2, <2>1 DEF FreshInv
  <2> QED
    BY <1>1, <2>1, <2>2, <2>3 DEF StartOK, GuardKept
<1>3. CASE m \notin DOMAIN _graph_map
  <2>1. st = load(m) /\ NetsOf(m) = {}
    BY <1>1, <1>3 DEF InitialEnds
  <2>2. Loaded(m, st)
    BY <1>0, <2>1, LoadFacts
  <2>3. Fresh(m, st) /\ GuardKept(m, _res_guard, st.guard) /\ st.guard[Null] = _res_guard[Null]
    BY <1>0, <1>3, <2>1, LoadFresh DEF FreshInv
  <2> QED
    BY <2>1, <2>2, <2>3 DEF StartOK, Loaded
<1> QED
  BY <1>2, <1>3

\* The guards after initial(), those of other models' tensors included.
LEMMA InitialGuards ==
  ASSUME WrapperInv, NEW i, NEW m, NEW s, NEW st, NEW end, InitialEnds(i, m, s, st, end)
  PROVE  GuardKept(m, _res_guard, _res_guard')
<1>1. StartOK(m, st) /\ m \in Models
  BY InitialStart DEF InitialEnds
<1>2. StateOK(m, st) /\ GuardKept(m, _res_guard, st.guard)
  BY <1>1 DEF StartOK
<1>3. CASE i \in DOMAIN _thread_to_net
  BY <1>2, <1>3 DEF InitialEnds
<1>4. CASE i \notin DOMAIN _thread_to_net
  <2>1. end = net_init(m, st) /\ _res_guard' = end.guard
    BY <1>4 DEF InitialEnds
  <2>2. NetDone(m, st, end)
    BY <1>1, <1>2, <2>1, NetInitFacts
  <2>3. Kept(m, st, end)
    BY <2>2 DEF NetDone
  <2> QED
    BY <1>2, <2>1, <2>3 DEF GuardKept, Kept
<1> QED
  BY <1>3, <1>4

\* The nets after initial().
LEMMA InitialNets ==
  ASSUME WrapperTypeOK, NEW i, NEW m, NEW s, NEW st, NEW end, InitialEnds(i, m, s, st, end)
  PROVE  /\ i \in DOMAIN _thread_to_net => \A n : NetsOf(n)' = NetsOf(n)
         /\ i \notin DOMAIN _thread_to_net =>
              /\ NetsOf(m)' = NetsOf(m) \cup {i} /\ i \notin NetsOf(m)
              /\ \A n : n # m => NetsOf(n)' = NetsOf(n)
<1>1. CASE i \in DOMAIN _thread_to_net
  BY <1>1 DEF InitialEnds, NetsOf
<1>2. CASE i \notin DOMAIN _thread_to_net
  <2>1. _thread_to_net' = Put(_thread_to_net, i, [model |-> m, shape |-> s])
    BY <1>2 DEF InitialEnds
  <2>2. /\ DOMAIN _thread_to_net' = DOMAIN _thread_to_net \cup {i}
        /\ _thread_to_net'[i].model = m
        /\ \A j \in DOMAIN _thread_to_net : _thread_to_net'[j] = _thread_to_net[j]
    BY <1>2, <2>1 DEF Put
  <2> QED
    BY <1>2, <2>2 DEF NetsOf
<1> QED
  BY <1>1, <1>2

LEMMA InitialKeepsFresh ==
  ASSUME WrapperInv, NEW i, NEW m, NEW s, NEW st, NEW end, InitialEnds(i, m, s, st, end)
  PROVE  FreshInv'
<1>0. /\ WrapperTypeOK /\ GraphInv /\ FreshInv /\ m \in Models
      /\ weights' = end.weights /\ _res_guard' = end.guard
      /\ _graph_map' = Put(_graph_map, m, [shape |-> s, nodes |-> end.nodes])
      /\ file' = file
  BY DEF WrapperInv, InitialEnds
<1>1. InitialDone(i, m, s, st, end) /\ GuardKept(m, _res_guard, _res_guard')
  BY <1>0, InitialFacts, InitialGuards
<1>2. /\ DOMAIN _graph_map' = DOMAIN _graph_map \cup {m}
      /\ _graph_map'[m].nodes = end.nodes
      /\ \A n \in DOMAIN _graph_map : n # m => _graph_map'[n] = _graph_map[n]
  BY <1>0 DEF Put
<1>3. /\ \A n : n # m => NetsOf(n)' = NetsOf(n)
      /\ NetsOf(m)' = {} => NetsOf(m) = {} /\ i \in DOMAIN _thread_to_net
  BY <1>0, InitialNets
<1>5. ASSUME NEW n \in DOMAIN _graph_map', NetsOf(n)' = {}
      PROVE  Fresh(n, StateOf(n)')
  <2>1. CASE n = m
    <3>1. end = st /\ Fresh(m, st)
      BY <1>3, <1>5, <2>1, InitialStart DEF StartOK, InitialEnds
    <3>2. StateOf(n)' = end
      BY <1>0, <1>1, <1>2, <2>1 DEF StateOf, InitialDone, StateOK
    <3> QED
      BY <2>1, <3>1, <3>2
  <2>2. CASE n # m
    <3>1. /\ n \in DOMAIN _graph_map /\ _graph_map'[n] = _graph_map[n]
          /\ NetsOf(n) = {} /\ n \in Models
      BY <1>0, <1>2, <1>3, <1>5, <2>2 DEF WrapperTypeOK
    <3>2. Fresh(n, StateOf(n)) /\ StateOK(n, StateOf(n))
      BY <1>0, <3>1 DEF FreshInv, GraphInv
    <3> DEFINE x == StateOf(n)
               y == StateOf(n)'
    <3>3. /\ x.nodes = _graph_map[n].nodes /\ x.guard = _res_guard /\ x.weights = weights
          /\ y.nodes = _graph_map'[n].nodes /\ y.guard = _res_guard' /\ y.weights = weights'
      BY DEF StateOf
    <3>4. file \in [Models -> Files]
      BY <1>0 DEF WrapperTypeOK
    <3> HIDE DEF x, y
    <3>5. ASSUME NEW j \in Steps
          PROVE  LET w == Weight(n, file[n][j].w)
                     b == Bias(n, file[n][j].b)
                 IN /\ y.weights[w] = x.weights[w] /\ y.guard[w] = x.guard[w]
                    /\ file[n][j].b # 0 => y.guard[b] = x.guard[b]
                    /\ file[n][j].b = 0 => Bias(n, j) \notin DOMAIN y.guard
      <4> DEFINE w == Weight(n, file[n][j].w)
                 b == Bias(n, file[n][j].b)
      <4>1. /\ w \in DOMAIN weights /\ w \in DOMAIN _res_guard /\ w # Null
            /\ x.nodes[j].b \in DOMAIN _res_guard
        BY <3>1, <3>2, <3>3, <3>4, NodeFacts DEF x
      <4>2. /\ w \notin Weights(m) \cup Biases(m) /\ b \notin Weights(m) \cup Biases(m)
            /\ Bias(n, j) \notin Weights(m) \cup Biases(m)
        BY <2>2, OwnWeights
      <4>3. y.weights[w] = x.weights[w] /\ y.guard[w] = x.guard[w]
        BY <1>1, <3>3, <4>1, <4>2 DEF InitialDone, GuardKept
      <4>4. ASSUME file[n][j].b # 0 PROVE y.guard[b] = x.guard[b]
        <5>1. b # Null
          BY <3>1, <3>4, <4>4, Tensors
        <5>2. x.nodes[j].b = b
          BY <3>2, <4>4, ParseFacts DEF Fresh, x
        <5> QED
          BY <1>1, <3>3, <4>1, <4>2, <5>1, <5>2 DEF GuardKept
      <4>5. ASSUME file[n][j].b = 0 PROVE Bias(n, j) \notin DOMAIN y.guard
        <5>1. Bias(n, j) \notin DOMAIN x.guard
          BY <3>2, <4>5 DEF Fresh, x
        <5> QED
          BY <1>1, <3>3, <4>2, <5>1 DEF GuardKept
      <4> QED
        BY <4>3, <4>4, <4>5
    <3>6. y.nodes = parse(n)
      BY <3>1, <3>2, <3>3 DEF Fresh, x
    <3>7. Fresh(n, y)
      BY <3>2, <3>5, <3>6 DEF Fresh, x
    <3> QED
      BY <3>7 DEF y
  <2> QED
    BY <2>1, <2>2
<1>6. ASSUME NEW n \in Models \ DOMAIN _graph_map', NEW k \in Steps
      PROVE  Bias(n, k) \notin DOMAIN _res_guard'
  <2>1. n \in Models \ DOMAIN _graph_map /\ n # m
    BY <1>2
  <2>2. Bias(n, k) \notin DOMAIN _res_guard /\ Bias(n, k) \notin Weights(m) \cup Biases(m)
    BY <1>0, <2>1, OwnWeights DEF FreshInv
  <2> QED
    BY <1>1, <2>2 DEF GuardKept
<1>7. \A n \in DOMAIN _graph_map' : NetsOf(n)' = {} => Fresh(n, StateOf(n))'
  <2>1. \A n : Fresh(n, StateOf(n))' <=> Fresh(n, StateOf(n)')
    BY <1>0 DEF Fresh, parse, Steps
  <2> QED
    BY <1>5, <2>1
<1>8. \A n \in Models \ DOMAIN _graph_map' : \A k \in Steps' : Bias(n, k) \notin DOMAIN _res_guard'
  BY <1>6 DEF Steps
<1> QED
  BY <1>7, <1>8 DEF FreshInv

\* A Convolution of model n met an empty tensor.
MetBy(n) ==
  \E k \in 1 .. MaxNodes : /\ NetsOf(n) # {}
                           /\ file[n][k].op = "Convolution"
                           /\ file[n][k].b = 0 \/ Cardinality(NetsOf(n)) > 1

LEMMA InitialKeepsNull ==
  ASSUME WrapperInv, NEW i, NEW m, NEW s, NEW st, NEW end, InitialEnds(i, m, s, st, end)
  PROVE  NullInv'
<1>0. /\ WrapperTypeOK /\ GraphInv /\ NullInv /\ m \in Models /\ i \in Ids
      /\ _res_guard' = end.guard /\ file' = file
      /\ end = IF i \notin DOMAIN _thread_to_net THEN net_init(m, st) ELSE st
  BY DEF WrapperInv, InitialEnds
<1>1. StartOK(m, st)
  BY InitialStart
<1>2. StateOK(m, st) /\ st.guard[Null] = _res_guard[Null] /\ file \in [Models -> Files]
  BY <1>0, <1>1 DEF StartOK, WrapperTypeOK
<1>3. (EmptyTensorMet <=> \E n \in Models : MetBy(n))
      /\ (EmptyTensorMet' <=> \E n \in Models : MetBy(n)')
  BY DEF EmptyTensorMet, MetBy
<1>4. IsFiniteSet(NetsOf(m)) /\ Cardinality(NetsOf(m)) \in Nat
  <2>1. NetsOf(m) \subseteq Ids
    BY <1>0 DEF NetsOf, WrapperTypeOK
  <2> QED
    BY <2>1, WrapperAssumption, FS_Subset, FS_CardinalityType
<1>5. CASE i \in DOMAIN _thread_to_net
  <2>1. \A n : NetsOf(n)' = NetsOf(n)
    BY <1>0, <1>5, InitialNets
  <2>2. EmptyTensorMet' <=> EmptyTensorMet
    BY <1>0, <2>1 DEF EmptyTensorMet
  <2>3. _res_guard'[Null] = _res_guard[Null]
    BY <1>0, <1>2, <1>5
  <2> QED
    BY <1>0, <2>2, <2>3 DEF NullInv
<1>6. CASE i \notin DOMAIN _thread_to_net
  <2>1. /\ NetsOf(m)' = NetsOf(m) \cup {i} /\ i \notin NetsOf(m)
        /\ \A n : n # m => NetsOf(n)' = NetsOf(n)
    BY <1>0, <1>6, InitialNets
  <2>2. \A n : n # m => (MetBy(n)' <=> MetBy(n))
    BY <1>0, <2>1 DEF MetBy
  <2>3. Cardinality(NetsOf(m)') = Cardinality(NetsOf(m)) + 1
    BY <1>4, <2>1, FS_AddElement
  <2>4. CASE NetsOf(m) = {}
    <3> DEFINE bare == \E k \in Steps : file[m][k].op = "Convolution" /\ file[m][k].b = 0
    <3>1. FirstNet(m, st, end)
      BY <1>0, <1>1, <1>2, <1>6, <2>4, FirstNetFacts DEF StartOK
    <3>2. 0 \in _res_guard'[Null] <=> 0 \in _res_guard[Null] /\ ~bare
      BY <1>0, <1>2, <3>1 DEF FirstNet
    <3>3. Cardinality(NetsOf(m)') = 1
      BY <2>3, <2>4, FS_EmptySet
    <3>4. ~MetBy(m) /\ (MetBy(m)' <=> bare)
      BY <1>0, <2>1, <2>4, <3>3 DEF MetBy, Steps
    <3> QED
      BY <1>0, <1>3, <2>2, <3>2, <3>4 DEF NullInv
  <2>5. CASE NetsOf(m) # {}
    <3> DEFINE any == \E k \in Steps : file[m][k].op = "Convolution"
    <3>1. Flagged(m, st.nodes)
      BY <1>1, <2>5 DEF StartOK
    <3>2. 0 \in _res_guard'[Null] <=> 0 \in _res_guard[Null] /\ ~any
      BY <1>0, <1>2, <1>6, <3>1, LaterNetFacts
    <3>3. Cardinality(NetsOf(m)') > 1
      <4>1. Cardinality(NetsOf(m)) # 0
        BY <1>4, <2>5, FS_EmptySet
      <4> QED
        BY <1>4, <2>3, <4>1
    <3>4. (MetBy(m) => any) /\ (MetBy(m)' <=> any)
      BY <1>0, <2>1, <3>3 DEF MetBy, Steps
    <3> QED
      BY <1>0, <1>3, <2>2, <3>2, <3>4 DEF NullInv
  <2> QED
    BY <2>4, <2>5
<1> QED
  BY <1>5, <1>6

LEMMA FullInvInit == WrapperInit => WrapperInv
<1> SUFFICES ASSUME WrapperInit PROVE WrapperInv
  OBVIOUS
<1>1. WrapperTypeOK /\ GraphInv
  BY WrapperInvInit
<1>2. /\ DOMAIN _graph_map = {} /\ DOMAIN _thread_to_net = {}
      /\ DOMAIN _res_guard = {Null} /\ _res_guard[Null] = Levels
  BY DEF WrapperInit, GraphGlobalMem, make_lock
<1>3. FreshInv
  BY <1>1, <1>2, Tensors DEF FreshInv, WrapperTypeOK
<1>4. NullInv
  BY <1>2 DEF NullInv, EmptyTensorMet, NetsOf, Levels
<1> QED
  BY <1>1, <1>3, <1>4 DEF WrapperInv

LEMMA FullInvNext == WrapperInv /\ [WrapperNext]_wrapperVars => WrapperInv'
<1> SUFFICES ASSUME WrapperInv, [WrapperNext]_wrapperVars PROVE WrapperInv'
  OBVIOUS
<1>1. WrapperTypeOK' /\ GraphInv'
  BY WrapperInvNext DEF WrapperInv
<1>2. ASSUME NEW i \in Ids, Initial(i) PROVE FreshInv' /\ NullInv'
  <2>1. PICK m, s, st, end : InitialEnds(i, m, s, st, end)
    BY <1>2, InitialSplit DEF WrapperInv
  <2> QED
    BY <2>1, InitialKeepsFresh, InitialKeepsNull
<1>3. CASE UNCHANGED <<file, _graph_map, _thread_to_net, _res_guard, weights>>
  <2>1. \A m : /\ StateOf(m)' = StateOf(m) /\ NetsOf(m)' = NetsOf(m)
               /\ Fresh(m, StateOf(m))' <=> Fresh(m, StateOf(m))
    BY <1>3 DEF StateOf, NetsOf, Fresh, parse, Steps
  <2>2. FreshInv'
    BY <1>3, <2>1 DEF WrapperInv, FreshInv, Steps
  <2>3. NullInv'
    BY <1>3, <2>1 DEF WrapperInv, NullInv, EmptyTensorMet
  <2> QED
    BY <1>1, <2>2, <2>3 DEF WrapperInv
<1> QED
  BY <1>1, <1>2, <1>3 DEF WrapperNext, StartThread, JoinThread, wrapperVars, WrapperInv

LEMMA FullInvariant == WrapperSpec => []WrapperInv
BY FullInvInit, FullInvNext, PTL DEF WrapperSpec

\* The weights of m as PreparedByFirstNet wants them.
Prepared(m) ==
  \A k \in 1 .. MaxNodes :
    LET n == file[m][k]
        lost == n.b = 0 /\ EmptyTensorMet
    IN /\ weights'[Weight(m, n.w)].transed = 1
       /\ weights'[Weight(m, n.w)].folded =
            IF n.op = "ConvBatchnorm" /\ ~ lost THEN 1 ELSE 0

LEMMA StepPrepares ==
  ASSUME WrapperInv, WrapperNext, NEW m \in Models,
         NetsOf(m) = {}, NetsOf(m)' # {}, WellShared(m)
  PROVE  Prepared(m)
<1>0. WrapperTypeOK /\ GraphInv /\ NullInv /\ file \in [Models -> Files]
  BY DEF WrapperInv, WrapperTypeOK
<1>1. _thread_to_net' # _thread_to_net
  BY DEF NetsOf
<1>2. PICK i \in Ids : Initial(i)
  BY <1>1 DEF WrapperNext, StartThread, JoinThread
<1>3. PICK n, s, st, end : InitialEnds(i, n, s, st, end)
  BY <1>0, <1>2, InitialSplit
<1>4. i \notin DOMAIN _thread_to_net /\ n = m
  BY <1>0, <1>3, InitialNets
<1>5. StartOK(m, st)
  BY <1>3, <1>4, InitialStart
<1>6. /\ end = net_init(m, st) /\ weights' = end.weights
  BY <1>3, <1>4 DEF InitialEnds
<1>7. FirstNet(m, st, end)
  BY <1>0, <1>5, <1>6, FirstNetFacts DEF StartOK
<1>8. 0 \in st.guard[Null] <=> ~EmptyTensorMet
  BY <1>0, <1>5 DEF StartOK, NullInv
<1> DEFINE F(k) == /\ file[m][k].op = "ConvBatchnorm"
                   /\ ~(file[m][k].b = 0 /\ EmptyTensorMet)
<1>9. \A k \in Steps : F(k) <=> Folds(m, st, k)
  BY <1>8 DEF Folds
<1> SUFFICES ASSUME NEW k \in Steps
             PROVE  /\ weights'[Weight(m, file[m][k].w)].transed = 1
                    /\ weights'[Weight(m, file[m][k].w)].folded = IF F(k) THEN 1 ELSE 0
  BY Zenon DEF Prepared, Steps
<1> HIDE DEF F
<1>10. weights'[Weight(m, file[m][k].w)] = [folded |-> IF F(k) THEN 1 ELSE 0, transed |-> 1]
  BY <1>6, <1>7, <1>9 DEF FirstNet
<1> QED
  BY <1>10

\* The guards have every weight of a model prepared once by its first net,
\* whatever other graphs and nets the process has, except for the
\* normalisations without bias that come after an empty tensor was met.
THEOREM FirstNetPrepares == WrapperSpec => PreparedByFirstNet
<1>1. WrapperInv /\ [WrapperNext]_wrapperVars =>
        [\A m \in Models :
           NetsOf(m) = {} /\ NetsOf(m)' # {} /\ WellShared(m) =>
             \A k \in 1 .. MaxNodes :
               LET n == file[m][k]
                   lost == n.b = 0 /\ EmptyTensorMet
               IN /\ weights'[Weight(m, n.w)].transed = 1
                  /\ weights'[Weight(m, n.w)].folded =
                       IF n.op = "ConvBatchnorm" /\ ~ lost THEN 1 ELSE 0]_wrapperVars
  BY StepPrepares DEF Prepared
<1> QED
  BY <1>1, FullInvariant, PTL DEF WrapperSpec, PreparedByFirstNet
=============================================================================
