-------------------------- MODULE MemoryScheduler ---------------------------
(***************************************************************************)
(* framework/graph/llvm/optimizer/memory_scheduler.cpp: the last pass of   *)
(* Graph::Optimize.  It goes through the vertices in execution order and   *)
(* lets the outputs of a vertex take over blocks of memory whose io has    *)
(* been read.  Split, Reshape, Flatten and Gather have no kernel: their    *)
(* outputs share the block of an input.  check_memory then looks for       *)
(* blocks that vertices in another order than expected would overwrite.    *)
(* Net::init_memory gives every io that is not shared a block and lets the *)
(* others use the block of the io at the end of their share_from chain.    *)
(*                                                                         *)
(* A vertex is named by its position in the execution order, an io by its  *)
(* arc.  The io of an arc is in the lane of the arc's bottom, see          *)
(* ParallScheduler.  A Gather is an Eltwise that was merged into one of    *)
(* the convolutions that feed it, a ConvEltwise, see                       *)
(* ConvElsFusionScheduler; what is in its other input, the addend, is      *)
(* added up in the block of the ConvEltwise's output.                      *)
(***************************************************************************)
EXTENDS Naturals, Sequences, FiniteSets, SequencesExt

CONSTANTS N,         \* number of vertices
          Ops,       \* the operators that are drawn
          MaxFixed   \* bound on the registered outputs

\* Number of inputs and outputs of an operator.  "Op", "Add" and "Slice" stand for the
\* operators with a kernel, "Reshape" for Flatten too.  None has more than two inputs
\* or outputs: an Eltwise of three, or a Split into three, is not drawn.
Arity == [Input |-> <<0, 1>>, Output |-> <<1, 0>>, Op |-> <<1, 1>>, Add |-> <<2, 1>>,
          Slice |-> <<1, 2>>, Split |-> <<1, 2>>, Reshape |-> <<1, 1>>,
          ConvEltwise |-> <<1, 1>>, Gather |-> <<2, 1>>]

ASSUME MemAssumption == N \in Nat /\ MaxFixed \in Nat /\ Ops \subseteq DOMAIN Arity

Nodes == 1..N
NoArc == <<0, 0>>   \* the empty share_from

VARIABLES
  arcs,        \* of the virtual graph
  opName,      \* of each vertex drawn so far
  lane,        \* of each of them
  fixed,       \* arcs that are registered as outputs
  io,          \* shared and share_from of each io of the virtual graph
  _free,       \* ios whose block may be taken over, as copies with their name
  _lock,       \* ios whose block is in use, as copies
  _self_lock,  \* ios that vertices without kernel share, as copies
  _self_lock_next_tree,  \* of such an io: the ios that keep its block in use
  phase,       \* "draw": the graph; "launch": Run; "check": check_memory; "planned"
  next,        \* the vertex to be launched
  que,         \* check_memory: queue of the breadth first walk
  backup       \* vertices that were ever in it

graphVars == <<arcs, opName, lane, fixed>>
resVars == <<_free, _lock, _self_lock, _self_lock_next_tree>>
walkVars == <<que, backup>>
memVars == <<graphVars, io, resVars, phase, next, walkVars>>

InArcs(n) == {a \in arcs : a[2] = n}
OutArcs(n) == {a \in arcs : a[1] = n}
Lane(a) == lane[a[1]]
SelfShared(n) == opName[n] \in {"Split", "Reshape", "Gather"}

Ios == [shared : BOOLEAN, share_from : arcs \cup {NoArc}]
Copies == [name : arcs, shared : BOOLEAN, share_from : arcs \cup {NoArc}]

\* The copy of an io that the lists hold.
Copy(v, a) == [name |-> a, shared |-> v[a].shared, share_from |-> v[a].share_from]

MemTypeOK ==
  /\ arcs \subseteq Nodes \X Nodes
  /\ opName \in Seq(DOMAIN Arity)
  /\ lane \in Seq(Nat)
  /\ fixed \subseteq arcs
  /\ phase # "draw" => io \in [arcs -> Ios]
  /\ _free \in Seq(Copies) /\ _self_lock \in Seq(Copies)
  /\ _lock \subseteq Copies
  /\ DOMAIN _self_lock_next_tree \subseteq arcs
  /\ \A a \in DOMAIN _self_lock_next_tree : _self_lock_next_tree[a] \subseteq arcs
  /\ next \in 1..(N + 1)
  /\ que \in Seq(Nodes) /\ backup \subseteq Nodes

MemInit ==
  /\ arcs = {} /\ opName = <<>> /\ lane = <<>> /\ fixed = {}
  /\ io = <<>>
  /\ _free = <<>> /\ _lock = {} /\ _self_lock = <<>>
  /\ _self_lock_next_tree = <<>>
  /\ phase = "draw"
  /\ next = 1
  /\ que = <<>> /\ backup = {}

-----------------------------------------------------------------------------
(* The graph that the earlier passes hand over, drawn in execution order.  *)

Drawn == Len(opName)
Missing(n) == Arity[opName[n]][2] - Cardinality(OutArcs(n))
Open == {n \in 1..Drawn : Missing(n) > 0}

\* The inputs come first.  A ConvEltwise feeds a Gather and comes after the
\* vertex that computes the addend.
Fits(o, p) ==
  /\ Cardinality(p) = Arity[o][1]
  /\ o = "Input" => \A n \in 1..Drawn : opName[n] = "Input"
  /\ IF o = "Gather"
     THEN \E c, b \in p : b < c /\ opName[c] = "ConvEltwise" /\ opName[b] # "ConvEltwise"
     ELSE \A n \in p : opName[n] # "ConvEltwise"

\* The next vertex.  An Input has a lane of its own, any other vertex the lane
\* of one of its inputs.  Every output must find its reader.
Draw(o, p) ==
  /\ phase = "draw" /\ Drawn < N
  /\ Fits(o, p)
  /\ arcs' = arcs \cup (p \X {Drawn + 1})
  /\ opName' = Append(opName, o)
  /\ \E l \in (IF p = {} THEN {Drawn} ELSE {lane[n] : n \in p}) : lane' = Append(lane, l)
  /\ MapThenSumSet(Missing, Open) + Arity[o][2] - Cardinality(p) < N - Drawn
  /\ UNCHANGED <<fixed, io, resVars, phase, next, walkVars>>

DrawEnds ==
  /\ phase = "draw" /\ Drawn = N /\ Open = {}
  /\ \E f \in SUBSET arcs : Cardinality(f) <= MaxFixed /\ fixed' = f
  /\ io' = [a \in arcs |-> [shared |-> FALSE, share_from |-> NoArc]]
  /\ phase' = "launch"
  /\ UNCHANGED <<arcs, opName, lane, resVars, next, walkVars>>

-----------------------------------------------------------------------------
(* IOBlockResource.                                                        *)

\* The ios met from a on: share_from is followed while an io is shared.
Chain(v, a) ==
  LET up[i \in 0..Cardinality(arcs)] ==
        IF i = 0 THEN a
        ELSE LET b == up[i - 1] IN IF v[b].shared THEN v[b].share_from ELSE b
  IN up

\* The io that owns the block of a.
OwnerOf(v, a) == Chain(v, a)[Cardinality(arcs)]

Owner(v, c) == IF c.shared THEN OwnerOf(v, c.share_from) ELSE c.name
is_same_target(v, c, d) == Owner(v, c) = Owner(v, d)

\* One step along share_from, taken whether or not the io is shared.
is_target_fixed(c) == (IF c.share_from = NoArc THEN c.name ELSE c.share_from) \in fixed

\* Faulty variant: a registered output is let go too.
push_free_Fixed(v, free, c) ==
  IF \E i \in DOMAIN free : is_same_target(v, free[i], c) THEN free ELSE Append(free, c)

push_free(v, free, c) ==
  IF (\E i \in DOMAIN free : is_same_target(v, free[i], c)) \/ is_target_fixed(c)
  THEN free ELSE Append(free, c)

\* The positions of _free that has_free and get_free look for.
FreeIn(free, l) == {i \in DOMAIN free : Lane(free[i].name) = l}

\* lock, for one io: the first free block of its lane is taken over.  r has the
\* free list, the locked copies and the ios.
lock(r, a) ==
  IF FreeIn(r.free, Lane(a)) = {}
  THEN [r EXCEPT !.lock = @ \cup {[name |-> a, shared |-> FALSE,
                                   share_from |-> r.v[a].share_from]},
                 !.v[a].shared = FALSE]
  ELSE LET i == Min(FreeIn(r.free, Lane(a)))
           f == r.free[i]
           c == [name |-> a, shared |-> TRUE,
                 share_from |-> IF f.shared THEN f.share_from ELSE f.name]
       IN [r EXCEPT !.free = RemoveAt(@, i),
                    !.lock = @ \cup {c},
                    !.v[a] = [shared |-> TRUE, share_from |-> c.share_from]]

\* lock goes through the outputs; set_fix_io has taken out the registered ones.
LockLoop(r, outs) ==
  LET f[k \in 0..Len(outs)] ==
        IF k = 0 THEN r
        ELSE IF outs[k] \in fixed THEN f[k - 1] ELSE lock(f[k - 1], outs[k])
  IN f

\* free, for one io: the copy with its name is released (an io is locked once).
free(r, a) ==
  LET cs == {c \in r.lock : c.name = a}
  IN IF cs = {} THEN r
     ELSE [r EXCEPT !.lock = @ \ cs, !.free = push_free(r.v, @, CHOOSE c \in cs : TRUE)]

\* free goes through the inputs.
FreeLoop(r, ins) ==
  LET f[k \in 0..Len(ins)] == IF k = 0 THEN r ELSE free(f[k - 1], ins[k])
  IN f

\* free_self goes through _self_lock: the ios in done are released.
\* (_lock.erase with an iterator of _self_lock unlinks them there.)
SelfLoop(r, done) ==
  LET f[k \in 0..Len(r.self)] ==
        IF k = 0 THEN [free |-> r.free, self |-> <<>>]
        ELSE LET q == f[k - 1]
                 c == r.self[k]
             IN IF c.name \in done THEN [q EXCEPT !.free = push_free(r.v, @, c)]
                                   ELSE [q EXCEPT !.self = Append(@, c)]
  IN f

\* Faulty variant: an io is released when the first of its readers is through.
free_self_First(r, edges) ==
  LET done == {a \in DOMAIN r.tree : r.tree[a] \cap edges # {}}
      q == SelfLoop(r, done)[Len(r.self)]
  IN [r EXCEPT !.free = q.free, !.self = q.self]

\* free_self: the edges are taken out of the tree; an io nothing is left for is
\* released.
free_self(r, edges) ==
  LET tree == [a \in DOMAIN r.tree |-> r.tree[a] \ edges]
      done == {a \in DOMAIN tree : tree[a] = {}}
      q == SelfLoop(r, done)[Len(r.self)]
  IN [r EXCEPT !.tree = tree, !.free = q.free, !.self = q.self]

\* The values reg_self_lock_tree may leave for io_in.
reg_self_lock_tree(tree, io_in, io_out) ==
  LET keys == {k \in DOMAIN tree : io_in \in tree[k]}
  IN IF keys = {} THEN {io_out} ELSE {tree[k] \cup io_out : k \in keys}

-----------------------------------------------------------------------------
(* launch.                                                                 *)

Res == [free |-> _free, lock |-> _lock, self |-> _self_lock,
        tree |-> _self_lock_next_tree, v |-> io]

SetRes(r) ==
  /\ _free' = r.free
  /\ _lock' = r.lock
  /\ _self_lock' = r.self
  /\ _self_lock_next_tree' = r.tree
  /\ io' = r.v

\* The arcs of a vertex, in any order its list may have.
Lists(S) == SetToSeqs(S)

\* The position of the j-th output among those that set_fix_io leaves.
Position(outs, j) == Cardinality({i \in 1..j : outs[i] \notin fixed})

Launching == phase = "launch" /\ next <= N

Advance ==
  /\ next' = next + 1
  /\ UNCHANGED <<graphVars, phase, walkVars>>

\* A vertex with a kernel.  An io that a ConvEltwise reads has memory of its own
\* after all; next_type is indexed by its position among all outputs.
LaunchKernel ==
  /\ Launching
  /\ ~SelfShared(next)
  /\ \E outs \in Lists(OutArcs(next)), ins \in Lists(InArcs(next)) :
       LET unshare == {outs[j] : j \in {i \in DOMAIN outs :
                        /\ outs[i] \notin fixed
                        /\ opName[outs[Position(outs, i)][2]] = "ConvEltwise"}}
           locked == LockLoop(Res, outs)[Len(outs)]
           mapped == [locked EXCEPT !.v = [a \in arcs |->
                        IF a \in unshare THEN [locked.v[a] EXCEPT !.shared = FALSE]
                                         ELSE locked.v[a]]]
           freed == FreeLoop(mapped, ins)[Len(ins)]
           edges == {a \in InArcs(next) : SelfShared(a[1])}
       IN SetRes(IF opName[next] = "Output" THEN mapped
                 ELSE IF edges = {} THEN freed
                 ELSE free_self(freed, edges))
  /\ Advance

\* The input whose block the vertex shares.
Selected(ins) ==
  LET collected == UNION {InArcs(a[1]) : a \in InArcs(next)}
      dismissed(a) ==
        /\ io[a].shared /\ ~SelfShared(a[1])
        /\ \E b \in collected : io[a].share_from \in {b, io[b].share_from}
      kept == {i \in DOMAIN ins : ~dismissed(ins[i])}
      self == {i \in DOMAIN ins : SelfShared(ins[i][1])}
  IN ins[IF self # {} THEN Max(self) ELSE IF kept # {} THEN Min(kept) ELSE 1]

\* The ios that share the block of the selected input s.  Faulty variant: s too.
Sharing_All(s) == (OutArcs(next) \ fixed) \cup InArcs(next)

Sharing(s) == (OutArcs(next) \ fixed) \cup (InArcs(next) \ {s})

\* A vertex without kernel.
LaunchSelfShared ==
  /\ Launching
  /\ SelfShared(next)
  /\ \E ins \in Lists(InArcs(next)) :
       LET s == Selected(ins)
           from == IF io[s].shared THEN io[s].share_from ELSE s
       IN \E t \in reg_self_lock_tree(_self_lock_next_tree, s, Sharing(s)) :
            /\ io' = [a \in arcs |-> IF a \in Sharing(s)
                                    THEN [shared |-> TRUE, share_from |-> from]
                                    ELSE io[a]]
            /\ _self_lock' = Append(_self_lock, Copy(io, s))
            /\ _self_lock_next_tree' =
                 [a \in DOMAIN _self_lock_next_tree \cup {s} |->
                    IF a = s THEN t ELSE _self_lock_next_tree[a]]
  /\ UNCHANGED <<_free, _lock>>
  /\ Advance

-----------------------------------------------------------------------------
(* check_memory.                                                           *)

\* connect_table: the vertices that can be reached from each one.
Reached == LET f[n \in Nodes] == {n} \cup UNION {f[a[2]] : a \in OutArcs(n)} IN f

\* The arcs behind a vertex without kernel, through others of the kind.
Behind(n) ==
  LET f[m \in Nodes] == OutArcs(m) \cup
                        UNION {f[a[2]] : a \in {b \in OutArcs(m) : SelfShared(b[2])}}
  IN f[n]

\* Faulty variant: a reader that is through before counts too.
WrongOrder_Any(v, i, n) ==
  /\ i \notin Reached[n] /\ n \notin Reached[i]
  /\ \E in \in InArcs(n), out \in OutArcs(i) :
       /\ InArcs(n) = {in} /\ OutArcs(i) = {out}
       /\ v[out].shared
       /\ v[out].share_from \in {in, v[in].share_from}

\* The io of the only arc out of the earlier vertex i has taken over, or shares
\* with, the io of the only arc into n although no order holds between them.
WrongOrder(v, i, n) ==
  /\ i \notin Reached[n] /\ n \notin Reached[i]
  /\ \E in \in InArcs(n), out \in OutArcs(i) :
       /\ InArcs(n) = {in} /\ OutArcs(i) = {out}
       /\ ~(out[2] < in[1])
       /\ v[out].shared
       /\ v[out].share_from \in {in, v[in].share_from}

\* The io gets a block of its own, and so do all that are behind a vertex without
\* kernel; the other input of a Gather moves with it.
Correct(v, i) ==
  LET out == CHOOSE a \in OutArcs(i) : TRUE
      siblings == IF opName[out[2]] = "Gather" THEN InArcs(out[2]) \ {out} ELSE {}
      moved == IF SelfShared(out[2]) THEN siblings \cup Behind(out[2]) ELSE {}
  IN [a \in arcs |-> IF a = out THEN [v[a] EXCEPT !.shared = FALSE]
                     ELSE IF a \in moved THEN [v[a] EXCEPT !.share_from = out]
                     ELSE v[a]]

\* check_node: the vertices before n, in execution order.
CheckLoop(n) ==
  LET f[i \in 0..(n - 1)] ==
        IF i = 0 THEN io
        ELSE LET v == f[i - 1] IN IF WrongOrder(v, i, n) THEN Correct(v, i) ELSE v
  IN f

check_node(n) == CheckLoop(n)[n - 1]

StartCheck ==
  /\ phase = "launch" /\ next > N
  /\ phase' = "check"
  /\ LET ins == {n \in Nodes : InArcs(n) = {}}
     IN que' \in Lists(ins) /\ backup' = ins
  /\ UNCHANGED <<graphVars, io, resVars, next>>

CheckNode ==
  /\ phase = "check" /\ que # <<>>
  /\ io' = check_node(Head(que))
  /\ LET tops == {a[2] : a \in OutArcs(Head(que))} \ backup
     IN /\ \E s \in Lists(tops) : que' = Tail(que) \o s
        /\ backup' = backup \cup tops
  /\ UNCHANGED <<graphVars, resVars, phase, next>>

EndCheck ==
  /\ phase = "check" /\ que = <<>>
  /\ phase' = "planned"
  /\ UNCHANGED <<graphVars, io, resVars, next, que, backup>>

MemNext ==
  \/ \E o \in Ops, p \in SUBSET Open : Draw(o, p)
  \/ DrawEnds
  \/ LaunchKernel \/ LaunchSelfShared
  \/ StartCheck \/ CheckNode \/ EndCheck

MemSpec == MemInit /\ [][MemNext]_memVars

-----------------------------------------------------------------------------
(* A net that is run with the plan v, one kernel after the other in the    *)
(* execution order: the device of a net with one lane, or a CPU.           *)

HasKernel(n) == ~SelfShared(n) /\ opName[n] \notin {"Input", "Output"}
Only(S) == CHOOSE a \in S : TRUE

\* The arc whose writer computes what is read on a.
Source ==
  LET f[a \in arcs] ==
        CASE opName[a[1]] \in {"Split", "Reshape"} -> f[Only(InArcs(a[1]))]
          [] opName[a[1]] = "Gather" ->
               Only({b \in InArcs(a[1]) : opName[b[1]] = "ConvEltwise"})
          [] OTHER -> a
  IN f

ConvEltwises == {n \in Nodes : opName[n] = "ConvEltwise"}
Addend(n) == LET out == Only(OutArcs(n)) IN Only(InArcs(out[2]) \ {out})

\* What the block of each io holds after n vertices: the arc it was written on.
\* The client writes the inputs before it starts.
Contents(v) ==
  LET writes(n) == IF n = 0 THEN {a \in arcs : opName[a[1]] = "Input"}
                   ELSE IF HasKernel(n) THEN OutArcs(n) ELSE {}
      c[n \in 0..N] ==
        [b \in arcs |->
           LET w == {a \in writes(n) : OwnerOf(v, a) = b}
           IN IF w # {} THEN Only(w) ELSE IF n = 0 THEN NoArc ELSE c[n - 1][b]]
  IN c

\* Every kernel reads what was computed for it, and from other blocks than those
\* it writes; its outputs do not share a block; a ConvEltwise finds the addend
\* where it adds to it; the outputs of the net are there when it is through.
Sound(v) ==
  LET c == Contents(v)
      own == [a \in arcs |-> OwnerOf(v, a)]
  IN \A n \in Nodes :
       /\ HasKernel(n) =>
            /\ \A a \in InArcs(n) : c[n - 1][own[a]] = Source[a]
            /\ \A a \in InArcs(n) \cup OutArcs(n), b \in OutArcs(n) :
                 own[a] = own[b] => a = b
       /\ n \in ConvEltwises => c[n - 1][own[Only(OutArcs(n))]] = Source[Addend(n)]
       /\ opName[n] = "Output" => \A a \in InArcs(n) : c[N][own[a]] = Source[a]

-----------------------------------------------------------------------------
(* Properties.                                                             *)

\* Outputs are registered on arcs out of vertices that have a kernel.
Writable == \A a \in fixed : ~SelfShared(a[1])

\* Nothing needs the addend of n after n has added to it.
AddendReadFirst(n) ==
  /\ \A m \in ConvEltwises \ {n} : Source[Addend(m)] # Source[Addend(n)]
  /\ \A a \in arcs : Source[a] = Source[Addend(n)] /\ ~SelfShared(a[2])
                       => HasKernel(a[2]) /\ a[2] < n

\* The Gather of n shares the block of the addend, or that of n if it is new.
AddendKeepsBlock(n) ==
  Addend(n) \in DOMAIN _self_lock_next_tree \/ ~io[Only(OutArcs(n))].shared

\* The plan that Run makes never lets a vertex overwrite what is still to be
\* read, through any nesting of vertices that share blocks.  With merged
\* convolutions this is so under two conditions the code does not check.
RunPlanSound ==
  phase = "launch" /\ next > N /\ Writable
    /\ (\A n \in ConvEltwises : AddendReadFirst(n) /\ AddendKeepsBlock(n))
  => Sound(io)

\* No convolution has been merged with the Eltwise behind it.
Unmerged == \A n \in 1..Drawn : opName[n] # "ConvEltwise"

\* Every vertex but Split has a kernel.
Plain == \A n \in 1..Drawn : opName[n] \notin {"Reshape", "ConvEltwise"}

\* check_memory finds nothing to correct in such a model: what Run lets share a
\* block is ordered by the graph or by the execution order.
CheckDoesNothing == [][phase = "check" /\ Plain => io' = io]_memVars

\* "if graph is correct schedulered, this function will do nothing": a plan that
\* Run made sound is still so after check_memory.
CheckDoesNoHarm == phase = "planned" => Sound(io)

\* A registered output holds its data when the net is through, although the
\* blocks around it are used again and check_memory may have moved some.
FixedKept ==
  phase = "planned" /\ Writable /\ Unmerged
  => \A a \in fixed : Contents(io)[N][OwnerOf(io, a)] = a

\* The searches for the owner of a block, in is_same_target at every launch and
\* in init_memory at the end, come to an end.
OwnerFound == \A a \in DOMAIN io : ~io[OwnerOf(io, a)].shared
=============================================================================
