------------------------ MODULE MemorySchedulerProofs ------------------------
(* Proofs about MemoryScheduler, for any number of vertices and any mix of *)
(* operators.                                                              *)
EXTENDS MemoryScheduler, FiniteSetTheorems, NaturalsInduction, TLAPS

-----------------------------------------------------------------------------
(* Loops.                                                                  *)

\* A set of numbers that is not empty has a least element.
LEMMA LeastNat ==
  ASSUME NEW K \in SUBSET Nat, K # {}
  PROVE  \E k \in K : \A j \in K : k <= j
<1>1. PICK k \in K : \A j \in K : ~(<<j, k>> \in OpToRel(<, Nat))
  BY WFMin, NatLessThanWellFounded, Zenon
<1>2. \A j \in K : ~(j < k)
  BY <1>1 DEF OpToRel
<1> QED
  BY <1>2

\* What holds at the start, and after a round if before it.
LEMMA LoopInduction ==
  ASSUME NEW M \in Nat, NEW K, 0 \in K, \A k \in 1 .. M : k - 1 \in K => k \in K
  PROVE  \A k \in 0 .. M : k \in K
<1> DEFINE T == {k \in 0 .. M : k \notin K}
<1>1. SUFFICES ASSUME T # {} PROVE FALSE
  OBVIOUS
<1>2. PICK k \in T : \A j \in T : k <= j
  <2>1. T \in SUBSET Nat
    OBVIOUS
  <2> HIDE DEF T
  <2> QED
    BY <1>1, <2>1, LeastNat
<1>3. k \in 1 .. M /\ k - 1 \in 0 .. M /\ k - 1 \notin T
  BY <1>2
<1> QED
  BY <1>2, <1>3

\* A loop with the states S whose round k is the function g[k].
Rounds(f, S, n, s, g) ==
  /\ f \in [0 .. n -> S]
  /\ f[0] = s
  /\ \A k \in 1 .. n : f[k] = g[k][f[k - 1]]

\* Such a loop exists for every g.
LEMMA LoopExists ==
  ASSUME NEW n \in Nat, NEW S, NEW s \in S, NEW g \in [1 .. n -> [S -> S]]
  PROVE  \E f : Rounds(f, S, n, s, g)
<1> DEFINE Is(f, m) == /\ f \in [0 .. m -> S] /\ f[0] = s
                       /\ \A k \in 1 .. m : f[k] = g[k][f[k - 1]]
           K == {m \in Nat : \E f : Is(f, m)}
<1>1. 0 \in K
  <2> DEFINE f == [k \in 0 .. 0 |-> s]
  <2>1. Is(f, 0)
    OBVIOUS
  <2> QED
    BY <2>1
<1>2. ASSUME NEW m \in 1 .. n, m - 1 \in K PROVE m \in K
  <2>1. PICK h : Is(h, m - 1)
    BY <1>2
  <2> DEFINE f == [k \in 0 .. m |-> IF k = m THEN g[m][h[m - 1]] ELSE h[k]]
  <2>2. h[m - 1] \in S
    BY <2>1
  <2>3. g[m][h[m - 1]] \in S
    BY <2>2
  <2>4. f \in [0 .. m -> S] /\ f[0] = s
    BY <2>1, <2>3
  <2>5. ASSUME NEW k \in 1 .. m PROVE f[k] = g[k][f[k - 1]]
    <3>1. CASE k = m
      BY <3>1
    <3>2. CASE k # m
      <4>1. k \in 1 .. (m - 1) /\ f[k] = h[k] /\ f[k - 1] = h[k - 1]
        BY <3>2
      <4> QED
        BY <2>1, <4>1
    <3> QED
      BY <3>1, <3>2
  <2> HIDE DEF f
  <2>6. Is(f, m)
    BY <2>4, <2>5
  <2> QED
    BY <2>6
<1>3. n \in K
  <2> HIDE DEF K
  <2>1. \A k \in 0 .. n : k \in K
    BY <1>1, <1>2, LoopInduction
  <2> QED
    BY <2>1
<1> QED
  BY <1>3 DEF Rounds

-----------------------------------------------------------------------------
(* Blocks.                                                                 *)

Fresh == [shared |-> FALSE, share_from |-> NoArc]

\* The io whose block a copy, or the io of an arc, stands for.
Block(c) == IF c.shared THEN c.share_from ELSE c.name
Own(v, a) == IF v[a].shared THEN v[a].share_from ELSE a

\* No chain along share_from is longer than one step.
Hop(v) ==
  \A a \in arcs : v[a].shared => v[a].share_from \in arcs /\ ~v[v[a].share_from].shared

\* The search along share_from, by its definition.
LEMMA ChainDef ==
  ASSUME NEW v, Hop(v), NEW a \in arcs, Cardinality(arcs) \in Nat
  PROVE  /\ Chain(v, a)[0] = a
         /\ \A k \in 1 .. Cardinality(arcs) : Chain(v, a)[k] = Own(v, Chain(v, a)[k - 1])
<1> DEFINE n == Cardinality(arcs)
           g == [k \in 1 .. n |-> [b \in arcs |-> Own(v, b)]]
<1>1. g \in [1 .. n -> [arcs -> arcs]]
  BY DEF Hop, Own
<1>2. PICK f : Rounds(f, arcs, n, a, g)
  <2> HIDE DEF g
  <2> QED
    BY <1>1, LoopExists
<1>3. f = [k \in 0 .. n |-> IF k = 0 THEN a ELSE Own(v, f[k - 1])]
  <2>1. f \in [0 .. n -> arcs] /\ f[0] = a
    BY <1>2 DEF Rounds
  <2>2. ASSUME NEW k \in 1 .. n PROVE f[k] = Own(v, f[k - 1])
    <3>1. f[k - 1] \in arcs /\ f[k] = g[k][f[k - 1]]
      BY <1>2, <2>1 DEF Rounds
    <3> QED
      BY <3>1
  <2> HIDE DEF g
  <2> QED
    BY <2>1, <2>2
<1> HIDE DEF g
<1>4. Chain(v, a) = [k \in 0 .. n |-> IF k = 0 THEN a ELSE Own(v, Chain(v, a)[k - 1])]
  BY <1>3 DEF Chain, Own
<1> QED
  BY <1>4

\* The walk along share_from ends after at most one step.
LEMMA OwnerIsOwn ==
  ASSUME NEW v, Hop(v), NEW a \in arcs, IsFiniteSet(arcs)
  PROVE  OwnerOf(v, a) = Own(v, a) /\ Own(v, a) \in arcs /\ ~v[Own(v, a)].shared
<1> DEFINE n == Cardinality(arcs)
           c == Chain(v, a)
           K == {k \in 0 .. n : k > 0 => c[k] = Own(v, a)}
<1>1. n \in Nat /\ n > 0
  <2>1. arcs # {}
    OBVIOUS
  <2> QED
    BY <2>1, FS_CardinalityType, FS_EmptySet
<1>2. c[0] = a /\ \A k \in 1 .. n : c[k] = Own(v, c[k - 1])
  BY <1>1, ChainDef
<1>3. Own(v, a) \in arcs /\ ~v[Own(v, a)].shared
  BY DEF Hop, Own
<1>4. Own(v, Own(v, a)) = Own(v, a)
  BY <1>3 DEF Own
<1> HIDE DEF n, c
<1>5. 0 \in K
  BY <1>1
<1>6. ASSUME NEW k \in 1 .. n, k - 1 \in K PROVE k \in K
  <2>1. CASE k = 1
    BY <1>2, <2>1
  <2>2. CASE k # 1
    BY <1>2, <1>4, <1>6, <2>2
  <2> QED
    BY <2>1, <2>2
<1> HIDE DEF K
<1>7. n \in K
  <2>1. \A k \in 0 .. n : k \in K
    BY <1>1, <1>5, <1>6, LoopInduction
  <2> QED
    BY <1>1, <2>1
<1> QED
  BY <1>1, <1>3, <1>7 DEF K, OwnerOf, n, c

-----------------------------------------------------------------------------
(* lock, free and free_self, for one io.                                   *)

Rec(f, l, q, t, v) == [free |-> f, lock |-> l, self |-> q, tree |-> t, v |-> v]

\* The states lock and free go through: _self_lock and the tree are left alone.
Results(q, t) == [free : Seq(Copies), lock : SUBSET Copies, self : {q}, tree : {t},
                  v : [arcs -> Ios]]

LEMMA ResultsRec ==
  ASSUME NEW q, NEW t, NEW r \in Results(q, t)
  PROVE  /\ r = Rec(r.free, r.lock, q, t, r.v)
         /\ r.free \in Seq(Copies) /\ r.lock \subseteq Copies /\ r.v \in [arcs -> Ios]
         /\ r.self = q /\ r.tree = t
BY DEF Results, Rec

LEMMA RecResults ==
  ASSUME NEW q, NEW t, NEW f \in Seq(Copies), NEW l \in SUBSET Copies, NEW v \in [arcs -> Ios]
  PROVE  /\ Rec(f, l, q, t, v) \in Results(q, t)
         /\ Rec(f, l, q, t, v).free = f /\ Rec(f, l, q, t, v).lock = l
         /\ Rec(f, l, q, t, v).self = q /\ Rec(f, l, q, t, v).tree = t
         /\ Rec(f, l, q, t, v).v = v
BY DEF Results, Rec

LEMMA SameIo ==
  ASSUME NEW x \in Ios, NEW y \in Ios, x.shared = y.shared, x.share_from = y.share_from
  PROVE  x = y
BY DEF Ios

LEMMA Unshared ==
  ASSUME NEW x \in Ios
  PROVE  [x EXCEPT !.shared = FALSE] = [shared |-> FALSE, share_from |-> x.share_from]
<1> DEFINE y == [x EXCEPT !.shared = FALSE]
           z == [shared |-> FALSE, share_from |-> x.share_from]
<1>1. y \in Ios /\ y.shared = FALSE /\ y.share_from = x.share_from
  BY DEF Ios
<1>2. z \in Ios /\ z.shared = FALSE /\ z.share_from = x.share_from
  BY DEF Ios
<1> HIDE DEF y, z
<1>3. y = z
  BY <1>1, <1>2, SameIo
<1> QED
  BY <1>3 DEF y, z

LEMMA RemoveAtFacts ==
  ASSUME NEW S, NEW s \in Seq(S), NEW i \in 1 .. Len(s)
  PROVE  /\ RemoveAt(s, i) \in Seq(S)
         /\ Len(RemoveAt(s, i)) = Len(s) - 1
         /\ \A j \in 1 .. (Len(s) - 1) :
              RemoveAt(s, i)[j] = IF j < i THEN s[j] ELSE s[j + 1]
<1> DEFINE p == SubSeq(s, 1, i - 1)
           t == SubSeq(s, i + 1, Len(s))
<1>1. p \in Seq(S) /\ Len(p) = i - 1 /\ \A j \in 1 .. (i - 1) : p[j] = s[j]
  OBVIOUS
<1>2. t \in Seq(S) /\ Len(t) = Len(s) - i /\ \A j \in 1 .. (Len(s) - i) : t[j] = s[i + j]
  OBVIOUS
<1>3. RemoveAt(s, i) = p \o t
  BY DEF RemoveAt
<1> HIDE DEF p, t
<1>4. p \o t \in Seq(S) /\ Len(p \o t) = Len(s) - 1
  <2>0. p \in Seq(S) /\ t \in Seq(S)
    BY <1>1, <1>2
  <2>1. p \o t \in Seq(S) /\ Len(p \o t) = Len(p) + Len(t)
    BY ONLY <2>0
  <2>2. Len(s) \in Nat
    OBVIOUS
  <2> QED
    BY <1>1, <1>2, <2>1, <2>2
<1>5. ASSUME NEW j \in 1 .. (Len(s) - 1) PROVE (p \o t)[j] = IF j < i THEN s[j] ELSE s[j + 1]
  <2>1. CASE j < i
    BY <1>1, <1>2, <2>1
  <2>2. CASE ~(j < i)
    <3>1. (p \o t)[j] = t[j - (i - 1)]
      BY <1>1, <1>2, <2>2
    <3>2. j - (i - 1) \in 1 .. (Len(s) - i)
      BY <2>2
    <3> QED
      BY <1>2, <2>2, <3>1, <3>2
  <2> QED
    BY <2>1, <2>2
<1> QED
  BY <1>3, <1>4, <1>5

\* A new block.
LockNew(f, l, v, a, r, q, t) ==
  r = Rec(f, l \cup {[name |-> a, shared |-> FALSE, share_from |-> v[a].share_from]}, q, t,
          [v EXCEPT ![a] = [shared |-> FALSE, share_from |-> v[a].share_from]])

\* The block of the i-th free copy.
LockReuse(f, l, v, a, r, q, t, i) ==
  r = Rec(RemoveAt(f, i),
          l \cup {[name |-> a, shared |-> TRUE, share_from |-> Block(f[i])]}, q, t,
          [v EXCEPT ![a] = [shared |-> TRUE, share_from |-> Block(f[i])]])

LEMMA LockCases ==
  ASSUME NEW q, NEW t, NEW f \in Seq(Copies), NEW l \in SUBSET Copies,
         NEW v \in [arcs -> Ios], NEW a \in arcs
  PROVE  LET r == lock(Rec(f, l, q, t, v), a)
         IN \/ LockNew(f, l, v, a, r, q, t)
            \/ \E i \in DOMAIN f : LockReuse(f, l, v, a, r, q, t, i)
<1> DEFINE x == Rec(f, l, q, t, v)
<1>1. x.free = f /\ x.lock = l /\ x.self = q /\ x.tree = t /\ x.v = v
  BY DEF Rec
<1>2. CASE FreeIn(f, Lane(a)) = {}
  <2>1. lock(x, a) = [x EXCEPT !.lock = @ \cup {[name |-> a, shared |-> FALSE,
                                   share_from |-> v[a].share_from]}, !.v[a].shared = FALSE]
    BY <1>1, <1>2 DEF lock
  <2>2. [v EXCEPT ![a].shared = FALSE] = [v EXCEPT ![a] = [shared |-> FALSE, share_from |-> v[a].share_from]]
    <3>2. [v[a] EXCEPT !.shared = FALSE] = [shared |-> FALSE, share_from |-> v[a].share_from]
      BY Unshared
    <3> QED
      BY <3>2
  <2> QED
    BY <2>1, <2>2 DEF LockNew, Rec
<1>3. CASE FreeIn(f, Lane(a)) # {}
  <2> DEFINE i == Min(FreeIn(f, Lane(a)))
  <2>1. i \in DOMAIN f
    <3>1. FreeIn(f, Lane(a)) \subseteq DOMAIN f /\ DOMAIN f \subseteq Nat
      BY DEF FreeIn
    <3>2. \E m \in FreeIn(f, Lane(a)) : \A j \in FreeIn(f, Lane(a)) : m <= j
      BY <1>3, <3>1, LeastNat
    <3> QED
      BY <3>1, <3>2 DEF Min
  <2> HIDE DEF i
  <2>2. LockReuse(f, l, v, a, lock(x, a), q, t, i)
    BY <1>1, <1>3 DEF lock, LockReuse, Rec, Block, i
  <2> QED
    BY <2>1, <2>2
<1> QED
  BY <1>2, <1>3

-----------------------------------------------------------------------------
(* The outputs of a vertex with a kernel are locked.                       *)

\* No block is in the free list twice.
Distinct(f) == \A i, j \in DOMAIN f : i # j => Block(f[i]) # Block(f[j])

LEMMA RemoveDistinct ==
  ASSUME NEW f \in Seq(Copies), Distinct(f), NEW i \in DOMAIN f
  PROVE  /\ RemoveAt(f, i) \in Seq(Copies) /\ Distinct(RemoveAt(f, i))
         /\ Range(RemoveAt(f, i)) \subseteq Range(f)
         /\ \A c \in Range(RemoveAt(f, i)) : Block(c) # Block(f[i])
<1> DEFINE g == RemoveAt(f, i)
           at(j) == IF j < i THEN j ELSE j + 1
<1>1. i \in 1 .. Len(f) /\ Len(f) \in Nat /\ DOMAIN f = 1 .. Len(f)
  OBVIOUS
<1>2. g \in Seq(Copies) /\ DOMAIN g = 1 .. (Len(f) - 1)
      /\ \A j \in DOMAIN g : g[j] = IF j < i THEN f[j] ELSE f[j + 1]
  <2>1. /\ g \in Seq(Copies) /\ Len(g) = Len(f) - 1
        /\ \A j \in 1 .. (Len(f) - 1) : g[j] = IF j < i THEN f[j] ELSE f[j + 1]
    BY <1>1, RemoveAtFacts, Zenon
  <2> HIDE DEF g
  <2> QED
    BY <2>1
<1> HIDE DEF g
<1>3. \A j \in DOMAIN g : at(j) \in DOMAIN f /\ at(j) # i /\ g[j] = f[at(j)]
  BY <1>1, <1>2
<1>4. \A j, k \in DOMAIN g : j # k => at(j) # at(k)
  BY <1>1, <1>2
<1> HIDE DEF at
<1>5. Distinct(g)
  BY <1>3, <1>4 DEF Distinct
<1>6. Range(g) \subseteq Range(f)
  BY <1>3 DEF Range
<1>7. \A c \in Range(g) : Block(c) # Block(f[i])
  BY <1>3 DEF Range, Distinct
<1> QED
  BY <1>2, <1>5, <1>6, <1>7 DEF g

\* The io of a took over a block of the free list f.
Reused(f, x, a) == a \notin fixed /\ x.shared /\ \E c \in Range(f) : x.share_from = Block(c)

\* The free list f, the locked copies l and the ios v before, and r after the ios
\* of D were locked.
LockedSoFar(f, l, v, q, t, D, r) ==
  /\ r \in Results(q, t)
  /\ Range(r.free) \subseteq Range(f) /\ Distinct(r.free)
  /\ \A a \in arcs \ D : r.v[a] = v[a]
  /\ \A a \in D : r.v[a] = Fresh \/ Reused(f, r.v[a], a)
  /\ \A a \in D, c \in Range(r.free) : r.v[a].shared => r.v[a].share_from # Block(c)
  /\ \A a, b \in D : a # b /\ r.v[a].shared /\ r.v[b].shared
                       => r.v[a].share_from # r.v[b].share_from
  /\ \A c \in r.lock : c \in l \/ (c.name \in D /\ c = Copy(r.v, c.name))

\* lock, for one more output.
LEMMA LockOne ==
  ASSUME NEW f, NEW l, NEW v, NEW q, NEW t, NEW D \in SUBSET arcs, NEW r,
         LockedSoFar(f, l, v, q, t, D, r), NEW a \in arcs \ D, v[a] = Fresh
  PROVE  LockedSoFar(f, l, v, q, t, D \cup {a}, IF a \in fixed THEN r ELSE lock(r, a))
<1>1. r = Rec(r.free, r.lock, q, t, r.v) /\ r.free \in Seq(Copies) /\ r.lock \subseteq Copies
      /\ r.v \in [arcs -> Ios] /\ r.v[a] = Fresh
  BY ResultsRec DEF LockedSoFar
<1>2. Fresh.shared = FALSE /\ Fresh.share_from = NoArc
  BY DEF Fresh
<1>3. CASE a \in fixed
  BY <1>1, <1>2, <1>3 DEF LockedSoFar
<1>4. ASSUME a \notin fixed, LockNew(r.free, r.lock, r.v, a, lock(r, a), q, t)
      PROVE  LockedSoFar(f, l, v, q, t, D \cup {a}, lock(r, a))
  <2> DEFINE c == [name |-> a, shared |-> FALSE, share_from |-> NoArc]
             s == lock(r, a)
  <2>1. [r.v EXCEPT ![a] = [shared |-> FALSE, share_from |-> r.v[a].share_from]] = r.v
    BY <1>1, <1>2 DEF Fresh
  <2>2. c \in Copies /\ c = Copy(r.v, a) /\ c.name = a
    BY <1>1, <1>2 DEF Copies, Copy
  <2>3. s = Rec(r.free, r.lock \cup {c}, q, t, r.v)
    BY <1>1, <1>2, <1>4, <2>1 DEF LockNew
  <2>4. s \in Results(q, t) /\ s.free = r.free /\ s.lock = r.lock \cup {c} /\ s.v = r.v
    <3>1. r.lock \cup {c} \in SUBSET Copies
      BY <1>1, <2>2
    <3>2. r.free \in Seq(Copies) /\ r.v \in [arcs -> Ios]
      BY <1>1
    <3> DEFINE g == r.free
               k == r.lock \cup {c}
               w == r.v
    <3>3. s = Rec(g, k, q, t, w) /\ g \in Seq(Copies) /\ k \in SUBSET Copies
          /\ w \in [arcs -> Ios]
      BY <2>3, <3>1, <3>2
    <3> HIDE DEF s, c, g, k, w
    <3>4. s \in Results(q, t) /\ s.free = g /\ s.lock = k /\ s.v = w
      BY <3>3, RecResults
    <3> QED
      BY <3>4 DEF g, k, w
  <2> HIDE DEF s, c
  <2> QED
    BY <1>1, <1>2, <2>2, <2>4 DEF LockedSoFar, s
<1>5. ASSUME a \notin fixed, NEW i \in DOMAIN r.free,
             LockReuse(r.free, r.lock, r.v, a, lock(r, a), q, t, i)
      PROVE  LockedSoFar(f, l, v, q, t, D \cup {a}, lock(r, a))
  <2> DEFINE b == Block(r.free[i])
             x == [shared |-> TRUE, share_from |-> b]
             c == [name |-> a, shared |-> TRUE, share_from |-> b]
             w == [r.v EXCEPT ![a] = x]
             g == RemoveAt(r.free, i)
             s == lock(r, a)
  <2>1. r.free[i] \in Copies /\ r.free[i] \in Range(f)
    <3>1. r.free[i] \in Range(r.free)
      BY DEF Range
    <3>2. r.free[i] \in Copies
      BY <1>1
    <3> QED
      BY <3>1, <3>2 DEF LockedSoFar
  <2>2. b \in arcs \cup {NoArc}
    BY <2>1 DEF Block, Copies
  <2>3. x \in Ios /\ c \in Copies /\ c.name = a /\ x.shared /\ x.share_from = b
    BY <2>2 DEF Ios, Copies
  <2>4. w \in [arcs -> Ios] /\ w[a] = x /\ \A d \in arcs : d # a => w[d] = r.v[d]
    BY <1>1, <2>3
  <2>5. c = Copy(w, a)
    BY <2>4 DEF Copy
  <2>6. g \in Seq(Copies) /\ Distinct(g) /\ Range(g) \subseteq Range(r.free)
        /\ \A d \in Range(g) : Block(d) # b
    BY <1>1, RemoveDistinct DEF LockedSoFar
  <2>7. s = Rec(g, r.lock \cup {c}, q, t, w)
    BY <1>5 DEF LockReuse
  <2> HIDE DEF b, x, c, w, g, s
  <2>8. s \in Results(q, t) /\ s.free = g /\ s.lock = r.lock \cup {c} /\ s.v = w
    <3>1. r.lock \cup {c} \in SUBSET Copies
      BY <1>1, <2>3
    <3> QED
      BY <2>4, <2>6, <2>7, <3>1, RecResults
  <2>9. /\ \A d \in arcs \ (D \cup {a}) : w[d] = v[d]
        /\ \A d \in D : w[d] = r.v[d]
    BY <2>4 DEF LockedSoFar
  <2>10. Reused(f, w[a], a)
    BY <1>5, <2>1, <2>3, <2>4 DEF Reused, b
  <2>11. b \in {Block(d) : d \in Range(r.free)}
    BY <1>1 DEF b, Range
  <2>12. \A d \in D : w[d].shared => w[d].share_from # b
    BY <2>9, <2>11 DEF LockedSoFar
  <2>13. \A d \in D \cup {a}, e \in Range(g) : w[d].shared => w[d].share_from # Block(e)
    BY <2>3, <2>4, <2>6, <2>9 DEF LockedSoFar
  <2>14. \A d \in r.lock : d \in l \/ (d.name \in D /\ d = Copy(w, d.name))
    BY <2>9 DEF LockedSoFar, Copy
  <2>15. \A d, e \in D \cup {a} : d # e /\ w[d].shared /\ w[e].shared
                                   => w[d].share_from # w[e].share_from
    BY <2>3, <2>4, <2>9, <2>12 DEF LockedSoFar
  <2>16. \A d \in D \cup {a} : w[d] = Fresh \/ Reused(f, w[d], d)
    BY <2>9, <2>10 DEF LockedSoFar
  <2>17. Range(g) \subseteq Range(f)
    BY <2>6 DEF LockedSoFar
  <2>18. LockedSoFar(f, l, v, q, t, D \cup {a}, s)
    BY <2>3, <2>5, <2>6, <2>8, <2>9, <2>13, <2>14, <2>15, <2>16, <2>17 DEF LockedSoFar
  <2> QED
    BY <2>18 DEF s
<1>6. CASE a \notin fixed
  <2>1. \/ LockNew(r.free, r.lock, r.v, a, lock(r, a), q, t)
        \/ \E i \in DOMAIN r.free : LockReuse(r.free, r.lock, r.v, a, lock(r, a), q, t, i)
    BY <1>1, LockCases
  <2> QED
    BY <1>4, <1>5, <1>6, <2>1
<1> QED
  BY <1>3, <1>6

LEMMA LockType ==
  ASSUME NEW q, NEW t, NEW r \in Results(q, t), NEW a \in arcs
  PROVE  lock(r, a) \in Results(q, t)
<1> DEFINE f == r.free
           l == r.lock
           v == r.v
           s == lock(r, a)
<1>1. r = Rec(f, l, q, t, v) /\ f \in Seq(Copies) /\ l \in SUBSET Copies /\ v \in [arcs -> Ios]
  BY ResultsRec
<1> HIDE DEF f, l, v
<1>2. v[a].share_from \in arcs \cup {NoArc}
  BY <1>1 DEF Ios
<1>3. ASSUME LockNew(f, l, v, a, s, q, t) PROVE s \in Results(q, t)
  <2> DEFINE c == [name |-> a, shared |-> FALSE, share_from |-> v[a].share_from]
             w == [v EXCEPT ![a] = [shared |-> FALSE, share_from |-> v[a].share_from]]
             k == l \cup {c}
  <2>1. k \in SUBSET Copies /\ w \in [arcs -> Ios]
    <3>1. c \in Copies
      BY <1>2 DEF Copies
    <3>2. [shared |-> FALSE, share_from |-> v[a].share_from] \in Ios
      BY <1>2 DEF Ios
    <3> HIDE DEF c
    <3> QED
      BY <1>1, <3>1, <3>2
  <2>2. s = Rec(f, k, q, t, w)
    BY <1>3 DEF LockNew
  <2> HIDE DEF w, k, s
  <2> QED
    BY <1>1, <2>1, <2>2, RecResults
<1>4. ASSUME NEW i \in DOMAIN f, LockReuse(f, l, v, a, s, q, t, i) PROVE s \in Results(q, t)
  <2> DEFINE b == Block(f[i])
             c == [name |-> a, shared |-> TRUE, share_from |-> b]
             w == [v EXCEPT ![a] = [shared |-> TRUE, share_from |-> b]]
             k == l \cup {c}
             g == RemoveAt(f, i)
  <2>1. f[i] \in Copies
    BY <1>1
  <2>2. b \in arcs \cup {NoArc}
    BY <2>1 DEF Block, Copies
  <2>3. s = Rec(g, k, q, t, w)
    BY <1>4 DEF LockReuse
  <2>4. g \in Seq(Copies)
    BY <1>1, RemoveAtFacts
  <2> HIDE DEF b, g
  <2>5. k \in SUBSET Copies /\ w \in [arcs -> Ios]
    <3>1. c \in Copies
      BY <2>2 DEF Copies
    <3>2. [shared |-> TRUE, share_from |-> b] \in Ios
      BY <2>2 DEF Ios
    <3> HIDE DEF c
    <3> QED
      BY <1>1, <3>1, <3>2
  <2> HIDE DEF w, k, s
  <2> QED
    BY <2>3, <2>4, <2>5, RecResults
<1>5. \/ LockNew(f, l, v, a, s, q, t)
      \/ \E i \in DOMAIN f : LockReuse(f, l, v, a, s, q, t, i)
  BY <1>1, LockCases
<1> QED
  BY <1>3, <1>4, <1>5

\* An arrangement of a finite set.
LEMMA ListFacts ==
  ASSUME NEW S, IsFiniteSet(S), NEW s \in Lists(S)
  PROVE  /\ s \in Seq(S) /\ Len(s) \in Nat /\ DOMAIN s = 1 .. Len(s)
         /\ \A i, j \in 1 .. Len(s) : i # j => s[i] # s[j]
         /\ \A i \in 1 .. Len(s) : s[i] \in S
<1> DEFINE n == Cardinality(S)
<1>1. n \in Nat
  BY FS_CardinalityType
<1>2. s \in [1 .. n -> S] /\ \A i, j \in 1 .. n : i # j => s[i] # s[j]
  BY DEF Lists, SetToSeqs
<1> HIDE DEF n
<1>3. s \in Seq(S) /\ Len(s) = n
  BY <1>1, <1>2
<1> QED
  BY <1>1, <1>2, <1>3

\* LockLoop, by its definition.
LEMMA LockLoopDef ==
  ASSUME NEW q, NEW t, NEW r \in Results(q, t), NEW outs \in Seq(arcs)
  PROVE  /\ LockLoop(r, outs)[0] = r
         /\ \A k \in 1 .. Len(outs) : LockLoop(r, outs)[k] =
              LET p == LockLoop(r, outs)[k - 1]
              IN IF outs[k] \in fixed THEN p ELSE lock(p, outs[k])
<1> DEFINE n == Len(outs)
           step(x, k) == IF outs[k] \in fixed THEN x ELSE lock(x, outs[k])
           S == Results(q, t)
           g == [k \in 1 .. n |-> [x \in S |-> step(x, k)]]
<1>1. n \in Nat /\ \A k \in 1 .. n : outs[k] \in arcs
  OBVIOUS
<1>2. \A k \in 1 .. n : \A x \in S : step(x, k) \in S
  BY <1>1, LockType
<1> HIDE DEF step, S, n
<1>3. g \in [1 .. n -> [S -> S]]
  BY <1>2
<1>4. PICK f : Rounds(f, S, n, r, g)
  <2>1. r \in S
    BY DEF S
  <2> HIDE DEF g
  <2> QED
    BY <1>1, <1>3, <2>1, LoopExists
<1>5. f = [k \in 0 .. n |-> IF k = 0 THEN r ELSE step(f[k - 1], k)]
  <2>1. f \in [0 .. n -> S] /\ f[0] = r
    BY <1>4 DEF Rounds
  <2>2. ASSUME NEW k \in 1 .. n PROVE f[k] = step(f[k - 1], k)
    <3>1. f[k - 1] \in S /\ f[k] = g[k][f[k - 1]]
      BY <1>1, <1>4, <2>1 DEF Rounds
    <3> QED
      BY <3>1
  <2> HIDE DEF g
  <2> QED
    BY <1>1, <2>1, <2>2
<1> HIDE DEF g
<1>6. LockLoop(r, outs) = [k \in 0 .. n |-> IF k = 0 THEN r ELSE step(LockLoop(r, outs)[k - 1], k)]
  BY <1>5 DEF LockLoop, step, n
<1> DEFINE h == LockLoop(r, outs)
<1>7. h = [k \in 0 .. n |-> IF k = 0 THEN r ELSE step(h[k - 1], k)]
  BY <1>6
<1> HIDE DEF h
<1>8. h[0] = r /\ \A k \in 1 .. n : h[k] = step(h[k - 1], k)
  BY <1>1, <1>7
<1> QED
  BY <1>8 DEF step, n, h

LEMMA LockedMore ==
  ASSUME NEW f, NEW l, NEW v, NEW q, NEW t, NEW O \in SUBSET arcs, NEW D \in SUBSET O, NEW r,
         LockedSoFar(f, l, v, q, t, D, r), \A a \in O : v[a] = Fresh
  PROVE  LockedSoFar(f, l, v, q, t, O, r)
<1>1. \A a \in O \ D : r.v[a] = Fresh /\ ~r.v[a].shared
  <2>1. Fresh.shared = FALSE
    BY DEF Fresh
  <2> QED
    BY <2>1 DEF LockedSoFar
<1> QED
  BY <1>1 DEF LockedSoFar

\* lock, for all outputs.
LEMMA LockAll ==
  ASSUME NEW f \in Seq(Copies), NEW l \in SUBSET Copies, NEW v \in [arcs -> Ios], NEW q, NEW t,
         Distinct(f), NEW O \in SUBSET arcs, IsFiniteSet(O), NEW outs \in Lists(O),
         \A a \in O : v[a] = Fresh
  PROVE  LockedSoFar(f, l, v, q, t, O, LockLoop(Rec(f, l, q, t, v), outs)[Len(outs)])
<1> DEFINE n == Len(outs)
           r == LockLoop(Rec(f, l, q, t, v), outs)
           D(k) == {outs[j] : j \in 1 .. k}
           K == {k \in 0 .. n : LockedSoFar(f, l, v, q, t, D(k), r[k])}
<1>1. /\ outs \in Seq(O) /\ n \in Nat /\ DOMAIN outs = 1 .. n
      /\ \A i, j \in 1 .. n : i # j => outs[i] # outs[j]
      /\ \A i \in 1 .. n : outs[i] \in O
  BY ListFacts
<1>2. outs \in Seq(arcs)
  BY <1>1
<1>3. Rec(f, l, q, t, v) \in Results(q, t)
  BY RecResults
<1>4. r[0] = Rec(f, l, q, t, v)
  BY <1>2, <1>3, LockLoopDef
<1>5. \A k \in 1 .. n : r[k] = IF outs[k] \in fixed THEN r[k - 1] ELSE lock(r[k - 1], outs[k])
  BY <1>2, <1>3, LockLoopDef
<1> HIDE DEF r, n
<1>6. 0 \in K
  <2>1. r[0] \in Results(q, t) /\ r[0].free = f /\ r[0].lock = l /\ r[0].v = v
    <3>1. LET x == Rec(f, l, q, t, v)
          IN x.free = f /\ x.lock = l /\ x.v = v
      BY DEF Rec
    <3> QED
      BY <1>3, <1>4, <3>1, Zenon
  <2>2. D(0) = {}
    OBVIOUS
  <2>3. LockedSoFar(f, l, v, q, t, {}, r[0])
    BY <2>1 DEF LockedSoFar
  <2> HIDE DEF D
  <2>4. LockedSoFar(f, l, v, q, t, D(0), r[0])
    BY <2>2, <2>3
  <2> QED
    BY <1>1, <2>4
<1>7. ASSUME NEW k \in 1 .. n, k - 1 \in K PROVE k \in K
  <2> DEFINE a == outs[k]
             p == r[k - 1]
             E == D(k - 1)
  <2>1. LockedSoFar(f, l, v, q, t, E, p)
    BY <1>7
  <2>2. E \subseteq arcs /\ a \in arcs \ E /\ v[a] = Fresh
    BY <1>1
  <2>3. D(k) = E \cup {a}
    BY <1>1
  <2>4. r[k] = IF a \in fixed THEN p ELSE lock(p, a)
    BY <1>5
  <2> HIDE DEF a, p, E, D
  <2>5. LockedSoFar(f, l, v, q, t, E \cup {a}, IF a \in fixed THEN p ELSE lock(p, a))
    BY <2>1, <2>2, LockOne
  <2>6. LockedSoFar(f, l, v, q, t, D(k), r[k])
    BY <2>3, <2>4, <2>5, Zenon
  <2> QED
    BY <2>6
<1>8. n \in K
  <2> HIDE DEF K
  <2>1. \A k \in 0 .. n : k \in K
    BY <1>1, <1>6, <1>7, LoopInduction
  <2> QED
    BY <1>1, <2>1
<1>9. D(n) \subseteq O
  BY <1>1
<1> HIDE DEF D
<1>10. LockedSoFar(f, l, v, q, t, O, r[n])
  BY <1>8, <1>9, LockedMore
<1> QED
  BY <1>10 DEF r, n

-----------------------------------------------------------------------------
(* Blocks are given back: push_free, free and free_self.                   *)

\* The block of the copy is that of an io with a block of its own.
Rooted(v, c) == Block(c) \in arcs /\ ~v[Block(c)].shared

LEMMA OwnerIsBlock ==
  ASSUME NEW v, Hop(v), IsFiniteSet(arcs), NEW c, Rooted(v, c)
  PROVE  Owner(v, c) = Block(c)
<1>1. CASE c.shared
  <2>1. c.share_from \in arcs /\ ~v[c.share_from].shared
    BY <1>1 DEF Rooted, Block
  <2>2. OwnerOf(v, c.share_from) = Own(v, c.share_from)
    BY <2>1, OwnerIsOwn
  <2> QED
    BY <1>1, <2>1, <2>2 DEF Owner, Block, Own
<1>2. CASE ~c.shared
  BY <1>2 DEF Owner, Block
<1> QED
  BY <1>1, <1>2

LEMMA PushType ==
  ASSUME NEW v, NEW f \in Seq(Copies), NEW c \in Copies
  PROVE  push_free(v, f, c) \in Seq(Copies)
BY DEF push_free

\* c is put at the end of the free list, or its block is there already, or it is
\* a registered output.
LEMMA PushOne ==
  ASSUME NEW v, Hop(v), IsFiniteSet(arcs), NEW f \in Seq(Copies), Distinct(f),
         \A d \in Range(f) : Rooted(v, d), NEW c \in Copies, Rooted(v, c)
  PROVE  LET g == push_free(v, f, c)
         IN /\ g \in Seq(Copies) /\ Distinct(g)
            /\ \A d \in Range(g) : d \in Range(f) \/ (d = c /\ ~is_target_fixed(c))
<1>1. CASE push_free(v, f, c) = f
  BY <1>1
<1>2. CASE push_free(v, f, c) # f
  <2> DEFINE n == Len(f)
             g == Append(f, c)
  <2>1. /\ push_free(v, f, c) = g /\ ~is_target_fixed(c)
        /\ \A i \in DOMAIN f : ~is_same_target(v, f[i], c)
    BY <1>2 DEF push_free
  <2>2. n \in Nat /\ DOMAIN f = 1 .. n /\ DOMAIN g = 1 .. (n + 1) /\ g \in Seq(Copies)
        /\ g[n + 1] = c /\ \A i \in 1 .. n : g[i] = f[i]
    OBVIOUS
  <2>3. ASSUME NEW i \in DOMAIN f PROVE Block(f[i]) # Block(c)
    <3>1. f[i] \in Range(f)
      BY DEF Range
    <3>2. Owner(v, f[i]) = Block(f[i]) /\ Owner(v, c) = Block(c)
      BY <3>1, OwnerIsBlock
    <3> QED
      BY <2>1, <3>2 DEF is_same_target
  <2> HIDE DEF g, n
  <2>4. Distinct(g)
    <3> SUFFICES ASSUME NEW i \in DOMAIN g, NEW j \in DOMAIN g, i # j
                 PROVE  Block(g[i]) # Block(g[j])
      BY DEF Distinct
    <3>1. CASE i \in 1 .. n /\ j \in 1 .. n
      BY <2>2, <3>1 DEF Distinct
    <3>2. CASE i = n + 1 /\ j \in 1 .. n
      BY <2>2, <2>3, <3>2
    <3>3. CASE j = n + 1 /\ i \in 1 .. n
      BY <2>2, <2>3, <3>3
    <3> QED
      BY <2>2, <3>1, <3>2, <3>3
  <2>5. \A d \in Range(g) : d \in Range(f) \/ d = c
    <3> SUFFICES ASSUME NEW i \in DOMAIN g PROVE g[i] \in Range(f) \/ g[i] = c
      BY DEF Range
    <3>1. CASE i \in 1 .. n
      BY <2>2, <3>1 DEF Range
    <3>2. CASE i = n + 1
      BY <2>2, <3>2
    <3> QED
      BY <2>2, <3>1, <3>2
  <2> QED
    BY <2>1, <2>2, <2>4, <2>5
<1> QED
  BY <1>1, <1>2

\* r after the ios of D were freed.
FreedSoFar(f, l, v, q, t, D, r) ==
  /\ r \in Results(q, t) /\ r.v = v /\ r.lock \subseteq l /\ Distinct(r.free)
  /\ \A c \in Range(r.free) :
       c \in Range(f) \/ (c \in l /\ c.name \in D /\ ~is_target_fixed(c))

\* free, with the copy that it takes.
FreeResult(f, l, v, q, t, a, s) ==
  \/ s = Rec(f, l, q, t, v)
  \/ \E c \in l : c.name = a /\ s = Rec(push_free(v, f, c), {d \in l : d.name # a}, q, t, v)

LEMMA FreeCases ==
  ASSUME NEW q, NEW t, NEW f \in Seq(Copies), NEW l \in SUBSET Copies,
         NEW v \in [arcs -> Ios], NEW a
  PROVE  FreeResult(f, l, v, q, t, a, free(Rec(f, l, q, t, v), a))
<1> DEFINE r == Rec(f, l, q, t, v)
           cs == {c \in l : c.name = a}
           c == CHOOSE d \in cs : TRUE
<1>1. r.free = f /\ r.lock = l /\ r.self = q /\ r.tree = t /\ r.v = v
  BY DEF Rec
<1>2. l \ cs = {d \in l : d.name # a}
  OBVIOUS
<1>3. CASE cs = {}
  BY <1>1, <1>3 DEF free, FreeResult
<1>4. CASE cs # {}
  <2>1. c \in l /\ c.name = a
    BY <1>4
  <2>2. free(r, a) = [r EXCEPT !.lock = @ \ cs, !.free = push_free(v, @, c)]
    BY <1>1, <1>4 DEF free
  <2> HIDE DEF c, cs
  <2>3. free(r, a) = Rec(push_free(v, f, c), l \ cs, q, t, v)
    BY <2>2 DEF Rec
  <2> QED
    BY <1>2, <2>1, <2>3 DEF FreeResult
<1> QED
  BY <1>3, <1>4

LEMMA FreeType ==
  ASSUME NEW q, NEW t, NEW r \in Results(q, t), NEW a
  PROVE  free(r, a) \in Results(q, t)
<1> DEFINE f == r.free
           l == r.lock
           v == r.v
<1>1. r = Rec(f, l, q, t, v) /\ f \in Seq(Copies) /\ l \in SUBSET Copies /\ v \in [arcs -> Ios]
  BY ResultsRec
<1> HIDE DEF f, l, v
<1>2. CASE free(r, a) = r
  BY <1>2
<1>3. ASSUME NEW c \in l, free(r, a) = Rec(push_free(v, f, c), {d \in l : d.name # a}, q, t, v)
      PROVE  free(r, a) \in Results(q, t)
  <2>1. push_free(v, f, c) \in Seq(Copies) /\ {d \in l : d.name # a} \in SUBSET Copies
    BY <1>1, PushType
  <2> QED
    BY <1>1, <1>3, <2>1, RecResults
<1>4. FreeResult(f, l, v, q, t, a, free(r, a))
  BY <1>1, FreeCases
<1> QED
  BY <1>1, <1>2, <1>3, <1>4 DEF FreeResult

\* free, for one more input.
LEMMA FreeOne ==
  ASSUME NEW f, NEW l, NEW v, NEW q, NEW t, NEW D, NEW r, FreedSoFar(f, l, v, q, t, D, r),
         NEW a, Hop(v), IsFiniteSet(arcs),
         \A c \in Range(f) : Rooted(v, c),
         \A c \in l : c.name \in D \cup {a} => Rooted(v, c)
  PROVE  FreedSoFar(f, l, v, q, t, D \cup {a}, free(r, a))
<1> DEFINE g == r.free
           k == r.lock
           s == free(r, a)
<1>1. /\ r = Rec(g, k, q, t, v) /\ g \in Seq(Copies) /\ k \in SUBSET Copies
      /\ v \in [arcs -> Ios] /\ k \subseteq l /\ Distinct(g) /\ r.v = v
  BY ResultsRec DEF FreedSoFar
<1>2. \A c \in Range(g) : c \in Range(f) \/ (c \in l /\ c.name \in D /\ ~is_target_fixed(c))
  BY DEF FreedSoFar
<1> HIDE DEF g, k
<1>3. CASE s = r
  BY <1>3 DEF FreedSoFar
<1>4. ASSUME NEW c \in k, c.name = a,
             s = Rec(push_free(v, g, c), {d \in k : d.name # a}, q, t, v)
      PROVE  FreedSoFar(f, l, v, q, t, D \cup {a}, s)
  <2> DEFINE h == push_free(v, g, c)
             m == {d \in k : d.name # a}
  <2>1. c \in Copies /\ Rooted(v, c) /\ c \in l
    BY <1>1, <1>4
  <2>2. \A d \in Range(g) : Rooted(v, d)
    BY <1>2
  <2>3. /\ h \in Seq(Copies) /\ Distinct(h)
        /\ \A d \in Range(h) : d \in Range(g) \/ (d = c /\ ~is_target_fixed(c))
    BY <1>1, <2>1, <2>2, PushOne
  <2>4. m \in SUBSET Copies /\ m \subseteq l
    BY <1>1
  <2>5. s = Rec(h, m, q, t, v)
    BY <1>4
  <2> HIDE DEF h, m, s
  <2>6. s \in Results(q, t) /\ s.free = h /\ s.lock = m /\ s.v = v
    BY <1>1, <2>3, <2>4, <2>5, RecResults
  <2> QED
    BY <1>2, <1>4, <2>1, <2>3, <2>4, <2>6 DEF FreedSoFar
<1>5. s = r \/ \E c \in k : c.name = a /\ s = Rec(push_free(v, g, c), {d \in k : d.name # a}, q, t, v)
  <2>1. FreeResult(g, k, v, q, t, a, s)
    BY <1>1, FreeCases
  <2> QED
    BY <1>1, <2>1 DEF FreeResult
<1> QED
  BY <1>3, <1>4, <1>5

\* FreeLoop, by its definition.
LEMMA FreeLoopDef ==
  ASSUME NEW q, NEW t, NEW r \in Results(q, t), NEW ins \in Seq(arcs)
  PROVE  /\ FreeLoop(r, ins)[0] = r
         /\ \A k \in 1 .. Len(ins) : FreeLoop(r, ins)[k] = free(FreeLoop(r, ins)[k - 1], ins[k])
<1> DEFINE n == Len(ins)
           S == Results(q, t)
           g == [k \in 1 .. n |-> [x \in S |-> free(x, ins[k])]]
<1>1. n \in Nat
  OBVIOUS
<1>2. \A k \in 1 .. n : \A x \in S : free(x, ins[k]) \in S
  BY FreeType
<1> HIDE DEF S, n
<1>3. g \in [1 .. n -> [S -> S]]
  BY <1>2
<1>4. PICK f : Rounds(f, S, n, r, g)
  <2>1. r \in S
    BY DEF S
  <2> HIDE DEF g
  <2> QED
    BY <1>1, <1>3, <2>1, LoopExists
<1>5. f = [k \in 0 .. n |-> IF k = 0 THEN r ELSE free(f[k - 1], ins[k])]
  <2>1. f \in [0 .. n -> S] /\ f[0] = r
    BY <1>4 DEF Rounds
  <2>2. ASSUME NEW k \in 1 .. n PROVE f[k] = free(f[k - 1], ins[k])
    <3>1. f[k - 1] \in S /\ f[k] = g[k][f[k - 1]]
      BY <1>1, <1>4, <2>1 DEF Rounds
    <3> QED
      BY <3>1
  <2> HIDE DEF g
  <2> QED
    BY <1>1, <2>1, <2>2
<1> HIDE DEF g
<1> DEFINE h == FreeLoop(r, ins)
<1>6. h = [k \in 0 .. n |-> IF k = 0 THEN r ELSE free(h[k - 1], ins[k])]
  BY <1>5 DEF FreeLoop, n
<1> HIDE DEF h
<1>7. h[0] = r /\ \A k \in 1 .. n : h[k] = free(h[k - 1], ins[k])
  BY <1>1, <1>6
<1> QED
  BY <1>7 DEF n, h

\* free, for all inputs.
LEMMA FreeAll ==
  ASSUME NEW q, NEW t, NEW r \in Results(q, t), Hop(r.v), IsFiniteSet(arcs), Distinct(r.free),
         NEW I \in SUBSET arcs, IsFiniteSet(I), NEW ins \in Lists(I),
         \A c \in Range(r.free) : Rooted(r.v, c),
         \A c \in r.lock : c.name \in I => Rooted(r.v, c)
  PROVE  FreedSoFar(r.free, r.lock, r.v, q, t, I, FreeLoop(r, ins)[Len(ins)])
<1> DEFINE n == Len(ins)
           f == r.free
           l == r.lock
           v == r.v
           h == FreeLoop(r, ins)
           D(k) == {ins[j] : j \in 1 .. k}
           K == {k \in 0 .. n : FreedSoFar(f, l, v, q, t, D(k), h[k])}
<1>1. ins \in Seq(I) /\ n \in Nat /\ \A i \in 1 .. n : ins[i] \in I
  BY ListFacts
<1>2. ins \in Seq(arcs)
  BY <1>1
<1>3. h[0] = r
  BY <1>2, FreeLoopDef
<1>4. \A k \in 1 .. n : h[k] = free(h[k - 1], ins[k])
  BY <1>2, FreeLoopDef
<1>5. /\ Hop(v) /\ \A c \in Range(f) : Rooted(v, c)
      /\ \A c \in l : c.name \in I => Rooted(v, c)
  OBVIOUS
<1>6. FreedSoFar(f, l, v, q, t, {}, r)
  BY DEF FreedSoFar
<1> HIDE DEF h, n, f, l, v
<1>7. 0 \in K
  <2>1. D(0) = {}
    OBVIOUS
  <2> HIDE DEF D
  <2>2. FreedSoFar(f, l, v, q, t, D(0), h[0])
    BY <1>3, <1>6, <2>1
  <2> QED
    BY <1>1, <2>2
<1>8. ASSUME NEW k \in 1 .. n, k - 1 \in K PROVE k \in K
  <2> DEFINE a == ins[k]
             p == h[k - 1]
             E == D(k - 1)
  <2>1. FreedSoFar(f, l, v, q, t, E, p)
    BY <1>8
  <2>2. E \cup {a} \subseteq I
    BY <1>1
  <2>3. D(k) = E \cup {a}
    BY <1>1
  <2>4. h[k] = free(p, a)
    BY <1>4
  <2>5. \A c \in l : c.name \in E \cup {a} => Rooted(v, c)
    BY <1>5, <2>2
  <2> HIDE DEF a, p, E, D
  <2>6. FreedSoFar(f, l, v, q, t, E \cup {a}, free(p, a))
    BY <1>5, <2>1, <2>5, FreeOne
  <2>7. FreedSoFar(f, l, v, q, t, D(k), h[k])
    BY <2>3, <2>4, <2>6, Zenon
  <2> QED
    BY <2>7
<1>9. n \in K
  <2> HIDE DEF K
  <2>1. \A k \in 0 .. n : k \in K
    BY <1>1, <1>7, <1>8, LoopInduction
  <2> QED
    BY <1>1, <2>1
<1>10. D(n) \subseteq I
  BY <1>1
<1> HIDE DEF D
<1>11. FreedSoFar(f, l, v, q, t, I, h[n])
  BY <1>9, <1>10 DEF FreedSoFar
<1> QED
  BY <1>11 DEF h, n, f, l, v

\* The lists free_self goes through.
Pairs == [free : Seq(Copies), self : Seq(Copies)]

\* A round of free_self.
SelfStep(v, done, x, c) ==
  IF c.name \in done THEN [x EXCEPT !.free = push_free(v, @, c)]
                    ELSE [x EXCEPT !.self = Append(@, c)]

\* The free list f and _self_lock s before, and x after the copies of s, or a part
\* of them, were looked at.
SelfSoFar(f, s, done, x) ==
  /\ x \in Pairs /\ Distinct(x.free)
  /\ \A c \in Range(x.self) : c \in Range(s) /\ c.name \notin done
  /\ \A c \in Range(x.free) :
       c \in Range(f) \/ (c \in Range(s) /\ c.name \in done /\ ~is_target_fixed(c))

LEMMA SelfStepFields ==
  ASSUME NEW v, NEW done, NEW x \in Pairs, NEW c \in Copies
  PROVE  LET y == SelfStep(v, done, x, c)
         IN /\ y \in Pairs
            /\ c.name \in done => y.free = push_free(v, x.free, c) /\ y.self = x.self
            /\ c.name \notin done => y.free = x.free /\ y.self = Append(x.self, c)
<1>1. x.free \in Seq(Copies) /\ x.self \in Seq(Copies)
  BY DEF Pairs
<1>2. push_free(v, x.free, c) \in Seq(Copies) /\ Append(x.self, c) \in Seq(Copies)
  BY <1>1, PushType
<1>3. CASE c.name \in done
  BY <1>2, <1>3 DEF SelfStep, Pairs
<1>4. CASE c.name \notin done
  BY <1>2, <1>4 DEF SelfStep, Pairs
<1> QED
  BY <1>3, <1>4

\* SelfLoop, by its definition.
LEMMA SelfLoopDef ==
  ASSUME NEW r, r.free \in Seq(Copies), r.self \in Seq(Copies), NEW done
  PROVE  /\ SelfLoop(r, done)[0] = [free |-> r.free, self |-> <<>>]
         /\ \A k \in 1 .. Len(r.self) :
              SelfLoop(r, done)[k] = SelfStep(r.v, done, SelfLoop(r, done)[k - 1], r.self[k])
<1> DEFINE n == Len(r.self)
           b == [free |-> r.free, self |-> <<>>]
           step(x, k) == SelfStep(r.v, done, x, r.self[k])
           g == [k \in 1 .. n |-> [x \in Pairs |-> step(x, k)]]
<1>1. n \in Nat /\ b \in Pairs
  BY DEF Pairs
<1>2. ASSUME NEW k \in 1 .. n, NEW x \in Pairs PROVE step(x, k) \in Pairs
  <2> DEFINE c == r.self[k]
             w == r.v
  <2>1. c \in Copies
    OBVIOUS
  <2> HIDE DEF c, w
  <2>2. SelfStep(w, done, x, c) \in Pairs
    BY <2>1, SelfStepFields
  <2> QED
    BY <2>2 DEF c, w
<1> HIDE DEF step, n, b
<1>3. g \in [1 .. n -> [Pairs -> Pairs]]
  BY <1>2
<1>4. PICK f : Rounds(f, Pairs, n, b, g)
  <2> HIDE DEF g
  <2> QED
    BY <1>1, <1>3, LoopExists
<1>5. f = [k \in 0 .. n |-> IF k = 0 THEN b ELSE step(f[k - 1], k)]
  <2>1. f \in [0 .. n -> Pairs] /\ f[0] = b
    BY <1>4 DEF Rounds
  <2>2. ASSUME NEW k \in 1 .. n PROVE f[k] = step(f[k - 1], k)
    <3>1. f[k - 1] \in Pairs /\ f[k] = g[k][f[k - 1]]
      BY <1>1, <1>4, <2>1 DEF Rounds
    <3> QED
      BY <3>1
  <2> HIDE DEF g
  <2> QED
    BY <1>1, <2>1, <2>2
<1> HIDE DEF g
<1> DEFINE h == SelfLoop(r, done)
<1>6. h = [k \in 0 .. n |-> IF k = 0 THEN b ELSE step(h[k - 1], k)]
  BY <1>5 DEF SelfLoop, n, step, b, SelfStep
<1> HIDE DEF h
<1>7. h[0] = b /\ \A k \in 1 .. n : h[k] = step(h[k - 1], k)
  BY <1>1, <1>6
<1> QED
  BY <1>7 DEF n, h, step, b

\* free_self, for one more element of _self_lock.
LEMMA SelfOne ==
  ASSUME NEW f, NEW s, NEW v, NEW done, NEW x, SelfSoFar(f, s, done, x), NEW c \in Copies,
         c \in Range(s), Hop(v), IsFiniteSet(arcs),
         \A d \in Range(f) : Rooted(v, d), \A d \in Range(s) : Rooted(v, d)
  PROVE  SelfSoFar(f, s, done, SelfStep(v, done, x, c))
<1> DEFINE y == SelfStep(v, done, x, c)
<1>1. x \in Pairs /\ x.free \in Seq(Copies) /\ x.self \in Seq(Copies) /\ Distinct(x.free)
  BY DEF SelfSoFar, Pairs
<1>2. /\ y \in Pairs
      /\ c.name \in done => y.free = push_free(v, x.free, c) /\ y.self = x.self
      /\ c.name \notin done => y.free = x.free /\ y.self = Append(x.self, c)
  BY <1>1, SelfStepFields
<1> HIDE DEF y
<1>3. CASE c.name \in done
  <2> DEFINE g == push_free(v, x.free, c)
             e == x.free
  <2>1. e \in Seq(Copies) /\ Distinct(e) /\ Rooted(v, c) /\ \A d \in Range(e) : Rooted(v, d)
    BY <1>1 DEF SelfSoFar
  <2> HIDE DEF e
  <2>2. LET h == push_free(v, e, c)
        IN /\ h \in Seq(Copies) /\ Distinct(h)
           /\ \A d \in Range(h) : d \in Range(e) \/ (d = c /\ ~is_target_fixed(c))
    BY <2>1, PushOne
  <2>3. Distinct(g) /\ \A d \in Range(g) : d \in Range(x.free) \/ (d = c /\ ~is_target_fixed(c))
    BY <2>2 DEF e
  <2>4. y.free = g /\ y.self = x.self
    BY <1>2, <1>3
  <2> HIDE DEF g
  <2>5. SelfSoFar(f, s, done, y)
    BY <1>2, <1>3, <2>3, <2>4 DEF SelfSoFar
  <2> QED
    BY <2>5 DEF y
<1>4. CASE c.name \notin done
  <2> DEFINE g == Append(x.self, c)
             e == x.self
  <2>1. \A d \in Range(Append(e, c)) : d \in Range(e) \/ d = c
    <3>1. e \in Seq(Copies)
      BY <1>1
    <3> HIDE DEF e
    <3> QED
      BY <3>1 DEF Range
  <2>2. y.free = x.free /\ y.self = g
    BY <1>2, <1>4
  <2>3. \A d \in Range(g) : d \in Range(x.self) \/ d = c
    BY <2>1
  <2> HIDE DEF g
  <2>4. SelfSoFar(f, s, done, y)
    BY <1>1, <1>2, <1>4, <2>2, <2>3 DEF SelfSoFar
  <2> QED
    BY <2>4 DEF y
<1> QED
  BY <1>3, <1>4

\* free_self, for all of _self_lock.
LEMMA SelfAll ==
  ASSUME NEW r, r.free \in Seq(Copies), r.self \in Seq(Copies), NEW done, Distinct(r.free),
         Hop(r.v), IsFiniteSet(arcs),
         \A c \in Range(r.free) : Rooted(r.v, c), \A c \in Range(r.self) : Rooted(r.v, c)
  PROVE  SelfSoFar(r.free, r.self, done, SelfLoop(r, done)[Len(r.self)])
<1> DEFINE f == r.free
           s == r.self
           v == r.v
           n == Len(s)
           b == [free |-> f, self |-> <<>>]
           h == SelfLoop(r, done)
           K == {k \in 0 .. n : SelfSoFar(f, s, done, h[k])}
<1>1. n \in Nat /\ \A k \in 1 .. n : s[k] \in Range(s) /\ s[k] \in Copies
  BY DEF Range
<1>2. h[0] = b
  BY SelfLoopDef
<1>3. \A k \in 1 .. n : h[k] = SelfStep(v, done, h[k - 1], s[k])
  BY SelfLoopDef
<1>4. /\ Hop(v)
      /\ \A c \in Range(f) : Rooted(v, c)
      /\ \A c \in Range(s) : Rooted(v, c)
      /\ Distinct(f) /\ f \in Seq(Copies)
  OBVIOUS
<1> HIDE DEF f, s, v, n, h
<1>5. SelfSoFar(f, s, done, b)
  <2>1. b \in Pairs /\ b.free = f /\ b.self = <<>>
    BY <1>4 DEF Pairs
  <2>2. Range(<<>>) = {}
    BY DEF Range
  <2> HIDE DEF b
  <2> QED
    BY <1>4, <2>1, <2>2 DEF SelfSoFar
<1> HIDE DEF b
<1>6. 0 \in K
  BY <1>1, <1>2, <1>5
<1>7. ASSUME NEW k \in 1 .. n, k - 1 \in K PROVE k \in K
  <2>1. SelfSoFar(f, s, done, SelfStep(v, done, h[k - 1], s[k]))
    <3> DEFINE p == h[k - 1]
               c == s[k]
    <3>1. SelfSoFar(f, s, done, p) /\ c \in Copies /\ c \in Range(s)
      BY <1>1, <1>7
    <3> HIDE DEF p, c, K
    <3>2. SelfSoFar(f, s, done, SelfStep(v, done, p, c))
      BY <1>4, <3>1, SelfOne
    <3> QED
      BY <3>2 DEF p, c
  <2> QED
    BY <1>3, <2>1
<1>8. n \in K
  <2> HIDE DEF K
  <2>1. \A k \in 0 .. n : k \in K
    BY <1>1, <1>6, <1>7, LoopInduction
  <2> QED
    BY <1>1, <2>1
<1> QED
  BY <1>8 DEF f, s, v, n, h

-----------------------------------------------------------------------------
(* The launch of a vertex with a kernel, step by step.                     *)

Unshare(v, U) == [a \in arcs |-> IF a \in U THEN [v[a] EXCEPT !.shared = FALSE] ELSE v[a]]

LEMMA UnshareFacts ==
  ASSUME NEW v \in [arcs -> Ios], NEW U
  PROVE  /\ Unshare(v, U) \in [arcs -> Ios]
         /\ \A a \in arcs : a \notin U => Unshare(v, U)[a] = v[a]
         /\ \A a \in arcs : a \in U => ~Unshare(v, U)[a].shared
<1>1. \A x \in Ios : [x EXCEPT !.shared = FALSE] \in Ios /\ ~[x EXCEPT !.shared = FALSE].shared
  BY DEF Ios
<1>2. \A a \in arcs : Unshare(v, U)[a] = IF a \in U THEN [v[a] EXCEPT !.shared = FALSE] ELSE v[a]
  BY DEF Unshare
<1>3. \A a \in arcs : v[a] \in Ios
  OBVIOUS
<1>4. Unshare(v, U) \in [arcs -> Ios]
  BY <1>1, <1>3 DEF Unshare
<1> QED
  BY <1>1, <1>2, <1>3, <1>4

\* The tree without the edges.
Pruned(t, E) == [a \in DOMAIN t |-> t[a] \ E]
Empty(t) == {a \in DOMAIN t : t[a] = {}}

\* free_self releases what nothing is left for.
LEMMA FreeSelfResult ==
  ASSUME NEW q \in Seq(Copies), NEW t, NEW r \in Results(q, t), NEW E, Distinct(r.free),
         Hop(r.v), IsFiniteSet(arcs),
         \A c \in Range(r.free) : Rooted(r.v, c), \A c \in Range(q) : Rooted(r.v, c)
  PROVE  \E x : /\ SelfSoFar(r.free, q, Empty(Pruned(t, E)), x)
                /\ free_self(r, E) = Rec(x.free, r.lock, x.self, Pruned(t, E), r.v)
<1> DEFINE d == Empty(Pruned(t, E))
           x == SelfLoop(r, d)[Len(r.self)]
<1>1. r = Rec(r.free, r.lock, q, t, r.v) /\ r.free \in Seq(Copies) /\ r.self = q /\ r.tree = t
  BY ResultsRec
<1>2. SelfSoFar(r.free, q, d, x)
  <2>1. SelfSoFar(r.free, r.self, d, SelfLoop(r, d)[Len(r.self)])
    <3> HIDE DEF d
    <3> QED
      BY <1>1, SelfAll
  <2> QED
    BY <1>1, <2>1
<1>3. free_self(r, E) = [r EXCEPT !.tree = Pruned(t, E), !.free = x.free, !.self = x.self]
  BY <1>1 DEF free_self, Pruned, Empty
<1> HIDE DEF x, d
<1>4. free_self(r, E) = Rec(x.free, r.lock, x.self, Pruned(t, E), r.v)
  BY <1>1, <1>3 DEF Rec
<1> QED
  BY <1>2, <1>4 DEF d

\* The graph: every arc goes forward in the execution order.
GraphOK ==
  /\ opName \in Seq(DOMAIN Arity) /\ lane \in Seq(Nat) /\ Len(opName) <= N
  /\ \A a \in arcs : a \in Nodes \X Nodes /\ a[1] < a[2] /\ a[2] <= Len(opName)
  /\ fixed \subseteq arcs

LEMMA ArcFacts ==
  ASSUME GraphOK
  PROVE  /\ IsFiniteSet(arcs)
         /\ \A n : IsFiniteSet(InArcs(n)) /\ IsFiniteSet(OutArcs(n))
         /\ \A n : InArcs(n) \subseteq arcs /\ OutArcs(n) \subseteq arcs
<1>1. IsFiniteSet(Nodes \X Nodes)
  <2>1. IsFiniteSet(Nodes)
    BY MemAssumption, FS_Interval DEF Nodes
  <2> QED
    BY <2>1, FS_Product
<1>2. arcs \subseteq Nodes \X Nodes
  BY DEF GraphOK
<1>3. IsFiniteSet(arcs)
  BY <1>1, <1>2, FS_Subset
<1>4. \A n : InArcs(n) \subseteq arcs /\ OutArcs(n) \subseteq arcs
  BY DEF InArcs, OutArcs
<1> QED
  BY <1>3, <1>4, FS_Subset

\* The block was written for readers that are through, all of them before n.
Settled(v, c, n) == Rooted(v, c) /\ Block(c)[2] < n

ResOK(r) ==
  /\ r = Rec(r.free, r.lock, r.self, r.tree, r.v)
  /\ r.v \in [arcs -> Ios]
  /\ r.free \in Seq(Copies) /\ r.lock \in SUBSET Copies /\ r.self \in Seq(Copies)
  /\ DOMAIN r.tree \subseteq arcs /\ r.tree \in [DOMAIN r.tree -> SUBSET arcs]

\* Before the launch of n.  An io that takes over a block takes it over from an io
\* that keeps its own.
LaunchOK(r, n) ==
  /\ ResOK(r)
  /\ Hop(r.v)
  /\ \A a \in arcs : ~(a[1] < n) => r.v[a] = Fresh
  /\ \A a \in arcs : r.v[a].shared => r.v[a].share_from[2] < n
  /\ Distinct(r.free)
  /\ \A c \in Range(r.free) : Settled(r.v, c, n)
  /\ \A c \in Range(r.self) : Settled(r.v, c, n) /\ c.name \in DOMAIN r.tree
  /\ \A c \in r.lock :
       /\ c.name[1] < n
       /\ c.shared => Settled(r.v, c, n)
       /\ ~c.shared /\ (n <= c.name[2] \/ ~SelfShared(c.name[2])) => ~r.v[c.name].shared

\* The edges that are taken out of the tree when n is launched.
Edges(n) == IF opName[n] = "Output" THEN {} ELSE {a \in InArcs(n) : SelfShared(a[1])}

\* What a vertex n with a kernel makes of r.
Kernel(r, s, n) ==
  /\ ResOK(s)
  /\ \A a \in arcs \ OutArcs(n) : s.v[a] = r.v[a]
  /\ \A a \in OutArcs(n) : s.v[a].shared => Reused(r.free, s.v[a], a)
  /\ Unmerged => \A a \in OutArcs(n) : s.v[a] = Fresh \/ Reused(r.free, s.v[a], a)
  /\ \A a, b \in OutArcs(n) : a # b /\ s.v[a].shared /\ s.v[b].shared
                                => s.v[a].share_from # s.v[b].share_from
  /\ Distinct(s.free)
  /\ \A c \in Range(s.free) :
       \/ /\ c \in Range(r.free)
          /\ \A a \in OutArcs(n) : s.v[a].shared => s.v[a].share_from # Block(c)
       \/ /\ c \in r.lock /\ c.name \in InArcs(n) /\ opName[n] # "Output"
          /\ ~is_target_fixed(c)
       \/ /\ c \in Range(r.self) /\ s.tree[c.name] = {} /\ ~is_target_fixed(c)
          /\ \A d \in Range(s.self) : d.name # c.name
  /\ \A c \in s.lock :
       \/ c \in r.lock
       \/ /\ c.name \in OutArcs(n)
          /\ c.shared => \E d \in Range(r.free) : c.share_from = Block(d)
          /\ ~c.shared => ~s.v[c.name].shared
          /\ Unmerged => c = Copy(s.v, c.name)
  /\ Range(s.self) \subseteq Range(r.self)
  /\ s.tree = Pruned(r.tree, Edges(n))

\* m is r after the outputs of n were locked and mapped to the graph.
Mapped(r, m, n) ==
  /\ m \in Results(r.self, r.tree)
  /\ Range(m.free) \subseteq Range(r.free) /\ Distinct(m.free)
  /\ \A a \in arcs \ OutArcs(n) : m.v[a] = r.v[a]
  /\ \A a \in OutArcs(n) : m.v[a].shared => Reused(r.free, m.v[a], a)
  /\ Unmerged => \A a \in OutArcs(n) : m.v[a] = Fresh \/ Reused(r.free, m.v[a], a)
  /\ \A a \in OutArcs(n), c \in Range(m.free) : m.v[a].shared => m.v[a].share_from # Block(c)
  /\ \A a, b \in OutArcs(n) : a # b /\ m.v[a].shared /\ m.v[b].shared
                                => m.v[a].share_from # m.v[b].share_from
  /\ \A c \in m.lock :
       \/ c \in r.lock
       \/ /\ c.name \in OutArcs(n)
          /\ c.shared => \E d \in Range(r.free) : c.share_from = Block(d)
          /\ ~c.shared => ~m.v[c.name].shared
          /\ Unmerged => c = Copy(m.v, c.name)

LEMMA MapResult ==
  ASSUME GraphOK, NEW n \in Nodes, NEW r, LaunchOK(r, n), NEW outs \in Lists(OutArcs(n)),
         NEW U \in SUBSET OutArcs(n), Unmerged => U = {}, NEW k, NEW m,
         k = LockLoop(r, outs)[Len(outs)], m = [k EXCEPT !.v = Unshare(k.v, U)]
  PROVE  Mapped(r, m, n)
<1> DEFINE O == OutArcs(n)
           q == r.self
           t == r.tree
           f == r.free
           l == r.lock
           v == r.v
           w == Unshare(k.v, U)
<1>1. IsFiniteSet(O) /\ O \subseteq arcs
  BY ArcFacts
<1>2. /\ r = Rec(f, l, q, t, v) /\ f \in Seq(Copies) /\ l \in SUBSET Copies
      /\ v \in [arcs -> Ios] /\ Distinct(f)
  BY DEF LaunchOK, ResOK
<1>3. \A a \in O : v[a] = Fresh
  <2>1. \A a \in O : a \in arcs /\ a[1] = n /\ ~(n < n)
    BY MemAssumption DEF OutArcs, Nodes
  <2> QED
    BY <2>1 DEF LaunchOK
<1> HIDE DEF O, q, t, f, l, v
<1>4. LockedSoFar(f, l, v, q, t, O, k)
  <2>1. outs \in Lists(O)
    BY DEF O
  <2> QED
    BY <1>1, <1>2, <1>3, <2>1, LockAll
<1>5. k = Rec(k.free, k.lock, q, t, k.v) /\ k.free \in Seq(Copies) /\ k.lock \in SUBSET Copies
      /\ k.v \in [arcs -> Ios]
  BY <1>4, ResultsRec DEF LockedSoFar
<1>6. /\ w \in [arcs -> Ios]
      /\ \A a \in arcs : a \notin U => w[a] = k.v[a]
      /\ \A a \in arcs : a \in U => ~w[a].shared
  BY <1>5, UnshareFacts
<1> HIDE DEF w
<1>7. m = Rec(k.free, k.lock, q, t, w)
  BY <1>5 DEF Rec, w
<1>8. m \in Results(q, t) /\ m.free = k.free /\ m.lock = k.lock /\ m.v = w
  <2> DEFINE kf == k.free
             kl == k.lock
  <2>1. m = Rec(kf, kl, q, t, w) /\ kf \in Seq(Copies) /\ kl \in SUBSET Copies
        /\ w \in [arcs -> Ios]
    BY <1>5, <1>6, <1>7
  <2> HIDE DEF kf, kl
  <2>2. m \in Results(q, t) /\ m.free = kf /\ m.lock = kl /\ m.v = w
    BY ONLY <2>1, RecResults
  <2> QED
    BY <2>2 DEF kf, kl
<1>9. U \subseteq O
  BY DEF O
<1>10. \A a \in O : w[a].shared => w[a] = k.v[a] /\ a \notin U
  BY <1>1, <1>6
<1>11. \A a \in arcs \ O : w[a] = v[a]
  BY <1>4, <1>6, <1>9 DEF LockedSoFar
<1>12. \A a \in O : w[a].shared => Reused(f, w[a], a)
  <2> SUFFICES ASSUME NEW a \in O, w[a].shared PROVE Reused(f, w[a], a)
    OBVIOUS
  <2>1. w[a] = k.v[a] /\ k.v[a].shared
    BY <1>10
  <2>2. k.v[a] # Fresh
    BY <2>1 DEF Fresh
  <2> QED
    BY <1>4, <2>1, <2>2 DEF LockedSoFar
<1>13. Unmerged => w = k.v
  BY <1>5, <1>6
<1>14. Unmerged => \A a \in O : w[a] = Fresh \/ Reused(f, w[a], a)
  BY <1>4, <1>13 DEF LockedSoFar
<1>15. \A a \in O, c \in Range(k.free) : w[a].shared => w[a].share_from # Block(c)
  BY <1>4, <1>10 DEF LockedSoFar
<1>16. \A a, b \in O : a # b /\ w[a].shared /\ w[b].shared => w[a].share_from # w[b].share_from
  BY <1>4, <1>10 DEF LockedSoFar
<1>17. ASSUME NEW c \in k.lock, c \notin l
       PROVE  /\ c.name \in O
              /\ c.shared => \E d \in Range(f) : c.share_from = Block(d)
              /\ ~c.shared => ~w[c.name].shared
              /\ Unmerged => c = Copy(w, c.name)
  <2> DEFINE a == c.name
  <2>1. a \in O /\ c = Copy(k.v, a)
    BY <1>4, <1>17 DEF LockedSoFar
  <2>2. c.shared = k.v[a].shared /\ c.share_from = k.v[a].share_from
    BY <2>1 DEF Copy
  <2>3. CASE k.v[a] = Fresh
    <3>1. ~k.v[a].shared
      BY <2>3 DEF Fresh
    <3> QED
      BY <1>6, <1>10, <1>13, <2>1, <2>2, <3>1
  <2>4. CASE Reused(f, k.v[a], a)
    BY <1>13, <2>1, <2>2, <2>4 DEF Reused
  <2> QED
    BY <1>4, <2>1, <2>3, <2>4 DEF LockedSoFar
<1>18. Range(k.free) \subseteq Range(f) /\ Distinct(k.free)
  BY <1>4 DEF LockedSoFar
<1> QED
  BY <1>8, <1>11, <1>12, <1>14, <1>15, <1>16, <1>17, <1>18 DEF Mapped, O, q, t, f, l, v

\* An io that has been read is left alone by the launch of n.
LEMMA SettledKept ==
  ASSUME GraphOK, NEW n \in Nodes, NEW v, NEW w, \A a \in arcs \ OutArcs(n) : w[a] = v[a]
  PROVE  /\ \A b \in arcs : b[2] < n => w[b] = v[b]
         /\ \A c : Settled(v, c, n) => Settled(w, c, n) /\ Settled(w, c, n + 1) /\ Rooted(w, c)
<1>1. ASSUME NEW b \in arcs, b[2] < n PROVE w[b] = v[b]
  <2>1. b \notin OutArcs(n)
    BY <1>1, MemAssumption DEF OutArcs, GraphOK, Nodes
  <2> QED
    BY <2>1
<1>2. ASSUME NEW c, Settled(v, c, n) PROVE Settled(w, c, n) /\ Settled(w, c, n + 1)
  <2> DEFINE b == Block(c)
  <2>1. b \in arcs /\ b[2] < n /\ ~v[b].shared
    BY <1>2 DEF Settled, Rooted
  <2>2. w[b] = v[b]
    BY <1>1, <2>1
  <2>3. b[2] \in Nat /\ n \in Nat
    BY <2>1, MemAssumption DEF GraphOK, Nodes
  <2>4. b[2] < n + 1
    BY <2>1, <2>3
  <2> QED
    BY <2>1, <2>2, <2>4 DEF Settled, Rooted
<1> QED
  BY <1>1, <1>2 DEF Settled

LEMMA MappedHop ==
  ASSUME GraphOK, NEW n \in Nodes, NEW r, LaunchOK(r, n), NEW m, Mapped(r, m, n)
  PROVE  /\ Hop(m.v)
         /\ \A c \in Range(m.free) : Rooted(m.v, c)
         /\ \A c \in Range(r.self) : Rooted(m.v, c)
         /\ \A c \in m.lock : c.name \in InArcs(n) => c \in r.lock /\ Rooted(m.v, c)
<1>1. /\ \A b \in arcs : b[2] < n => m.v[b] = r.v[b]
      /\ \A c : Settled(r.v, c, n) => Rooted(m.v, c)
  <2>1. \A a \in arcs \ OutArcs(n) : m.v[a] = r.v[a]
    BY DEF Mapped
  <2> DEFINE v == r.v
             w == m.v
  <2>2. \A a \in arcs \ OutArcs(n) : w[a] = v[a]
    BY <2>1
  <2> HIDE DEF v, w
  <2>3. /\ \A b \in arcs : b[2] < n => w[b] = v[b]
        /\ \A c : Settled(v, c, n) => Settled(w, c, n) /\ Settled(w, c, n + 1) /\ Rooted(w, c)
    BY <2>2, SettledKept
  <2> QED
    BY <2>3 DEF v, w
<1>2. \A c \in Range(r.free) : Rooted(m.v, c)
  BY <1>1 DEF LaunchOK
<1>3. \A c \in Range(m.free) : Rooted(m.v, c)
  BY <1>2 DEF Mapped
<1>4. \A c \in Range(r.self) : Rooted(m.v, c)
  BY <1>1 DEF LaunchOK
<1>5. ASSUME NEW a \in arcs, m.v[a].shared
      PROVE  m.v[a].share_from \in arcs /\ ~m.v[m.v[a].share_from].shared
  <2>1. CASE a \in OutArcs(n)
    <3>1. PICK c \in Range(r.free) : m.v[a].share_from = Block(c)
      BY <1>5, <2>1 DEF Mapped, Reused
    <3> QED
      BY <1>2, <3>1 DEF Rooted
  <2>2. CASE a \notin OutArcs(n)
    <3>1. m.v[a] = r.v[a]
      BY <2>2 DEF Mapped
    <3>2. r.v[a].share_from \in arcs /\ ~r.v[r.v[a].share_from].shared /\ r.v[a].share_from[2] < n
      BY <1>5, <3>1 DEF LaunchOK, Hop
    <3> QED
      BY <1>1, <3>1, <3>2
  <2> QED
    BY <2>1, <2>2
<1>6. ASSUME NEW c \in m.lock, c.name \in InArcs(n) PROVE c \in r.lock /\ Rooted(m.v, c)
  <2>1. c.name \in arcs /\ c.name[2] = n /\ n \in Nat /\ c.name[1] < n
    BY <1>6, MemAssumption DEF InArcs, GraphOK, Nodes
  <2>2. c.name \notin OutArcs(n)
    BY <2>1 DEF OutArcs
  <2>3. c \in r.lock
    BY <2>2 DEF Mapped
  <2>4. CASE c.shared
    BY <1>1, <2>3, <2>4 DEF LaunchOK
  <2>5. CASE ~c.shared
    <3>1. n <= c.name[2]
      BY <2>1
    <3>2. ~r.v[c.name].shared
      BY <2>3, <2>5, <3>1 DEF LaunchOK
    <3>3. ~m.v[c.name].shared
      BY <2>1, <2>2, <3>2 DEF Mapped
    <3> QED
      BY <2>1, <2>3, <2>5, <3>3 DEF Rooted, Block
  <2> QED
    BY <2>3, <2>4, <2>5
<1> QED
  BY <1>3, <1>4, <1>5, <1>6 DEF Hop

\* s is m after the inputs of n were given back.
Passed(r, m, s, n) ==
  /\ s.v = m.v /\ s.lock \subseteq m.lock /\ Range(s.self) \subseteq Range(r.self)
  /\ s.tree = Pruned(r.tree, Edges(n)) /\ ResOK(s) /\ Distinct(s.free)
  /\ \A c \in Range(s.free) :
       \/ c \in Range(m.free)
       \/ /\ c \in m.lock /\ c.name \in InArcs(n) /\ opName[n] # "Output"
          /\ ~is_target_fixed(c)
       \/ /\ c \in Range(r.self) /\ s.tree[c.name] = {} /\ ~is_target_fixed(c)
          /\ \A d \in Range(s.self) : d.name # c.name

LEMMA KernelPassed ==
  ASSUME GraphOK, NEW n \in Nodes, NEW r, LaunchOK(r, n), NEW m, Mapped(r, m, n), NEW s,
         Passed(r, m, s, n)
  PROVE  Kernel(r, s, n)
<1>1. \A c \in m.lock : c.name \in InArcs(n) => c \in r.lock
  BY MappedHop
<1>2. s.v = m.v
  BY DEF Passed
<1>3. \A c \in Range(m.free) : /\ c \in Range(r.free)
                              /\ \A a \in OutArcs(n) : s.v[a].shared => s.v[a].share_from # Block(c)
  BY <1>2 DEF Mapped
<1>4. \A c \in Range(s.free) :
       \/ /\ c \in Range(r.free)
          /\ \A a \in OutArcs(n) : s.v[a].shared => s.v[a].share_from # Block(c)
       \/ /\ c \in r.lock /\ c.name \in InArcs(n) /\ opName[n] # "Output"
          /\ ~is_target_fixed(c)
       \/ /\ c \in Range(r.self) /\ s.tree[c.name] = {} /\ ~is_target_fixed(c)
          /\ \A d \in Range(s.self) : d.name # c.name
  BY <1>1, <1>3 DEF Passed
<1>5. \A a \in arcs \ OutArcs(n) : s.v[a] = r.v[a]
  BY <1>2 DEF Mapped
<1>6. \A a \in OutArcs(n) : s.v[a].shared => Reused(r.free, s.v[a], a)
  BY <1>2 DEF Mapped
<1>7. Unmerged => \A a \in OutArcs(n) : s.v[a] = Fresh \/ Reused(r.free, s.v[a], a)
  BY <1>2 DEF Mapped
<1>8. \A a, b \in OutArcs(n) : a # b /\ s.v[a].shared /\ s.v[b].shared
                              => s.v[a].share_from # s.v[b].share_from
  BY <1>2 DEF Mapped
<1>9. \A c \in s.lock :
       \/ c \in r.lock
       \/ /\ c.name \in OutArcs(n)
          /\ c.shared => \E d \in Range(r.free) : c.share_from = Block(d)
          /\ ~c.shared => ~s.v[c.name].shared
          /\ Unmerged => c = Copy(s.v, c.name)
  BY <1>2 DEF Mapped, Passed
<1> QED
  BY <1>4, <1>5, <1>6, <1>7, <1>8, <1>9 DEF Kernel, Passed

\* What the launch of a vertex with a kernel leaves.
LEMMA KernelResult ==
  ASSUME GraphOK, NEW n \in Nodes, NEW r, LaunchOK(r, n), NEW m, Mapped(r, m, n),
         NEW ins \in Lists(InArcs(n)), NEW e, NEW s,
         e = {a \in InArcs(n) : SelfShared(a[1])},
         s = IF opName[n] = "Output" THEN m
             ELSE IF e = {} THEN FreeLoop(m, ins)[Len(ins)]
             ELSE free_self(FreeLoop(m, ins)[Len(ins)], e)
  PROVE  Kernel(r, s, n)
<1> DEFINE I == InArcs(n)
           q == r.self
           t == r.tree
           g == FreeLoop(m, ins)[Len(ins)]
<1>1. /\ Hop(m.v)
      /\ \A c \in Range(m.free) : Rooted(m.v, c)
      /\ \A c \in Range(q) : Rooted(m.v, c)
      /\ \A c \in m.lock : c.name \in I => c \in r.lock /\ Rooted(m.v, c)
  BY MappedHop
<1>2. IsFiniteSet(arcs) /\ IsFiniteSet(I) /\ I \in SUBSET arcs
  BY ArcFacts
<1>3. /\ m \in Results(q, t) /\ Distinct(m.free) /\ q \in Seq(Copies)
      /\ DOMAIN t \subseteq arcs /\ t \in [DOMAIN t -> SUBSET arcs]
  BY DEF Mapped, LaunchOK, ResOK
<1>4. FreedSoFar(m.free, m.lock, m.v, q, t, I, g)
  BY <1>1, <1>2, <1>3, FreeAll
<1> HIDE DEF g
<1>5. /\ g \in Results(q, t) /\ g.v = m.v /\ g.lock \subseteq m.lock /\ Distinct(g.free)
      /\ \A c \in Range(g.free) :
           c \in Range(m.free) \/ (c \in m.lock /\ c.name \in I /\ ~is_target_fixed(c))
  BY <1>4 DEF FreedSoFar
<1>6. Pruned(t, {}) = t
  BY <1>3 DEF Pruned
<1>7. /\ Pruned(t, e) \in [DOMAIN t -> SUBSET arcs] /\ DOMAIN Pruned(t, e) = DOMAIN t
      /\ \A c \in DOMAIN t : Pruned(t, e)[c] = t[c] \ e
  BY <1>3 DEF Pruned
<1>8. Passed(r, m, s, n) => Kernel(r, s, n)
  BY KernelPassed
<1>9. ASSUME NEW x \in Results(q, t) PROVE ResOK(x) /\ x.self = q /\ x.tree = t
  BY <1>3, <1>9, ResultsRec DEF ResOK
<1>10. CASE opName[n] = "Output"
  <2>1. s = m /\ Edges(n) = {}
    BY <1>10 DEF Edges
  <2> QED
    BY <1>3, <1>6, <1>8, <1>9, <2>1 DEF Passed
<1>11. CASE opName[n] # "Output" /\ e = {}
  <2>1. s = g /\ Edges(n) = {}
    BY <1>11 DEF Edges, g
  <2> QED
    BY <1>3, <1>5, <1>6, <1>8, <1>9, <1>11, <2>1 DEF Passed
<1>12. CASE opName[n] # "Output" /\ e # {}
  <2>1. s = free_self(g, e) /\ Edges(n) = e
    BY <1>12 DEF Edges, g
  <2>2. Hop(g.v) /\ \A c \in Range(q) : Rooted(g.v, c)
    BY <1>1, <1>5
  <2>3. \A c \in Range(g.free) : Rooted(g.v, c)
    BY <1>1, <1>5
  <2>4. PICK x : /\ SelfSoFar(g.free, q, Empty(Pruned(t, e)), x)
                 /\ free_self(g, e) = Rec(x.free, g.lock, x.self, Pruned(t, e), g.v)
    <3>1. q \in Seq(Copies) /\ g \in Results(q, t) /\ Distinct(g.free) /\ IsFiniteSet(arcs)
      BY <1>2, <1>3, <1>5
    <3> HIDE DEF q, t
    <3> QED
      BY ONLY <2>2, <2>3, <3>1, FreeSelfResult
  <2>5. /\ s.free = x.free /\ s.lock = g.lock /\ s.self = x.self /\ s.tree = Pruned(t, e)
        /\ s.v = g.v /\ s = Rec(s.free, s.lock, s.self, s.tree, s.v)
    <3>1. s = Rec(x.free, g.lock, x.self, Pruned(t, e), g.v)
      BY ONLY <2>1, <2>4
    <3> QED
      BY ONLY <3>1 DEF Rec
  <2>6. x.free \in Seq(Copies) /\ x.self \in Seq(Copies) /\ Distinct(x.free)
    BY <2>4 DEF SelfSoFar, Pairs
  <2>7. g.lock \in SUBSET Copies /\ g.v \in [arcs -> Ios]
    BY <1>5, ResultsRec
  <2>8. ResOK(s)
    BY <1>3, <1>7, <2>5, <2>6, <2>7 DEF ResOK
  <2>9. \A c \in Range(x.self) : c \in Range(q) /\ c.name \notin Empty(Pruned(t, e))
    BY <2>4 DEF SelfSoFar
  <2>10. \A c \in Range(x.free) :
           c \in Range(g.free) \/ (c \in Range(q) /\ c.name \in Empty(Pruned(t, e)) /\ ~is_target_fixed(c))
    BY <2>4 DEF SelfSoFar
  <2>11. \A c \in Range(s.free) :
               \/ c \in Range(m.free)
               \/ /\ c \in m.lock /\ c.name \in I /\ opName[n] # "Output"
                  /\ ~is_target_fixed(c)
               \/ /\ c \in Range(q) /\ s.tree[c.name] = {} /\ ~is_target_fixed(c)
                  /\ \A d \in Range(s.self) : d.name # c.name
    <3> SUFFICES ASSUME NEW c \in Range(x.free)
                 PROVE  \/ c \in Range(m.free)
                        \/ /\ c \in m.lock /\ c.name \in I /\ ~is_target_fixed(c)
                        \/ /\ c \in Range(q) /\ s.tree[c.name] = {} /\ ~is_target_fixed(c)
                           /\ \A d \in Range(s.self) : d.name # c.name
      BY <1>12, <2>5
    <3>1. CASE c \in Range(g.free)
      BY <1>5, <3>1
    <3>2. CASE c \in Range(q) /\ c.name \in Empty(Pruned(t, e)) /\ ~is_target_fixed(c)
      <4>1. s.tree[c.name] = {}
        BY <2>5, <3>2 DEF Empty
      <4>2. \A d \in Range(s.self) : d.name # c.name
        BY <2>5, <2>9, <3>2
      <4> QED
        BY <3>2, <4>1, <4>2
    <3> QED
      BY <2>10, <3>1, <3>2
  <2> QED
    BY <1>5, <1>8, <2>1, <2>5, <2>6, <2>8, <2>9, <2>11 DEF Passed
<1> QED
  BY <1>10, <1>11, <1>12

\* What holds before the launch of a vertex with a kernel holds before the next.
LEMMA KernelKeeps ==
  ASSUME GraphOK, NEW n \in Nodes, NEW r, LaunchOK(r, n), NEW s, Kernel(r, s, n)
  PROVE  LaunchOK(s, n + 1)
<1>0. n \in Nat /\ \A a \in arcs : a[1] \in Nat /\ a[2] \in Nat /\ a[1] < a[2]
  BY MemAssumption DEF GraphOK, Nodes
<1>1. /\ \A b \in arcs : b[2] < n => s.v[b] = r.v[b]
      /\ \A c : Settled(r.v, c, n) => Settled(s.v, c, n + 1)
  <2>1. \A a \in arcs \ OutArcs(n) : s.v[a] = r.v[a]
    BY DEF Kernel
  <2> DEFINE v == r.v
             w == s.v
  <2>2. \A a \in arcs \ OutArcs(n) : w[a] = v[a]
    BY <2>1
  <2> HIDE DEF v, w
  <2>3. /\ \A b \in arcs : b[2] < n => w[b] = v[b]
        /\ \A c : Settled(v, c, n) => Settled(w, c, n) /\ Settled(w, c, n + 1) /\ Rooted(w, c)
    BY <2>2, SettledKept
  <2> QED
    BY <2>3 DEF v, w
<1>2. \A c \in Range(r.free) : Settled(s.v, c, n + 1)
  BY <1>1 DEF LaunchOK
<1>3. ASSUME NEW a \in arcs, s.v[a].shared
      PROVE  /\ s.v[a].share_from \in arcs /\ ~s.v[s.v[a].share_from].shared
             /\ s.v[a].share_from[2] < n + 1
  <2>1. CASE a \in OutArcs(n)
    <3>1. PICK c \in Range(r.free) : s.v[a].share_from = Block(c)
      BY <1>3, <2>1 DEF Kernel, Reused
    <3> QED
      BY <1>2, <3>1 DEF Settled, Rooted
  <2>2. CASE a \notin OutArcs(n)
    <3>1. s.v[a] = r.v[a]
      BY <2>2 DEF Kernel
    <3>2. r.v[a].share_from \in arcs /\ ~r.v[r.v[a].share_from].shared /\ r.v[a].share_from[2] < n
      BY <1>3, <3>1 DEF LaunchOK, Hop
    <3>3. s.v[r.v[a].share_from] = r.v[r.v[a].share_from]
      BY <1>1, <3>2
    <3>4. r.v[a].share_from[2] < n + 1
      BY <1>0, <3>2
    <3> QED
      BY <3>1, <3>2, <3>3, <3>4
  <2> QED
    BY <2>1, <2>2
<1>4. ASSUME NEW a \in arcs, ~(a[1] < n + 1) PROVE s.v[a] = Fresh
  <2>1. a \notin OutArcs(n) /\ ~(a[1] < n)
    BY <1>0, <1>4 DEF OutArcs
  <2> QED
    BY <2>1 DEF Kernel, LaunchOK
<1>5. ASSUME NEW c \in r.lock, c.name \in InArcs(n) PROVE Settled(s.v, c, n + 1)
  <2>1. c.name \in arcs /\ c.name[2] = n /\ c.name[1] < n
    BY <1>0, <1>5 DEF InArcs
  <2>2. c.name \notin OutArcs(n)
    BY <1>0, <2>1 DEF OutArcs
  <2>4. CASE c.shared
    BY <1>1, <1>5, <2>4 DEF LaunchOK
  <2>5. CASE ~c.shared
    <3>1. n <= c.name[2] /\ c.name[2] < n + 1
      BY <1>0, <2>1
    <3>2. ~r.v[c.name].shared
      BY <1>5, <2>5, <3>1 DEF LaunchOK
    <3>3. ~s.v[c.name].shared
      BY <2>1, <2>2, <3>2 DEF Kernel
    <3> QED
      BY <2>1, <2>5, <3>1, <3>3 DEF Settled, Rooted, Block
  <2> QED
    BY <2>4, <2>5
<1>6. \A c \in Range(r.self) : Settled(s.v, c, n + 1) /\ c.name \in DOMAIN s.tree
  <2>1. DOMAIN s.tree = DOMAIN r.tree
    BY DEF Kernel, Pruned
  <2> QED
    BY <1>1, <2>1 DEF LaunchOK
<1>7. \A c \in Range(s.free) : Settled(s.v, c, n + 1)
  BY <1>2, <1>5, <1>6 DEF Kernel
<1>8. ASSUME NEW c \in s.lock
      PROVE  /\ c.name[1] < n + 1
             /\ c.shared => Settled(s.v, c, n + 1)
             /\ ~c.shared /\ (n + 1 <= c.name[2] \/ ~SelfShared(c.name[2])) => ~s.v[c.name].shared
  <2>0. c.name \in arcs
    <3>1. c \in Copies
      BY DEF Kernel, ResOK
    <3> QED
      BY <3>1 DEF Copies
  <2>1. CASE c \in r.lock
    <3>1. c.name[1] < n /\ (c.shared => Settled(s.v, c, n + 1))
      BY <1>1, <2>1 DEF LaunchOK
    <3>2. c.name[1] < n + 1 /\ s.v[c.name] = r.v[c.name]
      <4>1. c.name \notin OutArcs(n)
        BY <1>0, <2>0, <3>1 DEF OutArcs
      <4> QED
        BY <1>0, <2>0, <3>1, <4>1 DEF Kernel
    <3>3. n + 1 <= c.name[2] => n <= c.name[2]
      BY <1>0, <2>0
    <3> QED
      BY <2>1, <3>1, <3>2, <3>3 DEF LaunchOK
  <2>2. CASE c \notin r.lock
    <3>1. /\ c.name \in OutArcs(n)
          /\ c.shared => \E d \in Range(r.free) : c.share_from = Block(d)
          /\ ~c.shared => ~s.v[c.name].shared
      BY <2>2 DEF Kernel
    <3>2. c.name[1] < n + 1
      BY <1>0, <3>1 DEF OutArcs
    <3>3. ASSUME c.shared PROVE Settled(s.v, c, n + 1)
      <4>1. PICK d \in Range(r.free) : c.share_from = Block(d)
        BY <3>1, <3>3
      <4>2. Block(c) = Block(d)
        BY <3>3, <4>1 DEF Block
      <4> QED
        BY <1>2, <4>2 DEF Settled, Rooted
    <3> QED
      BY <3>1, <3>2, <3>3
  <2> QED
    BY <2>1, <2>2
<1>9. \A c \in Range(s.self) : Settled(s.v, c, n + 1) /\ c.name \in DOMAIN s.tree
  BY <1>6 DEF Kernel
<1>10. Hop(s.v)
  BY <1>3 DEF Hop
<1>11. ResOK(s) /\ Distinct(s.free)
  BY DEF Kernel
<1> QED
  BY <1>3, <1>4, <1>7, <1>8, <1>9, <1>10, <1>11 DEF LaunchOK

\* set_fix_io only moves outputs to the front.
LEMMA PositionIn ==
  ASSUME NEW outs, NEW j \in Nat, j > 0, outs[j] \notin fixed
  PROVE  Position(outs, j) \in 1 .. j
<1> DEFINE S == {i \in 1 .. j : outs[i] \notin fixed}
<1>1. IsFiniteSet(1 .. j) /\ Cardinality(1 .. j) = j
  BY FS_Interval
<1>2. S \subseteq 1 .. j /\ S # {}
  OBVIOUS
<1> HIDE DEF S
<1>3. IsFiniteSet(S) /\ Cardinality(S) <= j
  BY <1>1, <1>2, FS_Subset
<1>4. Cardinality(S) \in Nat /\ Cardinality(S) # 0
  BY <1>2, <1>3, FS_CardinalityType, FS_EmptySet
<1> QED
  BY <1>3, <1>4 DEF Position, S

\* The same of the action.
LEMMA LaunchKernelResult ==
  ASSUME GraphOK, next \in Nodes, LaunchOK(Res, next), LaunchKernel
  PROVE  Kernel(Res, Res', next)
<1> DEFINE O == OutArcs(next)
           r == Res
           U(outs) == {outs[j] : j \in {i \in DOMAIN outs :
                         /\ outs[i] \notin fixed
                         /\ opName[outs[Position(outs, i)][2]] = "ConvEltwise"}}
           k(outs) == LockLoop(r, outs)[Len(outs)]
           m(outs) == [k(outs) EXCEPT !.v = Unshare(k(outs).v, U(outs))]
           e == {a \in InArcs(next) : SelfShared(a[1])}
           s(outs, ins) == IF opName[next] = "Output" THEN m(outs)
                           ELSE IF e = {} THEN FreeLoop(m(outs), ins)[Len(ins)]
                           ELSE free_self(FreeLoop(m(outs), ins)[Len(ins)], e)
<1>1. PICK outs \in Lists(O), ins \in Lists(InArcs(next)) : SetRes(s(outs, ins))
  BY DEF LaunchKernel, Unshare
<1>2. IsFiniteSet(O) /\ O \subseteq arcs
  BY ArcFacts
<1>3. /\ outs \in Seq(O) /\ Len(outs) \in Nat /\ DOMAIN outs = 1 .. Len(outs)
      /\ \A i \in 1 .. Len(outs) : outs[i] \in O
  BY <1>2, ListFacts
<1>4. U(outs) \in SUBSET O
  BY <1>3
<1>5. Unmerged => U(outs) = {}
  <2> SUFFICES ASSUME Unmerged, NEW j \in 1 .. Len(outs), outs[j] \notin fixed
               PROVE  opName[outs[Position(outs, j)][2]] # "ConvEltwise"
    BY <1>3
  <2>1. Position(outs, j) \in 1 .. j
    BY <1>3, PositionIn
  <2>2. outs[Position(outs, j)] \in arcs
    <3>1. Position(outs, j) \in 1 .. Len(outs)
      BY <1>3, <2>1
    <3> QED
      BY <1>2, <1>3, <3>1
  <2> QED
    BY <2>2 DEF Unmerged, GraphOK, Nodes, Drawn
<1> HIDE DEF U
<1>6. Mapped(r, m(outs), next)
  <2> DEFINE kk == k(outs)
             mm == m(outs)
             UU == U(outs)
  <2>1. kk = LockLoop(r, outs)[Len(outs)] /\ mm = [kk EXCEPT !.v = Unshare(kk.v, UU)]
    OBVIOUS
  <2>2. outs \in Lists(OutArcs(next)) /\ UU \in SUBSET OutArcs(next) /\ (Unmerged => UU = {})
    BY <1>4, <1>5
  <2> HIDE DEF kk, mm, UU, k, m, r
  <2>3. Mapped(r, mm, next)
    BY <2>1, <2>2, MapResult DEF r
  <2> QED
    BY <2>3 DEF mm
<1>7. Kernel(r, s(outs, ins), next)
  <2> DEFINE mm == m(outs)
             ss == s(outs, ins)
  <2>1. ss = IF opName[next] = "Output" THEN mm
             ELSE IF e = {} THEN FreeLoop(mm, ins)[Len(ins)]
             ELSE free_self(FreeLoop(mm, ins)[Len(ins)], e)
    OBVIOUS
  <2>2. Mapped(r, mm, next) /\ e = {a \in InArcs(next) : SelfShared(a[1])} /\ LaunchOK(r, next)
    BY <1>6
  <2> HIDE DEF mm, ss, k, m, r, s, e
  <2>3. Kernel(r, ss, next)
    BY <2>1, <2>2, KernelResult
  <2> QED
    BY <2>3 DEF ss
<1>8. Res' = s(outs, ins)
  <2> DEFINE ss == s(outs, ins)
  <2>1. ss = Rec(ss.free, ss.lock, ss.self, ss.tree, ss.v)
    BY <1>7 DEF Kernel, ResOK
  <2>2. SetRes(ss)
    BY <1>1
  <2> HIDE DEF ss, s, k, m
  <2>3. Res' = Rec(ss.free, ss.lock, ss.self, ss.tree, ss.v)
    BY <2>2 DEF SetRes, Res, Rec
  <2> QED
    BY <2>1, <2>3 DEF ss
<1> QED
  BY <1>7, <1>8

-----------------------------------------------------------------------------
(* The launch of a vertex without kernel.                                  *)

\* The ios that share the block of i.
SharingWith(n, i) == (OutArcs(n) \ fixed) \cup (InArcs(n) \ {i})

\* What n makes of r when i is the selected input.
Shares(r, s, n, i, t) ==
  /\ t \in reg_self_lock_tree(r.tree, i, SharingWith(n, i))
  /\ s = Rec(r.free, r.lock, Append(r.self, Copy(r.v, i)),
             [a \in DOMAIN r.tree \cup {i} |-> IF a = i THEN t ELSE r.tree[a]],
             [a \in arcs |-> IF a \in SharingWith(n, i)
                             THEN [shared |-> TRUE, share_from |-> Own(r.v, i)] ELSE r.v[a]])

SharedFields(r, s, n, i, t) ==
  /\ s.free = r.free /\ s.lock = r.lock /\ s.self = Append(r.self, Copy(r.v, i))
  /\ DOMAIN s.tree = DOMAIN r.tree \cup {i} /\ s.tree[i] = t
  /\ \A a \in DOMAIN r.tree : a # i => s.tree[a] = r.tree[a]
  /\ \A a \in SharingWith(n, i) : a \in arcs =>
       s.v[a] = [shared |-> TRUE, share_from |-> Own(r.v, i)]
  /\ \A a \in arcs : a \notin SharingWith(n, i) => s.v[a] = r.v[a]
  /\ ResOK(s)

LEMMA SharesFields ==
  ASSUME NEW r, NEW n, NEW i \in arcs, NEW t, NEW s, Shares(r, s, n, i, t), ResOK(r), Hop(r.v)
  PROVE  SharedFields(r, s, n, i, t)
<1> DEFINE f == r.free
           l == r.lock
           c == Copy(r.v, i)
           q == Append(r.self, c)
           x == [shared |-> TRUE, share_from |-> Own(r.v, i)]
           T == [a \in DOMAIN r.tree \cup {i} |-> IF a = i THEN t ELSE r.tree[a]]
           w == [a \in arcs |-> IF a \in SharingWith(n, i) THEN x ELSE r.v[a]]
<1>1. s = Rec(f, l, q, T, w)
  BY DEF Shares
<1>2. /\ r.v \in [arcs -> Ios] /\ f \in Seq(Copies) /\ l \in SUBSET Copies
      /\ r.self \in Seq(Copies) /\ DOMAIN r.tree \subseteq arcs
      /\ r.tree \in [DOMAIN r.tree -> SUBSET arcs]
  BY DEF ResOK
<1>3. c \in Copies
  <2>1. r.v[i] \in Ios
    BY <1>2
  <2> QED
    BY <2>1 DEF Copy, Copies, Ios
<1>4. x \in Ios
  <2>1. Own(r.v, i) \in arcs
    BY DEF Hop, Own
  <2> QED
    BY <2>1 DEF Ios
<1>5. w \in [arcs -> Ios]
  <2> HIDE DEF x
  <2> QED
    BY <1>2, <1>4
<1>6. q \in Seq(Copies)
  <2> HIDE DEF c
  <2> QED
    BY <1>2, <1>3
<1>7. t \subseteq arcs
  <2>1. SharingWith(n, i) \subseteq arcs
    BY DEF SharingWith, OutArcs, InArcs
  <2>2. t \in reg_self_lock_tree(r.tree, i, SharingWith(n, i))
    BY DEF Shares
  <2> QED
    BY <1>2, <2>1, <2>2 DEF reg_self_lock_tree
<1>8. T \in [DOMAIN T -> SUBSET arcs] /\ DOMAIN T \subseteq arcs
  BY <1>2, <1>7
<1>9. s.free = f /\ s.lock = l /\ s.self = q /\ s.tree = T /\ s.v = w
  <2> HIDE DEF f, l, q, T, w
  <2> QED
    BY <1>1 DEF Rec
<1>10. ResOK(s)
  <2> HIDE DEF f, l, q, T, w
  <2> QED
    BY <1>1, <1>2, <1>5, <1>6, <1>8, <1>9 DEF ResOK
<1>11. DOMAIN T = DOMAIN r.tree \cup {i} /\ T[i] = t
       /\ \A a \in DOMAIN r.tree : a # i => T[a] = r.tree[a]
  OBVIOUS
<1>12. /\ \A a \in SharingWith(n, i) : a \in arcs => w[a] = x
       /\ \A a \in arcs : a \notin SharingWith(n, i) => w[a] = r.v[a]
  <2> HIDE DEF x
  <2> QED
    OBVIOUS
<1> HIDE DEF T, w
<1> QED
  BY <1>9, <1>10, <1>11, <1>12 DEF SharedFields

\* It keeps what the launches rely on.
LEMMA SharesKeeps ==
  ASSUME GraphOK, NEW n \in Nodes, SelfShared(n), NEW r, LaunchOK(r, n),
         NEW i \in InArcs(n), NEW t, NEW s, Shares(r, s, n, i, t)
  PROVE  LaunchOK(s, n + 1)
<1> DEFINE S == SharingWith(n, i)
           from == Own(r.v, i)
           c == Copy(r.v, i)
<1>0. n \in Nat /\ \A a \in arcs : a[1] \in Nat /\ a[2] \in Nat /\ a[1] < a[2]
  BY MemAssumption DEF GraphOK, Nodes
<1>1. i \in arcs /\ i[2] = n /\ i[1] < n
  BY <1>0 DEF InArcs
<1>2. /\ s.free = r.free /\ s.lock = r.lock /\ s.self = Append(r.self, c)
      /\ DOMAIN s.tree = DOMAIN r.tree \cup {i}
      /\ \A a \in S : a \in arcs => s.v[a] = [shared |-> TRUE, share_from |-> from]
      /\ \A a \in arcs : a \notin S => s.v[a] = r.v[a]
      /\ ResOK(s)
  BY <1>1, SharesFields DEF LaunchOK, SharedFields
<1>3. \A a \in S : a \in arcs /\ (a[1] = n \/ (a[2] = n /\ a # i))
  BY DEF SharingWith, OutArcs, InArcs
<1>4. from \in arcs /\ ~r.v[from].shared /\ from[2] < n + 1 /\ from \notin S
  <2>1. CASE r.v[i].shared
    <3>1. from \in arcs /\ ~r.v[from].shared /\ from[2] < n
      BY <1>1, <2>1 DEF LaunchOK, Hop, Own
    <3> HIDE DEF from, S
    <3> QED
      BY <1>0, <1>3, <3>1
  <2>2. CASE ~r.v[i].shared
    <3>1. from = i
      BY <2>2 DEF Own
    <3> HIDE DEF from, S
    <3> QED
      BY <1>0, <1>1, <1>3, <2>2, <3>1
  <2> QED
    BY <2>1, <2>2
<1>5. \A b \in arcs : b[2] < n => s.v[b] = r.v[b]
  <2> SUFFICES ASSUME NEW b \in arcs, b[2] < n PROVE b \notin S
    BY <1>2
  <2> HIDE DEF S
  <2> QED
    BY <1>0, <1>3
<1>6. \A d : Settled(r.v, d, n) => Settled(s.v, d, n + 1)
  <2> SUFFICES ASSUME NEW d, Settled(r.v, d, n) PROVE Settled(s.v, d, n + 1)
    OBVIOUS
  <2> DEFINE b == Block(d)
  <2>1. b \in arcs /\ b[2] < n /\ ~r.v[b].shared
    BY DEF Settled, Rooted
  <2>2. s.v[b] = r.v[b] /\ b[2] < n + 1
    BY <1>0, <1>5, <2>1
  <2> QED
    BY <2>1, <2>2 DEF Settled, Rooted
<1>7. ASSUME NEW a \in arcs, s.v[a].shared
      PROVE  /\ s.v[a].share_from \in arcs /\ ~s.v[s.v[a].share_from].shared
             /\ s.v[a].share_from[2] < n + 1
  <2>1. CASE a \in S
    <3>1. s.v[a].share_from = from
      BY <1>2, <2>1
    <3>2. s.v[from] = r.v[from]
      BY <1>2, <1>4
    <3> HIDE DEF from, S
    <3> QED
      BY <1>4, <3>1, <3>2
  <2>2. CASE a \notin S
    <3>1. s.v[a] = r.v[a]
      BY <1>2, <2>2
    <3>2. r.v[a].share_from \in arcs /\ ~r.v[r.v[a].share_from].shared /\ r.v[a].share_from[2] < n
      BY <1>7, <3>1 DEF LaunchOK, Hop
    <3>3. s.v[r.v[a].share_from] = r.v[r.v[a].share_from]
      BY <1>5, <3>2
    <3>4. r.v[a].share_from[2] < n + 1
      BY <1>0, <3>2
    <3> QED
      BY <3>1, <3>2, <3>3, <3>4
  <2> QED
    BY <2>1, <2>2
<1>8. ASSUME NEW a \in arcs, ~(a[1] < n + 1) PROVE s.v[a] = Fresh
  <2>1. a \notin S /\ ~(a[1] < n)
    <3> HIDE DEF S
    <3> QED
      BY <1>0, <1>3, <1>8
  <2> QED
    BY <1>2, <2>1 DEF LaunchOK
<1>9. Settled(s.v, c, n + 1) /\ c.name = i
  <2>1. c.name = i /\ Block(c) = from
    BY DEF Copy, Block, Own
  <2>2. s.v[from] = r.v[from]
    BY <1>2, <1>4
  <2> HIDE DEF from, c
  <2> QED
    BY <1>4, <2>1, <2>2 DEF Settled, Rooted
<1>10. \A d \in Range(s.self) : Settled(s.v, d, n + 1) /\ d.name \in DOMAIN s.tree
  <2>1. \A d \in Range(s.self) : d \in Range(r.self) \/ d = c
    <3>1. r.self \in Seq(Copies)
      BY DEF LaunchOK, ResOK
    <3> DEFINE q == r.self
    <3> HIDE DEF c, q
    <3>2. \A d \in Range(Append(q, c)) : d \in Range(q) \/ d = c
      <4>1. q \in Seq(Copies)
        BY <3>1 DEF q
      <4> QED
        BY <4>1 DEF Range
    <3> QED
      BY <1>2, <3>2 DEF q
  <2> HIDE DEF c
  <2> QED
    BY <1>2, <1>6, <1>9, <2>1 DEF LaunchOK
<1>11. ASSUME NEW d \in s.lock
       PROVE  /\ d.name[1] < n + 1
              /\ d.shared => Settled(s.v, d, n + 1)
              /\ ~d.shared /\ (n + 1 <= d.name[2] \/ ~SelfShared(d.name[2])) => ~s.v[d.name].shared
  <2>0. d \in r.lock /\ d.name \in arcs
    <3>1. d \in r.lock /\ d \in Copies
      BY <1>2 DEF ResOK
    <3> QED
      BY <3>1 DEF Copies
  <2>1. d.name[1] < n /\ (d.shared => Settled(s.v, d, n + 1)) /\ d.name[1] < n + 1
    BY <1>0, <1>6, <2>0 DEF LaunchOK
  <2>2. ASSUME ~d.shared, n + 1 <= d.name[2] \/ ~SelfShared(d.name[2]) PROVE ~s.v[d.name].shared
    <3>1. d.name \notin S
      <4> HIDE DEF S
      <4> QED
        BY <1>0, <1>3, <2>0, <2>1, <2>2
    <3>2. s.v[d.name] = r.v[d.name]
      BY <1>2, <2>0, <3>1
    <3>3. n <= d.name[2] \/ ~SelfShared(d.name[2])
      BY <1>0, <2>0, <2>2
    <3> QED
      BY <2>0, <2>2, <3>2, <3>3 DEF LaunchOK
  <2> QED
    BY <2>1, <2>2
<1>12. \A d \in Range(s.free) : Settled(s.v, d, n + 1)
  BY <1>2, <1>6 DEF LaunchOK
<1>13. Hop(s.v)
  BY <1>7 DEF Hop
<1>14. ResOK(s) /\ Distinct(s.free)
  BY <1>2 DEF LaunchOK
<1> QED
  BY <1>7, <1>8, <1>10, <1>11, <1>12, <1>13, <1>14 DEF LaunchOK

\* A bounded set of numbers that is not empty has a greatest element.
LEMMA GreatestNat ==
  ASSUME NEW m \in Nat, NEW K \in SUBSET (1 .. m), K # {}
  PROVE  \E k \in K : \A j \in K : k >= j
<1> DEFINE T == {m - k : k \in K}
<1>1. T \in SUBSET Nat /\ T # {}
  <2>1. PICK k \in K : TRUE
    OBVIOUS
  <2>2. m - k \in T
    BY <2>1
  <2>3. \A j \in K : m - j \in Nat
    OBVIOUS
  <2> QED
    BY <2>2, <2>3
<1>2. PICK t \in T : \A j \in T : t <= j
  <2> HIDE DEF T
  <2> QED
    BY <1>1, LeastNat
<1>3. PICK k \in K : t = m - k
  OBVIOUS
<1>4. \A j \in K : m - k <= m - j
  BY <1>2, <1>3
<1> QED
  BY <1>4

LEMMA SelectedIn ==
  ASSUME GraphOK, InArcs(next) # {}, NEW ins \in Lists(InArcs(next))
  PROVE  Selected(ins) \in InArcs(next)
<1> DEFINE I == InArcs(next)
           collected == UNION {InArcs(a[1]) : a \in I}
           dismissed(a) == /\ io[a].shared /\ ~SelfShared(a[1])
                           /\ \E b \in collected : io[a].share_from \in {b, io[b].share_from}
           kept == {i \in DOMAIN ins : ~dismissed(ins[i])}
           self == {i \in DOMAIN ins : SelfShared(ins[i][1])}
           k == IF self # {} THEN Max(self) ELSE IF kept # {} THEN Min(kept) ELSE 1
<1>1. IsFiniteSet(I)
  BY ArcFacts
<1>2. /\ Len(ins) \in Nat /\ DOMAIN ins = 1 .. Len(ins)
      /\ \A i \in 1 .. Len(ins) : ins[i] \in I
  BY <1>1, ListFacts
<1>3. Len(ins) > 0
  <2>1. Cardinality(I) \in Nat /\ Cardinality(I) # 0
    BY <1>1, FS_CardinalityType, FS_EmptySet
  <2>2. DOMAIN ins = 1 .. Cardinality(I)
    BY DEF Lists, SetToSeqs
  <2> HIDE DEF I
  <2>3. Cardinality(I) \in DOMAIN ins
    BY <2>1, <2>2
  <2> QED
    BY <1>2, <2>3
<1>4. self \in SUBSET (1 .. Len(ins)) /\ kept \in SUBSET (1 .. Len(ins))
  BY <1>2
<1>5. Selected(ins) = ins[k]
  BY DEF Selected
<1> HIDE DEF self, kept
<1>6. k \in 1 .. Len(ins)
  <2>1. CASE self # {}
    BY <1>2, <1>4, <2>1, GreatestNat DEF Max
  <2>2. CASE self = {} /\ kept # {}
    <3>1. kept \in SUBSET Nat
      BY <1>2, <1>4
    <3> QED
      BY <1>4, <2>2, <3>1, LeastNat DEF Min
  <2>3. CASE self = {} /\ kept = {}
    BY <1>2, <1>3, <2>3
  <2> QED
    BY <2>1, <2>2, <2>3
<1> HIDE DEF k
<1> QED
  BY <1>2, <1>5, <1>6

\* What the launch of a vertex without kernel leaves.
LEMMA LaunchSelfSharedResult ==
  ASSUME GraphOK, InArcs(next) # {}, LaunchSelfShared
  PROVE  \E i \in InArcs(next) : \E t : Shares(Res, Res', next, i, t)
<1>1. PICK ins \in Lists(InArcs(next)) :
        \E t \in reg_self_lock_tree(_self_lock_next_tree, Selected(ins), Sharing(Selected(ins))) :
            /\ io' = [a \in arcs |-> IF a \in Sharing(Selected(ins))
                                    THEN [shared |-> TRUE, share_from |-> Own(io, Selected(ins))]
                                    ELSE io[a]]
            /\ _self_lock' = Append(_self_lock, Copy(io, Selected(ins)))
            /\ _self_lock_next_tree' =
                 [a \in DOMAIN _self_lock_next_tree \cup {Selected(ins)} |->
                    IF a = Selected(ins) THEN t ELSE _self_lock_next_tree[a]]
  BY DEF LaunchSelfShared, Own
<1> DEFINE i == Selected(ins)
<1>2. i \in InArcs(next)
  BY SelectedIn
<1>3. Sharing(i) = SharingWith(next, i)
  BY DEF Sharing, SharingWith
<1>4. PICK t \in reg_self_lock_tree(_self_lock_next_tree, i, Sharing(i)) :
            /\ io' = [a \in arcs |-> IF a \in Sharing(i)
                                    THEN [shared |-> TRUE, share_from |-> Own(io, i)]
                                    ELSE io[a]]
            /\ _self_lock' = Append(_self_lock, Copy(io, i))
            /\ _self_lock_next_tree' =
                 [a \in DOMAIN _self_lock_next_tree \cup {i} |->
                    IF a = i THEN t ELSE _self_lock_next_tree[a]]
  BY <1>1
<1> HIDE DEF i
<1>5. _free' = _free /\ _lock' = _lock
  BY DEF LaunchSelfShared
<1>6. Shares(Res, Res', next, i, t)
  <2>1. Res.free = _free /\ Res.lock = _lock /\ Res.self = _self_lock
        /\ Res.tree = _self_lock_next_tree /\ Res.v = io
    BY DEF Res
  <2> DEFINE S == SharingWith(next, i)
  <2>2. Sharing(i) = S
    BY <1>3
  <2> HIDE DEF S
  <2>3. /\ t \in reg_self_lock_tree(_self_lock_next_tree, i, S)
        /\ io' = [a \in arcs |-> IF a \in S THEN [shared |-> TRUE, share_from |-> Own(io, i)]
                                          ELSE io[a]]
    BY <1>4, <2>2
  <2>4. Res' = Rec(_free, _lock, _self_lock', _self_lock_next_tree', io')
    BY <1>5 DEF Res, Rec
  <2> QED
    BY <1>4, <2>1, <2>3, <2>4 DEF Shares, S
<1> QED
  BY <1>2, <1>6

-----------------------------------------------------------------------------
(* Tables that are filled from the last vertex to the first.               *)

\* h gives the entry of n from the table; it reads the entries behind n only.
Tables(h, M, S) ==
  /\ h \in [1 .. M -> [[1 .. M -> S] -> S]]
  /\ \A n \in 1 .. M : \A T, U \in [1 .. M -> S] :
       (\A m \in 1 .. M : n < m => T[m] = U[m]) => h[n][T] = h[n][U]

\* Such a table exists for every h.
LEMMA TableExists ==
  ASSUME NEW M \in Nat, NEW S, NEW s \in S, NEW h, Tables(h, M, S)
  PROVE  \E T \in [1 .. M -> S] : \A n \in 1 .. M : T[n] = h[n][T]
<1> DEFINE Tab == [1 .. M -> S]
           Is(T, k) == \A n \in 1 .. M : M < n + k => T[n] = h[n][T]
           K == {k \in Nat : \E T \in Tab : Is(T, k)}
<1>1. 0 \in K
  <2> DEFINE T == [n \in 1 .. M |-> s]
  <2>1. T \in Tab
    OBVIOUS
  <2> HIDE DEF T
  <2>2. Is(T, 0)
    OBVIOUS
  <2> QED
    BY <2>1, <2>2
<1>2. ASSUME NEW k \in 1 .. M, k - 1 \in K PROVE k \in K
  <2>1. PICK T \in Tab : Is(T, k - 1)
    BY <1>2
  <2> DEFINE p == M + 1 - k
             y == h[p][T]
             U == [T EXCEPT ![p] = y]
  <2>2. p \in 1 .. M
    OBVIOUS
  <2>3. y \in S
    BY <2>2 DEF Tables
  <2> HIDE DEF y
  <2>4. U \in Tab /\ U[p] = y /\ \A m \in 1 .. M : m # p => U[m] = T[m]
    BY <2>2, <2>3
  <2> HIDE DEF U
  <2>5. ASSUME NEW n \in 1 .. M, M < n + k PROVE U[n] = h[n][U]
    <3>1. h[n][T] = h[n][U]
      <4>1. \A m \in 1 .. M : n < m => T[m] = U[m]
        BY <2>4, <2>5
      <4> QED
        BY <2>4, <4>1 DEF Tables
    <3>2. CASE n = p
      BY <2>4, <3>1, <3>2 DEF y
    <3>3. CASE n # p
      <4>1. M < n + (k - 1)
        BY <2>5, <3>3
      <4>2. T[n] = h[n][T]
        BY <2>1, <4>1
      <4> QED
        BY <2>4, <3>1, <3>3, <4>2
    <3> QED
      BY <3>2, <3>3
  <2>6. Is(U, k)
    BY <2>5
  <2> QED
    BY <2>4, <2>6
<1>3. M \in K
  <2> HIDE DEF K
  <2>1. \A k \in 0 .. M : k \in K
    BY <1>1, <1>2, LoopInduction
  <2> QED
    BY <2>1
<1>4. PICK T \in Tab : Is(T, M)
  BY <1>3
<1>5. \A n \in 1 .. M : T[n] = h[n][T]
  BY <1>4
<1> QED
  BY <1>5

\* What holds of a vertex if it holds of those behind it.
LEMMA BackInduction ==
  ASSUME NEW M \in Nat, NEW K, \A n \in 1 .. M : (\A m \in 1 .. M : n < m => m \in K) => n \in K
  PROVE  \A n \in 1 .. M : n \in K
<1> DEFINE T == {M - n : n \in {m \in 1 .. M : m \notin K}}
<1>1. SUFFICES ASSUME NEW x \in 1 .. M, x \notin K PROVE FALSE
  OBVIOUS
<1>2. T \in SUBSET Nat /\ M - x \in T
  <2>1. \A n \in 1 .. M : M - n \in Nat
    OBVIOUS
  <2> QED
    BY <1>1, <2>1
<1>3. PICK t \in T : \A j \in T : t <= j
  <2> HIDE DEF T
  <2> QED
    BY <1>2, LeastNat
<1>4. PICK n \in 1 .. M : n \notin K /\ t = M - n
  OBVIOUS
<1>5. PICK m \in 1 .. M : n < m /\ m \notin K
  BY <1>4
<1>6. M - m \in T /\ M - m < M - n
  BY <1>5
<1> HIDE DEF T
<1>7. M - n <= M - m
  BY <1>3, <1>4, <1>6
<1> QED
  BY <1>6, <1>7

\* Behind(n), by its definition, and that vertices without kernel are passed only.
LEMMA BehindFacts ==
  ASSUME GraphOK, NEW n \in Nodes, SelfShared(n)
  PROVE  \A a \in Behind(n) : a \in arcs /\ SelfShared(a[1]) /\ ~(a[1] < n)
<1> DEFINE Next(m) == {b \in OutArcs(m) : SelfShared(b[2])}
           val(T, m) == OutArcs(m) \cup UNION {T[a[2]] : a \in Next(m)}
           S == SUBSET arcs
           h == [m \in Nodes |-> [T \in [Nodes -> S] |-> val(T, m)]]
<1>0. /\ N \in Nat /\ Nodes = 1 .. N
      /\ \A a \in arcs : a[1] \in Nodes /\ a[2] \in Nodes /\ a[1] < a[2]
  BY MemAssumption DEF GraphOK, Nodes
<1>1. \A m : \A a \in Next(m) : a \in arcs /\ a[2] \in Nodes /\ a[1] = m /\ m < a[2] /\ SelfShared(a[2])
  BY <1>0 DEF OutArcs
<1>2. \A m : OutArcs(m) \subseteq arcs
  BY DEF OutArcs
<1> HIDE DEF Next
<1>3. Tables(h, N, S)
  <2>1. \A m \in Nodes, T \in [Nodes -> S] : val(T, m) \in S
    BY <1>1, <1>2
  <2>2. ASSUME NEW m \in Nodes, NEW T \in [Nodes -> S], NEW U \in [Nodes -> S],
               \A k \in Nodes : m < k => T[k] = U[k]
        PROVE  val(T, m) = val(U, m)
    <3>1. \A a \in Next(m) : T[a[2]] = U[a[2]]
      BY <1>1, <2>2
    <3>2. {T[a[2]] : a \in Next(m)} = {U[a[2]] : a \in Next(m)}
      BY <3>1
    <3> QED
      BY <3>2
  <2> HIDE DEF val, S
  <2>3. h \in [Nodes -> [[Nodes -> S] -> S]]
    BY <2>1
  <2>4. \A m \in Nodes : \A T \in [Nodes -> S] : h[m][T] = val(T, m)
    OBVIOUS
  <2> HIDE DEF h
  <2>5. ASSUME NEW m \in Nodes, NEW T \in [Nodes -> S], NEW U \in [Nodes -> S],
               \A k \in Nodes : m < k => T[k] = U[k]
        PROVE  h[m][T] = h[m][U]
    BY <2>2, <2>4, <2>5
  <2>6. \A m \in Nodes : \A T, U \in [Nodes -> S] :
          (\A k \in Nodes : m < k => T[k] = U[k]) => h[m][T] = h[m][U]
    BY <2>5
  <2>7. Tables(h, N, S) <=>
          /\ h \in [Nodes -> [[Nodes -> S] -> S]]
          /\ \A m \in Nodes : \A T, U \in [Nodes -> S] :
               (\A k \in Nodes : m < k => T[k] = U[k]) => h[m][T] = h[m][U]
    BY Zenon DEF Tables, Nodes
  <2> QED
    BY <2>3, <2>6, <2>7
<1>4. PICK T \in [Nodes -> S] : \A m \in Nodes : T[m] = val(T, m)
  <2>1. {} \in S
    OBVIOUS
  <2>2. \A m \in Nodes : \A U \in [Nodes -> S] : h[m][U] = val(U, m)
    OBVIOUS
  <2> HIDE DEF h, S, val
  <2>3. PICK T \in [1 .. N -> S] : \A m \in 1 .. N : T[m] = h[m][T]
    BY <1>0, <1>3, <2>1, TableExists
  <2> QED
    BY <1>0, <2>2, <2>3
<1> DEFINE f == CHOOSE g : g = [m \in Nodes |-> val(g, m)]
<1>5. f = [m \in Nodes |-> val(f, m)]
  <2>1. T = [m \in Nodes |-> val(T, m)]
    <3> HIDE DEF val
    <3> QED
      BY <1>4
  <2> QED
    BY <2>1
<1>6. Behind(n) = f[n]
  BY DEF Behind, Next
<1> HIDE DEF f
<1>7. \A m \in Nodes : f[m] = val(f, m)
  <2> HIDE DEF val
  <2> QED
    BY <1>5
<1> DEFINE K == {m \in Nodes : SelfShared(m) => \A a \in f[m] : a \in arcs /\ SelfShared(a[1]) /\ ~(a[1] < m)}
<1>8. ASSUME NEW m \in Nodes, \A k \in Nodes : m < k => k \in K PROVE m \in K
  <2> SUFFICES ASSUME SelfShared(m), NEW a \in f[m]
               PROVE  a \in arcs /\ SelfShared(a[1]) /\ ~(a[1] < m)
    OBVIOUS
  <2>1. a \in OutArcs(m) \/ \E b \in Next(m) : a \in f[b[2]]
    BY <1>7
  <2>2. CASE a \in OutArcs(m)
    BY <1>0, <2>2 DEF OutArcs
  <2>3. ASSUME NEW b \in Next(m), a \in f[b[2]] PROVE a \in arcs /\ SelfShared(a[1]) /\ ~(a[1] < m)
    <3>1. b[2] \in K /\ SelfShared(b[2]) /\ m < b[2] /\ b[2] \in Nodes
      BY <1>1, <1>8
    <3>2. a \in arcs /\ SelfShared(a[1]) /\ ~(a[1] < b[2])
      BY <2>3, <3>1
    <3> QED
      BY <1>0, <3>1, <3>2
  <2> QED
    BY <2>1, <2>2, <2>3
<1> HIDE DEF K
<1>9. n \in K
  BY <1>0, <1>8, BackInduction
<1> QED
  BY <1>6, <1>9 DEF K

-----------------------------------------------------------------------------
(* check_memory.                                                           *)

\* What the drawing leaves: the inputs come first, nothing is behind an output, a
\* vertex without kernel has an input, and only one unless it is a Gather.
GraphShape ==
  /\ GraphOK
  /\ Len(lane) = Len(opName)
  /\ \A a \in arcs : opName[a[1]] # "Output"
  /\ \A n \in 1 .. Len(opName) :
       /\ opName[n] \in {"Split", "Reshape"} => \E s \in arcs : InArcs(n) = {s}
       /\ opName[n] = "Gather" => /\ InArcs(n) # {}
                                  /\ \E m \in 1 .. Len(opName) : opName[m] = "ConvEltwise"
       /\ opName[n] = "Input" => InArcs(n) = {} /\ \A m \in 1 .. n : opName[m] = "Input"

\* A registered output keeps its block, and no other vertex with a kernel gets it.
FixedOK(v) ==
  /\ \A a \in fixed : ~SelfShared(a[1]) => ~v[a].shared
  /\ \A a \in arcs : v[a].shared /\ ~SelfShared(a[1]) => v[a].share_from \notin fixed

Plans == {v \in [arcs -> Ios] : Hop(v) /\ (Unmerged => FixedOK(v))}

\* What check_memory corrects: no io is shared that was not.
LEMMA CorrectFacts ==
  ASSUME GraphShape, Len(opName) = N, NEW v \in Plans, NEW i, OutArcs(i) # {}
  PROVE  Correct(v, i) \in Plans
<1> DEFINE out == CHOOSE a \in OutArcs(i) : TRUE
           siblings == IF opName[out[2]] = "Gather" THEN InArcs(out[2]) \ {out} ELSE {}
           moved == IF SelfShared(out[2]) THEN siblings \cup Behind(out[2]) ELSE {}
           w == Correct(v, i)
<1>1. out \in arcs /\ out[2] \in Nodes
  <2>1. out \in OutArcs(i)
    OBVIOUS
  <2> HIDE DEF out
  <2> QED
    BY <2>1 DEF OutArcs, GraphShape, GraphOK
<1>2. w = [a \in arcs |-> IF a = out THEN [v[a] EXCEPT !.shared = FALSE]
                          ELSE IF a \in moved THEN [v[a] EXCEPT !.share_from = out]
                          ELSE v[a]]
  BY DEF Correct
<1>3. Unmerged => \A a \in moved : SelfShared(a[1])
  <2> SUFFICES ASSUME Unmerged, SelfShared(out[2]) PROVE \A a \in moved : SelfShared(a[1])
    OBVIOUS
  <2>1. siblings = {}
    <3>1. opName[out[2]] # "Gather"
      BY <1>1 DEF GraphShape, Unmerged, Nodes, Drawn
    <3> QED
      BY <3>1
  <2>2. \A a \in Behind(out[2]) : SelfShared(a[1])
    <3> HIDE DEF out
    <3> QED
      BY <1>1, BehindFacts DEF GraphShape
  <2> HIDE DEF siblings, out
  <2> QED
    BY <2>1, <2>2
<1> HIDE DEF out, moved, w
<1>4. v \in [arcs -> Ios] /\ Hop(v) /\ (Unmerged => FixedOK(v))
  BY DEF Plans
<1>5. \A x \in Ios : /\ [x EXCEPT !.shared = FALSE] \in Ios /\ ~[x EXCEPT !.shared = FALSE].shared
                    /\ [x EXCEPT !.share_from = out] \in Ios
                    /\ [x EXCEPT !.share_from = out].shared = x.shared
                    /\ [x EXCEPT !.share_from = out].share_from = out
  BY <1>1 DEF Ios
<1>6. ASSUME NEW a \in arcs
      PROVE  /\ w[a] \in Ios
             /\ a = out => ~w[a].shared
             /\ a # out /\ a \in moved => w[a].shared = v[a].shared /\ w[a].share_from = out
             /\ a # out /\ a \notin moved => w[a] = v[a]
  <2>1. v[a] \in Ios
    BY <1>4
  <2>2. w[a] = IF a = out THEN [v[a] EXCEPT !.shared = FALSE]
               ELSE IF a \in moved THEN [v[a] EXCEPT !.share_from = out]
               ELSE v[a]
    BY <1>2
  <2> QED
    BY <1>5, <2>1, <2>2
<1>7. w \in [arcs -> Ios]
  <2>1. \A a \in arcs : w[a] \in Ios
    BY <1>6
  <2>2. w = [a \in arcs |-> w[a]]
    BY <1>2
  <2> QED
    BY <2>1, <2>2
<1>8. \A a \in arcs : w[a].shared => v[a].shared
  BY <1>6
<1>9. Hop(w)
  <2> SUFFICES ASSUME NEW a \in arcs, w[a].shared
               PROVE  w[a].share_from \in arcs /\ ~w[w[a].share_from].shared
    BY DEF Hop
  <2>1. a # out /\ v[a].shared
    BY <1>6
  <2>2. v[a].share_from \in arcs /\ ~v[v[a].share_from].shared
    BY <1>4, <2>1 DEF Hop
  <2>3. CASE a \in moved
    BY <1>1, <1>6, <2>1, <2>3
  <2>4. CASE a \notin moved
    BY <1>6, <1>8, <2>1, <2>2, <2>4
  <2> QED
    BY <2>3, <2>4
<1>10. ASSUME Unmerged PROVE FixedOK(w)
  <2>1. \A a \in fixed : a \in arcs /\ (~SelfShared(a[1]) => ~w[a].shared)
    BY <1>4, <1>8, <1>10 DEF FixedOK, GraphShape, GraphOK
  <2>2. ASSUME NEW a \in arcs, w[a].shared, ~SelfShared(a[1]) PROVE w[a].share_from \notin fixed
    <3>1. w[a] = v[a]
      BY <1>3, <1>6, <1>10, <2>2
    <3> QED
      BY <1>4, <1>10, <2>2, <3>1 DEF FixedOK
  <2> QED
    BY <2>1, <2>2 DEF FixedOK
<1> QED
  BY <1>7, <1>9, <1>10 DEF Plans, w

\* The loop of check_node, by its definition.
LEMMA CheckLoopDef ==
  ASSUME GraphShape, Len(opName) = N, io \in Plans, NEW n \in Nodes
  PROVE  /\ CheckLoop(n) \in [0 .. (n - 1) -> Plans]
         /\ CheckLoop(n)[0] = io
         /\ \A i \in 1 .. (n - 1) : CheckLoop(n)[i] =
              LET v == CheckLoop(n)[i - 1] IN IF WrongOrder(v, i, n) THEN Correct(v, i) ELSE v
<1> DEFINE step(v, i) == IF WrongOrder(v, i, n) THEN Correct(v, i) ELSE v
           M == n - 1
           g == [i \in 1 .. M |-> [v \in Plans |-> step(v, i)]]
<1>1. M \in Nat
  BY MemAssumption DEF Nodes
<1>2. \A i \in 1 .. M, v \in Plans : step(v, i) \in Plans
  <2> SUFFICES ASSUME NEW i \in 1 .. M, NEW v \in Plans, WrongOrder(v, i, n)
               PROVE  Correct(v, i) \in Plans
    OBVIOUS
  <2>1. OutArcs(i) # {}
    BY DEF WrongOrder
  <2> QED
    BY <2>1, CorrectFacts
<1> HIDE DEF step, M
<1>3. g \in [1 .. M -> [Plans -> Plans]]
  BY <1>2
<1>4. PICK f : Rounds(f, Plans, M, io, g)
  <2> HIDE DEF g
  <2> QED
    BY <1>1, <1>3, LoopExists
<1>5. f \in [0 .. M -> Plans] /\ f = [i \in 0 .. M |-> IF i = 0 THEN io ELSE step(f[i - 1], i)]
  <2>1. f \in [0 .. M -> Plans] /\ f[0] = io
    BY <1>4 DEF Rounds
  <2>2. ASSUME NEW i \in 1 .. M PROVE f[i] = step(f[i - 1], i)
    <3>1. f[i - 1] \in Plans /\ f[i] = g[i][f[i - 1]]
      BY <1>1, <1>4, <2>1 DEF Rounds
    <3> QED
      BY <3>1
  <2> HIDE DEF g
  <2> QED
    BY <1>1, <2>1, <2>2
<1> HIDE DEF g
<1> DEFINE h == CHOOSE e : e = [i \in 0 .. M |-> IF i = 0 THEN io ELSE step(e[i - 1], i)]
<1>6. h = [i \in 0 .. M |-> IF i = 0 THEN io ELSE step(h[i - 1], i)]
  BY <1>5
<1>7. CheckLoop(n) = h
  BY DEF CheckLoop, step, M
<1> HIDE DEF h
<1>8. h[0] = io /\ \A i \in 1 .. M : h[i] = step(h[i - 1], i)
  BY <1>1, <1>6
<1>9. \A i \in 0 .. M : h[i] \in Plans
  <2> DEFINE K == {i \in 0 .. M : h[i] \in Plans}
  <2>1. 0 \in K
    BY <1>1, <1>8
  <2>2. ASSUME NEW i \in 1 .. M, i - 1 \in K PROVE i \in K
    BY <1>2, <1>8, <2>2
  <2> HIDE DEF K
  <2>3. \A i \in 0 .. M : i \in K
    BY <1>1, <2>1, <2>2, LoopInduction
  <2> QED
    BY <2>3 DEF K
<1>10. h \in [0 .. M -> Plans]
  BY <1>6, <1>9
<1> QED
  BY <1>7, <1>8, <1>10 DEF step, M

-----------------------------------------------------------------------------
(* Registered outputs while the vertices are launched.                     *)

Marked(x) == x.shared <=> x.share_from # NoArc

\* No registered output is up for reuse; an io has a share_from if it is shared.
LaunchFixed(r) ==
  /\ FixedOK(r.v)
  /\ \A c \in Range(r.free) : Block(c) \notin fixed
  /\ \A a \in arcs : Marked(r.v[a])
  /\ \A c \in r.lock : Marked(c)
  /\ \A c \in Range(r.self) : Marked(c)

LEMMA MarkedBlock ==
  ASSUME NEW c, Marked(c), ~is_target_fixed(c)
  PROVE  Block(c) \notin fixed
BY DEF Marked, is_target_fixed, Block

LEMMA NoArcNot ==
  ASSUME GraphOK
  PROVE  NoArc \notin arcs
<1>1. \A a \in arcs : a[1] # 0
  BY DEF GraphOK, Nodes
<1>2. NoArc[1] = 0
  BY DEF NoArc
<1> QED
  BY <1>1, <1>2

\* The launch of a vertex with a kernel keeps registered outputs out of reuse.
LEMMA KernelFixed ==
  ASSUME GraphOK, NEW n \in Nodes, NEW r, LaunchOK(r, n), Unmerged, LaunchFixed(r),
         NEW s, Kernel(r, s, n)
  PROVE  LaunchFixed(s)
<1>1. /\ \A a \in arcs \ OutArcs(n) : s.v[a] = r.v[a]
      /\ \A a \in OutArcs(n) : s.v[a] = Fresh \/ Reused(r.free, s.v[a], a)
  BY DEF Kernel
<1>2. \A c \in Range(r.free) : Block(c) \in arcs /\ Block(c) \notin fixed
  BY DEF LaunchOK, LaunchFixed, Settled, Rooted
<1>3. fixed \subseteq arcs /\ NoArc \notin arcs
  BY NoArcNot DEF GraphOK
<1>4. Fresh.shared = FALSE /\ Fresh.share_from = NoArc
  BY DEF Fresh
<1>5. ASSUME NEW a \in OutArcs(n)
      PROVE  /\ a \in fixed => ~s.v[a].shared
             /\ s.v[a].shared => s.v[a].share_from \notin fixed
             /\ Marked(s.v[a])
  <2>1. CASE s.v[a] = Fresh
    BY <1>4, <2>1 DEF Marked
  <2>2. CASE Reused(r.free, s.v[a], a)
    <3>1. PICK c \in Range(r.free) : s.v[a].share_from = Block(c)
      BY <2>2 DEF Reused
    <3> QED
      BY <1>2, <1>3, <2>2, <3>1 DEF Reused, Marked
  <2> QED
    BY <1>1, <2>1, <2>2
<1>6. FixedOK(s.v)
  BY <1>1, <1>3, <1>5 DEF FixedOK, LaunchFixed
<1>7. \A a \in arcs : Marked(s.v[a])
  BY <1>1, <1>5 DEF LaunchFixed
<1>8. \A c \in Range(s.self) : Marked(c)
  BY DEF Kernel, LaunchFixed
<1>9. ASSUME NEW c \in s.lock PROVE Marked(c)
  <2>1. CASE c \in r.lock
    BY <2>1 DEF LaunchFixed
  <2>2. CASE c \notin r.lock
    <3>1. c.name \in OutArcs(n) /\ c = Copy(s.v, c.name)
      BY <2>2 DEF Kernel
    <3>2. c.shared = s.v[c.name].shared /\ c.share_from = s.v[c.name].share_from
      BY <3>1 DEF Copy
    <3>3. Marked(s.v[c.name])
      BY <1>5, <3>1
    <3> QED
      BY <3>2, <3>3 DEF Marked
  <2> QED
    BY <2>1, <2>2
<1>10. \A c \in Range(s.free) : Block(c) \notin fixed
  <2> SUFFICES ASSUME NEW c \in Range(s.free) PROVE Block(c) \notin fixed
    OBVIOUS
  <2>1. c \in Range(r.free) \/ ((c \in r.lock \/ c \in Range(r.self)) /\ ~is_target_fixed(c))
    BY DEF Kernel
  <2>2. c \in r.lock \/ c \in Range(r.self) => Marked(c)
    BY DEF LaunchFixed
  <2> QED
    BY <1>2, <2>1, <2>2, MarkedBlock
<1> QED
  BY <1>6, <1>7, <1>8, <1>9, <1>10 DEF LaunchFixed

\* A vertex without kernel has one input when nothing is merged.
LEMMA OneInput ==
  ASSUME GraphShape, Len(opName) = N, Unmerged, NEW n \in Nodes, SelfShared(n), NEW i \in InArcs(n)
  PROVE  InArcs(n) = {i} /\ SharingWith(n, i) = OutArcs(n) \ fixed
<1>1. opName[n] \in {"Split", "Reshape"}
  BY DEF GraphShape, Nodes, Unmerged, Drawn, SelfShared
<1>2. InArcs(n) = {i}
  BY <1>1 DEF GraphShape, Nodes
<1> QED
  BY <1>2 DEF SharingWith

\* So does that of a vertex without kernel.
LEMMA SharesFixed ==
  ASSUME GraphShape, Len(opName) = N, NEW n \in Nodes, SelfShared(n), NEW r, LaunchOK(r, n),
         Unmerged, LaunchFixed(r), NEW i \in InArcs(n), NEW t, NEW s, Shares(r, s, n, i, t)
  PROVE  LaunchFixed(s)
<1> DEFINE S == OutArcs(n) \ fixed
           x == [shared |-> TRUE, share_from |-> Own(r.v, i)]
           c == Copy(r.v, i)
<1>0. i \in arcs /\ NoArc \notin arcs
  BY NoArcNot DEF InArcs, GraphShape
<1>1. /\ s.free = r.free /\ s.lock = r.lock /\ s.self = Append(r.self, c)
      /\ \A a \in S : a \in arcs => s.v[a] = x
      /\ \A a \in arcs : a \notin S => s.v[a] = r.v[a]
  <2>1. SharingWith(n, i) = S
    BY OneInput
  <2> QED
    BY <1>0, <2>1, SharesFields DEF LaunchOK, SharedFields
<1>2. x.shared = TRUE /\ x.share_from = Own(r.v, i) /\ Own(r.v, i) \in arcs
  BY <1>0 DEF LaunchOK, Hop, Own
<1>3. \A a \in S : SelfShared(a[1]) /\ a \notin fixed
  BY DEF OutArcs
<1> HIDE DEF S, x
<1>4. fixed \subseteq arcs
  BY DEF GraphShape, GraphOK
<1>5. FixedOK(s.v)
  BY <1>1, <1>3, <1>4 DEF FixedOK, LaunchFixed
<1>6. \A a \in arcs : Marked(s.v[a])
  BY <1>0, <1>1, <1>2 DEF LaunchFixed, Marked
<1>7. Marked(c)
  BY <1>0 DEF Marked, LaunchFixed, Copy
<1>8. \A d \in Range(s.self) : Marked(d)
  <2>1. \A d \in Range(s.self) : d \in Range(r.self) \/ d = c
    <3> DEFINE q == r.self
    <3>1. q \in Seq(Copies)
      BY DEF LaunchOK, ResOK
    <3> HIDE DEF c, q
    <3>2. \A d \in Range(Append(q, c)) : d \in Range(q) \/ d = c
      BY <3>1 DEF Range
    <3> QED
      BY <1>1, <3>2 DEF q
  <2> HIDE DEF c
  <2> QED
    BY <1>7, <2>1 DEF LaunchFixed
<1>9. /\ \A d \in Range(s.free) : Block(d) \notin fixed
      /\ \A d \in s.lock : Marked(d)
  BY <1>1 DEF LaunchFixed
<1> QED
  BY <1>5, <1>6, <1>8, <1>9 DEF LaunchFixed

-----------------------------------------------------------------------------
(* The invariant.                                                          *)

MemInv ==
  /\ GraphShape
  /\ phase \in {"draw", "launch", "check", "planned"}
  /\ next \in 1 .. (N + 1) /\ que \in Seq(Nodes) /\ backup \subseteq Nodes
  /\ phase = "draw" => /\ io = <<>> /\ _free = <<>> /\ _lock = {} /\ _self_lock = <<>>
                       /\ _self_lock_next_tree = <<>> /\ next = 1
  /\ phase # "draw" => Len(opName) = N /\ Open = {} /\ ResOK(Res) /\ io \in Plans
  /\ phase = "launch" => LaunchOK(Res, next) /\ (Unmerged => LaunchFixed(Res))

LEMMA ResFields ==
  /\ Res.free = _free /\ Res.lock = _lock /\ Res.self = _self_lock
  /\ Res.tree = _self_lock_next_tree /\ Res.v = io
BY DEF Res

\* A step that leaves the graph alone.
LEMMA GraphKept ==
  ASSUME UNCHANGED graphVars
  PROVE  /\ GraphShape => GraphShape'
         /\ LaunchOK(Res', next') => LaunchOK(Res, next)'
         /\ LaunchFixed(Res') => LaunchFixed(Res)'
         /\ ResOK(Res') => ResOK(Res)'
         /\ io' \in Plans => (io \in Plans)'
         /\ Open' = Open /\ Unmerged' = Unmerged
<1>0. arcs' = arcs /\ opName' = opName /\ lane' = lane /\ fixed' = fixed
  BY DEF graphVars
<1>1. GraphShape => GraphShape'
  BY <1>0 DEF GraphShape, GraphOK, InArcs, SelfShared
<1>2. LaunchOK(Res', next') => LaunchOK(Res, next)'
  BY <1>0 DEF LaunchOK, ResOK, Hop, Settled, Rooted, Distinct, Block, Copies, Ios, Fresh,
              NoArc, SelfShared, Range, Rec
<1>3. LaunchFixed(Res') => LaunchFixed(Res)'
  BY <1>0 DEF LaunchFixed, FixedOK, Marked, Block, NoArc, SelfShared, Range
<1>4. ResOK(Res') => ResOK(Res)'
  BY <1>0 DEF ResOK, Rec, Copies, Ios, NoArc
<1>5. Unmerged' = Unmerged
  BY <1>0 DEF Unmerged, Drawn
<1>6. io' \in Plans => (io \in Plans)'
  BY <1>0 DEF Plans, Unmerged, Drawn, Hop, FixedOK, SelfShared, Ios, NoArc, Nodes
<1>7. Open' = Open
  BY <1>0 DEF Open, Missing, Drawn, OutArcs, Arity
<1> QED
  BY <1>1, <1>2, <1>3, <1>4, <1>5, <1>6, <1>7

LEMMA InitInv ==
  MemInit => MemInv
<1> SUFFICES ASSUME MemInit PROVE MemInv
  OBVIOUS
<1>1. GraphShape
  BY MemAssumption DEF MemInit, GraphShape, GraphOK
<1> QED
  BY <1>1, MemAssumption DEF MemInit, MemInv

\* The next vertex fits the graph drawn so far.
LEMMA DrawInv ==
  ASSUME MemInv, NEW o \in Ops, NEW p \in SUBSET Open, Draw(o, p)
  PROVE  MemInv'
<1>0. PICK n : n = Drawn + 1
  OBVIOUS
<1>1. /\ arcs' = arcs \cup (p \X {n}) /\ opName' = Append(opName, o) /\ fixed' = fixed
      /\ Fits(o, p) /\ Drawn < N /\ phase = "draw"
      /\ UNCHANGED <<io, resVars, phase, next, walkVars>>
      /\ \E l \in (IF p = {} THEN {Drawn} ELSE {lane[k] : k \in p}) : lane' = Append(lane, l)
  BY <1>0 DEF Draw
<1>2. /\ opName \in Seq(DOMAIN Arity) /\ lane \in Seq(Nat) /\ Len(lane) = Len(opName)
      /\ Drawn = Len(opName) /\ Drawn \in Nat /\ N \in Nat /\ o \in DOMAIN Arity
      /\ Drawn < N /\ n \in Nat /\ n = Drawn + 1
      /\ \A a \in arcs : a \in Nodes \X Nodes /\ a[1] < a[2] /\ a[2] <= Drawn
      /\ fixed \subseteq arcs
  BY <1>0, <1>1, MemAssumption DEF MemInv, GraphShape, GraphOK, Drawn
<1>3. /\ Len(opName') = n /\ opName'[n] = o /\ \A k \in 1 .. Drawn : opName'[k] = opName[k]
      /\ opName' \in Seq(DOMAIN Arity)
  BY <1>1, <1>2
<1>4. p \subseteq 1 .. Drawn /\ \A k \in p : opName[k] # "Output"
  <2>1. p \subseteq 1 .. Drawn /\ \A k \in p : Missing(k) > 0
    BY DEF Open
  <2>2. ASSUME NEW k \in p, opName[k] = "Output" PROVE FALSE
    <3>1. Arity[opName[k]][2] = 0
      BY <2>2 DEF Arity
    <3>2. Cardinality(OutArcs(k)) \in Nat
      BY ArcFacts, FS_CardinalityType DEF MemInv, GraphShape
    <3> QED
      BY <2>1, <2>2, <3>1, <3>2 DEF Missing
  <2> QED
    BY <2>1, <2>2
<1>5. lane' \in Seq(Nat) /\ Len(lane') = n
  <2>1. PICK l \in (IF p = {} THEN {Drawn} ELSE {lane[k] : k \in p}) : lane' = Append(lane, l)
    BY <1>1
  <2>2. l \in Nat
    BY <1>2, <1>4
  <2> QED
    BY <1>2, <2>1, <2>2
<1>6. n \in Nodes /\ n <= N /\ n \in Nat /\ 1 .. Drawn \subseteq Nodes
  BY <1>2 DEF Nodes
<1>7. \A a \in arcs' : a \in arcs \/ (a[1] \in p /\ a[2] = n /\ a = <<a[1], a[2]>>)
  BY <1>1
<1>8. \A a \in arcs' : a \in Nodes \X Nodes /\ a[1] < a[2] /\ a[2] <= n
  <2> SUFFICES ASSUME NEW a \in arcs' PROVE a \in Nodes \X Nodes /\ a[1] < a[2] /\ a[2] <= n
    OBVIOUS
  <2>1. CASE a \in arcs
    BY <1>2, <2>1 DEF Nodes
  <2>2. CASE a[1] \in p /\ a[2] = n /\ a = <<a[1], a[2]>>
    BY <1>2, <1>4, <1>6, <2>2
  <2> QED
    BY <1>7, <2>1, <2>2
<1>9. GraphOK'
  BY <1>1, <1>2, <1>3, <1>5, <1>6, <1>8 DEF GraphOK, Nodes
<1>10. \A a \in arcs' : opName'[a[1]] # "Output"
  <2> SUFFICES ASSUME NEW a \in arcs' PROVE opName'[a[1]] # "Output"
    OBVIOUS
  <2>1. CASE a \in arcs
    <3>1. a[1] \in 1 .. Drawn
      BY <1>2, <2>1 DEF Nodes
    <3> QED
      BY <1>3, <2>1, <3>1 DEF MemInv, GraphShape
  <2>2. CASE a[1] \in p
    BY <1>3, <1>4, <2>2
  <2> QED
    BY <1>7, <2>1, <2>2
<1>11. \A k \in 1 .. Drawn : InArcs(k)' = InArcs(k)
  <2> SUFFICES ASSUME NEW k \in 1 .. Drawn PROVE {a \in arcs' : a[2] = k} = {a \in arcs : a[2] = k}
    BY DEF InArcs
  <2>1. k # n
    BY <1>2
  <2>2. arcs \subseteq arcs'
    BY <1>1
  <2> QED
    BY <1>7, <2>1, <2>2
<1>12. InArcs(n)' = p \X {n}
  <2>1. InArcs(n)' = {a \in arcs' : a[2] = n}
    BY DEF InArcs
  <2>2. \A a \in arcs : a[2] # n
    BY <1>2 DEF Nodes
  <2>3. \A a \in p \X {n} : a[2] = n
    OBVIOUS
  <2> QED
    BY <1>1, <2>1, <2>2, <2>3
<1>13. IsFiniteSet(p) /\ Cardinality(p) = Arity[o][1]
  <2>1. IsFiniteSet(1 .. Drawn)
    BY <1>2, FS_Interval
  <2> QED
    BY <1>1, <1>4, <2>1, FS_Subset DEF Fits
<1>14. /\ o \in {"Split", "Reshape"} => \E s \in arcs' : InArcs(n)' = {s}
       /\ o = "Gather" => /\ InArcs(n)' # {}
                          /\ \E m \in 1 .. n : opName'[m] = "ConvEltwise"
       /\ o = "Input" => InArcs(n)' = {} /\ \A m \in 1 .. n : opName'[m] = "Input"
  <2>1. ASSUME o \in {"Split", "Reshape"} PROVE \E s \in arcs' : InArcs(n)' = {s}
    <3>1. Cardinality(p) = 1
      BY <1>13, <2>1 DEF Arity
    <3>2. PICK x : p = {x}
      BY <1>13, <3>1, FS_Singleton
    <3>3. p \X {n} = {<<x, n>>}
      BY <3>2
    <3> QED
      BY <1>1, <1>12, <3>3
  <2>2. ASSUME o = "Gather"
        PROVE  InArcs(n)' # {} /\ \E m \in 1 .. n : opName'[m] = "ConvEltwise"
    <3>1. PICK c \in p : opName[c] = "ConvEltwise"
      BY <1>1, <2>2 DEF Fits
    <3>2. <<c, n>> \in InArcs(n)'
      BY <1>12, <3>1
    <3>3. c \in 1 .. n /\ opName'[c] = "ConvEltwise"
      BY <1>2, <1>3, <1>4, <3>1
    <3> QED
      BY <3>2, <3>3
  <2>3. ASSUME o = "Input" PROVE InArcs(n)' = {} /\ \A m \in 1 .. n : opName'[m] = "Input"
    <3>1. Cardinality(p) = 0 /\ \A m \in 1 .. Drawn : opName[m] = "Input"
      BY <1>1, <1>13, <2>3 DEF Arity, Fits
    <3>2. p = {}
      BY <1>13, <3>1, FS_EmptySet
    <3> QED
      BY <1>2, <1>3, <1>12, <2>3, <3>1, <3>2
  <2> QED
    BY <2>1, <2>2, <2>3
<1>15. ASSUME NEW k \in 1 .. n
       PROVE  /\ opName'[k] \in {"Split", "Reshape"} => \E s \in arcs' : InArcs(k)' = {s}
              /\ opName'[k] = "Gather" => /\ InArcs(k)' # {}
                                          /\ \E m \in 1 .. n : opName'[m] = "ConvEltwise"
              /\ opName'[k] = "Input" => InArcs(k)' = {} /\ \A m \in 1 .. k : opName'[m] = "Input"
  <2>1. CASE k = n
    BY <1>3, <1>14, <2>1
  <2>2. CASE k # n
    <3>1. k \in 1 .. Drawn
      BY <1>2, <2>2
    <3>2. opName'[k] = opName[k] /\ InArcs(k)' = InArcs(k)
      BY <1>3, <1>11, <3>1
    <3>3. /\ opName[k] \in {"Split", "Reshape"} => \E s \in arcs : InArcs(k) = {s}
          /\ opName[k] = "Gather" => /\ InArcs(k) # {}
                                     /\ \E m \in 1 .. Drawn : opName[m] = "ConvEltwise"
          /\ opName[k] = "Input" => InArcs(k) = {} /\ \A m \in 1 .. k : opName[m] = "Input"
      BY <1>2, <3>1 DEF MemInv, GraphShape
    <3>4. arcs \subseteq arcs' /\ \A m \in 1 .. Drawn : opName'[m] = opName[m] /\ m \in 1 .. n
      BY <1>1, <1>2, <1>3
    <3>5. \A m \in 1 .. k : m \in 1 .. Drawn
      BY <1>2, <3>1
    <3> QED
      BY <3>2, <3>3, <3>4, <3>5
  <2> QED
    BY <2>1, <2>2
<1>16. GraphShape'
  BY <1>3, <1>5, <1>9, <1>10, <1>15 DEF GraphShape
<1> QED
  BY <1>1, <1>16 DEF MemInv, resVars, walkVars

LEMMA DrawEndsInv ==
  ASSUME MemInv, DrawEnds
  PROVE  MemInv'
<1>1. /\ arcs' = arcs /\ opName' = opName /\ lane' = lane /\ fixed' \subseteq arcs
      /\ io' = [a \in arcs |-> Fresh] /\ phase' = "launch" /\ next' = next
      /\ UNCHANGED <<resVars, walkVars>> /\ phase = "draw" /\ Len(opName) = N /\ Open = {}
  BY DEF DrawEnds, Fresh, Drawn
<1>2. GraphShape'
  BY <1>1 DEF MemInv, GraphShape, GraphOK, InArcs
<1>3. Open' = {}
  BY <1>1 DEF Open, Missing, Drawn, OutArcs, Arity
<1>4. _free' = <<>> /\ _lock' = {} /\ _self_lock' = <<>> /\ _self_lock_next_tree' = <<>> /\ next' = 1
  BY <1>1 DEF MemInv, resVars
<1>5. Fresh \in Ios' /\ ~Fresh.shared /\ Fresh.share_from = NoArc /\ Marked(Fresh)'
  BY DEF Fresh, Ios, Marked, NoArc
<1>6. io' \in [arcs' -> Ios'] /\ \A a \in arcs' : io'[a] = Fresh
  <2> HIDE DEF Fresh
  <2> QED
    BY <1>1, <1>5
<1>7. Hop(io)'
  BY <1>5, <1>6 DEF Hop
<1>8. FixedOK(io)'
  BY <1>1, <1>5, <1>6 DEF FixedOK
<1>9. (Res.free = _free /\ Res.lock = _lock /\ Res.self = _self_lock
       /\ Res.tree = _self_lock_next_tree /\ Res.v = io)'
  BY DEF Res
<1>10. ResOK(Res)'
  <2>1. (Res = Rec(Res.free, Res.lock, Res.self, Res.tree, Res.v))'
    BY DEF Res, Rec
  <2>2. <<>> \in Seq(Copies') /\ DOMAIN <<>> = {} /\ <<>> \in [{} -> SUBSET arcs']
    OBVIOUS
  <2> QED
    BY <1>4, <1>6, <1>9, <2>1, <2>2 DEF ResOK
<1>11. Range(<<>>) = {} /\ Distinct(<<>>)'
  BY DEF Range, Distinct
<1>12. LaunchOK(Res, next)'
  BY <1>4, <1>5, <1>6, <1>7, <1>9, <1>10, <1>11 DEF LaunchOK, Fresh
<1>13. LaunchFixed(Res)'
  BY <1>4, <1>5, <1>6, <1>8, <1>9, <1>11 DEF LaunchFixed
<1>14. (io \in Plans)'
  BY <1>6, <1>7, <1>8 DEF Plans
<1> QED
  BY <1>1, <1>2, <1>3, <1>10, <1>12, <1>13, <1>14 DEF MemInv, walkVars

\* The launch of a vertex.
LEMMA LaunchStep ==
  ASSUME MemInv, LaunchKernel \/ LaunchSelfShared
  PROVE  /\ phase = "launch" /\ next \in Nodes /\ next' = next + 1 /\ UNCHANGED graphVars
         /\ phase' = phase /\ que' = que /\ backup' = backup
         /\ GraphShape /\ Len(opName) = N /\ LaunchOK(Res, next)
         /\ Unmerged => LaunchFixed(Res)
         /\ LaunchSelfShared => SelfShared(next) /\ InArcs(next) # {}
         /\ LaunchKernel => ~SelfShared(next)
<1>1. /\ phase = "launch" /\ next <= N /\ next' = next + 1 /\ UNCHANGED <<graphVars, phase, walkVars>>
      /\ LaunchSelfShared => SelfShared(next)
      /\ LaunchKernel => ~SelfShared(next)
  BY DEF LaunchKernel, LaunchSelfShared, Launching, Advance
<1>2. next \in Nodes
  BY <1>1, MemAssumption DEF MemInv, Nodes
<1>3. GraphShape /\ Len(opName) = N /\ LaunchOK(Res, next) /\ (Unmerged => LaunchFixed(Res))
  BY <1>1 DEF MemInv
<1>4. SelfShared(next) => InArcs(next) # {}
  BY <1>2, <1>3 DEF GraphShape, Nodes, SelfShared
<1> QED
  BY <1>1, <1>2, <1>3, <1>4 DEF walkVars

\* The launches keep the invariant.
LEMMA LaunchInv ==
  ASSUME MemInv, LaunchKernel \/ LaunchSelfShared
  PROVE  MemInv'
<1>1. /\ phase = "launch" /\ next \in Nodes /\ next' = next + 1 /\ UNCHANGED graphVars
      /\ phase' = phase /\ que' = que /\ backup' = backup
      /\ GraphShape /\ Len(opName) = N /\ LaunchOK(Res, next)
      /\ Unmerged => LaunchFixed(Res)
      /\ LaunchSelfShared => SelfShared(next) /\ InArcs(next) # {}
      /\ LaunchKernel => ~SelfShared(next)
  BY LaunchStep
<1>2. GraphOK
  BY <1>1 DEF GraphShape
<1>3. LaunchOK(Res', next') /\ (Unmerged => LaunchFixed(Res'))
  <2>1. CASE LaunchKernel
    <3>1. Kernel(Res, Res', next)
      BY <1>1, <1>2, <2>1, LaunchKernelResult
    <3>2. LaunchOK(Res', next + 1)
      BY <1>1, <1>2, <3>1, KernelKeeps
    <3>3. Unmerged => LaunchFixed(Res')
      BY <1>1, <1>2, <3>1, KernelFixed
    <3> QED
      BY <1>1, <3>2, <3>3
  <2>2. CASE LaunchSelfShared
    <3>0. PICK i \in InArcs(next) : \E t : Shares(Res, Res', next, i, t)
      BY <1>1, <1>2, <2>2, LaunchSelfSharedResult
    <3>1. PICK t : Shares(Res, Res', next, i, t)
      BY <3>0
    <3>2. LaunchOK(Res', next + 1)
      BY <1>1, <1>2, <2>2, <3>1, SharesKeeps
    <3>3. Unmerged => LaunchFixed(Res')
      BY <1>1, <2>2, <3>1, SharesFixed
    <3> QED
      BY <1>1, <3>2, <3>3
  <2> QED
    BY <2>1, <2>2
<1>4. ResOK(Res') /\ io' \in Plans
  <2>1. ResOK(Res') /\ Hop(Res'.v) /\ (Unmerged => FixedOK(Res'.v))
    BY <1>3 DEF LaunchOK, LaunchFixed
  <2>2. Res'.v = io'
    BY DEF Res
  <2>3. io' \in [arcs -> Ios] /\ Hop(io') /\ (Unmerged => FixedOK(io'))
    BY <2>1, <2>2 DEF ResOK
  <2> QED
    BY <2>1, <2>3 DEF Plans
<1>5. /\ GraphShape' /\ LaunchOK(Res, next)' /\ ResOK(Res)' /\ (io \in Plans)'
      /\ Open' = Open /\ (Unmerged => LaunchFixed(Res))'
  BY <1>1, <1>3, <1>4, GraphKept
<1>6. next' \in 1 .. (N + 1) /\ opName' = opName
  BY <1>1, MemAssumption DEF Nodes, graphVars
<1> QED
  BY <1>1, <1>5, <1>6 DEF MemInv

\* So does check_memory.
LEMMA CheckInv ==
  ASSUME MemInv, StartCheck \/ CheckNode \/ EndCheck
  PROVE  MemInv'
<1>1. /\ UNCHANGED graphVars /\ UNCHANGED resVars /\ next' = next /\ phase # "draw"
      /\ phase' \in {"check", "planned"}
  BY DEF StartCheck, CheckNode, EndCheck
<1>2. GraphShape /\ Len(opName) = N /\ Open = {} /\ ResOK(Res) /\ io \in Plans
  BY <1>1 DEF MemInv
<1>3. \A S : S \subseteq Nodes => \A s \in Lists(S) : s \in Seq(Nodes)
  <2> SUFFICES ASSUME NEW S \in SUBSET Nodes, NEW s \in Lists(S) PROVE s \in Seq(Nodes)
    OBVIOUS
  <2>1. IsFiniteSet(Nodes)
    BY MemAssumption, FS_Interval DEF Nodes
  <2>2. IsFiniteSet(S)
    BY <2>1, FS_Subset
  <2>3. s \in Seq(S)
    BY <2>2, ListFacts
  <2> QED
    BY <2>3
<1>4. \A a \in arcs : a[2] \in Nodes
  BY <1>2 DEF GraphShape, GraphOK
<1>5. que' \in Seq(Nodes) /\ backup' \subseteq Nodes /\ io' \in Plans
  <2>1. CASE StartCheck
    <3> DEFINE S == {n \in Nodes : InArcs(n) = {}}
    <3>1. S \subseteq Nodes /\ que' \in Lists(S) /\ backup' = S /\ io' = io
      BY <2>1 DEF StartCheck
    <3> HIDE DEF S
    <3> QED
      BY <1>2, <1>3, <3>1
  <2>2. CASE CheckNode
    <3> DEFINE n == Head(que)
               tops == {a[2] : a \in OutArcs(n)} \ backup
    <3>1. /\ que # <<>> /\ io' = check_node(n) /\ backup' = backup \cup tops
          /\ \E s \in Lists(tops) : que' = Tail(que) \o s
      BY <2>2 DEF CheckNode
    <3>2. que \in Seq(Nodes) /\ backup \subseteq Nodes
      BY DEF MemInv
    <3>3. n \in Nodes /\ Tail(que) \in Seq(Nodes)
      BY <3>1, <3>2
    <3>4. tops \subseteq Nodes
      BY <1>4 DEF OutArcs
    <3> HIDE DEF n, tops
    <3>5. io' \in Plans
      <4>1. CheckLoop(n) \in [0 .. (n - 1) -> Plans]
        BY <1>2, <3>3, CheckLoopDef
      <4>2. n - 1 \in 0 .. (n - 1)
        BY <3>3, MemAssumption DEF Nodes
      <4>3. CheckLoop(n)[n - 1] \in Plans
        BY <4>1, <4>2
      <4> QED
        BY <3>1, <4>3 DEF check_node
    <3>6. que' \in Seq(Nodes)
      <4>1. PICK s \in Lists(tops) : que' = Tail(que) \o s
        BY <3>1
      <4>2. s \in Seq(Nodes)
        BY <1>3, <3>4
      <4> QED
        BY <3>3, <4>1, <4>2
    <3> QED
      BY <3>1, <3>2, <3>4, <3>5, <3>6
  <2>3. CASE EndCheck
    BY <1>2, <2>3 DEF EndCheck, MemInv
  <2> QED
    BY <2>1, <2>2, <2>3
<1>6. ResOK(Res')
  <2> DEFINE s == Res'
  <2>1. s = Rec(_free, _lock, _self_lock, _self_lock_next_tree, io')
    BY <1>1 DEF Res, resVars, Rec
  <2> HIDE DEF s
  <2>2. /\ s.free = _free /\ s.lock = _lock /\ s.self = _self_lock
        /\ s.tree = _self_lock_next_tree /\ s.v = io'
    BY <2>1 DEF Rec
  <2>3. io' \in [arcs -> Ios]
    BY <1>5 DEF Plans
  <2>4. ResOK(s)
    BY <1>2, <2>1, <2>2, <2>3, ResFields DEF ResOK
  <2> QED
    BY <2>4 DEF s
<1>7. GraphShape' /\ ResOK(Res)' /\ (io \in Plans)' /\ Open' = Open
  BY <1>1, <1>2, <1>5, <1>6, GraphKept
<1>8. opName' = opName
  BY <1>1 DEF graphVars
<1> QED
  BY <1>1, <1>2, <1>5, <1>7, <1>8 DEF MemInv

LEMMA StutterInv ==
  ASSUME MemInv, UNCHANGED memVars
  PROVE  MemInv'
<1>1. UNCHANGED graphVars /\ Res' = Res /\ next' = next /\ io' = io /\ phase' = phase
      /\ que' = que /\ backup' = backup /\ opName' = opName /\ UNCHANGED resVars
  BY DEF memVars, graphVars, resVars, walkVars, Res
<1>2. /\ (GraphShape => GraphShape')
      /\ LaunchOK(Res, next) => LaunchOK(Res, next)'
      /\ LaunchFixed(Res) => LaunchFixed(Res)'
      /\ ResOK(Res) => ResOK(Res)'
      /\ io \in Plans => (io \in Plans)'
      /\ Open' = Open /\ Unmerged' = Unmerged
  BY <1>1, GraphKept
<1> QED
  BY <1>1, <1>2 DEF MemInv, resVars

\* While vertices are launched and checked, the graph is as it was drawn, share_from
\* never leads further than one step, and the lists hold copies of the ios that
\* agree with the plan.
THEOREM MemInvariant ==
  MemSpec => []MemInv
<1>1. MemInv /\ [MemNext]_memVars => MemInv'
  <2> SUFFICES ASSUME MemInv, [MemNext]_memVars PROVE MemInv'
    OBVIOUS
  <2>1. CASE \E o \in Ops, p \in SUBSET Open : Draw(o, p)
    BY <2>1, DrawInv
  <2>2. CASE DrawEnds
    BY <2>2, DrawEndsInv
  <2>3. CASE LaunchKernel \/ LaunchSelfShared
    BY <2>3, LaunchInv
  <2>4. CASE StartCheck \/ CheckNode \/ EndCheck
    BY <2>4, CheckInv
  <2>5. CASE UNCHANGED memVars
    BY <2>5, StutterInv
  <2> QED
    BY <2>1, <2>2, <2>3, <2>4, <2>5 DEF MemNext
<1> QED
  BY <1>1, InitInv, PTL DEF MemSpec

\* The graph, the ios and the four lists of IOBlockResource have their types.
THEOREM MemTypeCorrect ==
  MemSpec => []MemTypeOK
<1>1. MemInv => MemTypeOK
  <2> SUFFICES ASSUME MemInv PROVE MemTypeOK
    OBVIOUS
  <2>1. /\ arcs \subseteq Nodes \X Nodes /\ opName \in Seq(DOMAIN Arity) /\ lane \in Seq(Nat)
        /\ fixed \subseteq arcs
    BY DEF MemInv, GraphShape, GraphOK
  <2>2. CASE phase = "draw"
    BY <2>1, <2>2 DEF MemInv, MemTypeOK
  <2>3. CASE phase # "draw"
    <3>1. ResOK(Res)
      BY <2>3 DEF MemInv
    <3>2. /\ io \in [arcs -> Ios] /\ _free \in Seq(Copies) /\ _lock \in SUBSET Copies
          /\ _self_lock \in Seq(Copies) /\ DOMAIN _self_lock_next_tree \subseteq arcs
          /\ _self_lock_next_tree \in [DOMAIN _self_lock_next_tree -> SUBSET arcs]
      BY <3>1, ResFields DEF ResOK
    <3> QED
      BY <2>1, <3>2 DEF MemInv, MemTypeOK
  <2> QED
    BY <2>2, <2>3
<1> QED
  BY <1>1, MemInvariant, PTL

\* The searches of is_same_target and init_memory for an io that is not shared find
\* one, in every graph and after every launch and correction.
THEOREM OwnerIsFound ==
  MemSpec => []OwnerFound
<1>1. MemInv => OwnerFound
  <2> SUFFICES ASSUME MemInv, NEW a \in DOMAIN io PROVE ~io[OwnerOf(io, a)].shared
    BY DEF OwnerFound
  <2>1. CASE phase = "draw"
    BY <2>1 DEF MemInv
  <2>2. CASE phase # "draw"
    <3>1. io \in [arcs -> Ios] /\ Hop(io)
      BY <2>2 DEF MemInv, Plans
    <3>2. IsFiniteSet(arcs)
      BY ArcFacts DEF MemInv, GraphShape
    <3> QED
      BY <3>1, <3>2, OwnerIsOwn
  <2> QED
    BY <2>1, <2>2
<1> QED
  BY <1>1, MemInvariant, PTL

-----------------------------------------------------------------------------
(* What the blocks hold when the net is run.                               *)

\* The ios that are written at n; 0 stands for the client.
Written(n) == IF n = 0 THEN {a \in arcs : opName[a[1]] = "Input"}
              ELSE IF HasKernel(n) THEN OutArcs(n) ELSE {}

\* The ios with the block of b that are written at n.
WrittenTo(v, n, b) == {a \in Written(n) : OwnerOf(v, a) = b}

\* Contents, by its definition.
LEMMA ContentsDef ==
  ASSUME NEW v
  PROVE  \A b \in arcs :
           /\ Contents(v)[0][b] = IF WrittenTo(v, 0, b) # {} THEN Only(WrittenTo(v, 0, b)) ELSE NoArc
           /\ \A n \in 1 .. N : Contents(v)[n][b] =
                IF WrittenTo(v, n, b) # {} THEN Only(WrittenTo(v, n, b)) ELSE Contents(v)[n - 1][b]
<1> DEFINE S == [arcs -> arcs \cup {NoArc}]
           val(n, b, x) == IF WrittenTo(v, n, b) # {} THEN Only(WrittenTo(v, n, b)) ELSE x
           base == [b \in arcs |-> val(0, b, NoArc)]
           step(n, T) == [b \in arcs |-> val(n, b, T[b])]
           g == [n \in 1 .. N |-> [T \in S |-> step(n, T)]]
<1>0. N \in Nat
  BY MemAssumption
<1>1. \A n, b : \A x \in arcs \cup {NoArc} : val(n, b, x) \in arcs \cup {NoArc}
  <2>1. \A n, b : WrittenTo(v, n, b) \subseteq arcs
    BY DEF WrittenTo, Written, OutArcs
  <2>2. \A W : W # {} => Only(W) \in W
    BY DEF Only
  <2> QED
    BY <2>1, <2>2
<1> HIDE DEF val
<1>2. base \in S /\ \A n \in 1 .. N, T \in S : step(n, T) \in S
  BY <1>1
<1> HIDE DEF S, base
<1>3. g \in [1 .. N -> [S -> S]]
  <2> HIDE DEF step
  <2> QED
    BY <1>2
<1>4. PICK f : Rounds(f, S, N, base, g)
  <2> HIDE DEF g
  <2> QED
    BY <1>0, <1>2, <1>3, LoopExists
<1>5. f \in [0 .. N -> S] /\ f[0] = base /\ \A n \in 1 .. N : f[n] = step(n, f[n - 1])
  <2>1. f \in [0 .. N -> S] /\ f[0] = base
    BY <1>4 DEF Rounds
  <2>2. ASSUME NEW n \in 1 .. N PROVE f[n] = step(n, f[n - 1])
    <3>1. f[n - 1] \in S /\ f[n] = g[n][f[n - 1]]
      BY <1>0, <1>4, <2>1 DEF Rounds
    <3> HIDE DEF step
    <3> QED
      BY <3>1
  <2> QED
    BY <2>1, <2>2
<1> HIDE DEF g
<1>6. f = [n \in 0 .. N |-> [b \in arcs |-> val(n, b, IF n = 0 THEN NoArc ELSE f[n - 1][b])]]
  <2>1. ASSUME NEW n \in 0 .. N
        PROVE  f[n] = [b \in arcs |-> val(n, b, IF n = 0 THEN NoArc ELSE f[n - 1][b])]
    <3>1. CASE n = 0
      BY <1>5, <3>1 DEF base
    <3>2. CASE n # 0
      <4>1. n \in 1 .. N
        BY <1>0, <3>2
      <4>2. f[n] = [b \in arcs |-> val(n, b, f[n - 1][b])]
        BY <1>5, <4>1
      <4>3. \A b \in arcs : val(n, b, f[n - 1][b]) = val(n, b, IF n = 0 THEN NoArc ELSE f[n - 1][b])
        BY <3>2
      <4> QED
        BY ONLY <4>2, <4>3
    <3> QED
      BY <3>1, <3>2
  <2> QED
    BY <1>5, <2>1
<1> DEFINE h == CHOOSE e : e = [n \in 0 .. N |->
                  [b \in arcs |-> val(n, b, IF n = 0 THEN NoArc ELSE e[n - 1][b])]]
<1>7. h = [n \in 0 .. N |-> [b \in arcs |-> val(n, b, IF n = 0 THEN NoArc ELSE h[n - 1][b])]]
  BY <1>6
<1>8. Contents(v) = h
  BY DEF Contents, val, WrittenTo, Written
<1> HIDE DEF h
<1>9. ASSUME NEW b \in arcs
      PROVE  h[0][b] = val(0, b, NoArc) /\ \A n \in 1 .. N : h[n][b] = val(n, b, h[n - 1][b])
  <2>1. ASSUME NEW n \in 0 .. N PROVE h[n][b] = val(n, b, IF n = 0 THEN NoArc ELSE h[n - 1][b])
    <3>1. h[n] = [c \in arcs |-> val(n, c, IF n = 0 THEN NoArc ELSE h[n - 1][c])]
      BY <1>7
    <3> QED
      BY <3>1
  <2>2. 0 \in 0 .. N /\ \A n \in 1 .. N : n \in 0 .. N /\ n # 0
    BY <1>0
  <2> QED
    BY <2>1, <2>2
<1> QED
  BY <1>8, <1>9 DEF val

\* What was written to a block last is what it holds.
LEMMA ContentsStay ==
  ASSUME NEW v, NEW o \in arcs, NEW a, NEW m \in 0 .. N, NEW n \in 0 .. N, m <= n,
         WrittenTo(v, m, o) = {a},
         \A k \in 1 .. N : m < k /\ k <= n => WrittenTo(v, k, o) = {}
  PROVE  Contents(v)[n][o] = a
<1> DEFINE C == Contents(v)
           W(k) == WrittenTo(v, k, o)
           K == {k \in 0 .. N : m <= k /\ k <= n => C[k][o] = a}
<1>0. N \in Nat /\ W(m) = {a} /\ \A k \in 1 .. N : m < k /\ k <= n => W(k) = {}
  BY MemAssumption
<1>1. C[0][o] = IF W(0) # {} THEN Only(W(0)) ELSE NoArc
  BY ContentsDef
<1>2. \A k \in 1 .. N : C[k][o] = IF W(k) # {} THEN Only(W(k)) ELSE C[k - 1][o]
  BY ContentsDef
<1>3. Only({a}) = a
  BY DEF Only
<1> HIDE DEF C, W
<1>4. 0 \in K
  <2>1. CASE m = 0
    BY <1>0, <1>1, <1>3, <2>1
  <2>2. CASE m # 0
    BY <1>0, <2>2
  <2> QED
    BY <2>1, <2>2
<1>5. ASSUME NEW k \in 1 .. N, k - 1 \in K PROVE k \in K
  <2>1. CASE m = k
    BY <1>0, <1>2, <1>3, <2>1
  <2>2. CASE m < k /\ k <= n
    <3>1. C[k - 1][o] = a
      BY <1>5, <2>2
    <3> QED
      BY <1>0, <1>2, <2>2, <3>1
  <2>3. CASE k < m \/ n < k
    BY <1>0, <2>3
  <2> QED
    BY <2>1, <2>2, <2>3
<1> HIDE DEF K
<1>6. n \in K
  BY <1>0, <1>4, <1>5, LoopInduction
<1> QED
  BY <1>6 DEF K, C

\* Where an io is written.
WrittenAt(a) == IF opName[a[1]] = "Input" THEN 0 ELSE a[1]

\* Every io of a vertex with a kernel is written once, at its vertex.
LEMMA WrittenFacts ==
  ASSUME GraphShape, Len(opName) = N
  PROVE  /\ \A n \in 0 .. N : \A a \in Written(n) : a \in arcs /\ ~SelfShared(a[1]) /\ WrittenAt(a) = n
         /\ \A a \in arcs : ~SelfShared(a[1]) => WrittenAt(a) \in 0 .. N /\ a \in Written(WrittenAt(a))
<1>0. N \in Nat /\ \A a \in arcs : a[1] \in 1 .. N
  BY MemAssumption DEF GraphShape, GraphOK, Nodes
<1>1. ASSUME NEW n \in 0 .. N, NEW a \in Written(n)
      PROVE  a \in arcs /\ ~SelfShared(a[1]) /\ WrittenAt(a) = n
  <2>1. CASE n = 0
    BY <1>1, <2>1 DEF Written, WrittenAt, SelfShared
  <2>2. CASE n # 0
    BY <1>1, <2>2 DEF Written, WrittenAt, HasKernel, OutArcs
  <2> QED
    BY <2>1, <2>2
<1>2. ASSUME NEW a \in arcs, ~SelfShared(a[1])
      PROVE  WrittenAt(a) \in 0 .. N /\ a \in Written(WrittenAt(a))
  <2>1. CASE opName[a[1]] = "Input"
    BY <1>0, <2>1 DEF Written, WrittenAt
  <2>2. CASE opName[a[1]] # "Input"
    <3>1. HasKernel(a[1])
      BY <1>2, <2>2 DEF HasKernel, GraphShape
    <3>2. WrittenAt(a) = a[1] /\ a[1] # 0
      BY <1>0, <2>2 DEF WrittenAt
    <3> QED
      BY <1>0, <3>1, <3>2 DEF Written, OutArcs
  <2> QED
    BY <2>1, <2>2
<1> QED
  BY <1>1, <1>2

\* A registered output of a model without merged convolutions holds its data at the
\* end: no other kernel gets its block, neither by lock nor by check_memory.
THEOREM FixedIsKept ==
  MemSpec => []FixedKept
<1>1. MemInv => FixedKept
  <2> SUFFICES ASSUME MemInv, phase = "planned", Writable, Unmerged, NEW a \in fixed
               PROVE  Contents(io)[N][OwnerOf(io, a)] = a
    BY DEF FixedKept
  <2>1. GraphShape /\ Len(opName) = N /\ Hop(io) /\ FixedOK(io) /\ IsFiniteSet(arcs)
    BY ArcFacts DEF MemInv, Plans, GraphShape
  <2>2. a \in arcs /\ ~SelfShared(a[1]) /\ ~io[a].shared
    BY <2>1 DEF Writable, FixedOK, GraphShape, GraphOK
  <2>3. \A b \in arcs : OwnerOf(io, b) = Own(io, b)
    BY <2>1, OwnerIsOwn
  <2>4. Own(io, a) = a
    BY <2>2 DEF Own
  <2>5. \A n \in 0 .. N : \A b \in Written(n) : b \in arcs /\ ~SelfShared(b[1]) /\ WrittenAt(b) = n
    BY <2>1, WrittenFacts
  <2>6. WrittenAt(a) \in 0 .. N /\ a \in Written(WrittenAt(a))
    BY <2>1, <2>2, WrittenFacts
  <2>7. ASSUME NEW n \in 0 .. N, NEW b \in WrittenTo(io, n, a) PROVE b = a
    <3>1. b \in arcs /\ ~SelfShared(b[1]) /\ Own(io, b) = a
      BY <2>3, <2>5, <2>7 DEF WrittenTo
    <3>2. CASE io[b].shared
      BY <2>1, <3>1, <3>2 DEF FixedOK, Own
    <3> QED
      BY <3>1, <3>2 DEF Own
  <2>8. WrittenTo(io, WrittenAt(a), a) = {a}
    <3>1. a \in WrittenTo(io, WrittenAt(a), a)
      BY <2>2, <2>3, <2>4, <2>6 DEF WrittenTo
    <3> QED
      BY <2>6, <2>7, <3>1
  <2>9. ASSUME NEW k \in 1 .. N, WrittenAt(a) < k PROVE WrittenTo(io, k, a) = {}
    <3> SUFFICES ASSUME NEW b \in WrittenTo(io, k, a) PROVE FALSE
      OBVIOUS
    <3>1. b = a /\ b \in Written(k)
      BY <2>7 DEF WrittenTo
    <3>2. WrittenAt(a) = k
      BY <2>5, <3>1
    <3> QED
      BY <2>9, <3>2
  <2>10. N \in 0 .. N /\ WrittenAt(a) <= N
    BY <2>6, MemAssumption
  <2>11. Contents(io)[N][a] = a
    BY <2>2, <2>6, <2>8, <2>9, <2>10, ContentsStay
  <2> QED
    BY <2>2, <2>3, <2>4, <2>11
<1> QED
  BY <1>1, MemInvariant, PTL

-----------------------------------------------------------------------------
(* Blocks that are in use, in a model without merged convolutions.         *)

\* The io shares the block of the input of its vertex.
Via(a) == SelfShared(a[1]) /\ a \notin fixed

\* The last vertex before which the io must be kept; the outputs are kept for good.
End(a) == IF opName[a[2]] = "Output" THEN N + 1 ELSE a[2]

\* The io is in use when n is launched.
Live(a, n) == a[1] < n /\ n <= End(a)

\* Two ios that are in use at the same time have one block only if the later one
\* shares it, along vertices without kernel, with the earlier one.
Disjoint(v, n) ==
  \A a, b \in arcs :
    a # b /\ a[1] < n /\ b[1] < n /\ Own(v, a) = Own(v, b) /\ a[1] <= b[1] /\ b[1] <= End(a)
      => Via(b) /\ (b[1] = a[2] \/ Via(a))

PlanOK(v, n) ==
  /\ Disjoint(v, n)
  /\ \A a \in arcs : v[a].shared => v[a].share_from[2] <= a[1]
  /\ \A a \in arcs : a[1] < n /\ Via(a) => \A s \in InArcs(a[1]) : Own(v, a) = Own(v, s)
  /\ \A a \in arcs : Marked(v[a])

\* The io is behind another vertex without kernel, which never leaves the tree.
Stuck(t, c) == \E d \in t[c.name] : SelfShared(d[2])

\* The tree has the ios that use the block of c, and c is what stands for it.
Exact(r, n, c) ==
  /\ \A a \in arcs : a \in r.tree[c.name] <=> Live(a, n) /\ Own(r.v, a) = Block(c)
  /\ \A d \in Range(r.free) : Block(d) # Block(c)
  /\ \A d \in Range(r.self) : d # c => Stuck(r.tree, d) \/ Block(d) # Block(c)

BlocksOK(r, n) ==
  /\ \A c \in Range(r.free) : \A a \in arcs : Live(a, n) => Own(r.v, a) # Block(c)
  /\ \A c \in r.lock : Block(c) = Own(r.v, c.name) /\ ~Via(c.name)
  /\ \A k \in DOMAIN r.tree : k[2] < n /\ \A a \in r.tree[k] : Via(a)
  /\ \A a \in arcs : a[1] < n /\ n <= a[2] /\ Via(a) => \E k \in DOMAIN r.tree : a \in r.tree[k]
  /\ \A c \in Range(r.self) :
       /\ Block(c) = Own(r.v, c.name) /\ c.name[2] < n
       /\ Stuck(r.tree, c) \/ Exact(r, n, c)

\* Positions are numbers; an output has nothing behind it.
LEMMA Positions ==
  ASSUME GraphShape, Len(opName) = N, NEW n \in Nodes
  PROVE  /\ n \in Nat /\ N \in Nat /\ n <= N
         /\ \A a \in arcs : /\ a[1] \in Nat /\ a[2] \in Nat /\ a[1] < a[2] /\ a[2] <= N
                            /\ a[1] \in Nodes /\ a[2] \in Nodes
                            /\ End(a) \in Nat /\ a[2] <= End(a)
                            /\ opName[a[1]] # "Output"
         /\ \A a \in arcs : opName[a[2]] # "Output" => End(a) = a[2]
<1>1. /\ n \in Nat /\ N \in Nat /\ n <= N
      /\ \A a \in arcs : /\ a[1] \in Nat /\ a[2] \in Nat /\ a[1] < a[2] /\ a[2] <= N
                         /\ a[1] \in Nodes /\ a[2] \in Nodes
                         /\ opName[a[1]] # "Output"
  BY MemAssumption DEF GraphShape, GraphOK, Nodes
<1> QED
  BY <1>1 DEF End

\* The block of an io that is launched is another one than an io behind it.
LEMMA OwnBefore ==
  ASSUME GraphShape, Len(opName) = N, NEW n \in Nodes, NEW r, LaunchOK(r, n),
         NEW a \in arcs, a[1] < n, NEW b \in arcs, ~(b[1] < n)
  PROVE  Own(r.v, a) # b
<1>1. CASE r.v[a].shared
  <2>1. r.v[a].share_from[2] < n /\ r.v[a].share_from \in arcs
    BY <1>1 DEF LaunchOK, Hop
  <2>2. b[1] < b[2] /\ b[1] \in Nat /\ b[2] \in Nat /\ n \in Nat
    BY Positions
  <2>3. r.v[a].share_from # b
    BY <2>1, <2>2
  <2> QED
    BY <1>1, <2>3 DEF Own
<1>2. CASE ~r.v[a].shared
  BY <1>2 DEF Own
<1> QED
  BY <1>1, <1>2

\* The blocks that the outputs of n get.
LEMMA KernelOwn ==
  ASSUME GraphShape, Len(opName) = N, NEW n \in Nodes, NEW r, LaunchOK(r, n), BlocksOK(r, n),
         NEW s, Kernel(r, s, n)
  PROVE  /\ \A a \in arcs : a[1] # n => s.v[a] = r.v[a] /\ Own(s.v, a) = Own(r.v, a)
         /\ \A b \in OutArcs(n) : \/ Own(s.v, b) = b
                                  \/ \E d \in Range(r.free) : Own(s.v, b) = Block(d)
         /\ \A b \in OutArcs(n), a \in arcs : Live(a, n) => Own(s.v, b) # Own(s.v, a)
         /\ \A a, b \in OutArcs(n) : a # b => Own(s.v, a) # Own(s.v, b)
<1>0. /\ n \in Nat
      /\ \A a \in arcs : a[1] \in Nat /\ a[2] \in Nat /\ a[1] < a[2]
  BY Positions
<1>1. ASSUME NEW a \in arcs, a[1] # n PROVE s.v[a] = r.v[a] /\ Own(s.v, a) = Own(r.v, a)
  <2>1. s.v[a] = r.v[a]
    BY <1>1 DEF Kernel, OutArcs
  <2> QED
    BY <2>1 DEF Own
<1>2. ASSUME NEW b \in OutArcs(n)
      PROVE  \/ ~s.v[b].shared /\ Own(s.v, b) = b
             \/ /\ s.v[b].shared /\ Own(s.v, b) = s.v[b].share_from
                /\ \E d \in Range(r.free) : Own(s.v, b) = Block(d)
  BY DEF Kernel, Own, Reused
<1>3. \A d \in Range(r.free) : Block(d) \in arcs /\ Block(d)[2] < n
  BY DEF LaunchOK, Settled, Rooted
<1>4. \A b \in OutArcs(n) : b \in arcs /\ b[1] = n
  BY DEF OutArcs
<1>5. ASSUME NEW b \in OutArcs(n), NEW a \in arcs, Live(a, n) PROVE Own(s.v, b) # Own(s.v, a)
  <2>1. a[1] < n
    BY <1>5 DEF Live
  <2>2. Own(s.v, a) = Own(r.v, a)
    BY <1>0, <1>1, <2>1
  <2>3. Own(r.v, a) # b
    BY <1>0, <1>4, <2>1, OwnBefore
  <2>4. \A d \in Range(r.free) : Own(r.v, a) # Block(d)
    BY <1>5 DEF BlocksOK
  <2> QED
    BY <1>2, <2>2, <2>3, <2>4
<1>6. ASSUME NEW a \in OutArcs(n), NEW b \in OutArcs(n), a # b PROVE Own(s.v, a) # Own(s.v, b)
  <2>1. \A d \in Range(r.free), x \in OutArcs(n) : Block(d) # x
    BY <1>0, <1>3, <1>4
  <2>2. s.v[a].shared /\ s.v[b].shared => s.v[a].share_from # s.v[b].share_from
    BY <1>6 DEF Kernel
  <2>3. CASE ~s.v[a].shared
    BY <1>2, <1>6, <2>1, <2>3
  <2>4. CASE ~s.v[b].shared
    BY <1>2, <1>6, <2>1, <2>4
  <2>5. CASE s.v[a].shared /\ s.v[b].shared
    BY <1>2, <2>2, <2>5
  <2> QED
    BY <2>3, <2>4, <2>5
<1> QED
  BY <1>1, <1>2, <1>5, <1>6

\* What a vertex with a kernel takes over is not in use.
LEMMA KernelPlan ==
  ASSUME GraphShape, Len(opName) = N, NEW n \in Nodes, ~SelfShared(n), NEW r, LaunchOK(r, n),
         Unmerged, LaunchFixed(r), PlanOK(r.v, n), BlocksOK(r, n), NEW s, Kernel(r, s, n)
  PROVE  PlanOK(s.v, n + 1)
<1>0. /\ n \in Nat
      /\ \A a \in arcs : a[1] \in Nat /\ a[2] \in Nat /\ a[1] < a[2] /\ End(a) \in Nat
                         /\ a[2] <= End(a)
  BY Positions
<1>1. /\ \A a \in arcs : a[1] # n => s.v[a] = r.v[a] /\ Own(s.v, a) = Own(r.v, a)
      /\ \A b \in OutArcs(n), a \in arcs : Live(a, n) => Own(s.v, b) # Own(s.v, a)
      /\ \A a, b \in OutArcs(n) : a # b => Own(s.v, a) # Own(s.v, b)
  BY KernelOwn
<1>2. ASSUME NEW a \in arcs, NEW b \in arcs,
             a # b, a[1] < n + 1, b[1] < n + 1, Own(s.v, a) = Own(s.v, b), a[1] <= b[1], b[1] <= End(a)
      PROVE  Via(b) /\ (b[1] = a[2] \/ Via(a))
  <2>1. CASE b[1] < n
    <3>1. a[1] < n /\ Own(r.v, a) = Own(r.v, b)
      BY <1>0, <1>1, <1>2, <2>1
    <3> QED
      BY <1>2, <2>1, <3>1 DEF PlanOK, Disjoint
  <2>2. CASE b[1] = n
    <3>1. b \in OutArcs(n)
      BY <2>2 DEF OutArcs
    <3>2. CASE a[1] = n
      <4>1. a \in OutArcs(n)
        BY <3>2 DEF OutArcs
      <4> QED
        BY <1>1, <1>2, <3>1, <4>1
    <3>3. CASE a[1] < n
      <4>1. Live(a, n)
        BY <1>0, <1>2, <2>2, <3>3 DEF Live
      <4> QED
        BY <1>1, <1>2, <3>1, <4>1
    <3> QED
      BY <1>0, <1>2, <3>2, <3>3
  <2> QED
    BY <1>0, <1>2, <2>1, <2>2
<1>3. ASSUME NEW a \in arcs, s.v[a].shared PROVE s.v[a].share_from[2] <= a[1]
  <2>1. CASE a[1] # n
    BY <1>1, <1>3, <2>1 DEF PlanOK
  <2>2. CASE a[1] = n
    <3>1. PICK d \in Range(r.free) : s.v[a].share_from = Block(d)
      BY <1>3, <2>2 DEF Kernel, Reused, OutArcs
    <3>2. Block(d) \in arcs /\ Block(d)[2] < n
      BY DEF LaunchOK, Settled, Rooted
    <3> QED
      BY <1>0, <2>2, <3>1, <3>2
  <2> QED
    BY <2>1, <2>2
<1>4. ASSUME NEW a \in arcs, a[1] < n + 1, Via(a), NEW x \in InArcs(a[1])
      PROVE  Own(s.v, a) = Own(s.v, x)
  <2>1. a[1] < n
    <3>1. a[1] # n
      BY <1>4 DEF Via
    <3> QED
      BY <1>0, <1>4, <3>1
  <2>2. x \in arcs /\ x[2] = a[1]
    BY <1>4 DEF InArcs
  <2>3. x[1] # n /\ a[1] # n
    BY <1>0, <2>1, <2>2
  <2>4. Own(r.v, a) = Own(r.v, x)
    BY <1>4, <2>1 DEF PlanOK
  <2> QED
    BY <1>1, <2>2, <2>3, <2>4
<1>5. \A a \in arcs : Marked(s.v[a])
  <2>1. GraphOK
    BY DEF GraphShape
  <2>2. LaunchFixed(s)
    BY <2>1, KernelFixed
  <2> QED
    BY <2>2 DEF LaunchFixed
<1>6. Disjoint(s.v, n + 1)
  BY <1>2 DEF Disjoint
<1> QED
  BY <1>3, <1>4, <1>5, <1>6 DEF PlanOK

\* What stays in use after n, and what does not.
LEMMA LiveNext ==
  ASSUME GraphShape, Len(opName) = N, NEW n \in Nodes
  PROVE  /\ \A a \in arcs : Live(a, n + 1) => a[1] = n \/ Live(a, n)
         /\ \A a \in arcs : Live(a, n) => a[1] < n
         /\ \A a \in InArcs(n) : Live(a, n) /\ a[1] # n
         /\ opName[n] # "Output" => \A a \in InArcs(n) : ~Live(a, n + 1) /\ End(a) = n
         /\ \A a \in arcs : Live(a, n) /\ ~Live(a, n + 1) => a \in InArcs(n) /\ opName[n] # "Output"
         /\ \A a \in OutArcs(n) : Live(a, n + 1)
<1>0. /\ n \in Nat /\ N \in Nat /\ n <= N
      /\ \A a \in arcs : a[1] \in Nat /\ a[2] \in Nat /\ a[1] < a[2] /\ End(a) \in Nat
                         /\ a[2] <= End(a) /\ (opName[a[2]] # "Output" => End(a) = a[2])
  BY Positions
<1>1. \A a \in arcs : Live(a, n + 1) => a[1] = n \/ Live(a, n)
  BY <1>0 DEF Live
<1>2. \A a \in InArcs(n) : Live(a, n) /\ a[1] # n
  BY <1>0 DEF Live, InArcs
<1>3. opName[n] # "Output" => \A a \in InArcs(n) : ~Live(a, n + 1) /\ End(a) = n
  BY <1>0 DEF Live, InArcs
<1>4. \A a \in arcs : Live(a, n) /\ ~Live(a, n + 1) => a \in InArcs(n) /\ opName[n] # "Output"
  <2> SUFFICES ASSUME NEW a \in arcs, Live(a, n), ~Live(a, n + 1)
               PROVE  a \in InArcs(n) /\ opName[n] # "Output"
    OBVIOUS
  <2>1. End(a) = n
    BY <1>0 DEF Live
  <2>2. End(a) # N + 1
    BY <1>0, <2>1
  <2> QED
    BY <2>1, <2>2 DEF End, InArcs
<1>5. \A a \in OutArcs(n) : Live(a, n + 1)
  BY <1>0 DEF Live, OutArcs
<1> QED
  BY <1>1, <1>2, <1>3, <1>4, <1>5 DEF Live

\* The lists still know the blocks in use when its inputs have been let go.
LEMMA KernelBlocks ==
  ASSUME GraphShape, Len(opName) = N, NEW n \in Nodes, ~SelfShared(n), NEW r, LaunchOK(r, n),
         Unmerged, PlanOK(r.v, n), BlocksOK(r, n), NEW s, Kernel(r, s, n)
  PROVE  BlocksOK(s, n + 1)
<1>0. /\ n \in Nat
      /\ \A a \in arcs : a[1] \in Nat /\ a[2] \in Nat /\ a[1] < a[2]
  BY Positions
<1>1. /\ \A a \in arcs : a[1] # n => s.v[a] = r.v[a] /\ Own(s.v, a) = Own(r.v, a)
      /\ \A b \in OutArcs(n) : \/ Own(s.v, b) = b
                               \/ \E d \in Range(r.free) : Own(s.v, b) = Block(d)
      /\ \A b \in OutArcs(n), a \in arcs : Live(a, n) => Own(s.v, b) # Own(s.v, a)
  BY KernelOwn
<1>2. /\ \A a \in arcs : Live(a, n + 1) => a[1] = n \/ Live(a, n)
      /\ \A a \in arcs : Live(a, n) => a[1] < n /\ a[1] # n
      /\ \A a \in InArcs(n) : Live(a, n) /\ a[1] # n /\ a \in arcs /\ a[2] = n
      /\ opName[n] # "Output" => \A a \in InArcs(n) : ~Live(a, n + 1) /\ End(a) = n
      /\ \A a \in arcs : Live(a, n) /\ ~Live(a, n + 1) => a \in InArcs(n) /\ opName[n] # "Output"
  <2>1. \A a \in InArcs(n) : a \in arcs /\ a[2] = n
    BY DEF InArcs
  <2>2. \A a \in arcs : a[1] < n => a[1] # n
    BY <1>0
  <2> QED
    BY <2>1, <2>2, LiveNext
<1>3. /\ \A c \in Range(r.free) : Block(c) \in arcs /\ Block(c)[2] < n
      /\ \A c \in Range(r.self) : Block(c) \in arcs /\ Block(c)[2] < n
      /\ \A c \in Range(r.self) : c.name \in DOMAIN r.tree /\ c.name \in arcs /\ c.name[2] < n
  <2>1. DOMAIN r.tree \subseteq arcs
    BY DEF LaunchOK, ResOK
  <2>2. \A c \in Range(r.self) : c.name \in DOMAIN r.tree /\ c.name[2] < n
    BY DEF LaunchOK, BlocksOK
  <2> QED
    BY <2>1, <2>2 DEF LaunchOK, Settled, Rooted
<1>4. /\ DOMAIN s.tree = DOMAIN r.tree
      /\ \A k \in DOMAIN r.tree : s.tree[k] = r.tree[k] \ Edges(n)
  BY DEF Kernel, Pruned
<1>5. \A a \in Edges(n) : a \in InArcs(n) /\ opName[n] # "Output" /\ SelfShared(a[1])
  BY DEF Edges
<1>6. \A b \in OutArcs(n) : b \in arcs /\ b[1] = n
  BY DEF OutArcs
<1>7. \A a \in arcs : a[1] = n => a \in OutArcs(n) /\ ~Via(a)
  BY DEF OutArcs, Via
\* Vertices without kernel stay in the tree.
<1>8. \A c \in Range(r.self) : Stuck(r.tree, c) <=> Stuck(s.tree, c)
  <2> SUFFICES ASSUME NEW c \in Range(r.self) PROVE Stuck(r.tree, c) <=> Stuck(s.tree, c)
    OBVIOUS
  <2>1. s.tree[c.name] = r.tree[c.name] \ Edges(n)
    BY <1>3, <1>4
  <2>2. \A d : SelfShared(d[2]) => d \notin Edges(n)
    BY <1>2, <1>5
  <2> QED
    BY <2>1, <2>2 DEF Stuck
<1>9. \A c \in Range(r.self) : s.tree[c.name] = {} => Exact(r, n, c) /\ ~Stuck(r.tree, c)
  <2> SUFFICES ASSUME NEW c \in Range(r.self), s.tree[c.name] = {}
               PROVE  Exact(r, n, c) /\ ~Stuck(r.tree, c)
    OBVIOUS
  <2>1. ~Stuck(s.tree, c)
    BY DEF Stuck
  <2> QED
    BY <1>8, <2>1 DEF BlocksOK
\* A copy whose block is written for an input that no vertex without kernel passes on.
<1>10. ASSUME NEW c \in r.lock, c.name \in InArcs(n), opName[n] # "Output",
              NEW a \in arcs, Live(a, n + 1)
       PROVE  Own(s.v, a) # Block(c)
  <2> DEFINE x == c.name
  <2>1. Block(c) = Own(r.v, x) /\ ~Via(x)
    BY <1>10 DEF BlocksOK
  <2>2. Live(x, n) /\ x[1] # n /\ x \in arcs /\ x[2] = n /\ End(x) = n /\ ~Live(x, n + 1)
    BY <1>2, <1>10
  <2>3. Own(s.v, x) = Own(r.v, x)
    BY <1>1, <2>2
  <2>4. CASE a[1] = n
    BY <1>1, <1>7, <2>1, <2>2, <2>3, <2>4
  <2>5. CASE a[1] # n
    <3>1. Live(a, n) /\ a # x /\ Own(s.v, a) = Own(r.v, a)
      BY <1>1, <1>2, <1>10, <2>2, <2>5
    <3>2. ASSUME Own(r.v, a) = Own(r.v, x) PROVE FALSE
      <4>0. a[1] < n /\ x[1] < n /\ n <= End(a)
        BY <2>2, <3>1 DEF Live
      <4>1. CASE a[1] <= x[1]
        <5>1. x[1] <= End(a)
          <6>1. End(a) \in Nat
            BY Positions
          <6> QED
            BY <1>0, <2>2, <4>0, <6>1
        <5> QED
          BY <2>1, <2>2, <3>1, <3>2, <4>0, <4>1, <5>1 DEF PlanOK, Disjoint
      <4>2. CASE x[1] <= a[1]
        <5>1. a[1] <= End(x)
          BY <1>0, <2>2, <4>0
        <5>2. a[1] = x[2] \/ Via(x)
          BY <2>2, <3>1, <3>2, <4>0, <4>2, <5>1 DEF PlanOK, Disjoint
        <5> QED
          BY <2>1, <2>2, <2>5, <5>2
      <4> QED
        BY <1>0, <2>2, <4>1, <4>2
    <3> QED
      BY <2>1, <3>1, <3>2
  <2> QED
    BY <2>4, <2>5
<1>11. ASSUME NEW c \in Range(s.free), NEW a \in arcs, Live(a, n + 1) PROVE Own(s.v, a) # Block(c)
  <2>1. CASE /\ c \in Range(r.free)
             /\ \A b \in OutArcs(n) : s.v[b].shared => s.v[b].share_from # Block(c)
    <3>1. CASE a[1] = n
      <4>1. a \in OutArcs(n) /\ Block(c)[2] < n /\ a # Block(c)
        BY <1>0, <1>3, <1>7, <2>1, <3>1
      <4> QED
        BY <2>1, <4>1 DEF Own
    <3>2. CASE a[1] # n
      BY <1>1, <1>2, <1>11, <2>1, <3>2 DEF BlocksOK
    <3> QED
      BY <3>1, <3>2
  <2>2. CASE c \in r.lock /\ c.name \in InArcs(n) /\ opName[n] # "Output"
    BY <1>10, <1>11, <2>2
  <2>3. CASE c \in Range(r.self) /\ s.tree[c.name] = {}
    <3>1. Exact(r, n, c)
      BY <1>9, <2>3
    <3>2. CASE a[1] = n
      <4>1. a \in OutArcs(n) /\ Block(c)[2] < n /\ a # Block(c)
        BY <1>0, <1>3, <1>7, <2>3, <3>2
      <4> QED
        BY <1>1, <3>1, <4>1 DEF Exact
    <3>3. CASE a[1] # n
      <4>1. Live(a, n) /\ Own(s.v, a) = Own(r.v, a)
        BY <1>1, <1>2, <1>11, <3>3
      <4>2. ASSUME Own(r.v, a) = Block(c) PROVE FALSE
        <5>1. a \in r.tree[c.name]
          BY <3>1, <4>1, <4>2 DEF Exact
        <5>2. a \in Edges(n)
          BY <1>3, <1>4, <2>3, <5>1
        <5> QED
          BY <1>2, <1>5, <1>11, <5>2
      <4> QED
        BY <4>1, <4>2
    <3> QED
      BY <3>2, <3>3
  <2> QED
    BY <2>1, <2>2, <2>3 DEF Kernel
<1>12. ASSUME NEW c \in s.lock PROVE Block(c) = Own(s.v, c.name) /\ ~Via(c.name)
  <2>1. CASE c \in r.lock
    <3>1. c.name \in arcs
      <4>1. c \in Copies
        BY <2>1 DEF LaunchOK, ResOK
      <4> QED
        BY <4>1 DEF Copies
    <3>2. c.name[1] # n
      <4>1. c.name[1] < n
        BY <2>1 DEF LaunchOK
      <4> QED
        BY <1>0, <3>1, <4>1
    <3> QED
      BY <1>1, <2>1, <3>1, <3>2 DEF BlocksOK
  <2>2. CASE c \notin r.lock
    <3>1. c.name \in OutArcs(n) /\ c = Copy(s.v, c.name)
      BY <2>2 DEF Kernel
    <3>2. c.shared = s.v[c.name].shared /\ c.share_from = s.v[c.name].share_from
      BY <3>1 DEF Copy
    <3> QED
      BY <1>6, <1>7, <3>1, <3>2 DEF Block, Own
  <2> QED
    BY <2>1, <2>2
<1>13. ASSUME NEW k \in DOMAIN s.tree PROVE k[2] < n + 1 /\ \A a \in s.tree[k] : Via(a)
  <2>1. k \in DOMAIN r.tree /\ k \in arcs
    BY <1>4 DEF LaunchOK, ResOK
  <2> QED
    BY <1>0, <1>4, <2>1 DEF BlocksOK
<1>14. ASSUME NEW a \in arcs, a[1] < n + 1, n + 1 <= a[2], Via(a)
       PROVE  \E k \in DOMAIN s.tree : a \in s.tree[k]
  <2>1. a[1] < n /\ n <= a[2] /\ a[2] # n
    BY <1>0, <1>7, <1>14
  <2>2. PICK k \in DOMAIN r.tree : a \in r.tree[k]
    BY <1>14, <2>1 DEF BlocksOK
  <2>3. a \notin Edges(n)
    BY <1>2, <1>5, <2>1
  <2> QED
    BY <1>4, <2>2, <2>3
<1>15. ASSUME NEW c \in Range(s.self), ~Stuck(s.tree, c) PROVE Exact(s, n + 1, c)
  <2>1. c \in Range(r.self) /\ Exact(r, n, c)
    BY <1>8, <1>15 DEF Kernel, BlocksOK
  <2>2. c.name \in DOMAIN r.tree /\ Block(c)[2] < n /\ Block(c) \in arcs
    BY <1>3, <2>1
  <2>3. ASSUME NEW a \in arcs PROVE a \in s.tree[c.name] <=> Live(a, n + 1) /\ Own(s.v, a) = Block(c)
    <3>0. a \in r.tree[c.name] <=> Live(a, n) /\ Own(r.v, a) = Block(c)
      BY <2>1 DEF Exact
    <3>1. a \in s.tree[c.name] <=> a \in r.tree[c.name] /\ a \notin Edges(n)
      BY <1>4, <2>2
    <3>2. CASE a[1] = n
      <4>1. a \in OutArcs(n) /\ a # Block(c)
        BY <1>0, <1>7, <2>2, <3>2
      <4>2. Own(s.v, a) # Block(c)
        BY <1>1, <2>1, <4>1 DEF Exact
      <4> QED
        BY <1>2, <3>0, <3>1, <3>2, <4>2
    <3>3. CASE a[1] # n
      <4>1. Own(s.v, a) = Own(r.v, a)
        BY <1>1, <3>3
      <4>2. ASSUME a \in r.tree[c.name], a \notin Edges(n) PROVE Live(a, n + 1)
        <5>1. Via(a)
          BY <2>2, <4>2 DEF BlocksOK
        <5>2. ~(a \in InArcs(n) /\ opName[n] # "Output")
          BY <4>2, <5>1 DEF Edges, Via
        <5> QED
          BY <1>2, <3>0, <4>2, <5>2
      <4>3. ASSUME Live(a, n + 1) PROVE Live(a, n) /\ a \notin Edges(n)
        BY <1>2, <1>5, <3>3, <4>3
      <4> QED
        BY <3>0, <3>1, <4>1, <4>2, <4>3
    <3> QED
      BY <3>2, <3>3
  <2>4. ASSUME NEW d \in Range(s.free) PROVE Block(d) # Block(c)
    <3>1. CASE d \in Range(r.free)
      BY <2>1, <3>1 DEF Exact
    <3>2. CASE d \in r.lock /\ d.name \in InArcs(n)
      <4>1. Block(d) = Own(r.v, d.name) /\ ~Via(d.name) /\ Live(d.name, n) /\ d.name \in arcs
        BY <1>2, <3>2 DEF BlocksOK
      <4>2. d.name \notin r.tree[c.name]
        BY <2>2, <4>1 DEF BlocksOK
      <4> QED
        BY <2>1, <4>1, <4>2 DEF Exact
    <3>3. CASE d \in Range(r.self) /\ s.tree[d.name] = {} /\ \A e \in Range(s.self) : e.name # d.name
      <4>1. d # c /\ ~Stuck(r.tree, d)
        BY <1>9, <1>15, <3>3
      <4> QED
        BY <2>1, <3>3, <4>1 DEF Exact
    <3> QED
      BY <3>1, <3>2, <3>3 DEF Kernel
  <2>5. ASSUME NEW d \in Range(s.self), d # c PROVE Stuck(s.tree, d) \/ Block(d) # Block(c)
    <3>1. d \in Range(r.self)
      BY DEF Kernel
    <3> QED
      BY <1>8, <2>1, <2>5, <3>1 DEF Exact
  <2> QED
    BY <2>3, <2>4, <2>5 DEF Exact
<1>16. ASSUME NEW c \in Range(s.self)
       PROVE  Block(c) = Own(s.v, c.name) /\ c.name[2] < n + 1
  <2>1. c \in Range(r.self) /\ c.name \in arcs /\ c.name[2] < n
    BY <1>3 DEF Kernel
  <2>2. c.name[1] # n /\ c.name[2] < n + 1
    BY <1>0, <2>1
  <2> QED
    BY <1>1, <2>1, <2>2 DEF BlocksOK
<1> QED
  BY <1>11, <1>12, <1>13, <1>14, <1>15, <1>16 DEF BlocksOK

\* The blocks of the outputs of a vertex without kernel.
LEMMA SharesOwn ==
  ASSUME GraphShape, Len(opName) = N, NEW n \in Nodes, SelfShared(n), NEW r, LaunchOK(r, n),
         Unmerged, NEW i \in InArcs(n), NEW t, NEW s, Shares(r, s, n, i, t)
  PROVE  /\ i \in arcs /\ i[2] = n /\ i[1] < n /\ InArcs(n) = {i} /\ Live(i, n) /\ End(i) = n
         /\ \A a \in arcs : a[1] # n => s.v[a] = r.v[a] /\ Own(s.v, a) = Own(r.v, a)
         /\ \A a \in OutArcs(n) : a \in fixed => Own(s.v, a) = a /\ ~Via(a)
         /\ \A a \in OutArcs(n) : a \notin fixed => /\ Own(s.v, a) = Own(r.v, i) /\ Via(a)
                                                   /\ s.v[a].shared /\ s.v[a].share_from = Own(r.v, i)
         /\ Own(r.v, i) \in arcs /\ Own(r.v, i)[2] < n + 1
         /\ \A a \in OutArcs(n) : a # Own(r.v, i)
<1>0. n \in Nat /\ \A a \in arcs : a[1] \in Nat /\ a[2] \in Nat /\ a[1] < a[2]
  BY Positions
<1>1. i \in arcs /\ i[2] = n /\ i[1] < n
  BY <1>0 DEF InArcs
<1>2. InArcs(n) = {i} /\ SharingWith(n, i) = OutArcs(n) \ fixed
  BY OneInput
<1>3. Live(i, n) /\ End(i) = n
  <2>1. opName[n] # "Output"
    BY DEF SelfShared
  <2> QED
    BY <2>1, LiveNext
<1>4. /\ \A a \in OutArcs(n) \ fixed : a \in arcs => s.v[a] = [shared |-> TRUE, share_from |-> Own(r.v, i)]
      /\ \A a \in arcs : a \notin OutArcs(n) \ fixed => s.v[a] = r.v[a]
  BY <1>1, <1>2, SharesFields DEF LaunchOK, SharedFields
<1>5. ASSUME NEW a \in arcs, a[1] # n PROVE s.v[a] = r.v[a] /\ Own(s.v, a) = Own(r.v, a)
  <2>1. s.v[a] = r.v[a]
    BY <1>4, <1>5 DEF OutArcs
  <2> QED
    BY <2>1 DEF Own
<1>6. ASSUME NEW a \in OutArcs(n), a \in fixed PROVE Own(s.v, a) = a /\ ~Via(a)
  <2>1. s.v[a] = r.v[a] /\ a \in arcs /\ a[1] = n
    BY <1>4, <1>6 DEF OutArcs
  <2>2. r.v[a] = Fresh
    BY <1>0, <2>1 DEF LaunchOK
  <2> QED
    BY <1>6, <2>1, <2>2 DEF Own, Fresh, Via
<1>7. ASSUME NEW a \in OutArcs(n), a \notin fixed
      PROVE  Own(s.v, a) = Own(r.v, i) /\ Via(a) /\ s.v[a].shared /\ s.v[a].share_from = Own(r.v, i)
  <2>1. s.v[a] = [shared |-> TRUE, share_from |-> Own(r.v, i)] /\ a[1] = n
    BY <1>4, <1>7 DEF OutArcs
  <2>2. s.v[a].shared /\ s.v[a].share_from = Own(r.v, i)
    BY <2>1
  <2> QED
    BY <1>7, <2>1, <2>2 DEF Own, Via
<1>8. Own(r.v, i) \in arcs /\ Own(r.v, i)[2] < n + 1
  <2>1. CASE r.v[i].shared
    <3>1. Own(r.v, i) \in arcs /\ Own(r.v, i)[2] < n
      BY <1>1, <2>1 DEF LaunchOK, Hop, Own
    <3> QED
      BY <1>0, <3>1
  <2>2. CASE ~r.v[i].shared
    BY <1>0, <1>1, <2>2 DEF Own
  <2> QED
    BY <2>1, <2>2
<1>9. \A a \in OutArcs(n) : a # Own(r.v, i)
  BY <1>0, <1>8 DEF OutArcs
<1> QED
  BY <1>1, <1>2, <1>3, <1>5, <1>6, <1>7, <1>8, <1>9

\* A vertex without kernel shares a block with its input only.
LEMMA SharesPlan ==
  ASSUME GraphShape, Len(opName) = N, NEW n \in Nodes, SelfShared(n), NEW r, LaunchOK(r, n),
         Unmerged, LaunchFixed(r), PlanOK(r.v, n), NEW i \in InArcs(n), NEW t, NEW s,
         Shares(r, s, n, i, t)
  PROVE  PlanOK(s.v, n + 1)
<1> DEFINE from == Own(r.v, i)
<1>0. /\ n \in Nat
      /\ \A a \in arcs : a[1] \in Nat /\ a[2] \in Nat /\ a[1] < a[2] /\ End(a) \in Nat
                         /\ a[2] <= End(a) /\ opName[a[1]] # "Output"
  BY Positions
<1>1. /\ i \in arcs /\ i[2] = n /\ i[1] < n /\ InArcs(n) = {i} /\ End(i) = n
      /\ \A a \in arcs : a[1] # n => s.v[a] = r.v[a] /\ Own(s.v, a) = Own(r.v, a)
      /\ \A a \in OutArcs(n) : a \in fixed => Own(s.v, a) = a /\ ~Via(a)
      /\ \A a \in OutArcs(n) : a \notin fixed => /\ Own(s.v, a) = from /\ Via(a)
                                                /\ s.v[a].shared /\ s.v[a].share_from = from
      /\ from \in arcs /\ from[2] < n + 1
      /\ \A a \in OutArcs(n) : a # from
  BY SharesOwn
<1> HIDE DEF from
<1>2. \A a \in arcs : a[1] = n => a \in OutArcs(n)
  BY DEF OutArcs
<1>3. ASSUME NEW a \in arcs, NEW b \in arcs,
             a # b, a[1] < n + 1, b[1] < n + 1, Own(s.v, a) = Own(s.v, b), a[1] <= b[1], b[1] <= End(a)
      PROVE  Via(b) /\ (b[1] = a[2] \/ Via(a))
  <2>1. CASE b[1] < n
    <3>1. a[1] < n /\ Own(r.v, a) = Own(r.v, b)
      BY <1>0, <1>1, <1>3, <2>1
    <3> QED
      BY <1>3, <2>1, <3>1 DEF PlanOK, Disjoint
  <2>2. CASE b[1] = n /\ b \in fixed
    <3>1. Own(s.v, b) = b
      BY <1>1, <1>2, <2>2
    <3>2. CASE a[1] = n
      BY <1>1, <1>2, <1>3, <2>2, <3>1, <3>2
    <3>3. CASE a[1] < n
      <4>1. Own(r.v, a) # b
        BY <1>0, <2>2, <3>3, OwnBefore
      <4> QED
        BY <1>0, <1>1, <1>3, <3>1, <3>3, <4>1
    <3> QED
      BY <1>0, <1>3, <3>2, <3>3
  <2>3. CASE b[1] = n /\ b \notin fixed
    <3>1. Own(s.v, b) = from /\ Via(b)
      BY <1>1, <1>2, <2>3
    <3>2. CASE a[1] = n
      BY <1>1, <1>2, <1>3, <3>1, <3>2
    <3>3. CASE a[1] < n /\ a # i
      <4>1. Own(r.v, a) = Own(r.v, i)
        BY <1>0, <1>1, <1>3, <3>1, <3>3 DEF from
      <4>2. n <= End(a)
        BY <1>3, <2>3
      <4>3. CASE a[1] <= i[1]
        <5>1. i[1] <= End(a)
          BY <1>0, <1>1, <4>2
        <5>2. i[1] = a[2] \/ Via(a)
          BY <1>1, <3>3, <4>1, <4>3, <5>1 DEF PlanOK, Disjoint
        <5>3. i[1] # a[2]
          <6>1. i[1] = a[2] => opName[a[2]] # "Output"
            BY <1>0, <1>1
          <6>2. i[1] = a[2] => End(a) = a[2]
            BY <6>1 DEF End
          <6> QED
            BY <1>0, <1>1, <4>2, <6>2
        <5> QED
          BY <3>1, <5>2, <5>3
      <4>4. CASE i[1] <= a[1]
        <5>1. Via(a)
          BY <1>0, <1>1, <3>3, <4>1, <4>4 DEF PlanOK, Disjoint
        <5> QED
          BY <3>1, <5>1
      <4> QED
        BY <1>0, <1>1, <4>3, <4>4
    <3>4. CASE a = i
      BY <1>1, <2>3, <3>1, <3>4
    <3> QED
      BY <1>0, <1>3, <3>2, <3>3, <3>4
  <2> QED
    BY <1>0, <1>3, <2>1, <2>2, <2>3
<1>4. ASSUME NEW a \in arcs, s.v[a].shared PROVE s.v[a].share_from[2] <= a[1]
  <2>1. CASE a[1] # n
    BY <1>1, <1>4, <2>1 DEF PlanOK
  <2>2. CASE a[1] = n
    <3>1. a \in OutArcs(n)
      BY <1>2, <2>2
    <3>2. a \notin fixed
      <4>1. ASSUME a \in fixed PROVE FALSE
        <5>1. Own(s.v, a) = a /\ s.v[a].share_from = a
          BY <1>1, <1>4, <3>1, <4>1 DEF Own
        <5>2. s.v[a].share_from # a
          <6>1. LaunchOK(s, n + 1)
            BY SharesKeeps DEF GraphShape
          <6> QED
            BY <1>4, <6>1 DEF LaunchOK, Hop
        <5> QED
          BY <5>1, <5>2
      <4> QED
        BY <4>1
    <3>3. s.v[a].share_from = from
      BY <1>1, <3>1, <3>2
    <3> QED
      BY <1>0, <1>1, <2>2, <3>3
  <2> QED
    BY <2>1, <2>2
<1>5. ASSUME NEW a \in arcs, a[1] < n + 1, Via(a), NEW x \in InArcs(a[1])
      PROVE  Own(s.v, a) = Own(s.v, x)
  <2>1. CASE a[1] = n
    <3>1. x = i /\ Own(s.v, a) = from
      BY <1>1, <1>2, <1>5, <2>1 DEF Via
    <3>2. Own(s.v, i) = from
      BY <1>0, <1>1 DEF from
    <3> QED
      BY <3>1, <3>2
  <2>2. CASE a[1] < n
    <3>1. x \in arcs /\ x[2] = a[1]
      BY <1>5 DEF InArcs
    <3>2. x[1] # n /\ a[1] # n
      BY <1>0, <2>2, <3>1
    <3>3. Own(r.v, a) = Own(r.v, x)
      BY <1>5, <2>2 DEF PlanOK
    <3> QED
      BY <1>1, <3>1, <3>2, <3>3
  <2> QED
    BY <1>0, <1>5, <2>1, <2>2
<1>6. \A a \in arcs : Marked(s.v[a])
  <2>1. LaunchFixed(s)
    BY SharesFixed
  <2> QED
    BY <2>1 DEF LaunchFixed
<1>7. Disjoint(s.v, n + 1)
  BY <1>3 DEF Disjoint
<1> QED
  BY <1>4, <1>5, <1>6, <1>7 DEF PlanOK

\* The tree has the outputs of such a vertex for as long as one is to be read.
LEMMA SharesBlocks ==
  ASSUME GraphShape, Len(opName) = N, NEW n \in Nodes, SelfShared(n), NEW r, LaunchOK(r, n),
         Unmerged, PlanOK(r.v, n), BlocksOK(r, n), NEW i \in InArcs(n), NEW t, NEW s,
         Shares(r, s, n, i, t)
  PROVE  BlocksOK(s, n + 1)
<1> DEFINE from == Own(r.v, i)
           c0 == Copy(r.v, i)
           O == OutArcs(n) \ fixed
<1>0. /\ n \in Nat
      /\ \A a \in arcs : a[1] \in Nat /\ a[2] \in Nat /\ a[1] < a[2] /\ End(a) \in Nat
  BY Positions
<1>1. /\ i \in arcs /\ i[2] = n /\ i[1] < n /\ InArcs(n) = {i} /\ Live(i, n) /\ End(i) = n
      /\ \A a \in arcs : a[1] # n => s.v[a] = r.v[a] /\ Own(s.v, a) = Own(r.v, a)
      /\ \A a \in OutArcs(n) : a \in fixed => Own(s.v, a) = a /\ ~Via(a)
      /\ \A a \in OutArcs(n) : a \notin fixed => Own(s.v, a) = from /\ Via(a)
      /\ \A a \in OutArcs(n) : a # from
  BY SharesOwn
<1>2. /\ s.free = r.free /\ s.lock = r.lock /\ s.self = Append(r.self, c0)
      /\ DOMAIN s.tree = DOMAIN r.tree \cup {i} /\ s.tree[i] = t
      /\ \A a \in DOMAIN r.tree : a # i => s.tree[a] = r.tree[a]
  <2>1. SharedFields(r, s, n, i, t)
    BY <1>1, SharesFields DEF LaunchOK
  <2> QED
    BY <2>1 DEF SharedFields
<1>3. \A d \in Range(s.self) : d \in Range(r.self) \/ d = c0
  <2> DEFINE q == r.self
  <2>1. q \in Seq(Copies)
    BY DEF LaunchOK, ResOK
  <2> HIDE DEF c0, q
  <2>2. \A d \in Range(Append(q, c0)) : d \in Range(q) \/ d = c0
    BY <2>1 DEF Range
  <2> QED
    BY <1>2, <2>2 DEF q
<1>4. c0.name = i /\ Block(c0) = from
  BY DEF Copy, Block, Own
<1>5. SharingWith(n, i) = O
  BY OneInput
<1>6. \/ t = O /\ \A k \in DOMAIN r.tree : i \notin r.tree[k]
      \/ \E k \in DOMAIN r.tree : i \in r.tree[k] /\ t = r.tree[k] \cup O
  BY <1>5 DEF Shares, reg_self_lock_tree
<1>7. \A a \in O : a \in arcs /\ a[1] = n /\ Via(a) /\ Own(s.v, a) = from
  BY <1>1 DEF OutArcs
<1>8. \A a \in arcs : a[1] = n => a \in OutArcs(n) /\ (a \in fixed \/ a \in O)
  BY DEF OutArcs
<1>9. /\ \A a \in arcs : Live(a, n + 1) => a[1] = n \/ Live(a, n)
      /\ \A a \in arcs : Live(a, n) => a[1] < n /\ a[1] # n
      /\ \A a \in arcs : Live(a, n) /\ ~Live(a, n + 1) => a = i
      /\ ~Live(i, n + 1)
      /\ \A a \in O : Live(a, n + 1)
  <2>1. opName[n] # "Output"
    BY DEF SelfShared
  <2>2. \A a \in arcs : a[1] < n => a[1] # n
    BY <1>0
  <2> QED
    BY <1>1, <2>1, <2>2, LiveNext
<1>10. /\ \A c \in Range(r.free) : Block(c) \in arcs /\ Block(c)[2] < n
       /\ \A c \in Range(r.self) : Block(c) \in arcs /\ Block(c)[2] < n
       /\ \A c \in Range(r.self) : c.name \in DOMAIN r.tree /\ c.name \in arcs /\ c.name[2] < n
                                   /\ c.name # i /\ c.name[1] # n
  <2>1. DOMAIN r.tree \subseteq arcs
    BY DEF LaunchOK, ResOK
  <2>2. \A c \in Range(r.self) : c.name \in DOMAIN r.tree /\ c.name[2] < n
    BY DEF LaunchOK, BlocksOK
  <2>3. \A a \in arcs : a[2] < n => a # i /\ a[1] # n
    BY <1>0, <1>1
  <2> QED
    BY <2>1, <2>2, <2>3 DEF LaunchOK, Settled, Rooted
<1> HIDE DEF from, c0, O
\* The tree of an older copy is left alone.
<1>11. \A c \in Range(r.self) : s.tree[c.name] = r.tree[c.name]
                               /\ (Stuck(s.tree, c) <=> Stuck(r.tree, c))
  BY <1>2, <1>10 DEF Stuck
\* An exact one does not stand for the block of i: the tree would hold i, for good.
<1>12. ASSUME NEW c \in Range(r.self), ~Stuck(r.tree, c) PROVE Exact(r, n, c) /\ Block(c) # from
  <2>1. Exact(r, n, c)
    BY <1>12 DEF BlocksOK
  <2>2. ASSUME Block(c) = from PROVE FALSE
    <3>1. i \in r.tree[c.name]
      BY <1>1, <2>1, <2>2 DEF Exact, from
    <3> QED
      BY <1>1, <1>12, <3>1 DEF Stuck
  <2> QED
    BY <2>1, <2>2
<1>13. \A c \in Range(r.free) : Block(c) # from
  BY <1>1 DEF BlocksOK, from
<1>14. ASSUME NEW c \in Range(s.free), NEW a \in arcs, Live(a, n + 1) PROVE Own(s.v, a) # Block(c)
  <2>1. c \in Range(r.free)
    BY <1>2, <1>14
  <2>2. CASE a[1] = n
    <3>1. a # Block(c) /\ a \in OutArcs(n)
      BY <1>0, <1>8, <1>10, <2>1, <2>2
    <3> QED
      BY <1>1, <1>13, <2>1, <3>1
  <2>3. CASE a[1] # n
    BY <1>1, <1>9, <1>14, <2>1, <2>3 DEF BlocksOK
  <2> QED
    BY <2>2, <2>3
<1>15. ASSUME NEW c \in s.lock PROVE Block(c) = Own(s.v, c.name) /\ ~Via(c.name)
  <2>1. c \in r.lock /\ c.name \in arcs /\ c.name[1] < n
    <3>1. c \in r.lock /\ c \in Copies
      BY <1>2 DEF LaunchOK, ResOK
    <3> QED
      BY <3>1 DEF Copies, LaunchOK
  <2>2. c.name[1] # n
    BY <1>0, <2>1
  <2> QED
    BY <1>1, <2>1, <2>2 DEF BlocksOK
<1>16. ASSUME NEW k \in DOMAIN s.tree PROVE k[2] < n + 1 /\ \A a \in s.tree[k] : Via(a)
  <2>0. \A j \in DOMAIN r.tree : j \in arcs /\ j[2] < n /\ \A a \in r.tree[j] : Via(a)
    BY DEF LaunchOK, ResOK, BlocksOK
  <2>1. CASE k = i
    <3>1. \A a \in t : Via(a)
      BY <1>6, <1>7, <2>0
    <3> QED
      BY <1>0, <1>1, <1>2, <2>1, <3>1
  <2>2. CASE k # i
    BY <1>0, <1>2, <2>0, <2>2
  <2> QED
    BY <2>1, <2>2
<1>17. ASSUME NEW a \in arcs, a[1] < n + 1, n + 1 <= a[2], Via(a)
       PROVE  \E k \in DOMAIN s.tree : a \in s.tree[k]
  <2>1. CASE a[1] = n
    <3>1. a \in O
      BY <1>8, <1>17, <2>1 DEF Via
    <3> QED
      BY <1>2, <1>6, <3>1
  <2>2. CASE a[1] < n
    <3>1. PICK k \in DOMAIN r.tree : a \in r.tree[k]
      BY <1>0, <1>17, <2>2 DEF BlocksOK
    <3>2. k \in arcs /\ k[2] < n
      BY DEF LaunchOK, ResOK, BlocksOK
    <3>3. k # i
      BY <1>0, <1>1, <3>2
    <3> QED
      BY <1>2, <3>1, <3>3
  <2> QED
    BY <1>0, <1>17, <2>1, <2>2
<1>18. ASSUME NEW c \in Range(r.self), ~Stuck(r.tree, c) PROVE Exact(s, n + 1, c)
  <2>1. Exact(r, n, c) /\ Block(c) # from
    BY <1>12, <1>18
  <2>2. s.tree[c.name] = r.tree[c.name]
    BY <1>11
  <2>3. ASSUME NEW a \in arcs PROVE a \in s.tree[c.name] <=> Live(a, n + 1) /\ Own(s.v, a) = Block(c)
    <3>1. a \in s.tree[c.name] <=> Live(a, n) /\ Own(r.v, a) = Block(c)
      BY <2>1, <2>2 DEF Exact
    <3>2. CASE a[1] = n
      <4>1. a # Block(c) /\ a \in OutArcs(n)
        BY <1>0, <1>8, <1>10, <3>2
      <4>2. Own(s.v, a) # Block(c)
        BY <1>1, <2>1, <4>1
      <4> QED
        BY <1>9, <3>1, <3>2, <4>2
    <3>3. CASE a[1] # n
      <4>1. Own(s.v, a) = Own(r.v, a)
        BY <1>1, <3>3
      <4>2. a = i => Own(r.v, a) # Block(c)
        BY <2>1 DEF from
      <4> QED
        BY <1>9, <3>1, <3>3, <4>1, <4>2
    <3> QED
      BY <3>2, <3>3
  <2>4. \A d \in Range(s.free) : Block(d) # Block(c)
    BY <1>2, <2>1 DEF Exact
  <2>5. \A d \in Range(s.self) : d # c => Stuck(s.tree, d) \/ Block(d) # Block(c)
    BY <1>3, <1>4, <1>11, <2>1 DEF Exact
  <2> QED
    BY <2>3, <2>4, <2>5 DEF Exact
\* The new copy.
<1>19. Stuck(s.tree, c0) \/ Exact(s, n + 1, c0)
  <2>1. CASE \E k \in DOMAIN r.tree : i \in r.tree[k] /\ t = r.tree[k] \cup O
    BY <1>1, <1>2, <1>4, <2>1 DEF Stuck
  <2>2. CASE t = O /\ \A k \in DOMAIN r.tree : i \notin r.tree[k]
    <3>1. ~Via(i)
      <4>1. i[1] < n /\ n <= i[2]
        BY <1>0, <1>1
      <4> QED
        BY <1>1, <2>2, <4>1 DEF BlocksOK
    <3>2. ASSUME NEW a \in arcs PROVE a \in s.tree[c0.name] <=> Live(a, n + 1) /\ Own(s.v, a) = Block(c0)
      <4>1. s.tree[c0.name] = O
        BY <1>2, <1>4, <2>2
      <4>2. ASSUME Live(a, n + 1), Own(s.v, a) = from PROVE a \in O
        <5>1. CASE a[1] = n
          BY <1>1, <1>8, <4>2, <5>1
        <5>2. CASE a[1] # n
          <6>1. Live(a, n) /\ Own(r.v, a) = Own(r.v, i) /\ a # i
            BY <1>1, <1>9, <4>2, <5>2 DEF from
          <6>2. a[1] < n /\ n <= End(a)
            BY <6>1 DEF Live
          <6>3. CASE a[1] <= i[1]
            <7>1. i[1] <= End(a)
              BY <1>0, <1>1, <6>2
            <7> QED
              BY <1>1, <3>1, <6>1, <6>2, <6>3, <7>1 DEF PlanOK, Disjoint
          <6>4. CASE i[1] <= a[1]
            <7>1. a[1] <= End(i)
              BY <1>0, <1>1, <6>2
            <7>2. a[1] = i[2] \/ Via(i)
              BY <1>1, <6>1, <6>2, <6>4, <7>1 DEF PlanOK, Disjoint
            <7> QED
              BY <1>1, <3>1, <5>2, <7>2
          <6> QED
            BY <1>0, <1>1, <6>3, <6>4
        <5> QED
          BY <5>1, <5>2
      <4> QED
        BY <1>4, <1>7, <1>9, <4>1, <4>2
    <3>3. \A d \in Range(s.free) : Block(d) # Block(c0)
      BY <1>2, <1>4, <1>13
    <3>4. \A d \in Range(s.self) : d # c0 => Stuck(s.tree, d) \/ Block(d) # Block(c0)
      BY <1>3, <1>4, <1>11, <1>12
    <3> QED
      BY <3>2, <3>3, <3>4 DEF Exact
  <2> QED
    BY <1>6, <2>1, <2>2
<1>20. ASSUME NEW c \in Range(s.self)
       PROVE  /\ Block(c) = Own(s.v, c.name) /\ c.name[2] < n + 1
              /\ Stuck(s.tree, c) \/ Exact(s, n + 1, c)
  <2>1. CASE c \in Range(r.self)
    <3>1. c.name \in arcs /\ c.name[1] # n /\ c.name[2] < n
      BY <1>10, <2>1
    <3>2. Block(c) = Own(r.v, c.name)
      BY <2>1 DEF BlocksOK
    <3> QED
      BY <1>0, <1>1, <1>11, <1>18, <2>1, <3>1, <3>2
  <2>2. CASE c = c0
    <3>1. Own(s.v, i) = from
      BY <1>0, <1>1 DEF from
    <3> QED
      BY <1>0, <1>1, <1>4, <1>19, <2>2, <3>1
  <2> QED
    BY <1>3, <2>1, <2>2
<1> QED
  BY <1>14, <1>15, <1>16, <1>17, <1>20 DEF BlocksOK

-----------------------------------------------------------------------------
(* check_memory finds nothing to correct where only Split has no kernel.   *)

\* connect_table, by its definition.
LEMMA ReachedDef ==
  ASSUME GraphOK
  PROVE  \A n \in Nodes : Reached[n] = {n} \cup UNION {Reached[a[2]] : a \in OutArcs(n)}
<1> DEFINE val(T, m) == {m} \cup UNION {T[a[2]] : a \in OutArcs(m)}
           S == SUBSET Nodes
           h == [m \in Nodes |-> [T \in [Nodes -> S] |-> val(T, m)]]
<1>0. /\ N \in Nat /\ Nodes = 1 .. N
      /\ \A a \in arcs : a[1] \in Nodes /\ a[2] \in Nodes /\ a[1] < a[2]
  BY MemAssumption DEF GraphOK, Nodes
<1>1. \A m : \A a \in OutArcs(m) : a \in arcs /\ a[2] \in Nodes /\ a[1] = m /\ m < a[2]
  BY <1>0 DEF OutArcs
<1>2. Tables(h, N, S)
  <2>1. \A m \in Nodes, T \in [Nodes -> S] : val(T, m) \in S
    BY <1>1
  <2>2. ASSUME NEW m \in Nodes, NEW T \in [Nodes -> S], NEW U \in [Nodes -> S],
               \A k \in Nodes : m < k => T[k] = U[k]
        PROVE  val(T, m) = val(U, m)
    <3>1. \A a \in OutArcs(m) : T[a[2]] = U[a[2]]
      BY <1>1, <2>2
    <3>2. {T[a[2]] : a \in OutArcs(m)} = {U[a[2]] : a \in OutArcs(m)}
      BY <3>1
    <3> QED
      BY <3>2
  <2> HIDE DEF val, S
  <2>3. h \in [Nodes -> [[Nodes -> S] -> S]]
    BY <2>1
  <2>4. \A m \in Nodes : \A T \in [Nodes -> S] : h[m][T] = val(T, m)
    OBVIOUS
  <2> HIDE DEF h
  <2>5. ASSUME NEW m \in Nodes, NEW T \in [Nodes -> S], NEW U \in [Nodes -> S],
               \A k \in Nodes : m < k => T[k] = U[k]
        PROVE  h[m][T] = h[m][U]
    BY <2>2, <2>4, <2>5
  <2>6. \A m \in Nodes : \A T, U \in [Nodes -> S] :
          (\A k \in Nodes : m < k => T[k] = U[k]) => h[m][T] = h[m][U]
    BY <2>5
  <2>7. Tables(h, N, S) <=>
          /\ h \in [Nodes -> [[Nodes -> S] -> S]]
          /\ \A m \in Nodes : \A T, U \in [Nodes -> S] :
               (\A k \in Nodes : m < k => T[k] = U[k]) => h[m][T] = h[m][U]
    BY Zenon DEF Tables, Nodes
  <2> QED
    BY <2>3, <2>6, <2>7
<1>3. PICK T \in [Nodes -> S] : \A m \in Nodes : T[m] = val(T, m)
  <2>1. {} \in S
    OBVIOUS
  <2>2. \A m \in Nodes : \A U \in [Nodes -> S] : h[m][U] = val(U, m)
    OBVIOUS
  <2> HIDE DEF h, S, val
  <2>3. PICK T \in [1 .. N -> S] : \A m \in 1 .. N : T[m] = h[m][T]
    BY <1>0, <1>2, <2>1, TableExists
  <2> QED
    BY <1>0, <2>2, <2>3
<1> DEFINE f == CHOOSE g : g = [m \in Nodes |-> val(g, m)]
<1>4. f = [m \in Nodes |-> val(f, m)]
  <2>1. T = [m \in Nodes |-> val(T, m)]
    <3> HIDE DEF val
    <3> QED
      BY <1>3
  <2> QED
    BY <2>1
<1>5. Reached = f
  BY DEF Reached
<1> HIDE DEF f
<1>6. \A m \in Nodes : f[m] = val(f, m)
  <2> HIDE DEF val
  <2> QED
    BY <1>4
<1> QED
  BY <1>5, <1>6

\* A vertex reaches those behind its outputs, and those behind them.
LEMMA ReachedFacts ==
  ASSUME GraphOK
  PROVE  /\ \A a \in arcs : a[2] \in Reached[a[1]]
         /\ \A a, b \in arcs : a[2] = b[1] => b[2] \in Reached[a[1]]
<1>1. \A n \in Nodes : Reached[n] = {n} \cup UNION {Reached[a[2]] : a \in OutArcs(n)}
  BY ReachedDef
<1>2. \A a \in arcs : a[1] \in Nodes /\ a[2] \in Nodes /\ a \in OutArcs(a[1])
  BY DEF GraphOK, OutArcs
<1>3. \A n \in Nodes : n \in Reached[n]
  BY <1>1
<1>4. \A a \in arcs : \A n \in Reached[a[2]] : n \in Reached[a[1]]
  BY <1>1, <1>2
<1> QED
  BY <1>2, <1>3, <1>4

LEMMA PlainUnmerged ==
  ASSUME Plain
  PROVE  Unmerged
BY DEF Plain, Unmerged

\* What looks like a wrong order would be two ios in use with one block.
LEMMA NoWrongOrder ==
  ASSUME GraphShape, Len(opName) = N, Open = {}, Plain, NEW v, Hop(v), PlanOK(v, N + 1),
         NEW n \in Nodes, NEW i \in 1 .. (n - 1)
  PROVE  ~WrongOrder(v, i, n)
<1> SUFFICES ASSUME i \notin Reached[n], n \notin Reached[i],
                    NEW in \in InArcs(n), NEW out \in OutArcs(i),
                    OutArcs(i) = {out}, ~(out[2] < in[1]), v[out].shared,
                    v[out].share_from \in {in, v[in].share_from}
             PROVE  FALSE
  BY DEF WrongOrder
<1>0. /\ n \in Nat /\ N \in Nat /\ n <= N /\ i \in Nat /\ i < n /\ i \in Nodes
      /\ \A a \in arcs : /\ a[1] \in Nat /\ a[2] \in Nat /\ a[1] < a[2] /\ End(a) \in Nat
                         /\ a[2] <= End(a) /\ a[1] < N + 1
  <2>1. /\ n \in Nat /\ N \in Nat /\ n <= N
        /\ \A a \in arcs : /\ a[1] \in Nat /\ a[2] \in Nat /\ a[1] < a[2] /\ End(a) \in Nat
                           /\ a[2] <= End(a) /\ a[2] <= N
    BY Positions
  <2> QED
    BY <2>1 DEF Nodes
<1>1. in \in arcs /\ in[2] = n /\ out \in arcs /\ out[1] = i
  BY DEF InArcs, OutArcs
<1>2. GraphOK /\ NoArc \notin arcs
  BY NoArcNot DEF GraphShape
\* A Split has two outputs.
<1>3. ~SelfShared(i)
  <2>1. opName[i] # "Reshape" /\ opName[i] # "Gather"
    <3>1. i \in 1 .. Len(opName)
      BY <1>0
    <3> QED
      BY <3>1 DEF Plain, Drawn, GraphShape
  <2>2. ASSUME opName[i] = "Split" PROVE FALSE
    <3>1. Arity[opName[i]][2] = 2
      BY <2>2 DEF Arity
    <3>2. Cardinality(OutArcs(i)) = 1
      BY FS_Singleton
    <3>3. Missing(i) = 1
      BY <3>1, <3>2 DEF Missing
    <3>4. i \in 1 .. Drawn
      BY <1>0 DEF Drawn
    <3>5. i \in Open
      BY <3>3, <3>4 DEF Open
    <3> QED
      BY <3>5
  <2> QED
    BY <2>1, <2>2 DEF SelfShared
<1>4. ~Via(out)
  BY <1>1, <1>3 DEF Via
<1>5. out # in
  BY <1>1, <1>2, ReachedFacts
<1>6. v[out].share_from # in
  <2>1. v[out].share_from[2] <= i
    BY <1>1 DEF PlanOK
  <2> QED
    BY <1>0, <1>1, <2>1
<1>7. Own(v, out) = Own(v, in)
  <2>1. v[out].share_from = v[in].share_from /\ v[out].share_from \in arcs
    BY <1>1, <1>6 DEF Hop
  <2>2. v[in].shared
    BY <1>1, <1>2, <2>1 DEF PlanOK, Marked
  <2> QED
    BY <2>1, <2>2 DEF Own
<1>8. CASE in[1] <= out[1]
  <2>1. out[1] <= End(in)
    BY <1>0, <1>1
  <2> QED
    BY <1>0, <1>1, <1>4, <1>5, <1>7, <1>8, <2>1 DEF PlanOK, Disjoint
<1>9. CASE out[1] <= in[1]
  <2>1. in[1] <= End(out)
    BY <1>0, <1>1
  <2>2. in[1] = out[2]
    BY <1>0, <1>1, <1>4, <1>5, <1>7, <1>9, <2>1 DEF PlanOK, Disjoint
  <2> QED
    BY <1>1, <1>2, <2>2, ReachedFacts
<1> QED
  BY <1>0, <1>1, <1>8, <1>9

\* So check_node leaves a plain plan alone.
LEMMA CheckNothing ==
  ASSUME GraphShape, Len(opName) = N, Open = {}, Plain, io \in Plans, PlanOK(io, N + 1),
         NEW n \in Nodes
  PROVE  check_node(n) = io
<1> DEFINE h == CheckLoop(n)
           M == n - 1
           K == {i \in 0 .. M : h[i] = io}
<1>1. M \in Nat
  BY MemAssumption DEF Nodes
<1>2. h[0] = io /\ \A i \in 1 .. M : h[i] =
        LET v == h[i - 1] IN IF WrongOrder(v, i, n) THEN Correct(v, i) ELSE v
  BY CheckLoopDef
<1>3. \A i \in 1 .. M : ~WrongOrder(io, i, n)
  <2>1. Hop(io)
    BY DEF Plans
  <2> QED
    BY <2>1, NoWrongOrder
<1> HIDE DEF h, M
<1>4. 0 \in K
  BY <1>1, <1>2
<1>5. ASSUME NEW i \in 1 .. M, i - 1 \in K PROVE i \in K
  <2>1. h[i - 1] = io
    BY <1>5
  <2> QED
    BY <1>1, <1>2, <1>3, <2>1
<1> HIDE DEF K
<1>6. \A i \in 0 .. M : i \in K
  BY <1>1, <1>4, <1>5, LoopInduction
<1> QED
  BY <1>1, <1>6 DEF K, check_node, h, M

\* The plan, while it is made and after.
PlanInv ==
  /\ Unmerged /\ phase = "launch" => PlanOK(io, next) /\ BlocksOK(Res, next)
  /\ Plain /\ phase \in {"check", "planned"} => PlanOK(io, N + 1)

LEMMA PlanKept ==
  ASSUME UNCHANGED graphVars
  PROVE  /\ \A m : PlanOK(io', m) => PlanOK(io, m)'
         /\ PlanOK(io', next') => PlanOK(io, next)'
         /\ BlocksOK(Res', next') => BlocksOK(Res, next)'
         /\ Plain' = Plain /\ Unmerged' = Unmerged
<1>0. arcs' = arcs /\ opName' = opName /\ lane' = lane /\ fixed' = fixed
  BY DEF graphVars
<1>1. \A m : PlanOK(io', m) => PlanOK(io, m)'
  BY <1>0 DEF PlanOK, Disjoint, Own, Via, End, SelfShared, InArcs, Marked, NoArc
<1>2. PlanOK(io', next') => PlanOK(io, next)'
  BY <1>0 DEF PlanOK, Disjoint, Own, Via, End, SelfShared, InArcs, Marked, NoArc
<1>3. BlocksOK(Res', next') => BlocksOK(Res, next)'
  BY <1>0 DEF BlocksOK, Exact, Stuck, Block, Live, Own, Via, End, SelfShared, Range
<1>4. Plain' = Plain /\ Unmerged' = Unmerged
  BY <1>0 DEF Plain, Unmerged, Drawn
<1> QED
  BY <1>1, <1>2, <1>3, <1>4

LEMMA DrawEndsPlan ==
  ASSUME MemInv, DrawEnds
  PROVE  PlanInv'
<1>1. MemInv'
  BY DrawEndsInv
<1>2. /\ phase' = "launch" /\ next' = 1 /\ _free' = <<>> /\ _lock' = {} /\ _self_lock' = <<>>
      /\ _self_lock_next_tree' = <<>> /\ io' = [a \in arcs' |-> Fresh]
  BY DEF DrawEnds, MemInv, Fresh, resVars
<1>3. \A a \in arcs' : ~(a[1] < 1)
  BY <1>1, MemAssumption DEF MemInv, GraphShape, GraphOK, Nodes
<1>4. Fresh.shared = FALSE /\ Marked(Fresh)'
  BY DEF Fresh, Marked, NoArc
<1>5. \A a \in arcs' : io'[a] = Fresh
  <2> HIDE DEF Fresh
  <2> QED
    BY <1>2
<1>6. PlanOK(io, next)'
  BY <1>2, <1>3, <1>4, <1>5 DEF PlanOK, Disjoint
<1>7. (Res.free = _free /\ Res.lock = _lock /\ Res.self = _self_lock
       /\ Res.tree = _self_lock_next_tree /\ Res.v = io)'
  BY DEF Res
<1>8. Range(<<>>) = {} /\ DOMAIN <<>> = {}
  BY DEF Range
<1>9. BlocksOK(Res, next)'
  BY <1>2, <1>3, <1>7, <1>8 DEF BlocksOK
<1> QED
  BY <1>2, <1>6, <1>9 DEF PlanInv

LEMMA LaunchPlan ==
  ASSUME MemInv, PlanInv, LaunchKernel \/ LaunchSelfShared
  PROVE  PlanInv'
<1>1. /\ phase = "launch" /\ next \in Nodes /\ next' = next + 1 /\ UNCHANGED graphVars
      /\ phase' = phase
      /\ GraphShape /\ Len(opName) = N /\ LaunchOK(Res, next)
      /\ Unmerged => LaunchFixed(Res)
      /\ LaunchSelfShared => SelfShared(next) /\ InArcs(next) # {}
      /\ LaunchKernel => ~SelfShared(next)
  BY LaunchStep
<1>2. GraphOK /\ Res.v = io /\ Res'.v = io'
  BY <1>1 DEF GraphShape, Res
<1>3. Unmerged => PlanOK(Res.v, next) /\ BlocksOK(Res, next)
  BY <1>1, <1>2 DEF PlanInv
<1>4. ASSUME Unmerged PROVE PlanOK(Res'.v, next + 1) /\ BlocksOK(Res', next + 1)
  <2>1. CASE LaunchKernel
    <3>1. Kernel(Res, Res', next)
      BY <1>1, <1>2, <2>1, LaunchKernelResult
    <3>2. PlanOK(Res'.v, next + 1)
      BY <1>1, <1>3, <1>4, <2>1, <3>1, KernelPlan
    <3>3. BlocksOK(Res', next + 1)
      BY <1>1, <1>3, <1>4, <2>1, <3>1, KernelBlocks
    <3> QED
      BY <3>2, <3>3
  <2>2. CASE LaunchSelfShared
    <3>0. PICK i \in InArcs(next) : \E t : Shares(Res, Res', next, i, t)
      BY <1>1, <1>2, <2>2, LaunchSelfSharedResult
    <3>1. PICK t : Shares(Res, Res', next, i, t)
      BY <3>0
    <3>2. PlanOK(Res'.v, next + 1)
      BY <1>1, <1>3, <1>4, <2>2, <3>1, SharesPlan
    <3>3. BlocksOK(Res', next + 1)
      BY <1>1, <1>3, <1>4, <2>2, <3>1, SharesBlocks
    <3> QED
      BY <3>2, <3>3
  <2> QED
    BY <2>1, <2>2
<1>5. Unmerged => PlanOK(io', next') /\ BlocksOK(Res', next')
  BY <1>1, <1>2, <1>4
<1>6. (Unmerged => PlanOK(io, next) /\ BlocksOK(Res, next))'
  BY <1>1, <1>5, PlanKept
<1> QED
  BY <1>1, <1>6 DEF PlanInv

\* check_memory leaves the plan of a model without Reshape alone.
LEMMA CheckPlan ==
  ASSUME MemInv, PlanInv, StartCheck \/ CheckNode \/ EndCheck
  PROVE  PlanInv' /\ (Plain => io' = io)
<1>1. UNCHANGED graphVars /\ phase' \in {"check", "planned"} /\ phase # "draw"
  BY DEF StartCheck, CheckNode, EndCheck
<1>2. GraphShape /\ Len(opName) = N /\ Open = {} /\ io \in Plans
  BY <1>1 DEF MemInv
<1>3. ASSUME Plain PROVE PlanOK(io, N + 1) /\ io' = io
  <2>0. Unmerged
    BY <1>3, PlainUnmerged
  <2>1. CASE StartCheck
    <3>1. next = N + 1 /\ phase = "launch" /\ io' = io
      BY <2>1, MemAssumption DEF StartCheck, MemInv
    <3> QED
      BY <2>0, <3>1 DEF PlanInv
  <2>2. CASE CheckNode
    <3>1. phase = "check" /\ que # <<>> /\ io' = check_node(Head(que)) /\ que \in Seq(Nodes)
      BY <2>2 DEF CheckNode, MemInv
    <3>2. Head(que) \in Nodes
      BY <3>1
    <3>3. PlanOK(io, N + 1)
      BY <1>3, <3>1 DEF PlanInv
    <3> QED
      BY <1>2, <1>3, <3>1, <3>2, <3>3, CheckNothing
  <2>3. CASE EndCheck
    <3>1. phase = "check" /\ io' = io
      BY <2>3 DEF EndCheck
    <3> QED
      BY <1>3, <3>1 DEF PlanInv
  <2> QED
    BY <2>1, <2>2, <2>3
<1>4. Plain => PlanOK(io', N + 1)
  BY <1>3
<1>5. (Plain => PlanOK(io, N + 1))'
  BY <1>1, <1>4, PlanKept
<1> QED
  BY <1>1, <1>3, <1>5 DEF PlanInv

\* In a model without merged convolutions no two ios in use have one block, unless
\* they share it along vertices without kernel, and the lists know which blocks are
\* in use; in a plain model this is still so after check_memory.
THEOREM PlanInvariant ==
  MemSpec => []PlanInv
<1>1. MemInit => PlanInv
  BY DEF MemInit, PlanInv
<1>2. MemInv /\ PlanInv /\ [MemNext]_memVars => PlanInv'
  <2> SUFFICES ASSUME MemInv, PlanInv, [MemNext]_memVars PROVE PlanInv'
    OBVIOUS
  <2>1. CASE \E o \in Ops, p \in SUBSET Open : Draw(o, p)
    <3>1. phase' = "draw"
      BY <2>1 DEF Draw
    <3> QED
      BY <3>1 DEF PlanInv
  <2>2. CASE DrawEnds
    BY <2>2, DrawEndsPlan
  <2>3. CASE LaunchKernel \/ LaunchSelfShared
    BY <2>3, LaunchPlan
  <2>4. CASE StartCheck \/ CheckNode \/ EndCheck
    BY <2>4, CheckPlan
  <2>5. CASE UNCHANGED memVars
    <3>1. UNCHANGED graphVars /\ Res' = Res /\ next' = next /\ io' = io /\ phase' = phase
      BY <2>5 DEF memVars, graphVars, resVars, walkVars, Res
    <3> QED
      BY <3>1, PlanKept DEF PlanInv
  <2> QED
    BY <2>1, <2>2, <2>3, <2>4, <2>5 DEF MemNext
<1> QED
  BY <1>1, <1>2, MemInvariant, PTL DEF MemSpec

\* check_memory finds no wrong order in a model in which all but Split have a kernel.
THEOREM CheckChangesNothing ==
  MemSpec => CheckDoesNothing
<1>1. MemInv /\ PlanInv /\ [MemNext]_memVars => [phase = "check" /\ Plain => io' = io]_memVars
  <2> SUFFICES ASSUME MemInv, PlanInv, [MemNext]_memVars, phase = "check", Plain PROVE io' = io
    OBVIOUS
  <2>1. CASE UNCHANGED memVars
    BY <2>1 DEF memVars
  <2>2. CASE StartCheck \/ CheckNode \/ EndCheck
    BY <2>2, CheckPlan
  <2>3. CASE (\E o \in Ops, p \in SUBSET Open : Draw(o, p)) \/ DrawEnds \/ LaunchKernel \/ LaunchSelfShared
    BY <2>3 DEF Draw, DrawEnds, LaunchKernel, LaunchSelfShared, Launching
  <2> QED
    BY <2>1, <2>2, <2>3 DEF MemNext
<1> QED
  BY <1>1, MemInvariant, PlanInvariant, PTL DEF MemSpec, CheckDoesNothing

-----------------------------------------------------------------------------
(* A plan without conflicts is sound.                                      *)

\* Source, by its definition: a vertex without kernel hands on its input.
LEMMA SourceDef ==
  ASSUME GraphShape, Len(opName) = N, Unmerged
  PROVE  \A a \in arcs :
           /\ ~SelfShared(a[1]) => Source[a] = a
           /\ SelfShared(a[1]) => \E s \in arcs : InArcs(a[1]) = {s} /\ Source[a] = Source[s]
<1> DEFINE Tab == [arcs -> arcs]
           val(T, a) ==
             CASE opName[a[1]] \in {"Split", "Reshape"} -> T[Only(InArcs(a[1]))]
               [] opName[a[1]] = "Gather" ->
                    Only({b \in InArcs(a[1]) : opName[b[1]] = "ConvEltwise"})
               [] OTHER -> a
<1>0. /\ N \in Nat
      /\ \A a \in arcs : /\ a[1] \in Nat /\ a[1] \in 1 .. N /\ a[2] \in Nat /\ a[1] < a[2]
                         /\ opName[a[1]] # "Gather"
  <2>1. /\ N \in Nat
        /\ \A a \in arcs : a[1] \in Nat /\ a[1] \in 1 .. N /\ a[2] \in Nat /\ a[1] < a[2]
    BY MemAssumption DEF GraphShape, GraphOK, Nodes
  <2> QED
    BY <2>1 DEF GraphShape, Unmerged, Drawn
<1>1. ASSUME NEW a \in arcs, opName[a[1]] \in {"Split", "Reshape"}
      PROVE  \E s \in arcs : InArcs(a[1]) = {s} /\ Only(InArcs(a[1])) = s /\ s[1] < a[1]
  <2>1. PICK s \in arcs : InArcs(a[1]) = {s}
    BY <1>0, <1>1 DEF GraphShape
  <2>2. Only({s}) = s
    BY DEF Only
  <2>3. s[2] = a[1]
    BY <2>1 DEF InArcs
  <2> QED
    BY <1>0, <2>1, <2>2, <2>3
<1>2. \A a \in arcs : \A T :
        val(T, a) = IF opName[a[1]] \in {"Split", "Reshape"} THEN T[Only(InArcs(a[1]))] ELSE a
  BY <1>0
<1> HIDE DEF val
<1>3. \A a \in arcs : \A T \in Tab : val(T, a) \in arcs
  BY <1>1, <1>2
<1>4. ASSUME NEW a \in arcs, NEW T, NEW U, \A b \in arcs : b[1] < a[1] => T[b] = U[b]
      PROVE  val(T, a) = val(U, a)
  BY <1>1, <1>2, <1>4
<1> DEFINE Is(T, k) == \A a \in arcs : a[1] <= k => T[a] = val(T, a)
           K == {k \in 0 .. N : \E T \in Tab : Is(T, k)}
<1>5. 0 \in K
  <2> DEFINE T == [a \in arcs |-> a]
  <2>1. T \in Tab
    OBVIOUS
  <2> HIDE DEF T
  <2>2. Is(T, 0)
    BY <1>0
  <2> QED
    BY <1>0, <2>1, <2>2
<1>6. ASSUME NEW k \in 1 .. N, k - 1 \in K PROVE k \in K
  <2>1. PICK T \in Tab : Is(T, k - 1)
    BY <1>6
  <2> DEFINE U == [a \in arcs |-> IF a[1] = k THEN val(T, a) ELSE T[a]]
  <2>2. U \in Tab /\ \A a \in arcs : U[a] = IF a[1] = k THEN val(T, a) ELSE T[a]
    BY <1>3
  <2> HIDE DEF U
  <2>3. ASSUME NEW a \in arcs, a[1] <= k PROVE U[a] = val(U, a)
    <3>1. val(T, a) = val(U, a)
      <4>1. \A b \in arcs : b[1] < a[1] => T[b] = U[b]
        BY <1>0, <2>2, <2>3
      <4> QED
        BY <1>4, <4>1
    <3>2. CASE a[1] = k
      BY <2>2, <3>1, <3>2
    <3>3. CASE a[1] # k
      <4>1. a[1] <= k - 1
        BY <1>0, <2>3, <3>3
      <4>2. T[a] = val(T, a)
        BY <2>1, <4>1
      <4> QED
        BY <2>2, <3>1, <3>3, <4>2
    <3> QED
      BY <3>2, <3>3
  <2>4. Is(U, k)
    BY <2>3
  <2>5. k \in 0 .. N
    BY <1>0
  <2> QED
    BY <2>2, <2>4, <2>5
<1>7. N \in K
  <2> HIDE DEF K
  <2>1. \A k \in 0 .. N : k \in K
    BY <1>0, <1>5, <1>6, LoopInduction
  <2> QED
    BY <1>0, <2>1
<1>8. PICK T \in Tab : Is(T, N)
  BY <1>7
<1>9. T = [a \in arcs |-> val(T, a)]
  <2>1. \A a \in arcs : T[a] = val(T, a)
    BY <1>0, <1>8
  <2> QED
    BY <2>1
<1> DEFINE h == CHOOSE e : e = [a \in arcs |-> val(e, a)]
<1>10. h = [a \in arcs |-> val(h, a)]
  BY <1>9
<1>11. Source = h
  BY DEF Source, val
<1> HIDE DEF h
<1>12. \A a \in arcs : h[a] = val(h, a)
  BY <1>10
<1>13. \A a \in arcs : SelfShared(a[1]) <=> opName[a[1]] \in {"Split", "Reshape"}
  BY <1>0 DEF SelfShared
<1>14. ASSUME NEW a \in arcs, ~SelfShared(a[1]) PROVE h[a] = a
  BY <1>2, <1>12, <1>13, <1>14
<1>15. ASSUME NEW a \in arcs, SelfShared(a[1])
       PROVE  \E s \in arcs : InArcs(a[1]) = {s} /\ h[a] = h[s]
  <2>1. PICK s \in arcs : InArcs(a[1]) = {s} /\ Only(InArcs(a[1])) = s
    BY <1>1, <1>13, <1>15
  <2>2. val(h, a) = h[Only(InArcs(a[1]))]
    BY <1>2, <1>13, <1>15
  <2>3. h[a] = val(h, a)
    BY <1>12
  <2>4. h[a] = h[s]
    BY <2>1, <2>2, <2>3, Zenon
  <2> QED
    BY <2>1, <2>4
<1> QED
  BY <1>11, <1>14, <1>15

\* s is what is to be read on a: it is in the block of a, and no other kernel
\* writes there from then on until a has been read.
Delivers(v, s, a) ==
  /\ s \in arcs /\ ~SelfShared(s[1]) /\ Own(v, s) = Own(v, a) /\ s[1] <= a[1]
  /\ \A b \in arcs : b # s /\ ~SelfShared(b[1]) /\ Own(v, b) = Own(v, a) /\ s[1] <= b[1]
                       => End(a) < b[1]

\* The source of every arc delivers, by induction along vertices without kernel.
LEMMA SourceDelivers ==
  ASSUME GraphShape, Len(opName) = N, Unmerged, Writable, NEW v, PlanOK(v, N + 1)
  PROVE  \A a \in arcs : Delivers(v, Source[a], a)
<1>0. /\ N \in Nat
      /\ \A a \in arcs : /\ a[1] \in Nat /\ a[2] \in Nat /\ a[1] < a[2] /\ a[2] <= N
                         /\ End(a) \in Nat /\ a[2] <= End(a) /\ a[1] < N + 1
                         /\ a[1] \in 0 .. N
      /\ \A a \in arcs : opName[a[2]] # "Output" => End(a) = a[2]
  <2>1. \A n \in Nodes :
          /\ \A a \in arcs : /\ a[1] \in Nat /\ a[2] \in Nat /\ a[1] < a[2] /\ a[2] <= N
                             /\ End(a) \in Nat /\ a[2] <= End(a)
          /\ \A a \in arcs : opName[a[2]] # "Output" => End(a) = a[2]
    BY Positions
  <2>2. N \in Nat /\ \A a \in arcs : a[1] \in Nodes /\ a[1] \in 1 .. N
    BY MemAssumption DEF GraphShape, GraphOK, Nodes
  <2> QED
    BY <2>1, <2>2
<1>1. \A a \in arcs : Via(a) <=> SelfShared(a[1])
  BY DEF Via, Writable
<1>2. \A a, b \in arcs : a # b /\ Own(v, a) = Own(v, b) /\ a[1] <= b[1] /\ ~SelfShared(b[1])
                           => End(a) < b[1]
  <2> SUFFICES ASSUME NEW a \in arcs, NEW b \in arcs, a # b, Own(v, a) = Own(v, b),
                      a[1] <= b[1], ~SelfShared(b[1]), ~(End(a) < b[1])
               PROVE  FALSE
    OBVIOUS
  <2>1. a[1] < N + 1 /\ b[1] < N + 1 /\ b[1] <= End(a)
    BY <1>0
  <2>2. Via(b)
    BY <2>1 DEF PlanOK, Disjoint
  <2> QED
    BY <1>1, <2>2
<1> DEFINE K == {k \in 0 .. N : \A a \in arcs : a[1] <= k => Delivers(v, Source[a], a)}
<1>3. 0 \in K
  <2>1. \A a \in arcs : ~(a[1] <= 0)
    BY MemAssumption DEF GraphShape, GraphOK, Nodes
  <2> QED
    BY <1>0, <2>1
<1>4. ASSUME NEW k \in 1 .. N, k - 1 \in K PROVE k \in K
  <2>1. ASSUME NEW a \in arcs, a[1] <= k PROVE Delivers(v, Source[a], a)
    <3>1. CASE ~SelfShared(a[1])
      <4>1. Source[a] = a
        BY <3>1, SourceDef
      <4> QED
        BY <1>0, <1>2, <3>1, <4>1 DEF Delivers
    <3>2. CASE SelfShared(a[1])
      <4>1. PICK s \in arcs : InArcs(a[1]) = {s} /\ Source[a] = Source[s]
        BY <3>2, SourceDef
      <4>2. s[2] = a[1] /\ Own(v, a) = Own(v, s)
        <5>1. s \in InArcs(a[1])
          BY <4>1
        <5>2. a[1] < N + 1 /\ Via(a)
          BY <1>0, <1>1, <3>2
        <5> QED
          BY <5>1, <5>2 DEF PlanOK, InArcs
      <4>3. End(s) = a[1]
        <5>1. opName[s[2]] # "Output"
          BY <3>2, <4>2 DEF SelfShared
        <5> QED
          BY <1>0, <4>2, <5>1
      <4>4. s[1] <= k - 1 /\ s[1] < a[1]
        BY <1>0, <2>1, <4>2
      <4>5. Delivers(v, Source[s], s)
        BY <1>4, <4>4
      <4> DEFINE c == Source[s]
      <4> HIDE DEF c
      <4>6. c \in arcs /\ ~SelfShared(c[1]) /\ Own(v, c) = Own(v, a) /\ c[1] <= a[1]
        <5>1. c \in arcs /\ ~SelfShared(c[1]) /\ Own(v, c) = Own(v, s) /\ c[1] <= s[1]
          BY <4>5 DEF Delivers, c
        <5> QED
          BY <1>0, <4>2, <4>4, <5>1
      <4>7. ASSUME NEW b \in arcs, b # c, ~SelfShared(b[1]), Own(v, b) = Own(v, a), c[1] <= b[1]
            PROVE  End(a) < b[1]
        <5>1. End(s) < b[1]
          BY <4>2, <4>5, <4>7 DEF Delivers, c
        <5>2. a[1] <= b[1] /\ a # b
          BY <1>0, <3>2, <4>3, <4>7, <5>1
        <5> QED
          BY <1>2, <4>7, <5>2
      <4>8. Delivers(v, c, a)
        BY <4>6, <4>7 DEF Delivers
      <4> QED
        BY <4>1, <4>8 DEF c
    <3> QED
      BY <3>1, <3>2
  <2>2. k \in 0 .. N
    BY <1>0
  <2> QED
    BY <2>1, <2>2
<1>5. \A k \in 0 .. N : k \in K
  <2> HIDE DEF K
  <2> QED
    BY <1>0, <1>3, <1>4, LoopInduction
<1>6. ASSUME NEW a \in arcs PROVE Delivers(v, Source[a], a)
  <2>1. a[1] \in K /\ a[1] <= a[1]
    BY <1>0, <1>5
  <2> QED
    BY <2>1
<1> QED
  BY <1>6

\* The writes to the block of a: s is the last one before a is read.
LEMMA WriterFacts ==
  ASSUME GraphShape, Len(opName) = N, NEW v, Hop(v), PlanOK(v, N + 1), NEW a \in arcs, NEW s,
         Delivers(v, s, a)
  PROVE  /\ WrittenAt(s) \in 0 .. N /\ WrittenAt(s) <= a[1]
         /\ WrittenTo(v, WrittenAt(s), Own(v, a)) = {s}
         /\ \A k \in 1 .. N : WrittenAt(s) < k /\ k < End(a) => WrittenTo(v, k, Own(v, a)) = {}
<1>0. /\ N \in Nat
      /\ \A b \in arcs : /\ b[1] \in Nat /\ b[2] \in Nat /\ b[1] < b[2] /\ b[2] <= N
                         /\ End(b) \in Nat /\ b[2] <= End(b)
                         /\ b[1] \in 1 .. N /\ b[2] \in 1 .. N
  <2>1. \A n \in Nodes :
          \A b \in arcs : /\ b[1] \in Nat /\ b[2] \in Nat /\ b[1] < b[2] /\ b[2] <= N
                          /\ End(b) \in Nat /\ b[2] <= End(b)
    BY Positions
  <2>2. N \in Nat /\ \A b \in arcs : b[1] \in Nodes /\ b[1] \in 1 .. N /\ b[2] \in 1 .. N
    BY MemAssumption DEF GraphShape, GraphOK, Nodes
  <2> QED
    BY <2>1, <2>2
<1>1. /\ s \in arcs /\ ~SelfShared(s[1]) /\ Own(v, s) = Own(v, a) /\ s[1] <= a[1]
      /\ \A b \in arcs : b # s /\ ~SelfShared(b[1]) /\ Own(v, b) = Own(v, a) /\ s[1] <= b[1]
                           => End(a) < b[1]
  BY DEF Delivers
<1>2. WrittenAt(s) \in 0 .. N /\ s \in Written(WrittenAt(s))
  BY <1>1, WrittenFacts
<1>3. WrittenAt(s) <= s[1]
  BY <1>0, <1>1 DEF WrittenAt
<1>4. \A b \in arcs : OwnerOf(v, b) = Own(v, b)
  BY ArcFacts, OwnerIsOwn DEF GraphShape
<1>5. \A k \in 0 .. N : \A b \in WrittenTo(v, k, Own(v, a)) :
        b \in arcs /\ ~SelfShared(b[1]) /\ WrittenAt(b) = k /\ Own(v, b) = Own(v, a)
  BY <1>4, WrittenFacts DEF WrittenTo
\* Every input of the net has a block of its own.
<1>6. ASSUME NEW b \in arcs, opName[b[1]] = "Input" PROVE Own(v, b) = b
  <2>1. ASSUME v[b].shared PROVE FALSE
    <3>1. v[b].share_from \in arcs /\ v[b].share_from[2] <= b[1]
      BY <2>1 DEF Hop, PlanOK
    <3> DEFINE m == v[b].share_from[2]
    <3>2. m \in 1 .. N /\ m \in 1 .. b[1]
      BY <1>0, <3>1
    <3>3. opName[m] = "Input"
      BY <1>0, <1>6, <3>2 DEF GraphShape
    <3>4. InArcs(m) = {}
      BY <3>2, <3>3 DEF GraphShape
    <3> QED
      BY <3>1, <3>4 DEF InArcs
  <2> QED
    BY <2>1 DEF Own
<1>7. WrittenTo(v, WrittenAt(s), Own(v, a)) = {s}
  <2>1. s \in WrittenTo(v, WrittenAt(s), Own(v, a))
    BY <1>1, <1>2, <1>4 DEF WrittenTo
  <2>2. ASSUME NEW b \in WrittenTo(v, WrittenAt(s), Own(v, a)), b # s PROVE FALSE
    <3>1. b \in arcs /\ ~SelfShared(b[1]) /\ WrittenAt(b) = WrittenAt(s) /\ Own(v, b) = Own(v, a)
      BY <1>2, <1>5
    <3>2. CASE opName[s[1]] = "Input"
      <4>1. opName[b[1]] = "Input"
        BY <1>0, <3>1, <3>2 DEF WrittenAt
      <4> QED
        BY <1>1, <1>6, <2>2, <3>1, <3>2, <4>1
    <3>3. CASE opName[s[1]] # "Input"
      <4>1. b[1] = s[1]
        BY <1>0, <1>1, <3>1, <3>3 DEF WrittenAt
      <4>2. End(a) < b[1]
        BY <1>0, <1>1, <2>2, <3>1, <4>1
      <4> QED
        BY <1>0, <1>1, <4>1, <4>2
    <3> QED
      BY <3>2, <3>3
  <2> QED
    BY <2>1, <2>2
<1>8. ASSUME NEW k \in 1 .. N, WrittenAt(s) < k, k < End(a) PROVE WrittenTo(v, k, Own(v, a)) = {}
  <2> SUFFICES ASSUME NEW b \in WrittenTo(v, k, Own(v, a)) PROVE FALSE
    OBVIOUS
  <2>1. b \in arcs /\ ~SelfShared(b[1]) /\ WrittenAt(b) = k /\ Own(v, b) = Own(v, a)
    BY <1>0, <1>5
  <2>2. b # s /\ b[1] = k /\ opName[b[1]] # "Input"
    BY <1>2, <1>8, <2>1 DEF WrittenAt
  <2>3. s[1] <= b[1]
    <3>1. CASE opName[s[1]] = "Input"
      <4>1. \A m \in 1 .. s[1] : opName[m] = "Input"
        BY <1>0, <1>1, <3>1 DEF GraphShape
      <4> QED
        BY <1>0, <1>1, <2>1, <2>2, <4>1
    <3>2. CASE opName[s[1]] # "Input"
      BY <1>0, <1>1, <1>8, <2>2, <3>2 DEF WrittenAt
    <3> QED
      BY <3>1, <3>2
  <2>4. End(a) < b[1]
    BY <1>1, <2>1, <2>2, <2>3
  <2> QED
    BY <1>0, <1>8, <2>2, <2>4
<1> QED
  BY <1>0, <1>1, <1>2, <1>3, <1>7, <1>8

\* A plan that lets no two ios in use have one block is sound.
LEMMA PlanSound ==
  ASSUME GraphShape, Len(opName) = N, Unmerged, Writable, NEW v, Hop(v), PlanOK(v, N + 1)
  PROVE  Sound(v)
<1>0. /\ N \in Nat
      /\ \A n \in Nodes : n \in Nat /\ n \in 1 .. N /\ n <= N
      /\ \A a \in arcs : /\ a[1] \in Nat /\ a[2] \in Nat /\ a[1] < a[2] /\ a[2] <= N
                         /\ End(a) \in Nat /\ a[2] <= End(a) /\ End(a) <= N + 1
                         /\ a[1] < N + 1
  <2>1. \A n \in Nodes :
          \A a \in arcs : /\ a[1] \in Nat /\ a[2] \in Nat /\ a[1] < a[2] /\ a[2] <= N
                          /\ End(a) \in Nat /\ a[2] <= End(a)
    BY Positions
  <2>2. N \in Nat /\ \A a \in arcs : a[1] \in Nodes
    BY MemAssumption DEF GraphShape, GraphOK
  <2> QED
    BY <2>1, <2>2 DEF End, Nodes
<1>1. \A a \in arcs : OwnerOf(v, a) = Own(v, a) /\ Own(v, a) \in arcs
  <2>1. \A a \in arcs : Own(v, a) \in arcs
    BY DEF Own, Hop
  <2> QED
    BY <2>1, ArcFacts, OwnerIsOwn DEF GraphShape
<1>2. ASSUME NEW a \in arcs PROVE Contents(v)[End(a) - 1][Own(v, a)] = Source[a]
  <2> DEFINE m == WrittenAt(Source[a])
             n == End(a) - 1
  <2>1. Delivers(v, Source[a], a)
    BY SourceDelivers
  <2>2. /\ m \in 0 .. N /\ m <= a[1]
        /\ WrittenTo(v, m, Own(v, a)) = {Source[a]}
        /\ \A k \in 1 .. N : m < k /\ k < End(a) => WrittenTo(v, k, Own(v, a)) = {}
    BY <2>1, WriterFacts
  <2>3. n \in 0 .. N /\ m <= n /\ \A k \in 1 .. N : k <= n => k < End(a)
    BY <1>0, <2>2
  <2> HIDE DEF m, n
  <2>4. \A k \in 1 .. N : m < k /\ k <= n => WrittenTo(v, k, Own(v, a)) = {}
    BY <2>2, <2>3
  <2>5. Contents(v)[n][Own(v, a)] = Source[a]
    BY <1>1, <2>2, <2>3, <2>4, ContentsStay
  <2> QED
    BY <2>5 DEF n
<1>3. ConvEltwises = {}
  BY DEF ConvEltwises, Unmerged, Nodes, Drawn
<1> DEFINE c == Contents(v)
           own == [a \in arcs |-> OwnerOf(v, a)]
<1>4. \A a \in arcs : own[a] = Own(v, a)
  BY <1>1
<1>5. \A a \in arcs : c[End(a) - 1][own[a]] = Source[a]
  BY <1>2, <1>4
<1> HIDE DEF c, own
<1>6. ASSUME NEW n \in Nodes, HasKernel(n)
      PROVE  /\ \A a \in InArcs(n) : c[n - 1][own[a]] = Source[a]
             /\ \A a \in InArcs(n) \cup OutArcs(n), b \in OutArcs(n) : own[a] = own[b] => a = b
  <2>1. ASSUME NEW a \in InArcs(n) PROVE c[n - 1][own[a]] = Source[a]
    <3>1. a \in arcs /\ End(a) = n
      BY <1>6 DEF InArcs, End, HasKernel
    <3> QED
      BY <1>5, <3>1
  <2>2. ASSUME NEW a \in InArcs(n) \cup OutArcs(n), NEW b \in OutArcs(n), own[a] = own[b], a # b
        PROVE  FALSE
    <3>1. a \in arcs /\ b \in arcs /\ b[1] = n /\ (a[1] = n \/ a[2] = n)
      BY DEF InArcs, OutArcs
    <3>2. a[1] <= b[1] /\ b[1] <= End(a) /\ Own(v, a) = Own(v, b)
      BY <1>0, <1>4, <2>2, <3>1
    <3>3. Via(b)
      BY <1>0, <2>2, <3>1, <3>2 DEF PlanOK, Disjoint
    <3> QED
      BY <1>6, <3>1, <3>3 DEF Via, HasKernel
  <2> QED
    BY <2>1, <2>2
<1>7. ASSUME NEW n \in Nodes, opName[n] = "Output", NEW a \in InArcs(n)
      PROVE  c[N][own[a]] = Source[a]
  <2>1. a \in arcs /\ End(a) = N + 1
    BY <1>7 DEF InArcs, End
  <2>2. (N + 1) - 1 = N
    BY <1>0
  <2> QED
    BY <1>5, <2>1, <2>2
<1>8. Sound(v) <=> \A n \in Nodes :
       /\ HasKernel(n) =>
            /\ \A a \in InArcs(n) : c[n - 1][own[a]] = Source[a]
            /\ \A a \in InArcs(n) \cup OutArcs(n), b \in OutArcs(n) :
                 own[a] = own[b] => a = b
       /\ n \in ConvEltwises => c[n - 1][own[Only(OutArcs(n))]] = Source[Addend(n)]
       /\ opName[n] = "Output" => \A a \in InArcs(n) : c[N][own[a]] = Source[a]
  BY DEF Sound, c, own
<1> QED
  BY <1>3, <1>6, <1>7, <1>8

\* RunPlanSound, for the models in which no convolution has been merged: the plan
\* that Run makes of any such graph never lets a vertex overwrite what is still to
\* be read, however vertices that share blocks are nested.
THEOREM UnmergedRunPlanIsSound ==
  MemSpec => [](Unmerged => RunPlanSound)
<1>1. MemInv /\ PlanInv => (Unmerged => RunPlanSound)
  <2> SUFFICES ASSUME MemInv, PlanInv, Unmerged, phase = "launch", next > N, Writable
               PROVE  Sound(io)
    BY DEF RunPlanSound
  <2>1. GraphShape /\ Len(opName) = N /\ Hop(io)
    BY DEF MemInv, Plans
  <2>2. next = N + 1
    BY MemAssumption DEF MemInv
  <2>3. PlanOK(io, N + 1)
    BY <2>2 DEF PlanInv
  <2> QED
    BY <2>1, <2>3, PlanSound
<1> QED
  BY <1>1, MemInvariant, PlanInvariant, PTL

\* "if graph is correct schedulered, this function will do nothing" is right of the
\* models whose vertices have kernels but for Split: their plan is sound when
\* check_memory is through.
THEOREM PlainPlanIsSound ==
  MemSpec => [](Plain /\ Writable => CheckDoesNoHarm)
<1>1. MemInv /\ PlanInv => (Plain /\ Writable => CheckDoesNoHarm)
  <2> SUFFICES ASSUME MemInv, PlanInv, Plain, Writable, phase = "planned" PROVE Sound(io)
    BY DEF CheckDoesNoHarm
  <2>1. GraphShape /\ Len(opName) = N /\ Hop(io)
    BY DEF MemInv, Plans
  <2>2. PlanOK(io, N + 1) /\ Unmerged
    BY PlainUnmerged DEF PlanInv
  <2> QED
    BY <2>1, <2>2, PlanSound
<1> QED
  BY <1>1, MemInvariant, PlanInvariant, PTL
=============================================================================
