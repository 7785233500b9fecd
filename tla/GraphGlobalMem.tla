---------------------------- MODULE GraphGlobalMem ----------------------------
(***************************************************************************)
(* framework/graph/graph_global_mem.h: the process-wide guard of weight    *)
(* memory.  A guard says, for every address, at which levels a function    *)
(* may still be applied to what lies there; each level is meant to be used *)
(* once.  The code keys the guards by address and moves a guard along when *)
(* a function moves a tensor; here the key is the tensor, so only a tensor *)
(* that had no memory (key nullptr) changes its key.  nullptr has a guard  *)
(* of its own, shared by all tensors without memory.                       *)
(***************************************************************************)
EXTENDS Naturals

CONSTANT Null        \* nullptr

Levels == 0 .. 3

\* make_lock: every level accessible.
make_lock == Levels

\* The constructor registers nullptr.
GraphGlobalMem == [k \in {Null} |-> make_lock]

\* new_block registers the new memory, forgetting what was known of it.
new_block(g, T) ==
  [k \in DOMAIN g \cup T |-> IF k \in T THEN make_lock ELSE g[k]]

use(g, K, l) == [k \in DOMAIN g |-> IF k \in K THEN g[k] \ {l} ELSE g[k]]

\* apply on two PBlocks runs its function if both are accessible.
block_access(g, l, a, b) == l \in g[a] /\ l \in g[b]

\* apply on two Tensors runs it if both are registered and one is accessible.
tensor_access(g, l, a, b) ==
  {a, b} \subseteq DOMAIN g /\ (l \in g[a] \/ l \in g[b])

\* Faulty variant: the guard of nullptr is copied, not exchanged.
moved_Copied(g, t) == [k \in DOMAIN g \cup {t} |-> IF k = t THEN g[Null] ELSE g[k]]

\* The function gave memory to t, which had none: t gets the guard of nullptr
\* in exchange for a new one.
moved(g, t) ==
  [k \in DOMAIN g \cup {t} |-> CASE k = t -> g[Null]
                                 [] k = Null /\ t \in DOMAIN g -> g[t]
                                 [] k = Null /\ t \notin DOMAIN g -> make_lock
                                 [] OTHER -> g[k]]
=============================================================================
