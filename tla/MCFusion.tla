------------------------------ MODULE MCFusion ------------------------------
(* ConvElsFusionScheduler on small graphs, see the MCFusion*.cfg.          *)
EXTENDS ConvElsFusionScheduler, TLC

\* Vertex 1 is an input; two or three convolutions, one or two Eltwises.
SomeOps == {f \in [Nodes -> {"conv", "elt", "other"}] :
              /\ f[1] = "other" /\ f[2] # "elt" /\ f[7] # "conv"
              /\ Cardinality({n \in Nodes : f[n] = "conv"}) \in 2..3
              /\ Cardinality({n \in Nodes : f[n] = "elt"}) \in 1..2}

\* The producers of each vertex: 1, and perhaps 2, are the inputs, the others
\* have one to three producers.
Producers(n) == {p \in SUBSET (1..(n - 1)) : Cardinality(p) \in 1..3}
Drawn == {{}} \X {{}, {1}} \X Producers(3) \X Producers(4) \X Producers(5)
           \X Producers(6) \X Producers(7)

\* An input has one arc, 7 is the output, the others have one or two arcs.  One
\* vertex at most has three producers, and then one at most has two arcs.
Outs(t, n) == Cardinality({m \in Nodes : n \in t[m]})
Wide(t) == {n \in Nodes : Cardinality(t[n]) = 3}
Sound(t) == /\ \A n \in 1..6 : Outs(t, n) \in (IF t[n] = {} THEN {1} ELSE 1..2)
            /\ \/ Wide(t) = {}
               \/ /\ Cardinality(Wide(t)) = 1
                  /\ Cardinality({n \in Nodes : Outs(t, n) = 2}) <= 1
SevenGraphs == {UNION {t[n] \X {n} : n \in Nodes} : t \in {u \in Drawn : Sound(u)}}

\* Those in which no vertex has three producers.
PairGraphs == {g \in SevenGraphs : \A n \in Nodes : Cardinality({a \in g : a[2] = n}) <= 2}
=============================================================================
