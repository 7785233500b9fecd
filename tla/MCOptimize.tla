----------------------------- MODULE MCOptimize -----------------------------
(* The schedulers of Graph::Optimize on small graphs, see MCOptimize.cfg.  *)
EXTENDS ParallScheduler, TLC

\* All directed graphs on the vertices but 5, cycles and loops included.
AllOnFour == SUBSET ((Nodes \ {5}) \X (Nodes \ {5}))

\* The acyclic graphs, up to the names of the vertices, whose inputs have
\* one arc: those that ParallScheduler accepts.
Dags == {g \in SUBSET {a \in Nodes \X Nodes : a[1] < a[2]} :
           \A n \in Nodes : (\A a \in g : a[2] # n) =>
                              Cardinality({a \in g : a[1] = n}) <= 1}

SomeGraphs == AllOnFour \cup Dags
=============================================================================
