----------------------------- MODULE MCNetExec ------------------------------
(* NetExec on small nets, see the MCNetExec*.cfg.                          *)
EXTENDS NetExec, TLC

\* All graphs without isolated vertex whose inputs have one arc.
AllGraphs ==
  {g \in SUBSET Arcs :
     \A n \in Nodes :
       LET out == {a \in g : a[1] = n}
           in == {a \in g : a[2] = n}
       IN out \cup in # {} /\ (in = {} => Cardinality(out) = 1)}

\* Those with one input: all of the net is in one lane.
OneInput == {g \in AllGraphs : \A n \in Nodes \ {1} : \E a \in g : a[2] = n}
=============================================================================
