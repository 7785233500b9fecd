\* Every directed graph with four vertices, and every acyclic one with five
\* whose inputs have one arc.
CONSTANTS
  Nodes = {1, 2, 3, 4, 5}
  Graphs <- SomeGraphs
SPECIFICATION ParallFairSpec
\* A finished or failed Optimize has no step left.
CHECK_DEADLOCK FALSE
INVARIANTS ParallTypeOK TopologicalOrder NodesConserved ScheduleComplete FatalExplained
           ParallProgress LanesAgree LanesOfInputs
PROPERTY OptimizeEnds
