\* Nets of seven vertices with one or two inputs and one output; an Eltwise may
\* have three inputs.
CONSTANTS
  Nodes = {1, 2, 3, 4, 5, 6, 7}
  Graphs <- SevenGraphs
  Ops <- SomeOps
SPECIFICATION FusionFairSpec
\* A finished Run has no step left.
CHECK_DEADLOCK FALSE
INVARIANTS FusedOrderComplete AddendReady MergedOnce MergedHasOneReader
PROPERTY FusionEnds
