\* The order that is set, on the same graphs without Eltwises of three inputs.
CONSTANTS
  Nodes = {1, 2, 3, 4, 5, 6, 7}
  Graphs <- PairGraphs
  Ops <- SomeOps
SPECIFICATION FusionSpec
\* A finished Run has no step left.
CHECK_DEADLOCK FALSE
INVARIANT FusedOrderTopological
