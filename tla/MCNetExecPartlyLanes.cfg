\* The partial calls with several lanes.
CONSTANTS
  N = 5
  Graphs <- AllGraphs
  RunType = "ASYNC"
  PartlyGraphs <- AllGraphs
  MaxRound = 1
SPECIFICATION NetSpec
\* The client stops after MaxRound predictions.
CHECK_DEADLOCK FALSE
INVARIANT ReadsSettled
