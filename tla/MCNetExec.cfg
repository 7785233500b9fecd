\* Every net of six executers, two rounds in a row; the partial calls on those
\* with one input.
CONSTANTS
  N = 6
  Graphs <- AllGraphs
  RunType = "ASYNC"
  PartlyGraphs <- OneInput
  MaxRound = 2
SPECIFICATION NetFairSpec
\* The client stops after MaxRound predictions.
CHECK_DEADLOCK FALSE
INVARIANTS ReadsSettled QuiescentOnReturn ResultsOfRound
PROPERTY PredictionReturns
