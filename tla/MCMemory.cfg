\* Every model of seven vertices, with at most one registered output.
CONSTANTS
  N = 7
  Ops = {"Input", "Output", "Op", "Add", "Slice", "Split", "Reshape", "ConvEltwise", "Gather"}
  MaxFixed = 1
SPECIFICATION MemSpec
\* Optimize ends with the plan.
CHECK_DEADLOCK FALSE
INVARIANTS RunPlanSound FixedKept OwnerFound
PROPERTY CheckDoesNothing
