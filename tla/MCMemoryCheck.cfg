\* Models with Reshape and no merged convolutions.
CONSTANTS
  N = 6
  Ops = {"Input", "Output", "Op", "Split", "Reshape"}
  MaxFixed = 0
SPECIFICATION MemSpec
\* Optimize ends with the plan.
CHECK_DEADLOCK FALSE
INVARIANT CheckDoesNoHarm
