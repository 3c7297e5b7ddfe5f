CONSTANTS
  Inputs <- MCInputs
  Airgroups <- MCAirgroups
  Leaves <- MCLeaves
  AirgroupOf <- MCAirgroupOf
SPECIFICATION MCSpec
INVARIANTS
  ReducesToOne
  PaddingIsParity
  Partition
  StuckIsDone
PROPERTIES
  Terminates
  AllMerged
CHECK_DEADLOCK FALSE
