SPECIFICATION Spec
CONSTANTS
  MaxWorld = 1
  Worlds = {1}
  Accumulation = 2
  TargetSteps = 2
  EverySteps = 2
  EvidenceEvery = 2
  Microbatches <- MCMicrobatches
  MaxFaults = 1
INVARIANTS
  SavedAtBoundary
CHECK_DEADLOCK FALSE
