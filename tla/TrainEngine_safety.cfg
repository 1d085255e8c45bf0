SPECIFICATION Spec
CONSTANTS
  MaxWorld = 2
  Worlds = {1, 2}
  Accumulation = 2
  TargetSteps = 2
  EverySteps = 2
  EvidenceEvery = 2
  Microbatches <- MCMicrobatches
  MaxFaults = 1
INVARIANTS
  TypeOK
  UpdateIsGlobalMean
CHECK_DEADLOCK FALSE
