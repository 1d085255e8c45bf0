SPECIFICATION FairSpec
CONSTANTS
  MaxWorld = 3
  Worlds = {2, 3}
  Accumulation = 1
  TargetSteps = 2
  EverySteps = 2
  EvidenceEvery = 2
  Microbatches <- MCFinite
  MaxFaults = 3
INVARIANTS
  ReplicasAgree
  CollectivesMatch
PROPERTIES
  EveryRankEnds
CHECK_DEADLOCK FALSE
