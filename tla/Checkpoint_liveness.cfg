\* Two ranks, always resumed from the newest checkpoint after a failure.
SPECIFICATION FairSpec
CONSTANTS
  MaxWorld = 2
  Worlds = {2}
  MaxSteps = 3
  EverySteps = 2
  HasAdapter = TRUE
  ResumeLatest = TRUE
  FaultKinds = {"kill", "raise"}
  MaxFaults = 3
PROPERTIES
  FinishesTraining
CHECK_DEADLOCK FALSE
