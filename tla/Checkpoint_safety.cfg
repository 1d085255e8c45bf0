\* Three-rank jobs that may be resumed with one rank and the reverse, a save
\* every second step, every kind of fault.
SPECIFICATION Spec
CONSTANTS
  MaxWorld = 3
  Worlds = {1, 3}
  MaxSteps = 3
  EverySteps = 2
  HasAdapter = TRUE
  ResumeLatest = FALSE
  FaultKinds = {"kill", "raise", "damage"}
  MaxFaults = 3
INVARIANTS
  TypeOK
  PublishedIsSnapshot
  ReturnedSaveIsPublished
  SaveAgreement
  NoStrandedPeer
PROPERTIES
  ResumesWhatWasSaved
  NeverOverwritten
  ImplementsStore
CHECK_DEADLOCK FALSE
