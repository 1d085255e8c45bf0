SPECIFICATION FairSpec
CONSTANTS
  Datasets <- MCDatasets
  Rewritten = {0, 3}
  Topologies <- MCTopologies
  MaxReads = 3
  MaxCrashes = 1
  MaxRewrites = 1
INVARIANTS
  TypeOK
  EachRowOnce
  NothingSkipped
  EpochsTogether
  SavedStateAccepted
PROPERTIES
  CallsReturn
CHECK_DEADLOCK FALSE
