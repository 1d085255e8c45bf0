CONSTANTS
  None = None
  Processes = {1, 2, 3}
  Launches <- MCLaunches
  Available = {"gloo", "nccl"}
  MaxFaults = 2
SPECIFICATION FairSpec
INVARIANTS
  GroupHeld
  OpenIsAgreed
PROPERTIES
  EveryRankReturns
CHECK_DEADLOCK FALSE
