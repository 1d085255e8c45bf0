SPECIFICATION Spec
CONSTANTS
  Names = {1, 2, 3}
  Weights <- MCWeights
  Children <- MCChildren
  Grain = 4
  MaxCursor = 4
  MaxCrashes = 1
INVARIANTS
  Replayable
  ChildrenDrained
CHECK_DEADLOCK FALSE
