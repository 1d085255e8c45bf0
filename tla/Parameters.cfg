CONSTANTS
  None = None
  Setups <- MCSetups
SPECIFICATION Spec
INVARIANTS
  TrainedExactly
  AdapterExact
CHECK_DEADLOCK FALSE
