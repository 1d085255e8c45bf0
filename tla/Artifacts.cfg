SPECIFICATION Spec
CONSTANTS
  None = None
  Scenarios <- MCScenarios
  Receipts = {"r1", "r2"}
  Places = {"d1"}
  Shared = {"task", "modules", "parameters"}
  TaskOf <- MCTaskOf
  MaxStep = 2
  MaxFaults = 1
INVARIANTS IdentityHolds EvaluationExact ExportsWhole
PROPERTY NeverRewritten
CHECK_DEADLOCK FALSE
