SPECIFICATION Spec
CONSTANTS
  Steps <- ThreeReplays
  Threshold = 2
  MaxHistory = 6
  TrendWindow = 6
  DriftWindow = 10
  MaxRecoveries = 1
  MaxStabilizations = 0
  MaxRemediations = 1
  MaxProposals = 0
  Envs = {{"failure"}}
INVARIANTS GuardedAfterRecovery
CHECK_DEADLOCK FALSE
