SPECIFICATION Spec
CONSTANTS
  Steps <- TwoReplays
  Threshold = 2
  MaxHistory = 6
  TrendWindow = 6
  DriftWindow = 10
  MaxRecoveries = 2
  MaxStabilizations = 3
  MaxProposals = 1
  MaxRemediations = 2
  Envs = {{"failure","repair_failure","operator"},{"unstable","operator"},{"again","failure","repair_failure"},{"loop","failure"}}
INVARIANTS GateAsAssumed PausedBranchIsSerial StabilizedBranchReopens NothingStranded
PROPERTIES ReadsDecideNothing
CHECK_DEADLOCK FALSE
