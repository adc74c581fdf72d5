SPECIFICATION Spec
CONSTANTS
  Server = server
  Loop = loop
  Shape <- RecoveryShapes
  LoopShapes = {"small"}
  ApiShapes = {"replay"}
  Remediation = "repair"
  Threshold = 1
  MaxPlans = 3
  MaxTasks = 5
  Calls = {"advance","run"}
  Envs = {{"failure","pressure"},{"crash"}}
INVARIANTS OneRemediation
CHECK_DEADLOCK FALSE
PROPERTIES RecoveryPauses OperationalWaits
