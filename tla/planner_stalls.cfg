SPECIFICATION FairSpec
CONSTANTS
  Server = server
  Loop = loop
  Shape <- RecoveryShapes
  LoopShapes = {}
  ApiShapes = {"replay"}
  Remediation = "repair"
  Threshold = 1
  MaxPlans = 1
  MaxTasks = 3
  Calls = {}
  Envs = {{}}
CHECK_DEADLOCK FALSE
PROPERTIES ChainRunsByItself
