SPECIFICATION FairSpec
CONSTANTS
  Server = server
  Loop = loop
  Shape <- WorkShapes
  LoopShapes = {"group"}
  ApiShapes = {"group","pair"}
  Remediation = "repair"
  Threshold = 1
  MaxPlans = 1
  MaxTasks = 6
  Calls = {"run","status"}
  Envs = {{"crash"},{"failure","compensation"},{"fault"}}
INVARIANTS NeverAhead OneLiveTask LimitHolds
CHECK_DEADLOCK FALSE
PROPERTIES ImplementsPlanGraph PlansEnd
