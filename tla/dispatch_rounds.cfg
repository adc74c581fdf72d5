SPECIFICATION FairSpec
CONSTANTS
  boss = boss
  dev = dev
  mem = mem
  p1 = p1
  p2 = p2
  main = main
  side = side
  None = None
  Roster <- RosterOf
  Profile <- ProfileOf
  Work <- WorkOf
  MaxWindow = 25
  Windows = {1, 3}
  MaxCount = 3
  Filters = {None, p1}
  Reporters <- ReportersOf
  Steady <- SteadyOf
INVARIANTS PlanIsClaimed
PROPERTIES NothingLeftWaiting PriorityIsKept EveryTaskGetsItsTurn
CHECK_DEADLOCK FALSE
