SPECIFICATION Spec
CONSTANTS
  RollbackOnError = {1}
  Tasks = {1, 2}
  NoTask = 0
  Main = main
  side = side
  Branches = {main, side}
  NoBranch = none
  BranchOf <- TwoBranches
  ParentOf <- OwnParents
  DeclaredParent <- NotDeclared
  MaxEntries = 3
  Server = server
  Loop = loop
  NoThread = nobody
  ReplayLimit = 2
  MaxStamps = 4
  Envs = {{"crash"}, {"fault"}, {"crash", "fault"}}
INVARIANTS LedgerInOrder NothingUnrecorded ReplayComplete SnapshotsFormATree
CHECK_DEADLOCK FALSE
