SPECIFICATION Spec
CONSTANTS
  RollbackOnError = {1}
  http = http
  loop = loop
  a1 = a1
  a2 = a2
  NoAgent = NoAgent
  Threads <- MCThreads
  Servers <- MCServers
  Agents <- MCAgents
  MaxTasks = 2
  Suitable <- AnySuitable
  Branch <- OneBranch
  Limit <- NoCaps
  Statuses = {"idle"}
  Envs <- BothCall
INVARIANTS NoDanglingTask
CHECK_DEADLOCK FALSE
