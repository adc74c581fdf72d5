SPECIFICATION FairSpec
CONSTANTS
  RollbackOnError = {1}
  http = http
  loop = loop
  a1 = a1
  a2 = a2
  NoAgent = NoAgent
  Threads <- MCThreads
  Servers <- MCServers
  Agents <- MCAgents
  MaxTasks = 3
  Suitable <- MCSuitable
  Branch <- OneBranch
  Limit <- Caps
  Statuses = {"idle"}
  Envs <- Deployed
INVARIANTS HoldersAgree ContractsAgree LimitsRespected
PROPERTIES ResultsAreFinal ImplementsTaskBoard RestartRequeues
CHECK_DEADLOCK FALSE
