--------------------------- MODULE MCAgentRuntime ---------------------------
(* Instances of AgentRuntime for TLC: the deployed process has one HTTP    *)
(* server thread and one cognitive loop thread.                            *)
EXTENDS AgentRuntime, TLC

CONSTANTS http, loop, a1, a2

MCThreads == {http, loop}
MCServers == {http}
MCAgents == {a1, a2}

(* The first task takes any agent, the second only a2.                     *)
MCSuitable == [t \in Tasks |-> IF t = 2 THEN {a2} ELSE {a1, a2}]
AnySuitable == [t \in Tasks |-> {a1, a2}]

(* The deployed threads while every save works, the server alone when      *)
(* saves fail or results are reported twice.                               *)
Behaviour(may, callers, bound) ==
  [may |-> may, callers |-> callers, tasks |-> bound]
Deployed ==
  {Behaviour({"crash"}, MCThreads, 3),
   Behaviour({"crash", "retire"}, MCThreads, 2),
   Behaviour({"crash", "retire", "duplicate"}, MCServers, 2),
   Behaviour({"crash", "board_fault"}, MCServers, 2),
   Behaviour({"crash", "execution_fault"}, MCServers, 2)}
BothCall == {Behaviour({"execution_fault"}, MCThreads, 2)}

(* One branch with different caps, or a branch per task without one.       *)
OneBranch == [t \in Tasks |-> "main"]
Caps == [t \in Tasks |-> IF t = 1 THEN 2 ELSE 1]
NoCaps == [t \in Tasks |-> MaxTasks]
=============================================================================
