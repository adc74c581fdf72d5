------------------------ MODULE MCExecutionHistory ------------------------
(* Instances of ExecutionHistory for TLC: an operation on main, one on a   *)
(* side branch under it, and on main again one under the side branch.      *)
EXTENDS ExecutionHistory, TLC

CONSTANT side

TwoBranches == 1 :> Main @@ 2 :> side
OwnParents == 1 :> 2 @@ 2 :> NoTask
NotDeclared == [t \in Tasks |-> NoBranch]
=============================================================================
