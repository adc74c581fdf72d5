-------------------------- MODULE MCPlannerRuntime --------------------------
(* Instances of PlannerRuntime for TLC.                                    *)
EXTENDS PlannerRuntime, TLC

Plan(kind, parallel, needs, replay, names) ==
  [kind |-> kind, parallel |-> parallel, needs |-> needs, replay |-> replay,
   titles |-> names]

(* A plan group of the loop: tasks side by side, then one that needs them  *)
(* all (the coordination step that all of them wait for is left out).      *)
Group == Plan("operational", 2, <<{}, {}, {1, 2}>>, {}, <<"g1", "g2", "g3">>)
(* A recovery: replays one after the other, then the validation (the       *)
(* coordination and the review of the anchor that come first are left out).*)
Replay == Plan("recovery", 1, <<{}, {1}, {2}>>, {1, 2}, <<"r1", "r2", "r3">>)
(* A remediation: its coordination, analysis and work as one step.         *)
Repair == Plan("remediation", 1, <<{}>>, {}, <<"m1">>)
Small == Plan("operational", 1, <<{}>>, {}, <<"s1">>)

(* A plan of a client who sets no limit: two tasks, one at a time.         *)
Pair == Plan("operational", 1, <<{}, {}>>, {}, <<"q1", "q2">>)

WorkShapes == "group" :> Group @@ "pair" :> Pair @@ "repair" :> Repair
RecoveryShapes == "replay" :> Replay @@ "repair" :> Repair @@ "small" :> Small

ASSUME ChainAssumption == RecoveriesInTurn
=============================================================================
