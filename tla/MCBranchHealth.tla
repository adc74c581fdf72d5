--------------------------- MODULE MCBranchHealth ---------------------------
(* Instances of BranchHealth for TLC.                                      *)
EXTENDS BranchHealth

(* A recovery of three replayed operations, without the coordination and  *)
(* the review of the anchor that come first.  (A remediation and a         *)
(* stabilization have more steps in the code; one stands for them.)        *)
ThreeReplays ==
  [recovery |-> <<"replay_execution", "replay_execution",
                  "replay_execution", "validation">>,
   remediation |-> <<"work">>, branch_stabilization |-> <<"work">>]

(* One operation less, for runs that also make stabilizations.             *)
TwoReplays == [ThreeReplays EXCEPT !.recovery = Tail(@)]
=============================================================================
