-------------------------- MODULE ExecutionRuntime --------------------------
(***************************************************************************)
(* execution/runtime.py: the execution contract (operation) kept for each  *)
(* task, as functions from the table of operations to the next one.  The   *)
(* methods look the operation up by task id and never look at its status:  *)
(* what order the calls arrive in is the callers' business.  Each method   *)
(* changes the table in memory, records a ledger event and saves the file, *)
(* which its callers model (AgentRuntime).                                 *)
(***************************************************************************)
EXTENDS Naturals

CONSTANT RollbackOnError \* tasks whose failure policy asks for a rollback

Operation == [status : {"none", "planned", "in_progress", "committed",
                        "failed"},
              compensation : {"none", "ready", "not_required", "pending",
                              "available", "completed"}]

NoOperation == [status |-> "none", compensation |-> "none"]

(* _find_operation_by_task_id *)
Known(ops, t) == ops[t].status # "none"

(* A task registered again keeps its status.                               *)
Registered(ops, t) ==
  IF Known(ops, t) THEN ops
  ELSE [ops EXCEPT ![t] = [status |-> "planned", compensation |-> "ready"]]

Claimed(ops, t) == [ops EXCEPT ![t].status = "in_progress"]

Released(ops, t) == [ops EXCEPT ![t].status = "planned"]

Completed(ops, t, success) ==
  [ops EXCEPT ![t] =
     IF success THEN [status |-> "committed", compensation |-> "not_required"]
     ELSE [status |-> "failed",
           compensation |-> IF t \in RollbackOnError THEN "pending"
                            ELSE "available"]]

Compensated(ops, t) == [ops EXCEPT ![t].compensation = "completed"]
=============================================================================
