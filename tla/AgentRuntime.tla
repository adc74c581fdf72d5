---------------------------- MODULE AgentRuntime ----------------------------
(***************************************************************************)
(* ai_os/agent_runtime.py over execution/runtime.py.  The agent runtime    *)
(* keeps the registered agents and the task queue, the execution runtime   *)
(* one operation per task; each has its own lock and its own file.  A call *)
(* changes agents and tasks and saves them under the first lock, gives the *)
(* lock up, tells the execution runtime, and if that raises takes the lock *)
(* again and puts back the copies of task and agent made at the start.     *)
(* The other thread can run between any two of these, and the process can  *)
(* be killed between any two saves.                                        *)
(*                                                                         *)
(* What decides WHICH eligible task or agent is picked (scores, in         *)
(* ai_os/role_policy.py) is left open: any eligible pair may be claimed.   *)
(***************************************************************************)
EXTENDS Integers, FiniteSets, ExecutionRuntime

CONSTANTS
  Threads,   \* callers of the runtime: the HTTP server, the cognitive loop
  Servers,   \* those that claim, complete, deregister and compensate: the
             \* server; the loop only registers agents and queues tasks
  Agents,    \* agent ids
  NoAgent,   \* "no agent" in a task
  MaxTasks,  \* bound: tasks queued in any behaviour
  Suitable,  \* per task, the agents whose role it accepts
  Branch,    \* per task, its branch
  Limit,     \* per task, max_assignments_for_branch (0: dispatch blocked)
  Statuses,  \* statuses that heartbeats report
  Envs       \* kinds of behaviour.  may: what may happen, a set of "crash",
             \* "retire" (deregister_agent), "duplicate" (a result reported
             \* again), "board_fault" and "execution_fault" (the save of
             \* that runtime's file fails); callers: the threads that call
             \* the runtime; tasks: a bound on the tasks queued

Tasks == 1 .. MaxTasks
NoTask == 0

ASSUME RuntimeAssumption ==
  /\ MaxTasks \in Nat /\ Servers \subseteq Threads /\ NoAgent \notin Agents
  /\ Statuses \subseteq {"idle", "busy"}
  /\ Suitable \in [Tasks -> SUBSET Agents] /\ Limit \in [Tasks -> Nat]
  /\ Envs \subseteq
       [may : SUBSET {"crash", "retire", "duplicate", "board_fault",
                      "execution_fault"},
        callers : SUBSET Threads, tasks : 0 .. MaxTasks]

VARIABLES
  up,          \* FALSE from a crash to the end of _recover_after_restart
  agents,      \* per agent id: status and current_task_id
  tasks,       \* per task id: status and assigned_agent_id
  next,        \* _next_task_id
  ops,         \* operations of the execution runtime
  call,        \* per thread: the call between its locked sections
  savedBoard,  \* agents, tasks and next as in storage/agent_runtime.json
  savedOps,    \* operations as in storage/execution_runtime.json
  crashed,     \* whether the process has been killed so far
  env          \* the kind of this behaviour

vars == <<up, agents, tasks, next, ops, call, savedBoard, savedOps, crashed,
          env>>

AgentRecord == [status : {"absent", "idle", "busy"},
                task : Tasks \cup {NoTask}]
TaskRecord == [status : {"absent", "queued", "in_progress", "done", "failed"},
               owner : Agents \cup {NoAgent}]
AbsentAgent == [status |-> "absent", task |-> NoTask]
AbsentTask == [status |-> "absent", owner |-> NoAgent]
QueuedTask == [status |-> "queued", owner |-> NoAgent]
IdleAgent == [status |-> "idle", task |-> NoTask]

(* The copies are those made before the change, for the rollback.          *)
CallRecord == [op : {"queue", "claim", "complete", "deregister"},
               stage : {"execute", "rollback"}, task : Tasks,
               agent : Agents \cup {NoAgent}, success : BOOLEAN,
               oldTask : TaskRecord, oldAgent : AgentRecord]
NoCall == [stage |-> "none"]

Present(a) == agents[a].status # "absent"
Finished(t) == tasks[t].status \in {"done", "failed"}
Free(th) == up /\ th \in env.callers /\ call[th] = NoCall
InFlight(t) == \E th \in Threads : call[th] # NoCall /\ call[th].task = t
Running(b) == {t \in Tasks : tasks[t].status = "in_progress" /\ Branch[t] = b}

(* Type invariant.                                                         *)
TypeOK ==
  /\ up \in BOOLEAN
  /\ agents \in [Agents -> AgentRecord]
  /\ tasks \in [Tasks -> TaskRecord]
  /\ next \in 1 .. MaxTasks + 1
  /\ ops \in [Tasks -> Operation]
  /\ call \in [Threads -> CallRecord \cup {NoCall}]
  /\ savedBoard \in [agents : [Agents -> AgentRecord],
                     tasks : [Tasks -> TaskRecord],
                     next : 1 .. MaxTasks + 1]
  /\ savedOps \in [Tasks -> Operation] /\ crashed \in BOOLEAN
  /\ env \in Envs

Init ==
  /\ up = TRUE
  /\ agents = [a \in Agents |-> AbsentAgent]
  /\ tasks = [t \in Tasks |-> AbsentTask]
  /\ next = 1
  /\ ops = [t \in Tasks |-> NoOperation]
  /\ call = [th \in Threads |-> NoCall]
  /\ savedBoard = [agents |-> agents, tasks |-> tasks, next |-> next]
  /\ savedOps = ops /\ crashed = FALSE
  /\ env \in Envs

(* _save_state: the whole file or, if it raises, nothing of it; what was   *)
(* changed in memory stays changed.                                        *)
SaveBoard ==
  savedBoard' = [agents |-> agents', tasks |-> tasks', next |-> next']
SaveBoardFails == "board_fault" \in env.may /\ UNCHANGED savedBoard

(* A locked section that is a whole call, and one that leads on to c.      *)
EndSection ==
  /\ SaveBoard \/ SaveBoardFails
  /\ UNCHANGED <<up, ops, call, savedOps, crashed, env>>
LeadTo(th, c) ==
  /\ \/ SaveBoard /\ call' = [call EXCEPT ![th] = c]
     \/ SaveBoardFails /\ UNCHANGED call
  /\ UNCHANGED <<up, ops, savedOps, crashed, env>>

---------------------------------------------------------------------------
(* Calls of one locked section.                                            *)

RegisterAgent(th, a) ==
  /\ Free(th)
  /\ agents' = IF Present(a) THEN agents ELSE [agents EXCEPT ![a] = IdleAgent]
  /\ UNCHANGED <<tasks, next>>
  /\ EndSection

(* The status is whatever the caller says, the task is left alone.         *)
Heartbeat(th, a, status) ==
  /\ Free(th) /\ Present(a)
  /\ agents' = [agents EXCEPT ![a].status = status]
  /\ UNCHANGED <<tasks, next>>
  /\ EndSection

(* POST /execution/compensate, or the planner's automatic compensation.    *)
Compensate(th, t) ==
  /\ Free(th) /\ th \in Servers /\ Known(ops, t)
  /\ ops' = Compensated(ops, t)
  /\ \/ savedOps' = ops'
     \/ "execution_fault" \in env.may /\ UNCHANGED savedOps
  /\ UNCHANGED <<up, agents, tasks, next, call, savedBoard, crashed, env>>

---------------------------------------------------------------------------
(* First sections of the calls that go on to the execution runtime.        *)

Calling(op, t, a, success) ==
  [op |-> op, stage |-> "execute", task |-> t, agent |-> a,
   success |-> success, oldTask |-> tasks[t],
   oldAgent |-> IF a = NoAgent THEN AbsentAgent ELSE agents[a]]

QueueTask(th) ==
  /\ Free(th) /\ next <= env.tasks
  /\ tasks' = [tasks EXCEPT ![next] = QueuedTask]
  /\ next' = next + 1
  /\ UNCHANGED agents
  /\ LeadTo(th, Calling("queue", next, NoAgent, TRUE))

(* Mutant of Eligible: the branch's count is off by one.                   *)
EligibleOneMore(t) == Cardinality(Running(Branch[t]) \ {t}) <= Limit[t]

(* evaluate_task_dispatch over _active_branch_assignment_counts            *)
Eligible(t) == Cardinality(Running(Branch[t]) \ {t}) < Limit[t]

(* Mutant of ClaimTask: the agent's current task is not looked at.         *)
ClaimTaskBusy(th, a, t) ==
  /\ Free(th) /\ th \in Servers /\ Present(a)
  /\ tasks[t].status = "queued" /\ a \in Suitable[t] /\ Eligible(t)
  /\ tasks' = [tasks EXCEPT ![t] = [status |-> "in_progress", owner |-> a]]
  /\ agents' = [agents EXCEPT ![a] = [status |-> "busy", task |-> t]]
  /\ UNCHANGED next
  /\ LeadTo(th, Calling("claim", t, a, TRUE))

(* claim_task, which claim_next_task and dispatch_ready_tasks call for each *)
(* pair they picked.  An agent that has a task gets that task back and     *)
(* nothing changes.                                                        *)
ClaimTask(th, a, t) ==
  /\ Free(th) /\ th \in Servers /\ Present(a) /\ agents[a].task = NoTask
  /\ tasks[t].status = "queued" /\ a \in Suitable[t] /\ Eligible(t)
  /\ tasks' = [tasks EXCEPT ![t] = [status |-> "in_progress", owner |-> a]]
  /\ agents' = [agents EXCEPT ![a] = [status |-> "busy", task |-> t]]
  /\ UNCHANGED next
  /\ LeadTo(th, Calling("claim", t, a, TRUE))

(* Mutant of CompleteTask: the agent keeps the task it finished.           *)
CompleteTaskKept(th, a, t, success) ==
  /\ Free(th) /\ th \in Servers /\ Present(a) /\ tasks[t].owner = a
  /\ Finished(t) => "duplicate" \in env.may
  /\ tasks' = [tasks EXCEPT ![t].status = IF success THEN "done" ELSE "failed"]
  /\ agents' = [agents EXCEPT ![a].status = "idle"]
  /\ UNCHANGED next
  /\ LeadTo(th, Calling("complete", t, a, success))

(* The code asks only that the task be assigned to the agent.  A task that *)
(* is already finished still is: only "duplicate" reports it again.        *)
CompleteTask(th, a, t, success) ==
  /\ Free(th) /\ th \in Servers /\ Present(a) /\ tasks[t].owner = a
  /\ Finished(t) => "duplicate" \in env.may
  /\ tasks' = [tasks EXCEPT ![t].status = IF success THEN "done" ELSE "failed"]
  /\ agents' = [agents EXCEPT ![a] = IdleAgent]
  /\ UNCHANGED next
  /\ LeadTo(th, Calling("complete", t, a, success))

(* Mutant of DeregisterAgent: the execution runtime is not told.           *)
DeregisterAgentSilently(th, a) ==
  LET t == agents[a].task IN
  /\ Free(th) /\ th \in Servers /\ "retire" \in env.may /\ Present(a)
  /\ agents' = [agents EXCEPT ![a] = AbsentAgent]
  /\ tasks' = IF t # NoTask THEN [tasks EXCEPT ![t] = QueuedTask] ELSE tasks
  /\ UNCHANGED next
  /\ EndSection

(* A task the agent is working on goes back to the queue.                  *)
DeregisterAgent(th, a) ==
  LET t == agents[a].task
      holds == t # NoTask /\ tasks[t] = [status |-> "in_progress", owner |-> a]
  IN
  /\ Free(th) /\ th \in Servers /\ "retire" \in env.may /\ Present(a)
  /\ agents' = [agents EXCEPT ![a] = AbsentAgent]
  /\ tasks' = IF holds THEN [tasks EXCEPT ![t] = QueuedTask] ELSE tasks
  /\ UNCHANGED next
  /\ IF holds THEN LeadTo(th, Calling("deregister", t, a, TRUE))
     ELSE EndSection

---------------------------------------------------------------------------
(* The call into the execution runtime, and what follows if it raises.     *)

Effect(c) ==
  CASE c.op = "queue" -> Registered(ops, c.task)
    [] c.op = "claim" -> Claimed(ops, c.task)
    [] c.op = "complete" -> Completed(ops, c.task, c.success)
    [] c.op = "deregister" -> Released(ops, c.task)

(* "execution contract not found for task_id", or the save fails after the *)
(* operations in memory have been changed.                                 *)
Execute(th) ==
  LET c == call[th]
      found == c.op = "queue" \/ Known(ops, c.task)
  IN
  /\ up /\ c # NoCall /\ c.stage = "execute"
  /\ ops' = IF found THEN Effect(c) ELSE ops
  /\ \/ found /\ savedOps' = ops' /\ call' = [call EXCEPT ![th] = NoCall]
     \/ /\ ~found \/ "execution_fault" \in env.may
        /\ UNCHANGED savedOps
        /\ call' = [call EXCEPT ![th].stage = "rollback"]
  /\ UNCHANGED <<up, agents, tasks, next, savedBoard, crashed, env>>

(* A queued task is removed; otherwise task (if it is still there) and     *)
(* agent are overwritten with their copies, whatever happened since.       *)
Rollback(th) ==
  LET c == call[th] t == c.task IN
  /\ up /\ c # NoCall /\ c.stage = "rollback"
  /\ tasks' = IF c.op = "queue" THEN [tasks EXCEPT ![t] = AbsentTask]
              ELSE IF tasks[t].status = "absent" THEN tasks
              ELSE [tasks EXCEPT ![t] = c.oldTask]
  /\ agents' = IF c.op = "queue" THEN agents
               ELSE [agents EXCEPT ![c.agent] = c.oldAgent]
  /\ UNCHANGED <<up, next, ops, savedOps, crashed, env>>
  /\ SaveBoard \/ SaveBoardFails
  /\ call' = [call EXCEPT ![th] = NoCall]

---------------------------------------------------------------------------
(* A crash, and the restart: _load_state and _recover_after_restart.       *)

Crash ==
  /\ up /\ "crash" \in env.may
  /\ up' = FALSE /\ crashed' = TRUE
  /\ agents' = savedBoard.agents /\ tasks' = savedBoard.tasks
  /\ next' = savedBoard.next /\ ops' = savedOps
  /\ call' = [th \in Threads |-> NoCall]
  /\ UNCHANGED <<savedBoard, savedOps, env>>

(* Mutant of Recovered: failed tasks are tried again too.                  *)
RecoveredOrFailed ==
  {t \in Tasks : tasks[t].status \in {"in_progress", "failed"}}
Recovered == {t \in Tasks : tasks[t].status = "in_progress"}

Unreleased == {t \in Recovered : ops[t].status \notin {"none", "planned"}}

(* Each release is saved on its own, before the tasks are.  A release that *)
(* raises is logged and passed over.                                       *)
ReleaseRecovered(t) ==
  /\ ~up /\ t \in Unreleased
  /\ ops' = Released(ops, t)
  /\ \/ savedOps' = ops'
     \/ "execution_fault" \in env.may /\ UNCHANGED savedOps
  /\ UNCHANGED <<up, agents, tasks, next, call, savedBoard, crashed, env>>

(* Mutant of Boot: the tasks are not queued again.                         *)
BootTasksKept ==
  /\ ~up /\ Unreleased = {} /\ up' = TRUE
  /\ agents' = [a \in Agents |->
       IF agents[a].status = "busy" THEN IdleAgent ELSE agents[a]]
  /\ UNCHANGED <<tasks, next, ops, call, savedBoard, savedOps, crashed, env>>

(* The file is saved only if a task was recovered.                         *)
Boot ==
  /\ ~up /\ Unreleased = {} /\ up' = TRUE
  /\ tasks' = [t \in Tasks |->
       IF t \in Recovered THEN QueuedTask ELSE tasks[t]]
  /\ agents' = [a \in Agents |->
       IF \/ agents[a].status = "busy" \/ agents[a].task \in Recovered
          \/ \E t \in Recovered : tasks[t].owner = a /\ Present(a)
       THEN IdleAgent ELSE agents[a]]
  /\ UNCHANGED <<next, ops, call, savedOps, crashed, env>>
  /\ IF Recovered # {} THEN SaveBoard ELSE UNCHANGED savedBoard

---------------------------------------------------------------------------
Handle(th) ==
  \/ \E a \in Agents :
       \/ RegisterAgent(th, a)
       \/ \E status \in Statuses : Heartbeat(th, a, status)
       \/ DeregisterAgent(th, a)
       \/ \E t \in Tasks :
            \/ ClaimTask(th, a, t)
            \/ \E success \in BOOLEAN : CompleteTask(th, a, t, success)
  \/ QueueTask(th)
  \/ \E t \in Tasks : Compensate(th, t)

Recover == Boot \/ \E t \in Tasks : ReleaseRecovered(t)

Next ==
  \/ \E th \in Threads : Handle(th) \/ Execute(th) \/ Rollback(th)
  \/ Crash
  \/ Recover

Spec == Init /\ [][Next]_vars

(* A call that was started goes on, and a process that was killed is       *)
(* started again and loads its files.                                      *)
FairSpec ==
  /\ Spec
  /\ \A th \in Threads : WF_vars(Execute(th) \/ Rollback(th))
  /\ WF_vars(Recover)

---------------------------------------------------------------------------
(* Properties.                                                             *)

(* The two halves of an assignment agree: an agent's current task is in    *)
(* progress and assigned to it, and a task in progress is some present     *)
(* agent's current task.  Every section writes both; rollbacks, restarts,  *)
(* deregistrations and failed saves in between must not part them.  Only   *)
(* the first half survives results reported twice: a second report of an   *)
(* old result makes the code forget the agent's new task.                  *)
HoldersAgree ==
  \A a \in Agents, t \in Tasks :
    /\ agents[a].task = t => tasks[t] = [status |-> "in_progress", owner |-> a]
    /\ "duplicate" \notin env.may
         /\ tasks[t] = [status |-> "in_progress", owner |-> a]
       => agents[a].task = t

(* "rollback leaves no dangling refs": an agent's task is in the queue.    *)
NoDanglingTask ==
  \A a \in Agents :
     agents[a].task # NoTask => tasks[agents[a].task].status # "absent"

(* "agent runtime respects branch caps even on manual claim/dispatch": the *)
(* tasks in progress on a branch are never more than the cap one of them   *)
(* was admitted under, also when a claim or a completion is rolled back.   *)
LimitsRespected ==
  \A t \in Tasks :
     tasks[t].status = "in_progress" =>
        \E u \in Running(Branch[t]) :
           Cardinality(Running(Branch[t])) <= Limit[u]

Faulty == env.may \cap {"board_fault", "execution_fault"} # {}

(* Until the process is killed for the first time, the two runtimes tell   *)
(* the same story about every task between calls (as long as saves work).  *)
ContractsAgree ==
  ~crashed /\ ~Faulty => \A t \in Tasks :
    ~InFlight(t) =>
       ops[t].status =
           CASE tasks[t].status = "absent" -> "none"
             [] tasks[t].status = "queued" -> "planned"
             [] tasks[t].status = "in_progress" -> "in_progress"
             [] tasks[t].status = "done" -> "committed"
             [] tasks[t].status = "failed" -> "failed"

(* A task whose result the caller has been told keeps that result: no      *)
(* rollback, restart or other call takes it back.  (Not so if the caller   *)
(* reports it again, or was told that the save failed.)                    *)
ResultsAreFinal ==
  [][env.may \cap {"board_fault", "duplicate"} = {} =>
       \A t \in Tasks :
          Finished(t) /\ ~InFlight(t) => tasks'[t] = tasks[t]]_vars

(* "if a worker died, the task must go back to the queue": a task that was *)
(* in progress when the process was killed is queued again, with an        *)
(* operation that is not in progress.                                      *)
RestartRequeues ==
  \A t \in Tasks :
    ~up /\ tasks[t].status = "in_progress" ~>
       up /\ tasks[t].status = "queued" /\ ops[t].status # "in_progress"

(* The queue as its callers see it.  The board knows nothing of a failed   *)
(* save, which may take a result back, nor of a result reported twice,     *)
(* which lets an agent claim a second task.                                *)
Orderly == ~Faulty /\ "duplicate" \notin env.may
Seen(S) == IF Orderly THEN S ELSE {}
Board == INSTANCE TaskBoard WITH
  posted <- Seen({t \in Tasks : tasks[t].status = "queued"}),
  holder <- [t \in Seen(Recovered) |-> tasks[t].owner],
  finished <- Seen({t \in Tasks : Finished(t)})
ImplementsTaskBoard == Board!Spec
=============================================================================
