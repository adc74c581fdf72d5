------------------------- MODULE AgentRuntimeProofs -------------------------
(***************************************************************************)
(* AgentRuntime for any number of agents and tasks, any caps and roles and *)
(* any number of threads that queue tasks and register agents beside the   *)
(* one server thread: the two halves of every assignment agree, the caps   *)
(* of every branch are respected, the two runtimes tell the same story,    *)
(* results are final, and the queue is the one TaskBoard describes.        *)
(***************************************************************************)
EXTENDS AgentRuntime, FiniteSetTheorems, TLAPS

(* One thread claims, completes and deregisters, as in the deployed        *)
(* process; the execution runtime's saves fail only where that thread is   *)
(* alone (agents_dangling shows why).                                      *)
SingleServer == \A th1, th2 \in Servers : th1 = th2
OneServer ==
  /\ SingleServer
  /\ \A E \in Envs : "execution_fault" \in E.may =>
        \A th1, th2 \in E.callers : th1 = th2

(* The conditions on a board, be it the one in memory or the one on file.  *)
Agreeing(ag, ts) ==
  \A a \in Agents, t \in Tasks :
     ag[a].task = t <=> ts[t] = [status |-> "in_progress", owner |-> a]
Sane(ag) == \A a \in Agents : ag[a].status = "absent" => ag[a].task = NoTask
Fresh(ts, nx) == \A t \in Tasks : nx <= t => ts[t] = AbsentTask
Unowned(ts) ==
  \A t \in Tasks : ts[t].status \in {"absent", "queued"} => ts[t].owner = NoAgent
BoardInv(ag, ts, nx) ==
  Agreeing(ag, ts) /\ Sane(ag) /\ Fresh(ts, nx) /\ Unowned(ts)
BoardType(ag, ts, nx) ==
  /\ ag \in [Agents -> AgentRecord] /\ ts \in [Tasks -> TaskRecord]
  /\ nx \in 1 .. MaxTasks + 1

(* What the first section of a call left behind is still there when its    *)
(* rollback overwrites it, and the copies fit together.                    *)
CallInv(th) ==
  LET c == call[th] t == c.task a == c.agent IN
  c # NoCall =>
    /\ th \in env.callers
    /\ c.op # "queue" => th \in Servers /\ a \in Agents
    /\ c.oldAgent.status = "absent" => c.oldAgent.task = NoTask
    /\ c.op = "queue" =>
         /\ c.stage = "rollback" => "execution_fault" \in env.may
         /\ "execution_fault" \in env.may => tasks[t] = QueuedTask
    /\ c.op = "claim" =>
         /\ c.oldTask = QueuedTask /\ c.oldAgent.task = NoTask
         /\ tasks[t] = [status |-> "in_progress", owner |-> a]
         /\ agents[a].task = t
    /\ c.op = "complete" =>
         /\ c.oldTask = [status |-> "in_progress", owner |-> a]
         /\ c.oldAgent.task = t
         /\ tasks[t].status \in {"done", "failed"}
         /\ agents[a].task = NoTask
    /\ c.op = "deregister" =>
         /\ c.oldTask = [status |-> "in_progress", owner |-> a]
         /\ c.oldAgent.task = t
         /\ tasks[t] = QueuedTask
         /\ agents[a].task = NoTask

TInv ==
  /\ TypeOK
  /\ \A th \in Threads :
       call[th] # NoCall /\ call[th].op # "queue" => call[th].agent \in Agents

IInv ==
  "duplicate" \notin env.may =>
    /\ ~up => \A th \in Threads : call[th] = NoCall
    /\ BoardInv(agents, tasks, next)
    /\ BoardInv(savedBoard.agents, savedBoard.tasks, savedBoard.next)
    /\ \A th \in Threads : CallInv(th)

---------------------------------------------------------------------------
(* Types.                                                                  *)

(* The records the sections write are records of the right kind.           *)
LEMMA Constants ==
  /\ \A a \in Agents : a # NoAgent
  /\ AbsentAgent \in AgentRecord /\ IdleAgent \in AgentRecord
  /\ AbsentTask \in TaskRecord /\ QueuedTask \in TaskRecord
  /\ \A a \in Agents : [status |-> "in_progress", owner |-> a] \in TaskRecord
  /\ \A a \in Agents, t \in Tasks :
        [status |-> "busy", task |-> t] \in AgentRecord
BY RuntimeAssumption DEF AbsentAgent, IdleAgent, AgentRecord, AbsentTask,
   QueuedTask, TaskRecord, NoTask

(* Every method of the execution runtime returns a table of operations.    *)
LEMMA OperationTypes ==
  ASSUME ops \in [Tasks -> Operation], NEW t \in Tasks, NEW s \in BOOLEAN
  PROVE  /\ Registered(ops, t) \in [Tasks -> Operation]
         /\ Claimed(ops, t) \in [Tasks -> Operation]
         /\ Released(ops, t) \in [Tasks -> Operation]
         /\ Completed(ops, t, s) \in [Tasks -> Operation]
         /\ Compensated(ops, t) \in [Tasks -> Operation]
<1>1. Registered(ops, t) \in [Tasks -> Operation]
  BY DEF Registered, Operation
<1>2. Claimed(ops, t) \in [Tasks -> Operation]
  BY DEF Claimed, Operation
<1>3. Released(ops, t) \in [Tasks -> Operation]
  BY DEF Released, Operation
<1>4. Completed(ops, t, s) \in [Tasks -> Operation]
  BY DEF Completed, Operation
<1>5. Compensated(ops, t) \in [Tasks -> Operation]
  BY DEF Compensated, Operation
<1> QED BY <1>1, <1>2, <1>3, <1>4, <1>5

(* The empty board and the empty table.                                    *)
LEMMA InitTypes == Init => TInv
<1> SUFFICES ASSUME Init PROVE TInv
  OBVIOUS
<1>1. NoOperation \in Operation
  BY DEF NoOperation, Operation
<1>2. 1 \in 1 .. MaxTasks + 1
  BY RuntimeAssumption
<1> QED BY <1>1, <1>2, Constants DEF Init, TInv, TypeOK, NoCall

(* The save of a board that is well typed leaves a well typed file.        *)
LEMMA SavedTypes ==
  ASSUME TypeOK, BoardType(agents', tasks', next'),
         SaveBoard \/ UNCHANGED savedBoard
  PROVE  savedBoard' \in [agents : [Agents -> AgentRecord],
                          tasks : [Tasks -> TaskRecord],
                          next : 1 .. MaxTasks + 1]
BY DEF TypeOK, BoardType, SaveBoard

(* A first section that leads to a well typed call.                        *)
LEMMA SectionTypes ==
  ASSUME TInv, NEW th \in Threads, NEW c \in CallRecord,
         c.op # "queue" => c.agent \in Agents,
         BoardType(agents', tasks', next'),
         EndSection \/ LeadTo(th, c)
  PROVE  TInv'
<1>1. SaveBoard \/ UNCHANGED savedBoard
  BY DEF EndSection, LeadTo, SaveBoardFails
<1>2. call' = call \/ call' = [call EXCEPT ![th] = c]
  BY DEF EndSection, LeadTo
<1>3. UNCHANGED <<up, ops, savedOps, crashed, env>>
  BY DEF EndSection, LeadTo
<1>4. TypeOK'
  BY <1>1, <1>2, <1>3, SavedTypes DEF TInv, TypeOK, BoardType
<1> QED BY <1>2, <1>4 DEF TInv, TypeOK

(* Registering an agent.                                                   *)
LEMMA RegisterTypes ==
  ASSUME TInv, NEW th \in Threads, NEW a \in Agents, RegisterAgent(th, a)
  PROVE  TInv'
<1>1. BoardType(agents', tasks', next')
  BY Constants DEF RegisterAgent, BoardType, TInv, TypeOK
<1>2. CASE SaveBoard
  BY <1>1, <1>2, SavedTypes DEF RegisterAgent, EndSection, TInv, TypeOK, BoardType
<1>3. CASE SaveBoardFails
  BY <1>1, <1>3, SavedTypes
  DEF RegisterAgent, EndSection, SaveBoardFails, TInv, TypeOK, BoardType
<1> QED BY <1>2, <1>3 DEF RegisterAgent, EndSection

(* A heartbeat writes one of the statuses agents report.                   *)
LEMMA HeartbeatTypes ==
  ASSUME TInv, NEW th \in Threads, NEW a \in Agents, NEW s \in Statuses,
         Heartbeat(th, a, s)
  PROVE  TInv'
<1>1. BoardType(agents', tasks', next')
  <2>1. [agents[a] EXCEPT !.status = s] \in AgentRecord
    BY RuntimeAssumption, SMTT(30) DEF TInv, TypeOK, AgentRecord
  <2> QED BY <2>1 DEF Heartbeat, BoardType, TInv, TypeOK
<1>2. SaveBoard \/ UNCHANGED savedBoard
  BY DEF Heartbeat, EndSection, SaveBoardFails
<1>3. UNCHANGED <<up, ops, call, savedOps, crashed, env>>
  BY DEF Heartbeat, EndSection
<1> QED BY <1>1, <1>2, <1>3, SavedTypes DEF TInv, TypeOK, BoardType

(* Queueing: the next task is a task, the one after it may not be.         *)
LEMMA QueueTypes ==
  ASSUME TInv, NEW th \in Threads, QueueTask(th)
  PROVE  TInv'
<1> DEFINE c == Calling("queue", next, NoAgent, TRUE)
<1>1. next \in Tasks /\ next + 1 \in 1 .. MaxTasks + 1
  BY RuntimeAssumption DEF QueueTask, TInv, TypeOK, Tasks
<1>2. c \in CallRecord /\ c.op = "queue"
  BY <1>1, Constants DEF Calling, CallRecord, TInv, TypeOK
<1>3. BoardType(agents', tasks', next')
  BY <1>1, Constants DEF QueueTask, BoardType, TInv, TypeOK
<1>4. LeadTo(th, c)
  BY DEF QueueTask
<1> HIDE DEF c
<1> QED BY <1>2, <1>3, <1>4, SectionTypes

(* Claiming.                                                               *)
LEMMA ClaimTypes ==
  ASSUME TInv, NEW th \in Threads, NEW a \in Agents, NEW t \in Tasks,
         ClaimTask(th, a, t)
  PROVE  TInv'
<1> DEFINE c == Calling("claim", t, a, TRUE)
<1>1. c \in CallRecord /\ c.agent = a
  BY Constants DEF Calling, CallRecord, TInv, TypeOK
<1>2. BoardType(agents', tasks', next')
  BY Constants DEF ClaimTask, BoardType, TInv, TypeOK
<1>3. LeadTo(th, c)
  BY DEF ClaimTask
<1> HIDE DEF c
<1> QED BY <1>1, <1>2, <1>3, SectionTypes

(* Reporting a result.                                                     *)
LEMMA CompleteTypes ==
  ASSUME TInv, NEW th \in Threads, NEW a \in Agents, NEW t \in Tasks,
         NEW s \in BOOLEAN, CompleteTask(th, a, t, s)
  PROVE  TInv'
<1> DEFINE c == Calling("complete", t, a, s)
<1>1. c \in CallRecord /\ c.agent = a
  BY Constants DEF Calling, CallRecord, TInv, TypeOK
<1>2. BoardType(agents', tasks', next')
  <2>1. [tasks[t] EXCEPT !.status = IF s THEN "done" ELSE "failed"]
          \in TaskRecord
    BY DEF TInv, TypeOK, TaskRecord
  <2> QED BY <2>1, Constants DEF CompleteTask, BoardType, TInv, TypeOK
<1>3. LeadTo(th, c)
  BY DEF CompleteTask
<1> HIDE DEF c
<1> QED BY <1>1, <1>2, <1>3, SectionTypes

(* Retiring an agent, with or without a task.                              *)
LEMMA DeregisterTypes ==
  ASSUME TInv, NEW th \in Threads, NEW a \in Agents, DeregisterAgent(th, a)
  PROVE  TInv'
<1> DEFINE t == agents[a].task
           c == Calling("deregister", t, a, TRUE)
           holds == t # NoTask
                    /\ tasks[t] = [status |-> "in_progress", owner |-> a]
<1>1. BoardType(agents', tasks', next')
  BY Constants DEF DeregisterAgent, BoardType, TInv, TypeOK
<1>2. CASE holds
  <2>1. t \in Tasks
    BY <1>2 DEF TInv, TypeOK, AgentRecord
  <2>2. c \in CallRecord /\ c.agent = a
    BY <2>1, Constants DEF Calling, CallRecord, TInv, TypeOK
  <2>3. LeadTo(th, c)
    BY <1>2 DEF DeregisterAgent
  <2> HIDE DEF c
  <2> QED BY <1>1, <2>2, <2>3, SectionTypes
<1>3. CASE ~holds
  <2>1. EndSection
    BY <1>3 DEF DeregisterAgent
  <2>2. SaveBoard \/ UNCHANGED savedBoard
    BY <2>1 DEF EndSection, SaveBoardFails
  <2>3. UNCHANGED <<up, ops, call, savedOps, crashed, env>>
    BY <2>1 DEF EndSection
  <2> QED BY <1>1, <2>2, <2>3, SavedTypes DEF TInv, TypeOK, BoardType
<1> QED BY <1>2, <1>3

(* Compensating touches operations only.                                   *)
LEMMA CompensateTypes ==
  ASSUME TInv, NEW th \in Threads, NEW t \in Tasks, Compensate(th, t)
  PROVE  TInv'
<1>1. ops' \in [Tasks -> Operation] /\ savedOps' \in [Tasks -> Operation]
  BY OperationTypes DEF Compensate, TInv, TypeOK
<1>2. UNCHANGED <<up, agents, tasks, next, call, savedBoard, crashed, env>>
  BY DEF Compensate
<1> QED BY <1>1, <1>2 DEF TInv, TypeOK

(* The call into the execution runtime, whether or not it raises.          *)
LEMMA ExecuteTypes ==
  ASSUME TInv, NEW th \in Threads, Execute(th)
  PROVE  TInv'
<1> DEFINE c == call[th]
           d == [op |-> c.op, stage |-> "rollback", task |-> c.task,
                 agent |-> c.agent, success |-> c.success,
                 oldTask |-> c.oldTask, oldAgent |-> c.oldAgent]
<1>1. c \in CallRecord /\ c # NoCall
  BY DEF Execute, TInv, TypeOK
<1>2. ops' \in [Tasks -> Operation]
  <2>1. c.task \in Tasks /\ c.success \in BOOLEAN
        /\ c.op \in {"queue", "claim", "complete", "deregister"}
    BY <1>1 DEF CallRecord
  <2>2. Effect(c) \in [Tasks -> Operation]
    BY <2>1, OperationTypes DEF Effect, TInv, TypeOK
  <2> HIDE DEF c
  <2>3. ops' = Effect(c) \/ ops' = ops
    BY DEF Execute, c
  <2> QED BY <2>2, <2>3 DEF TInv, TypeOK
<1>3. savedOps' \in [Tasks -> Operation]
  BY <1>2 DEF Execute, TInv, TypeOK
<1>4. d \in CallRecord /\ d.op = c.op /\ d.agent = c.agent /\ d # NoCall
  BY <1>1 DEF CallRecord, NoCall
<1>5. call' = [call EXCEPT ![th] = NoCall] \/ call' = [call EXCEPT ![th] = d]
  <2>1. [c EXCEPT !.stage = "rollback"] = d
    BY <1>1 DEF CallRecord
  <2>2. \/ call' = [call EXCEPT ![th] = NoCall]
        \/ call' = [call EXCEPT ![th] = [c EXCEPT !.stage = "rollback"]]
    BY DEF Execute
  <2> QED BY <2>1, <2>2
<1>6. UNCHANGED <<up, agents, tasks, next, savedBoard, crashed, env>>
  BY DEF Execute
<1> HIDE DEF d
<1>7. TypeOK'
  BY <1>2, <1>3, <1>4, <1>5, <1>6 DEF TInv, TypeOK
<1>8. ASSUME NEW u \in Threads, call'[u] # NoCall, call'[u].op # "queue"
      PROVE  call'[u].agent \in Agents
  BY <1>1, <1>4, <1>5, <1>8 DEF TInv, TypeOK
<1> QED BY <1>7, <1>8 DEF TInv

(* A rollback writes the copies, which have the types they had.            *)
LEMMA RollbackTypes ==
  ASSUME TInv, NEW th \in Threads, Rollback(th)
  PROVE  TInv'
<1> DEFINE c == call[th]
<1>1. c \in CallRecord /\ c # NoCall /\ (c.op # "queue" => c.agent \in Agents)
  BY DEF Rollback, TInv, TypeOK
<1>2. BoardType(agents', tasks', next')
  <2>1. c.oldTask \in TaskRecord /\ c.oldAgent \in AgentRecord
    BY <1>1 DEF CallRecord
  <2>2. tasks' \in [Tasks -> TaskRecord]
    BY <2>1, Constants DEF Rollback, TInv, TypeOK
  <2>3. agents' \in [Agents -> AgentRecord]
    BY <1>1, <2>1 DEF Rollback, TInv, TypeOK
  <2> QED BY <2>2, <2>3 DEF Rollback, BoardType, TInv, TypeOK
<1>3. SaveBoard \/ UNCHANGED savedBoard
  BY DEF Rollback, SaveBoardFails
<1>4. call' = [call EXCEPT ![th] = NoCall]
      /\ UNCHANGED <<up, ops, savedOps, crashed, env>>
  BY DEF Rollback
<1> QED BY <1>2, <1>3, <1>4, SavedTypes DEF TInv, TypeOK, BoardType

(* A kill: memory is what the files hold.                                  *)
LEMMA CrashTypes ==
  ASSUME TInv, Crash
  PROVE  TInv'
BY DEF Crash, TInv, TypeOK

(* Releasing the operation of a recovered task.                            *)
LEMMA ReleaseTypes ==
  ASSUME TInv, NEW t \in Tasks, ReleaseRecovered(t)
  PROVE  TInv'
<1>1. ops' \in [Tasks -> Operation] /\ savedOps' \in [Tasks -> Operation]
  BY OperationTypes DEF ReleaseRecovered, TInv, TypeOK
<1>2. UNCHANGED <<up, agents, tasks, next, call, savedBoard, crashed, env>>
  BY DEF ReleaseRecovered
<1> QED BY <1>1, <1>2 DEF TInv, TypeOK

(* The end of a restart.                                                   *)
LEMMA BootTypes ==
  ASSUME TInv, Boot
  PROVE  TInv'
<1>1. BoardType(agents', tasks', next')
  BY Constants DEF Boot, BoardType, TInv, TypeOK
<1>2. SaveBoard \/ UNCHANGED savedBoard
  BY DEF Boot
<1>3. up' \in BOOLEAN /\ UNCHANGED <<ops, call, savedOps, crashed, env>>
  BY DEF Boot
<1> QED BY <1>1, <1>2, <1>3, SavedTypes DEF TInv, TypeOK, BoardType

(* Every step.                                                             *)
LEMMA NextTypes == TInv /\ [Next]_vars => TInv'
<1> SUFFICES ASSUME TInv, [Next]_vars PROVE TInv'
  OBVIOUS
<1>1. CASE UNCHANGED vars
  BY <1>1 DEF vars, TInv, TypeOK
<1>2. ASSUME NEW th \in Threads, Handle(th) PROVE TInv'
  BY <1>2, RegisterTypes, HeartbeatTypes, QueueTypes, ClaimTypes,
     CompleteTypes, DeregisterTypes, CompensateTypes DEF Handle
<1>3. ASSUME NEW th \in Threads, Execute(th) \/ Rollback(th) PROVE TInv'
  BY <1>3, ExecuteTypes, RollbackTypes
<1>4. CASE Crash \/ Recover
  BY <1>4, CrashTypes, ReleaseTypes, BootTypes DEF Recover
<1> QED BY <1>1, <1>2, <1>3, <1>4 DEF Next

(* Every call, rollback, crash and restart keeps the types: no path        *)
(* stores a status of the wrong vocabulary or a task without its fields.   *)
THEOREM TypeCorrect == Spec => []TypeOK
<1>1. TInv => TypeOK
  BY DEF TInv
<1> QED BY <1>1, InitTypes, NextTypes, PTL DEF Spec

---------------------------------------------------------------------------
(* Assignments.                                                            *)

(* Nobody has a task at the start.                                         *)
LEMMA InitInv == Init => IInv
<1> SUFFICES ASSUME Init PROVE IInv
  OBVIOUS
<1>1. BoardInv(agents, tasks, next)
  BY Constants DEF Init, BoardInv, Agreeing, Sane, Fresh, Unowned, AbsentAgent,
     AbsentTask, NoTask, Tasks
<1>2. savedBoard.agents = agents /\ savedBoard.tasks = tasks
      /\ savedBoard.next = next
  BY DEF Init
<1>3. \A th \in Threads : call[th] = NoCall
  BY DEF Init
<1> QED BY <1>1, <1>2, <1>3 DEF IInv, CallInv

(* A board fit to be in memory is fit to be on file.                       *)
LEMMA SavedInv ==
  ASSUME BoardInv(savedBoard.agents, savedBoard.tasks, savedBoard.next),
         BoardInv(agents', tasks', next'),
         SaveBoard \/ UNCHANGED savedBoard
  PROVE  BoardInv(savedBoard'.agents, savedBoard'.tasks, savedBoard'.next)
<1>1. CASE SaveBoard
  <2>1. savedBoard'.agents = agents' /\ savedBoard'.tasks = tasks'
        /\ savedBoard'.next = next'
    BY <1>1 DEF SaveBoard
  <2> QED BY <2>1
<1>2. CASE UNCHANGED savedBoard
  BY <1>2
<1> QED BY <1>1, <1>2

(* A call that is not disturbed: none of what it relies on changes.        *)
LEMMA CallKept ==
  ASSUME NEW u \in Threads, CallInv(u), env' = env, call'[u] = call[u],
         call[u] # NoCall =>
           LET c == call[u] IN
           IF c.op = "queue"
           THEN "execution_fault" \in env.may => tasks'[c.task] = tasks[c.task]
           ELSE /\ tasks'[c.task] = tasks[c.task]
                /\ agents'[c.agent].task = agents[c.agent].task
  PROVE  CallInv(u)'
BY DEF CallInv

(* Where the execution runtime's saves may fail, one thread has calls.     *)
LEMMA Alone ==
  ASSUME OneServer, env \in Envs, "execution_fault" \in env.may,
         NEW th \in Threads, th \in env.callers,
         NEW u \in Threads, u # th, CallInv(u)
  PROVE  call[u] = NoCall
BY DEF OneServer, SingleServer, CallInv

(* The server's sections disturb no other call: the others only queue      *)
(* tasks, and rely on nothing unless they are alone.                       *)
LEMMA OthersKept ==
  ASSUME OneServer, TypeOK, NEW th \in Servers, th \in env.callers,
         NEW u \in Threads, u # th,
         CallInv(u), env' = env, call'[u] = call[u]
  PROVE  CallInv(u)'
<1>1. CASE "execution_fault" \notin env.may
  <2>1. call[u] # NoCall => call[u].op = "queue"
    BY RuntimeAssumption DEF OneServer, SingleServer, CallInv
  <2> QED BY <1>1, <2>1, CallKept
<1>2. CASE "execution_fault" \in env.may
  <2>1. call[u] = NoCall
    BY <1>2, RuntimeAssumption, Alone DEF TypeOK
  <2> QED BY <2>1 DEF CallInv
<1> QED BY <1>1, <1>2


(* The first section of a call of the server.                              *)
LEMMA ServerSection ==
  ASSUME OneServer, TypeOK, IInv, "duplicate" \notin env.may,
         NEW th \in Servers, Free(th), NEW c, BoardInv(agents', tasks', next'),
         EndSection \/ LeadTo(th, c),
         call'[th] = c => CallInv(th)'
  PROVE  IInv'
<1>0. th \in Threads
  BY RuntimeAssumption
<1>1. SaveBoard \/ UNCHANGED savedBoard
  BY DEF EndSection, LeadTo, SaveBoardFails
<1>2. env' = env /\ up' = up
  BY DEF EndSection, LeadTo
<1>3. BoardInv(savedBoard'.agents, savedBoard'.tasks, savedBoard'.next)
  BY <1>1, SavedInv DEF IInv
<1>4. CallInv(th)'
  <2>1. call'[th] = c \/ call'[th] = NoCall
    BY <1>0 DEF EndSection, LeadTo, Free, TypeOK
  <2>2. call'[th] = NoCall => CallInv(th)'
    BY DEF CallInv
  <2> QED BY <2>1, <2>2
<1>5. ASSUME NEW u \in Threads, u # th PROVE CallInv(u)'
  <2>1. call'[u] = call[u]
    BY <1>0, <1>5 DEF EndSection, LeadTo, TypeOK
  <2> QED BY <1>2, <1>5, <2>1, OthersKept DEF IInv, Free
<1> QED BY <1>2, <1>3, <1>4, <1>5 DEF IInv, Free

(* Registering an agent gives no one a task.                               *)
LEMMA RegisterInv ==
  ASSUME TInv, IInv, "duplicate" \notin env.may,
         NEW th \in Threads, NEW a \in Agents, RegisterAgent(th, a)
  PROVE  IInv'
<1>1. \A b \in Agents : agents'[b].task = agents[b].task
  BY DEF RegisterAgent, IInv, BoardInv, Sane, Present, IdleAgent, TInv, TypeOK
<1>2. \A b \in Agents : agents'[b].status = "absent" => agents'[b].task = NoTask
  BY DEF RegisterAgent, IInv, BoardInv, Sane, IdleAgent, TInv, TypeOK
<1>3. UNCHANGED <<up, tasks, next, call, env>> /\ (SaveBoard \/ UNCHANGED savedBoard)
  BY DEF RegisterAgent, EndSection, SaveBoardFails
<1>4. BoardInv(agents', tasks', next')
  BY <1>1, <1>2, <1>3 DEF IInv, BoardInv, Agreeing, Sane, Fresh, Unowned
<1>5. BoardInv(savedBoard'.agents, savedBoard'.tasks, savedBoard'.next)
  BY <1>3, <1>4, SavedInv DEF IInv
<1>6. ASSUME NEW u \in Threads PROVE CallInv(u)'
  BY <1>1, <1>3, CallKept DEF IInv, CallInv
<1> QED BY <1>3, <1>4, <1>5, <1>6 DEF IInv

(* A heartbeat changes no task.                                            *)
LEMMA HeartbeatInv ==
  ASSUME TInv, IInv, "duplicate" \notin env.may, NEW th \in Threads,
         NEW a \in Agents, NEW s \in Statuses, Heartbeat(th, a, s)
  PROVE  IInv'
<1>1. \A b \in Agents : agents'[b].task = agents[b].task
  BY DEF Heartbeat, TInv, TypeOK, AgentRecord
<1>2. \A b \in Agents : agents'[b].status = "absent" => agents'[b].task = NoTask
  <2>1. s # "absent"
    BY RuntimeAssumption
  <2> QED BY <2>1 DEF Heartbeat, IInv, BoardInv, Sane, TInv, TypeOK, AgentRecord
<1>3. UNCHANGED <<up, tasks, next, call, env>> /\ (SaveBoard \/ UNCHANGED savedBoard)
  BY DEF Heartbeat, EndSection, SaveBoardFails
<1>4. BoardInv(agents', tasks', next')
  BY <1>1, <1>2, <1>3 DEF IInv, BoardInv, Agreeing, Sane, Fresh, Unowned
<1>5. BoardInv(savedBoard'.agents, savedBoard'.tasks, savedBoard'.next)
  BY <1>3, <1>4, SavedInv DEF IInv
<1>6. ASSUME NEW u \in Threads PROVE CallInv(u)'
  BY <1>1, <1>3, CallKept DEF IInv, CallInv
<1> QED BY <1>3, <1>4, <1>5, <1>6 DEF IInv

(* A new task is nobody's.                                                 *)
LEMMA QueueInv ==
  ASSUME OneServer, TInv, IInv, "duplicate" \notin env.may,
         NEW th \in Threads, QueueTask(th)
  PROVE  IInv'
<1> DEFINE c == Calling("queue", next, NoAgent, TRUE)
<1>1. next \in Tasks /\ next \in Nat
  BY RuntimeAssumption DEF QueueTask, TInv, TypeOK, Tasks
<1>2. tasks[next] = AbsentTask
  BY <1>1 DEF IInv, BoardInv, Fresh, Tasks
<1>3. tasks'[next] = QueuedTask
      /\ \A t \in Tasks : t # next => tasks'[t] = tasks[t]
  BY <1>1 DEF QueueTask, TInv, TypeOK
<1>4. UNCHANGED <<up, agents, env>> /\ (SaveBoard \/ UNCHANGED savedBoard)
      /\ next' = next + 1
  BY DEF QueueTask, LeadTo, SaveBoardFails
<1>5. BoardInv(agents', tasks', next')
  <2>1. Agreeing(agents', tasks')
    <3>1. \A a \in Agents : tasks[next] # [status |-> "in_progress", owner |-> a]
      BY <1>2 DEF AbsentTask
    <3>2. \A a \in Agents : tasks'[next] # [status |-> "in_progress", owner |-> a]
      BY <1>3 DEF QueuedTask
    <3>3. ASSUME NEW a \in Agents, NEW t \in Tasks
          PROVE  agents[a].task = t
                   <=> tasks'[t] = [status |-> "in_progress", owner |-> a]
      <4>1. agents[a].task = t
              <=> tasks[t] = [status |-> "in_progress", owner |-> a]
        BY DEF IInv, BoardInv, Agreeing
      <4> QED BY <1>3, <3>1, <3>2, <4>1
    <3> QED BY <1>4, <3>3 DEF Agreeing
  <2>2. Fresh(tasks', next')
    BY <1>1, <1>3, <1>4 DEF IInv, BoardInv, Fresh, Tasks
  <2>3. Sane(agents') /\ Unowned(tasks')
    BY <1>3, <1>4 DEF IInv, BoardInv, Sane, Unowned, QueuedTask
  <2> QED BY <2>1, <2>2, <2>3 DEF BoardInv
<1>6. BoardInv(savedBoard'.agents, savedBoard'.tasks, savedBoard'.next)
  BY <1>4, <1>5, SavedInv DEF IInv
<1>7. CallInv(th)'
  <2>1. call'[th] = c \/ call'[th] = NoCall
    BY DEF QueueTask, LeadTo, Free, TInv, TypeOK
  <2>2. c.op = "queue" /\ c.stage = "execute" /\ c.task = next
        /\ c.oldAgent = AbsentAgent
    BY DEF Calling
  <2> HIDE DEF c
  <2>3. CASE call'[th] = c
    BY <1>3, <1>4, <2>2, <2>3 DEF CallInv, AbsentAgent, QueueTask, Free
  <2>4. CASE call'[th] = NoCall
    BY <2>4 DEF CallInv
  <2> QED BY <2>1, <2>3, <2>4
<1>8. ASSUME NEW u \in Threads, u # th PROVE CallInv(u)'
  <2>1. call'[u] = call[u]
    BY <1>8 DEF QueueTask, LeadTo, TInv, TypeOK
  <2>2. CASE call[u] = NoCall
    BY <2>1, <2>2 DEF CallInv
  <2>4. call[u] # NoCall => "execution_fault" \notin env.may
    BY <1>8, Alone DEF IInv, QueueTask, Free, TInv, TypeOK
  <2>3. call[u] # NoCall /\ call[u].op # "queue" =>
          tasks'[call[u].task] = tasks[call[u].task]
    <3> SUFFICES ASSUME call[u] # NoCall, call[u].op # "queue"
                 PROVE  tasks'[call[u].task] = tasks[call[u].task]
      OBVIOUS
    <3>1. call[u] \in CallRecord
      BY DEF TInv, TypeOK
    <3>2. call[u].task \in Tasks
          /\ call[u].op \in {"claim", "complete", "deregister"}
      BY <3>1 DEF CallRecord
    <3>3. tasks[call[u].task].status # "absent"
      <4>1. CallInv(u)
        BY DEF IInv
      <4>2. CASE call[u].op = "claim"
        BY <4>1, <4>2 DEF CallInv
      <4>3. CASE call[u].op = "complete"
        BY <4>1, <4>3 DEF CallInv
      <4>4. CASE call[u].op = "deregister"
        BY <4>1, <4>4 DEF CallInv, QueuedTask
      <4> QED BY <3>2, <4>2, <4>3, <4>4
    <3>4. call[u].task # next
      BY <1>2, <3>3 DEF AbsentTask
    <3> QED BY <1>3, <3>2, <3>4
  <2> QED BY <1>4, <2>1, <2>2, <2>3, <2>4, CallKept DEF IInv
<1> QED BY <1>4, <1>5, <1>6, <1>7, <1>8 DEF IInv, QueueTask, Free

(* Assigning a free task to a free agent, and undoing it, one change on    *)
(* each side.                                                              *)
LEMMA Assigning ==
  ASSUME NEW ag, NEW ts, NEW ag2, NEW ts2, NEW a \in Agents, NEW t \in Tasks,
         Agreeing(ag, ts), ag[a].task = NoTask, ts[t].status # "in_progress",
         ag2[a].task = t, ts2[t] = [status |-> "in_progress", owner |-> a],
         \A b \in Agents : b # a => ag2[b] = ag[b],
         \A u \in Tasks : u # t => ts2[u] = ts[u]
  PROVE  Agreeing(ag2, ts2)
<1> SUFFICES ASSUME NEW b \in Agents, NEW u \in Tasks
             PROVE  ag2[b].task = u
                      <=> ts2[u] = [status |-> "in_progress", owner |-> b]
  BY DEF Agreeing
<1>1. ag[b].task = u <=> ts[u] = [status |-> "in_progress", owner |-> b]
  BY DEF Agreeing
<1>2. ts[t] # [status |-> "in_progress", owner |-> b]
  OBVIOUS
<1>3. u # NoTask
  BY DEF Tasks, NoTask
<1>4. CASE b = a /\ u = t
  BY <1>4
<1>5. CASE b = a /\ u # t
  BY <1>1, <1>3, <1>5
<1>6. CASE b # a /\ u = t
  <2>1. ts2[t] # [status |-> "in_progress", owner |-> b]
    BY <1>6
  <2>2. ag[b].task # t
    BY <1>2, <1>6 DEF Agreeing
  <2> QED BY <1>6, <2>1, <2>2
<1>7. CASE b # a /\ u # t
  BY <1>1, <1>7
<1> QED BY <1>4, <1>5, <1>6, <1>7

(* An agent loses the task it has.                                         *)
LEMMA Unassigning ==
  ASSUME NEW ag, NEW ts, NEW ag2, NEW ts2, NEW a \in Agents, NEW t \in Tasks,
         Agreeing(ag, ts), ag[a].task = t, ts2[t].status # "in_progress",
         ag2[a].task = NoTask,
         \A b \in Agents : b # a => ag2[b] = ag[b],
         \A u \in Tasks : u # t => ts2[u] = ts[u]
  PROVE  Agreeing(ag2, ts2)
<1> SUFFICES ASSUME NEW b \in Agents, NEW u \in Tasks
             PROVE  ag2[b].task = u
                      <=> ts2[u] = [status |-> "in_progress", owner |-> b]
  BY DEF Agreeing
<1>1. ag[b].task = u <=> ts[u] = [status |-> "in_progress", owner |-> b]
  BY DEF Agreeing
<1>2. ts2[t] # [status |-> "in_progress", owner |-> b]
  OBVIOUS
<1>3. u # NoTask
  BY DEF Tasks, NoTask
<1>4. ts[t] = [status |-> "in_progress", owner |-> a]
  BY DEF Agreeing
<1>5. CASE u = t
  <2>1. b # a => ag[b].task # t
    BY <1>1, <1>4, <1>5
  <2> QED BY <1>2, <1>3, <1>5, <2>1
<1>6. CASE b = a /\ u # t
  BY <1>1, <1>3, <1>6
<1>7. CASE b # a /\ u # t
  BY <1>1, <1>7
<1> QED BY <1>5, <1>6, <1>7

(* A claim gives a task to an agent that has none.                         *)
LEMMA ClaimInv ==
  ASSUME OneServer, TInv, IInv, "duplicate" \notin env.may, NEW th \in Threads,
         NEW a \in Agents, NEW t \in Tasks, ClaimTask(th, a, t)
  PROVE  IInv'
<1> DEFINE c == Calling("claim", t, a, TRUE)
<1>1. tasks[t] = QueuedTask
  BY DEF ClaimTask, QueuedTask, IInv, BoardInv, Unowned, TInv, TypeOK, TaskRecord
<1>2. agents[a].task = NoTask
  BY DEF ClaimTask
<1>3. /\ tasks'[t] = [status |-> "in_progress", owner |-> a]
      /\ \A u \in Tasks : u # t => tasks'[u] = tasks[u]
      /\ agents'[a] = [status |-> "busy", task |-> t]
      /\ \A b \in Agents : b # a => agents'[b] = agents[b]
      /\ next' = next
  BY DEF ClaimTask, TInv, TypeOK
<1>4. BoardInv(agents', tasks', next')
  <2>1. Agreeing(agents', tasks')
    BY <1>1, <1>2, <1>3, Assigning DEF IInv, BoardInv, QueuedTask
  <2>2. Fresh(tasks', next')
    BY <1>1, <1>3 DEF IInv, BoardInv, Fresh, QueuedTask, AbsentTask
  <2>3. Sane(agents') /\ Unowned(tasks')
    BY <1>3 DEF IInv, BoardInv, Sane, Unowned
  <2> QED BY <2>1, <2>2, <2>3 DEF BoardInv
<1>5. /\ c.op = "claim" /\ c.task = t /\ c.agent = a
      /\ c.oldTask = tasks[t] /\ c.oldAgent = agents[a]
  BY Constants DEF Calling
<1>6. agents[a].status # "absent"
  BY DEF ClaimTask, Present
<1>7. LeadTo(th, c) /\ th \in Servers /\ Free(th)
  BY DEF ClaimTask
<1> HIDE DEF c
<1>8. call'[th] = c => CallInv(th)'
  <2>1. th \in env'.callers
    BY <1>7 DEF LeadTo, Free
  <2> QED BY <1>1, <1>2, <1>3, <1>5, <1>6, <1>7, <2>1 DEF CallInv
<1> QED BY <1>4, <1>7, <1>8, ServerSection DEF TInv

(* A result takes the task from its agent.                                 *)
LEMMA CompleteInv ==
  ASSUME OneServer, TInv, IInv, "duplicate" \notin env.may, NEW th \in Threads,
         NEW a \in Agents, NEW t \in Tasks, NEW s \in BOOLEAN,
         CompleteTask(th, a, t, s)
  PROVE  IInv'
<1> DEFINE c == Calling("complete", t, a, s)
<1>1. tasks[t] = [status |-> "in_progress", owner |-> a]
  BY Constants DEF CompleteTask, Finished, IInv, BoardInv, Unowned, TInv,
     TypeOK, TaskRecord
<1>2. agents[a].task = t
  BY <1>1 DEF IInv, BoardInv, Agreeing
<1>3. /\ tasks'[t].status \in {"done", "failed"}
      /\ \A u \in Tasks : u # t => tasks'[u] = tasks[u]
      /\ agents'[a] = IdleAgent
      /\ \A b \in Agents : b # a => agents'[b] = agents[b]
      /\ next' = next
  <2>1. tasks'[t] = [tasks[t] EXCEPT !.status = IF s THEN "done" ELSE "failed"]
        /\ \A u \in Tasks : u # t => tasks'[u] = tasks[u]
    BY DEF CompleteTask, TInv, TypeOK
  <2>2. tasks'[t].status \in {"done", "failed"}
    BY <2>1 DEF TInv, TypeOK, TaskRecord
  <2> QED BY <2>1, <2>2 DEF CompleteTask, TInv, TypeOK
<1>4. BoardInv(agents', tasks', next')
  <2>1. Agreeing(agents', tasks')
    <3>1. tasks'[t].status # "in_progress" /\ agents'[a].task = NoTask
      BY <1>3 DEF IdleAgent
    <3> QED BY <1>2, <1>3, <3>1, Unassigning DEF IInv, BoardInv
  <2>2. Fresh(tasks', next')
    BY <1>1, <1>3 DEF IInv, BoardInv, Fresh, AbsentTask
  <2>3. Sane(agents') /\ Unowned(tasks')
    BY <1>3 DEF IInv, BoardInv, Sane, Unowned, IdleAgent
  <2> QED BY <2>1, <2>2, <2>3 DEF BoardInv
<1>5. /\ c.op = "complete" /\ c.task = t /\ c.agent = a
      /\ c.oldTask = tasks[t] /\ c.oldAgent = agents[a]
  BY Constants DEF Calling
<1>6. agents[a].status # "absent" /\ agents'[a].task = NoTask
  BY <1>3 DEF CompleteTask, Present, IdleAgent
<1>7. LeadTo(th, c) /\ th \in Servers /\ Free(th)
  BY DEF CompleteTask
<1> HIDE DEF c
<1>8. call'[th] = c => CallInv(th)'
  <2>1. th \in env'.callers
    BY <1>7 DEF LeadTo, Free
  <2> QED BY <1>1, <1>2, <1>3, <1>5, <1>6, <1>7, <2>1 DEF CallInv
<1> QED BY <1>4, <1>7, <1>8, ServerSection DEF TInv

(* A retired agent takes no task with it.                                  *)
LEMMA DeregisterInv ==
  ASSUME OneServer, TInv, IInv, "duplicate" \notin env.may, NEW th \in Threads,
         NEW a \in Agents, DeregisterAgent(th, a)
  PROVE  IInv'
<1> DEFINE t == agents[a].task
           c == Calling("deregister", t, a, TRUE)
<1>1. /\ agents'[a] = AbsentAgent
      /\ \A b \in Agents : b # a => agents'[b] = agents[b]
      /\ next' = next
  BY DEF DeregisterAgent, TInv, TypeOK
<1>2. Sane(agents')
  BY <1>1 DEF IInv, BoardInv, Sane, AbsentAgent
<1>3. th \in Servers /\ Free(th) /\ agents[a].status # "absent"
  BY DEF DeregisterAgent, Present
<1>4. CASE t = NoTask
  <2>1. tasks' = tasks /\ EndSection
    BY <1>4 DEF DeregisterAgent
  <2>2. agents'[a].task = NoTask
    BY <1>1 DEF AbsentAgent
  <2>3. \A b \in Agents : agents'[b].task = agents[b].task
    BY <1>1, <1>4, <2>2
  <2>4. BoardInv(agents', tasks', next')
    BY <1>1, <1>2, <2>1, <2>3
    DEF IInv, BoardInv, Agreeing, Fresh, Unowned
  <2>5. call'[th] = NoCall => CallInv(th)'
    BY DEF CallInv
  <2> QED BY <1>3, <2>1, <2>4, <2>5, ServerSection DEF TInv
<1>5. CASE t # NoTask
  <2>1. t \in Tasks
    BY <1>5 DEF TInv, TypeOK, AgentRecord
  <2>2. tasks[t] = [status |-> "in_progress", owner |-> a]
    BY <2>1 DEF IInv, BoardInv, Agreeing
  <2>3. tasks'[t] = QueuedTask /\ (\A u \in Tasks : u # t => tasks'[u] = tasks[u])
        /\ LeadTo(th, c)
    BY <1>5, <2>1, <2>2 DEF DeregisterAgent, TInv, TypeOK
  <2>4. /\ c.op = "deregister" /\ c.task = t /\ c.agent = a
        /\ c.oldTask = tasks[t] /\ c.oldAgent = agents[a]
    BY Constants DEF Calling
  <2>5. agents'[a].task = NoTask /\ agents[a].task = t
    BY <1>1 DEF AbsentAgent
  <2> HIDE DEF c, t
  <2>6. Agreeing(agents', tasks')
    <3>1. tasks'[t].status # "in_progress"
      BY <2>3 DEF QueuedTask
    <3> QED BY <1>1, <2>1, <2>3, <2>5, <3>1, Unassigning DEF IInv, BoardInv
  <2>7. Fresh(tasks', next')
    BY <1>1, <2>2, <2>3 DEF IInv, BoardInv, Fresh, AbsentTask
  <2>8. Unowned(tasks')
    BY <2>3 DEF IInv, BoardInv, Unowned, QueuedTask
  <2>9. BoardInv(agents', tasks', next')
    BY <1>2, <2>6, <2>7, <2>8 DEF BoardInv
  <2>10. call'[th] = c => CallInv(th)'
    <3>1. th \in env'.callers
      BY <1>3, <2>3 DEF LeadTo, Free
    <3> QED BY <1>3, <2>2, <2>3, <2>4, <2>5, <3>1 DEF CallInv
  <2> QED BY <1>3, <2>3, <2>9, <2>10, ServerSection DEF TInv
<1> QED BY <1>4, <1>5

(* The execution runtime leaves the board alone.                           *)
LEMMA ExecuteInv ==
  ASSUME OneServer, TInv, IInv, "duplicate" \notin env.may,
         NEW th \in Threads, Execute(th)
  PROVE  IInv'
<1> DEFINE c == call[th]
           d == [op |-> c.op, stage |-> "rollback", task |-> c.task,
                 agent |-> c.agent, success |-> c.success,
                 oldTask |-> c.oldTask, oldAgent |-> c.oldAgent]
<1>1. c \in CallRecord /\ c # NoCall
  BY DEF Execute, TInv, TypeOK
<1>2. UNCHANGED <<up, agents, tasks, next, savedBoard, env>> /\ up
  BY DEF Execute
<1>3. [c EXCEPT !.stage = "rollback"] = d
  BY <1>1 DEF CallRecord
<1>4. \/ call'[th] = NoCall
      \/ call'[th] = d /\ (c.op = "queue" => "execution_fault" \in env.may)
  <2>1. \/ call'[th] = NoCall
        \/ /\ call'[th] = [c EXCEPT !.stage = "rollback"]
           /\ c.op = "queue" => "execution_fault" \in env.may
    BY DEF Execute, TInv, TypeOK
  <2> QED BY <1>3, <2>1
<1>5. CallInv(th)'
  <2>1. CallInv(th)
    BY DEF IInv
  <2>2. CASE call'[th] = NoCall
    BY <2>2 DEF CallInv
  <2>3. CASE call'[th] = d /\ (c.op = "queue" => "execution_fault" \in env.may)
    <3>1. /\ d.op = c.op /\ d.task = c.task /\ d.agent = c.agent
          /\ d.oldTask = c.oldTask /\ d.oldAgent = c.oldAgent
      OBVIOUS
    <3> HIDE DEF d
    <3> QED BY <1>1, <1>2, <2>1, <2>3, <3>1 DEF CallInv
  <2> QED BY <1>4, <2>2, <2>3
<1>6. ASSUME NEW u \in Threads, u # th PROVE CallInv(u)'
  <2>1. call'[u] = call[u]
    BY <1>6 DEF Execute, TInv, TypeOK
  <2> QED BY <1>2, <2>1, CallKept DEF IInv
<1> QED BY <1>2, <1>5, <1>6 DEF IInv

(* The copies are put back over exactly what the call had changed.         *)
LEMMA RollbackInv ==
  ASSUME OneServer, TInv, IInv, "duplicate" \notin env.may,
         NEW th \in Threads, Rollback(th)
  PROVE  IInv'
<1> DEFINE c == call[th]
           t == c.task
           a == c.agent
<1>1. c \in CallRecord /\ c # NoCall /\ c.stage = "rollback" /\ CallInv(th)
  BY DEF Rollback, TInv, TypeOK, IInv
<1>2. t \in Tasks /\ c.op \in {"queue", "claim", "complete", "deregister"}
  BY <1>1 DEF CallRecord
<1>3. UNCHANGED <<up, next, env>> /\ (SaveBoard \/ UNCHANGED savedBoard) /\ up
  BY DEF Rollback, SaveBoardFails
<1>4. call'[th] = NoCall /\ \A u \in Threads : u # th => call'[u] = call[u]
  BY DEF Rollback, TInv, TypeOK
<1>5. CASE c.op = "queue"
  <2>1. "execution_fault" \in env.may /\ tasks[t] = QueuedTask
    BY <1>1, <1>5 DEF CallInv
  <2>2. tasks'[t] = AbsentTask /\ (\A u \in Tasks : u # t => tasks'[u] = tasks[u])
        /\ agents' = agents
    BY <1>2, <1>5 DEF Rollback, TInv, TypeOK
  <2> HIDE DEF t
  <2>3. Agreeing(agents', tasks')
    <3>1. \A b \in Agents :
            /\ tasks[t] # [status |-> "in_progress", owner |-> b]
            /\ tasks'[t] # [status |-> "in_progress", owner |-> b]
      BY <2>1, <2>2 DEF QueuedTask, AbsentTask
    <3>2. ASSUME NEW b \in Agents, NEW u \in Tasks
          PROVE  agents[b].task = u
                   <=> tasks'[u] = [status |-> "in_progress", owner |-> b]
      <4>1. agents[b].task = u
              <=> tasks[u] = [status |-> "in_progress", owner |-> b]
        BY DEF IInv, BoardInv, Agreeing
      <4> QED BY <2>2, <3>1, <4>1
    <3> QED BY <2>2, <3>2 DEF Agreeing
  <2>4. Fresh(tasks', next')
    BY <1>3, <2>2 DEF IInv, BoardInv, Fresh
  <2>5. Sane(agents') /\ Unowned(tasks')
    BY <2>2 DEF IInv, BoardInv, Sane, Unowned, AbsentTask
  <2>6. BoardInv(agents', tasks', next')
    BY <2>3, <2>4, <2>5 DEF BoardInv
  <2>7. \A u \in Threads : u # th => call[u] = NoCall
    BY <1>1, <2>1, Alone DEF IInv, CallInv, TInv, TypeOK
  <2>8. \A u \in Threads : CallInv(u)'
    BY <1>4, <2>7 DEF CallInv
  <2> QED BY <1>3, <2>6, <2>8, SavedInv DEF IInv
<1>6. CASE c.op # "queue"
  <2>1. th \in Servers /\ a \in Agents
        /\ (c.oldAgent.status = "absent" => c.oldAgent.task = NoTask)
    BY <1>1, <1>6 DEF CallInv
  <2>2. \/ /\ c.oldTask = QueuedTask /\ c.oldAgent.task = NoTask
           /\ tasks[t] = [status |-> "in_progress", owner |-> a]
           /\ agents[a].task = t
        \/ /\ c.oldTask = [status |-> "in_progress", owner |-> a]
           /\ c.oldAgent.task = t
           /\ tasks[t].status \in {"done", "failed", "queued"}
           /\ agents[a].task = NoTask
    <3>1. CASE c.op = "claim"
      BY <1>1, <3>1 DEF CallInv
    <3>2. CASE c.op = "complete"
      BY <1>1, <3>2 DEF CallInv
    <3>3. CASE c.op = "deregister"
      <4>1. tasks[t].status = "queued"
        BY <1>1, <3>3 DEF CallInv, QueuedTask
      <4> QED BY <1>1, <3>3, <4>1 DEF CallInv
    <3> QED BY <1>2, <1>6, <3>1, <3>2, <3>3
  <2>3. tasks[t].status # "absent"
    BY <2>2
  <2>4. /\ tasks'[t] = c.oldTask
        /\ \A u \in Tasks : u # t => tasks'[u] = tasks[u]
        /\ agents'[a] = c.oldAgent
        /\ \A b \in Agents : b # a => agents'[b] = agents[b]
    BY <1>2, <1>6, <2>1, <2>3 DEF Rollback, TInv, TypeOK
  <2> HIDE DEF t, a
  <2>5. BoardInv(agents', tasks', next')
    <3>1. Agreeing(agents', tasks')
      <4>1. CASE c.oldTask = QueuedTask /\ c.oldAgent.task = NoTask
                 /\ agents[a].task = t
        <5>1. tasks'[t].status # "in_progress" /\ agents'[a].task = NoTask
          BY <2>4, <4>1 DEF QueuedTask
        <5> QED BY <1>2, <2>1, <2>4, <4>1, <5>1, Unassigning DEF IInv, BoardInv
      <4>2. CASE c.oldTask = [status |-> "in_progress", owner |-> a]
                 /\ c.oldAgent.task = t
                 /\ tasks[t].status \in {"done", "failed", "queued"}
                 /\ agents[a].task = NoTask
        <5>1. tasks[t].status # "in_progress"
          BY <4>2
        <5>2. tasks'[t] = [status |-> "in_progress", owner |-> a]
              /\ agents'[a].task = t
          BY <2>4, <4>2
        <5> QED BY <1>2, <2>1, <2>4, <4>2, <5>1, <5>2, Assigning
                DEF IInv, BoardInv
      <4> QED BY <2>2, <4>1, <4>2
    <3>2. Fresh(tasks', next')
      <4>1. \A u \in Tasks : next <= u => u # t
        BY <2>3 DEF IInv, BoardInv, Fresh, AbsentTask
      <4> QED BY <1>3, <2>4, <4>1 DEF IInv, BoardInv, Fresh
    <3>3. Sane(agents')
      BY <2>1, <2>4 DEF IInv, BoardInv, Sane
    <3>4. Unowned(tasks')
      <4>1. tasks'[t].status \in {"absent", "queued"}
              => tasks'[t].owner = NoAgent
        BY <2>2, <2>4 DEF QueuedTask
      <4> QED BY <2>4, <4>1 DEF IInv, BoardInv, Unowned
    <3> QED BY <3>1, <3>2, <3>3, <3>4 DEF BoardInv
  <2>6. CallInv(th)'
    BY <1>4 DEF CallInv
  <2>7. ASSUME NEW u \in Threads, u # th PROVE CallInv(u)'
    <3>1. th \in env.callers
      BY <1>1 DEF CallInv
    <3> QED BY <1>3, <1>4, <2>1, <2>7, <3>1, OthersKept DEF IInv, TInv
  <2> QED BY <1>3, <2>5, <2>6, <2>7, SavedInv DEF IInv
<1> QED BY <1>5, <1>6

(* The file is a board that was saved.                                     *)
LEMMA CrashInv ==
  ASSUME TInv, IInv, "duplicate" \notin env.may, Crash
  PROVE  IInv'
<1>1. \A u \in Threads : call'[u] = NoCall
  BY DEF Crash
<1>2. /\ agents' = savedBoard.agents /\ tasks' = savedBoard.tasks
      /\ next' = savedBoard.next /\ savedBoard' = savedBoard
  BY DEF Crash
<1>3. BoardInv(agents', tasks', next')
  BY <1>2 DEF IInv
<1>4. BoardInv(savedBoard'.agents, savedBoard'.tasks, savedBoard'.next)
  BY <1>2 DEF IInv
<1> QED BY <1>1, <1>3, <1>4 DEF IInv, CallInv

(* No task is in progress after a restart, and no agent has one: an agent  *)
(* with a task is the owner of a recovered task.                           *)
LEMMA BootInv ==
  ASSUME TInv, IInv, "duplicate" \notin env.may, Boot
  PROVE  IInv'
<1>1. \A th \in Threads : call[th] = NoCall /\ call'[th] = NoCall
  BY DEF Boot, IInv
<1>2. next' = next /\ (SaveBoard \/ UNCHANGED savedBoard) /\ up' = TRUE
  BY DEF Boot
<1>3. ASSUME NEW t \in Tasks
      PROVE  /\ tasks'[t].status # "in_progress"
             /\ tasks[t].status = "in_progress" => tasks'[t] = QueuedTask
             /\ tasks[t].status # "in_progress" => tasks'[t] = tasks[t]
  BY DEF Boot, Recovered, QueuedTask
<1>4. ASSUME NEW a \in Agents
      PROVE  agents'[a].task = NoTask
  <2>1. agents[a].task # NoTask => agents[a].task \in Recovered
    <3> SUFFICES ASSUME agents[a].task # NoTask
                 PROVE  agents[a].task \in Recovered
      OBVIOUS
    <3>1. agents[a].task \in Tasks
      BY DEF TInv, TypeOK, AgentRecord
    <3>2. tasks[agents[a].task] = [status |-> "in_progress", owner |-> a]
      BY <3>1 DEF IInv, BoardInv, Agreeing
    <3> QED BY <3>1, <3>2 DEF Recovered
  <2>2. \/ agents'[a] = IdleAgent
        \/ agents'[a] = agents[a] /\ agents[a].task \notin Recovered
    BY DEF Boot
  <2> QED BY <2>1, <2>2 DEF IdleAgent
<1>5. BoardInv(agents', tasks', next')
  <2>1. Agreeing(agents', tasks')
    <3>1. \A t \in Tasks : t # NoTask
      BY DEF Tasks, NoTask
    <3>2. \A a \in Agents, t \in Tasks :
            tasks'[t] # [status |-> "in_progress", owner |-> a]
      BY <1>3
    <3> QED BY <1>4, <3>1, <3>2 DEF Agreeing
  <2>2. Fresh(tasks', next')
    <3>1. \A t \in Tasks : next <= t => tasks[t].status # "in_progress"
      BY DEF IInv, BoardInv, Fresh, AbsentTask
    <3> QED BY <1>2, <1>3, <3>1 DEF IInv, BoardInv, Fresh
  <2>3. Sane(agents') /\ Unowned(tasks')
    BY <1>3, <1>4 DEF IInv, BoardInv, Sane, Unowned, QueuedTask
  <2> QED BY <2>1, <2>2, <2>3 DEF BoardInv
<1> QED BY <1>1, <1>2, <1>5, SavedInv DEF IInv, CallInv

(* Compensating and releasing leave the board alone.                       *)
LEMMA ContractInv ==
  ASSUME TInv, IInv, "duplicate" \notin env.may, NEW t \in Tasks,
         ReleaseRecovered(t) \/ \E th \in Threads : Compensate(th, t)
  PROVE  IInv'
<1>1. UNCHANGED <<up, agents, tasks, next, call, savedBoard, env>>
  BY DEF ReleaseRecovered, Compensate
<1> QED BY <1>1 DEF IInv, CallInv

(* No step changes the kind of the behaviour.                              *)
LEMMA EnvStays == [Next]_vars => env' = env
<1> SUFFICES ASSUME [Next]_vars PROVE env' = env
  OBVIOUS
<1>1. ASSUME NEW th \in Threads, Handle(th) PROVE env' = env
  <2>1. ASSUME NEW a \in Agents, DeregisterAgent(th, a) PROVE env' = env
    BY <2>1 DEF DeregisterAgent, EndSection, LeadTo
  <2> QED BY <1>1, <2>1 DEF Handle, RegisterAgent, Heartbeat, QueueTask,
          ClaimTask, CompleteTask, Compensate, EndSection, LeadTo
<1>2. ASSUME NEW th \in Threads, Execute(th) \/ Rollback(th) PROVE env' = env
  BY <1>2 DEF Execute, Rollback
<1>3. Crash \/ Recover => env' = env
  BY DEF Crash, Recover, Boot, ReleaseRecovered
<1> QED BY <1>1, <1>2, <1>3 DEF Next, vars

(* Every step.                                                             *)
LEMMA NextInv ==
  ASSUME OneServer, TInv, IInv, [Next]_vars
  PROVE  IInv'
<1>1. CASE "duplicate" \in env.may
  <2>1. env' = env
    BY EnvStays
  <2> QED BY <1>1, <2>1 DEF IInv
<1>2. CASE "duplicate" \notin env.may
  <2>1. CASE UNCHANGED vars
    BY <2>1 DEF vars, IInv, CallInv
  <2>2. ASSUME NEW th \in Threads, Handle(th) PROVE IInv'
    BY <1>2, <2>2, RegisterInv, HeartbeatInv, QueueInv, ClaimInv, CompleteInv,
       DeregisterInv, ContractInv DEF Handle
  <2>3. ASSUME NEW th \in Threads, Execute(th) \/ Rollback(th) PROVE IInv'
    BY <1>2, <2>3, ExecuteInv, RollbackInv
  <2>4. CASE Crash \/ Recover
    BY <1>2, <2>4, CrashInv, BootInv, ContractInv DEF Recover
  <2> QED BY <2>1, <2>2, <2>3, <2>4 DEF Next
<1> QED BY <1>1, <1>2

(* The two halves of every assignment agree, in every state: rollbacks,    *)
(* failed saves, deregistrations and restarts never part an agent from its *)
(* task, nor leave a task in progress that nobody holds.                   *)
THEOREM AssignmentsAgree ==
  ASSUME OneServer, \A E \in Envs : "duplicate" \notin E.may
  PROVE  Spec => []HoldersAgree
<1>1. TypeOK /\ IInv => HoldersAgree
  BY DEF TypeOK, IInv, BoardInv, Agreeing, HoldersAgree
<1>2. TInv /\ IInv /\ [Next]_vars => TInv' /\ IInv'
  BY NextTypes, NextInv
<1>3. Init => TInv /\ IInv
  BY InitTypes, InitInv
<1>4. TInv => TypeOK
  BY DEF TInv
<1> QED BY <1>1, <1>2, <1>3, <1>4, PTL DEF Spec

(* In particular no rollback removes a task an agent is working on.        *)
COROLLARY NothingDangles ==
  ASSUME OneServer, \A E \in Envs : "duplicate" \notin E.may
  PROVE  Spec => []NoDanglingTask
<1>1. TypeOK /\ HoldersAgree => NoDanglingTask
  <2> SUFFICES ASSUME TypeOK, HoldersAgree, NEW a \in Agents,
                      agents[a].task # NoTask
               PROVE  tasks[agents[a].task].status # "absent"
    BY DEF NoDanglingTask
  <2>1. agents[a].task \in Tasks
    BY DEF TypeOK, AgentRecord
  <2>2. tasks[agents[a].task] = [status |-> "in_progress", owner |-> a]
    BY <2>1 DEF HoldersAgree, TypeOK
  <2> QED BY <2>2
<1> QED BY <1>1, TypeCorrect, AssignmentsAgree, PTL

---------------------------------------------------------------------------
(* The caps of a branch.                                                   *)

(* No more of the tasks in R than k have a cap of k or less: then they can *)
(* have been admitted one after the other.  It holds for every subset too. *)
Admissible(R) ==
  \A k \in Nat : Cardinality({t \in R : Limit[t] <= k}) <= k

(* The tasks in progress, and those that a rollback would put back.        *)
Reserved ==
  {t \in Tasks : \/ tasks[t].status = "in_progress"
                 \/ \E th \in Servers :
                      /\ call[th] # NoCall /\ call[th].task = t
                      /\ call[th].oldTask.status = "in_progress"}
SavedRunning == {t \in Tasks : savedBoard.tasks[t].status = "in_progress"}
OfBranch(S, b) == {t \in S : Branch[t] = b}

CapInv ==
  /\ ~up => \A th \in Threads : call[th] = NoCall
  /\ \A th \in Threads :
       call[th] # NoCall /\ call[th].op # "queue" => th \in Servers
  /\ \A b : Admissible(OfBranch(Reserved, b))
  /\ \A b : Admissible(OfBranch(SavedRunning, b))

(* Tasks are finite, and so is every part of them.                         *)
LEMMA FiniteTasks ==
  ASSUME NEW S \in SUBSET Tasks
  PROVE  IsFiniteSet(S) /\ Cardinality(S) \in Nat
<1>1. 1 \in Int /\ MaxTasks \in Int
  BY RuntimeAssumption
<1>2. IsFiniteSet(Tasks)
  BY <1>1, FS_Interval DEF Tasks
<1> QED BY <1>2, FS_Subset, FS_CardinalityType

(* What was admitted together was admitted in part.                        *)
LEMMA FewerAdmissible ==
  ASSUME NEW R \in SUBSET Tasks, Admissible(R), NEW S \in SUBSET R
  PROVE  Admissible(S)
<1> SUFFICES ASSUME NEW k \in Nat
             PROVE  Cardinality({t \in S : Limit[t] <= k}) <= k
  BY DEF Admissible
<1> DEFINE low == {t \in S : Limit[t] <= k}
           all == {t \in R : Limit[t] <= k}
<1>1. low \in SUBSET all /\ all \in SUBSET Tasks /\ low \in SUBSET Tasks
  OBVIOUS
<1>2. Cardinality(all) <= k
  BY DEF Admissible
<1> HIDE DEF low, all
<1>3. Cardinality(low) <= Cardinality(all)
  BY <1>1, FiniteTasks, FS_Subset
<1> QED BY <1>1, <1>2, <1>3, FiniteTasks DEF low

(* A task is admitted while fewer run than its cap.                        *)
LEMMA OneMoreAdmissible ==
  ASSUME NEW R \in SUBSET Tasks, Admissible(R), NEW t \in Tasks,
         Cardinality(R \ {t}) < Limit[t]
  PROVE  Admissible(R \cup {t})
<1> SUFFICES ASSUME NEW k \in Nat
             PROVE  Cardinality({u \in R \cup {t} : Limit[u] <= k}) <= k
  BY DEF Admissible
<1> DEFINE low == {u \in R : Limit[u] <= k}
           new == {u \in R \cup {t} : Limit[u] <= k}
           others == R \ {t}
<1>1. low \in SUBSET Tasks /\ new \in SUBSET Tasks /\ others \in SUBSET Tasks
  OBVIOUS
<1>2. Cardinality(low) <= k
  BY DEF Admissible
<1>3. Limit[t] \in Nat
  BY RuntimeAssumption
<1>4. CASE t \in R \/ Limit[t] > k
  <2>1. new = low
    BY <1>3, <1>4
  <2> QED BY <1>2, <2>1
<1>5. CASE t \notin R /\ Limit[t] <= k
  <2>1. new = (new \ {t}) \cup {t} /\ new \ {t} \in SUBSET others
    BY <1>5
  <2>2. Cardinality(others) < Limit[t]
    OBVIOUS
  <2> HIDE DEF low, new, others
  <2>3. new \ {t} \in SUBSET Tasks
    BY <1>1
  <2>4. Cardinality(new \ {t}) <= Cardinality(others)
    BY <1>1, <2>1, FiniteTasks, FS_Subset
  <2>5. Cardinality((new \ {t}) \cup {t}) = Cardinality(new \ {t}) + 1
    BY <2>3, FiniteTasks, FS_AddElement
  <2>6. Cardinality(new) = Cardinality(new \ {t}) + 1
    BY <2>1, <2>5
  <2>7. /\ Cardinality(new) \in Nat /\ Cardinality(new \ {t}) \in Nat
        /\ Cardinality(others) \in Nat
    BY <1>1, <2>3, FiniteTasks
  <2>8. Cardinality(new) <= k
    BY <1>3, <1>5, <2>2, <2>4, <2>6, <2>7
  <2> QED BY <2>8 DEF new
<1> QED BY <1>3, <1>4, <1>5

(* If all caps were below the number of tasks, too many would be low.      *)
LEMMA SomeCapSuffices ==
  ASSUME NEW R \in SUBSET Tasks, Admissible(R), R # {}
  PROVE  \E u \in R : Cardinality(R) <= Limit[u]
<1> SUFFICES ASSUME \A u \in R : ~(Cardinality(R) <= Limit[u])
             PROVE  FALSE
  OBVIOUS
<1>1. Cardinality(R) \in Nat /\ Cardinality(R) # 0
  BY FiniteTasks, FS_EmptySet
<1> DEFINE k == Cardinality(R) - 1
<1>2. k \in Nat
  BY <1>1
<1>3. {t \in R : Limit[t] <= k} = R
  <2>1. ASSUME NEW t \in R PROVE Limit[t] <= k
    <3>1. Limit[t] \in Nat
      BY RuntimeAssumption
    <3> QED BY <1>1, <3>1
  <2> HIDE DEF k
  <2> QED BY <2>1
<1>4. Cardinality(R) <= k
  <2> HIDE DEF k
  <2> QED BY <1>2, <1>3 DEF Admissible
<1> QED BY <1>1, <1>4

(* All sections but a claim keep what is reserved or make it less.         *)
LEMMA FewerReserved ==
  ASSUME TypeOK, CapInv, Reserved' \subseteq Reserved,
         (SaveBoard /\ tasks' \in [Tasks -> TaskRecord]) \/ UNCHANGED savedBoard,
         ~up' => \A th \in Threads : call'[th] = NoCall,
         \A th \in Threads :
           call'[th] # NoCall /\ call'[th].op # "queue" => th \in Servers
  PROVE  CapInv'
<1>1. ASSUME NEW b PROVE Admissible(OfBranch(Reserved', b))
  <2>1. OfBranch(Reserved', b) \in SUBSET OfBranch(Reserved, b)
        /\ OfBranch(Reserved, b) \in SUBSET Tasks
    BY DEF OfBranch, Reserved
  <2>2. Admissible(OfBranch(Reserved, b))
    BY DEF CapInv
  <2> QED BY <2>1, <2>2, FewerAdmissible
<1>2. ASSUME NEW b PROVE Admissible(OfBranch(SavedRunning', b))
  <2>1. CASE SaveBoard
    <3>1. SavedRunning' \subseteq Reserved'
      BY <2>1 DEF SaveBoard, SavedRunning, Reserved
    <3>2. OfBranch(SavedRunning', b) \in SUBSET OfBranch(Reserved', b)
          /\ OfBranch(Reserved', b) \in SUBSET Tasks
      BY <3>1 DEF OfBranch, Reserved
    <3> QED BY <1>1, <3>2, FewerAdmissible
  <2>2. CASE UNCHANGED savedBoard
    BY <2>2 DEF CapInv, SavedRunning
  <2> QED BY <2>1, <2>2
<1> QED BY <1>1, <1>2 DEF CapInv, OfBranch

(* What a first section other than a claim does to the tasks reserved.     *)
LEMMA SectionReserves ==
  ASSUME TypeOK, NEW th \in Threads, NEW t \in Tasks, NEW op, NEW a, NEW success,
         NEW new \in TaskRecord, new.status # "in_progress",
         tasks' = [tasks EXCEPT ![t] = new],
         LeadTo(th, Calling(op, t, a, success))
  PROVE  Reserved' \subseteq Reserved
<1> DEFINE c == Calling(op, t, a, success)
<1>1. c.task = t /\ c.oldTask = tasks[t]
  BY DEF Calling
<1>2. LeadTo(th, c)
  OBVIOUS
<1> HIDE DEF c
<1> SUFFICES ASSUME NEW u \in Reserved' PROVE u \in Reserved
  OBVIOUS
<1>3. u \in Tasks
  BY DEF Reserved
<1>4. CASE tasks'[u].status = "in_progress"
  BY <1>3, <1>4 DEF Reserved, TypeOK
<1>5. ASSUME NEW th2 \in Servers, call'[th2] # NoCall, call'[th2].task = u,
             call'[th2].oldTask.status = "in_progress"
      PROVE  u \in Reserved
  <2>1. call'[th2] = call[th2] \/ call'[th2] = c
    BY <1>2, RuntimeAssumption DEF LeadTo, TypeOK
  <2> QED BY <1>1, <1>3, <1>5, <2>1 DEF Reserved
<1> QED BY <1>4, <1>5 DEF Reserved

(* Agents' records reserve nothing.                                        *)
LEMMA RegisterCaps ==
  ASSUME TInv, CapInv, NEW th \in Threads, NEW a \in Agents,
         RegisterAgent(th, a) \/ \E s \in Statuses : Heartbeat(th, a, s)
  PROVE  CapInv'
<1>1. UNCHANGED <<up, tasks, next, call, env>> /\ (SaveBoard \/ UNCHANGED savedBoard)
  BY DEF RegisterAgent, Heartbeat, EndSection, SaveBoardFails
<1>2. Reserved' = Reserved
  BY <1>1 DEF Reserved
<1> QED BY <1>1, <1>2, FewerReserved DEF CapInv, TInv, TypeOK

(* A queued task reserves nothing.                                         *)
LEMMA QueueCaps ==
  ASSUME TInv, CapInv, NEW th \in Threads, QueueTask(th)
  PROVE  CapInv'
<1> DEFINE c == Calling("queue", next, NoAgent, TRUE)
<1>1. next \in Tasks
  BY RuntimeAssumption DEF QueueTask, TInv, TypeOK, Tasks
<1>2. /\ tasks' = [tasks EXCEPT ![next] = QueuedTask] /\ LeadTo(th, c) /\ up
  BY DEF QueueTask, Free
<1>3. Reserved' \subseteq Reserved
  BY <1>1, <1>2, Constants, SectionReserves DEF QueuedTask, TInv
<1>4. c.op = "queue"
  BY DEF Calling
<1>5. tasks' \in [Tasks -> TaskRecord]
  BY <1>1, <1>2, Constants DEF TInv, TypeOK
<1> HIDE DEF c
<1>6. /\ SaveBoard \/ UNCHANGED savedBoard
      /\ up' /\ \A u \in Threads : call'[u] = call[u] \/ call'[u] = c
  BY <1>2 DEF LeadTo, SaveBoardFails, TInv, TypeOK
<1> QED BY <1>3, <1>4, <1>5, <1>6, FewerReserved DEF CapInv, TInv

(* A result: the task stays reserved until its call has ended.             *)
LEMMA CompleteCaps ==
  ASSUME TInv, CapInv, NEW th \in Threads, NEW a \in Agents, NEW t \in Tasks,
         NEW s \in BOOLEAN, CompleteTask(th, a, t, s)
  PROVE  CapInv'
<1> DEFINE c == Calling("complete", t, a, s)
           new == [tasks[t] EXCEPT !.status = IF s THEN "done" ELSE "failed"]
<1>1. /\ tasks' = [tasks EXCEPT ![t] = new] /\ LeadTo(th, c) /\ up
      /\ th \in Servers
  BY DEF CompleteTask, Free
<1>2. new \in TaskRecord /\ new.status # "in_progress"
  BY DEF TInv, TypeOK, TaskRecord
<1> HIDE DEF new
<1>3. Reserved' \subseteq Reserved
  BY <1>1, <1>2, SectionReserves DEF TInv
<1>5. tasks' \in [Tasks -> TaskRecord]
  BY <1>1, <1>2 DEF TInv, TypeOK
<1> HIDE DEF c
<1>6. /\ SaveBoard \/ UNCHANGED savedBoard
      /\ up' /\ \A u \in Threads : call'[u] = call[u] \/ u = th
  BY <1>1 DEF LeadTo, SaveBoardFails, TInv, TypeOK
<1> QED BY <1>1, <1>3, <1>5, <1>6, FewerReserved DEF CapInv, TInv

(* A retired agent's task stays reserved until the call has ended.         *)
LEMMA DeregisterCaps ==
  ASSUME TInv, CapInv, NEW th \in Threads, NEW a \in Agents, DeregisterAgent(th, a)
  PROVE  CapInv'
<1> DEFINE t == agents[a].task
           c == Calling("deregister", t, a, TRUE)
           holds == t # NoTask
                    /\ tasks[t] = [status |-> "in_progress", owner |-> a]
<1>1. up /\ th \in Servers
  BY DEF DeregisterAgent, Free
<1>2. CASE holds
  <2>1. t \in Tasks
    BY <1>2 DEF TInv, TypeOK, AgentRecord
  <2>2. tasks' = [tasks EXCEPT ![t] = QueuedTask] /\ LeadTo(th, c)
    BY <1>2 DEF DeregisterAgent
  <2> HIDE DEF t
  <2>3. Reserved' \subseteq Reserved
    BY <2>1, <2>2, Constants, SectionReserves DEF QueuedTask, TInv
  <2>4. tasks' \in [Tasks -> TaskRecord]
    BY <2>1, <2>2, Constants DEF TInv, TypeOK
  <2> HIDE DEF c
  <2>5. /\ SaveBoard \/ UNCHANGED savedBoard
        /\ up' /\ \A u \in Threads : call'[u] = call[u] \/ u = th
    BY <1>1, <2>2 DEF LeadTo, SaveBoardFails, TInv, TypeOK
  <2> QED BY <1>1, <2>3, <2>4, <2>5, FewerReserved DEF CapInv, TInv
<1>3. CASE ~holds
  <2>1. /\ UNCHANGED <<up, tasks, next, call, env>>
        /\ SaveBoard \/ UNCHANGED savedBoard
    BY <1>3 DEF DeregisterAgent, EndSection, SaveBoardFails
  <2>2. Reserved' = Reserved
    BY <2>1 DEF Reserved
  <2> QED BY <2>1, <2>2, FewerReserved DEF CapInv, TInv, TypeOK
<1> QED BY <1>2, <1>3

(* The server has no other call under way, so what is reserved is what the *)
(* code counts.                                                            *)
LEMMA ClaimCaps ==
  ASSUME SingleServer, TInv, CapInv, NEW th \in Threads, NEW a \in Agents,
         NEW t \in Tasks, ClaimTask(th, a, t)
  PROVE  CapInv'
<1> DEFINE c == Calling("claim", t, a, TRUE)
           b == Branch[t]
<1>1. /\ tasks' = [tasks EXCEPT ![t] = [status |-> "in_progress", owner |-> a]]
      /\ LeadTo(th, c) /\ up /\ th \in Servers /\ call[th] = NoCall
      /\ Eligible(t) /\ tasks[t].status = "queued"
  BY DEF ClaimTask, Free
<1>2. c.task = t /\ c.oldTask = tasks[t]
  BY DEF Calling
<1>3. tasks' \in [Tasks -> TaskRecord]
  BY <1>1, Constants DEF TInv, TypeOK
<1> HIDE DEF c
<1>4. \A u \in Servers : call[u] = NoCall
  BY <1>1 DEF SingleServer
<1>5. Reserved = {u \in Tasks : tasks[u].status = "in_progress"}
  BY <1>4 DEF Reserved
<1>6. \A u \in Servers : call'[u] = NoCall \/ call'[u] = c
  BY <1>1, <1>4, RuntimeAssumption DEF LeadTo, TInv, TypeOK
<1>7. Reserved' = Reserved \cup {t}
  <2>1. \A u \in Tasks : u # t => tasks'[u] = tasks[u]
    BY <1>1 DEF TInv, TypeOK
  <2>2. tasks'[t].status = "in_progress"
    BY <1>1 DEF TInv, TypeOK
  <2>3. \A u \in Servers : call'[u] # NoCall => call'[u].task = t
    BY <1>2, <1>6
  <2> QED BY <1>5, <2>1, <2>2, <2>3 DEF Reserved
<1>8. Cardinality(OfBranch(Reserved, b) \ {t}) < Limit[t]
  <2>1. OfBranch(Reserved, b) = Running(b)
    BY <1>5 DEF OfBranch, Running
  <2> QED BY <1>1, <2>1 DEF Eligible
<1>9. ASSUME NEW d PROVE Admissible(OfBranch(Reserved', d))
  <2>1. Admissible(OfBranch(Reserved, d)) /\ OfBranch(Reserved, d) \in SUBSET Tasks
    BY DEF CapInv, OfBranch, Reserved
  <2>2. CASE d = b
    <3>1. OfBranch(Reserved', d) = OfBranch(Reserved, d) \cup {t}
      BY <1>7, <2>2 DEF OfBranch
    <3> HIDE DEF b
    <3> QED BY <1>8, <2>1, <2>2, <3>1, OneMoreAdmissible
  <2>3. CASE d # b
    <3>1. OfBranch(Reserved', d) = OfBranch(Reserved, d)
      BY <1>7, <2>3 DEF OfBranch
    <3> QED BY <2>1, <3>1
  <2> QED BY <2>2, <2>3
<1>10. ASSUME NEW d PROVE Admissible(OfBranch(SavedRunning', d))
  <2>1. SaveBoard \/ UNCHANGED savedBoard
    BY <1>1 DEF LeadTo, SaveBoardFails
  <2>2. CASE SaveBoard
    <3>1. SavedRunning' \subseteq Reserved'
      BY <2>2 DEF SaveBoard, SavedRunning, Reserved
    <3>2. OfBranch(SavedRunning', d) \in SUBSET OfBranch(Reserved', d)
          /\ OfBranch(Reserved', d) \in SUBSET Tasks
      BY <3>1 DEF OfBranch, Reserved
    <3> QED BY <1>9, <3>2, FewerAdmissible
  <2>3. CASE UNCHANGED savedBoard
    BY <2>3 DEF CapInv, SavedRunning
  <2> QED BY <2>1, <2>2, <2>3
<1>11. up' /\ \A u \in Threads : call'[u] = call[u] \/ u = th
  BY <1>1 DEF LeadTo, TInv, TypeOK
<1> QED BY <1>1, <1>9, <1>10, <1>11 DEF CapInv, OfBranch

(* A call that ends gives up what it reserved.                             *)
LEMMA ExecuteCaps ==
  ASSUME TInv, CapInv, NEW th \in Threads, Execute(th)
  PROVE  CapInv'
<1> DEFINE c == call[th]
           d == [op |-> c.op, stage |-> "rollback", task |-> c.task,
                 agent |-> c.agent, success |-> c.success,
                 oldTask |-> c.oldTask, oldAgent |-> c.oldAgent]
<1>1. c \in CallRecord /\ c # NoCall
  BY DEF Execute, TInv, TypeOK
<1>2. UNCHANGED <<up, tasks, savedBoard>> /\ up
  BY DEF Execute
<1>3. [c EXCEPT !.stage = "rollback"] = d
  BY <1>1 DEF CallRecord
<1>4. /\ call'[th] = NoCall \/ call'[th] = d
      /\ \A u \in Threads : u # th => call'[u] = call[u]
  BY <1>3 DEF Execute, TInv, TypeOK
<1>5. d.op = c.op /\ d.task = c.task /\ d.oldTask = c.oldTask
  OBVIOUS
<1> HIDE DEF d
<1>6. Reserved' \subseteq Reserved
  <2> SUFFICES ASSUME NEW u \in Reserved' PROVE u \in Reserved
    OBVIOUS
  <2>1. u \in Tasks
    BY DEF Reserved
  <2>2. CASE tasks'[u].status = "in_progress"
    BY <1>2, <2>1, <2>2 DEF Reserved
  <2>3. ASSUME NEW th2 \in Servers, call'[th2] # NoCall, call'[th2].task = u,
               call'[th2].oldTask.status = "in_progress"
        PROVE  u \in Reserved
    BY <1>1, <1>4, <1>5, <2>1, <2>3, RuntimeAssumption DEF Reserved
  <2> QED BY <2>2, <2>3 DEF Reserved
<1> QED BY <1>1, <1>2, <1>4, <1>5, <1>6, FewerReserved DEF CapInv, TInv

(* A rollback puts back what was reserved for it.                          *)
LEMMA RollbackCaps ==
  ASSUME TInv, CapInv, NEW th \in Threads, Rollback(th)
  PROVE  CapInv'
<1> DEFINE c == call[th]
           t == c.task
<1>1. c \in CallRecord /\ c # NoCall /\ t \in Tasks /\ up' /\ up
  BY DEF Rollback, TInv, TypeOK, CallRecord
<1>2. /\ call'[th] = NoCall /\ \A u \in Threads : u # th => call'[u] = call[u]
      /\ SaveBoard \/ UNCHANGED savedBoard
  BY DEF Rollback, SaveBoardFails, TInv, TypeOK
<1>3. tasks' \in [Tasks -> TaskRecord]
  BY RollbackTypes DEF TInv, TypeOK
<1>4. /\ \A u \in Tasks : u # t => tasks'[u] = tasks[u]
      /\ tasks'[t] = AbsentTask \/ tasks'[t] = tasks[t]
           \/ (tasks'[t] = c.oldTask /\ th \in Servers)
  BY <1>1 DEF Rollback, CapInv, TInv, TypeOK
<1>5. Reserved' \subseteq Reserved
  <2> SUFFICES ASSUME NEW u \in Reserved' PROVE u \in Reserved
    OBVIOUS
  <2>1. u \in Tasks
    BY DEF Reserved
  <2>2. CASE tasks'[u].status = "in_progress"
    <3>1. CASE u # t
      BY <1>4, <2>1, <2>2, <3>1 DEF Reserved
    <3>2. CASE u = t
      BY <1>1, <1>4, <2>2, <3>2 DEF Reserved, AbsentTask
    <3> QED BY <3>1, <3>2
  <2>3. ASSUME NEW th2 \in Servers, call'[th2] # NoCall, call'[th2].task = u,
               call'[th2].oldTask.status = "in_progress"
        PROVE  u \in Reserved
    BY <1>2, <2>1, <2>3, RuntimeAssumption DEF Reserved
  <2> QED BY <2>2, <2>3 DEF Reserved
<1> QED BY <1>1, <1>2, <1>3, <1>5, FewerReserved DEF CapInv, TInv

(* The tasks in progress on file fit under the caps too.                   *)
LEMMA CrashCaps ==
  ASSUME TInv, CapInv, Crash
  PROVE  CapInv'
<1>1. /\ \A th \in Threads : call'[th] = NoCall
      /\ tasks' = savedBoard.tasks /\ savedBoard' = savedBoard
  BY DEF Crash
<1>2. Reserved' = SavedRunning /\ SavedRunning' = SavedRunning
  BY <1>1, RuntimeAssumption DEF Reserved, SavedRunning
<1> QED BY <1>1, <1>2 DEF CapInv, OfBranch

(* After a restart nothing is in progress.                                 *)
LEMMA BootCaps ==
  ASSUME TInv, CapInv, Boot
  PROVE  CapInv'
<1>1. UNCHANGED call /\ up' /\ (SaveBoard \/ UNCHANGED savedBoard)
  BY DEF Boot
<1>2. Reserved' \subseteq Reserved
  BY <1>1 DEF Boot, Reserved, Recovered, QueuedTask
<1>3. tasks' \in [Tasks -> TaskRecord]
  BY BootTypes DEF TInv, TypeOK
<1> QED BY <1>1, <1>2, <1>3, FewerReserved DEF CapInv, TInv

(* Compensating and releasing reserve nothing.                             *)
LEMMA ContractCaps ==
  ASSUME TInv, CapInv, NEW t \in Tasks,
         ReleaseRecovered(t) \/ \E th \in Threads : Compensate(th, t)
  PROVE  CapInv'
<1>1. UNCHANGED <<up, tasks, call, savedBoard>>
  BY DEF ReleaseRecovered, Compensate
<1> QED BY <1>1, ZenonT(40) DEF CapInv, Reserved, SavedRunning, OfBranch

(* Every step.                                                             *)
LEMMA NextCaps ==
  ASSUME SingleServer, TInv, CapInv, [Next]_vars
  PROVE  CapInv'
<1>1. CASE UNCHANGED vars
  BY <1>1, ZenonT(40) DEF vars, CapInv, Reserved, SavedRunning, OfBranch
<1>2. ASSUME NEW th \in Threads, Handle(th) PROVE CapInv'
  BY <1>2, RegisterCaps, QueueCaps, ClaimCaps, CompleteCaps, DeregisterCaps,
     ContractCaps DEF Handle
<1>3. ASSUME NEW th \in Threads, Execute(th) \/ Rollback(th) PROVE CapInv'
  BY <1>3, ExecuteCaps, RollbackCaps
<1>4. CASE Crash \/ Recover
  BY <1>4, CrashCaps, BootCaps, ContractCaps DEF Recover
<1> QED BY <1>1, <1>2, <1>3, <1>4 DEF Next

(* The caps of every branch hold, for any caps and any mixture of them:    *)
(* rollbacks and restarts never bring back more tasks than were admitted.  *)
THEOREM CapsHold ==
  ASSUME SingleServer
  PROVE  Spec => []LimitsRespected
<1>1. Init => CapInv
  <2> SUFFICES ASSUME Init PROVE CapInv
    OBVIOUS
  <2>1. Reserved = {} /\ SavedRunning = {}
    BY RuntimeAssumption DEF Init, Reserved, SavedRunning, AbsentTask
  <2>2. Admissible({})
    <3>1. \A k : {t \in {} : Limit[t] <= k} = {}
      OBVIOUS
    <3> QED BY <3>1, FS_EmptySet DEF Admissible
  <2>3. \A b : OfBranch({}, b) = {}
    BY DEF OfBranch
  <2> QED BY <2>1, <2>2, <2>3 DEF CapInv, Init
<1>2. TInv /\ CapInv => LimitsRespected
  <2> SUFFICES ASSUME TInv, CapInv, NEW t \in Tasks,
                      tasks[t].status = "in_progress"
               PROVE  \E u \in Running(Branch[t]) :
                        Cardinality(Running(Branch[t])) <= Limit[u]
    BY DEF LimitsRespected
  <2> DEFINE R == Running(Branch[t])
  <2>1. t \in R /\ R \in SUBSET OfBranch(Reserved, Branch[t]) /\ R \in SUBSET Tasks
        /\ OfBranch(Reserved, Branch[t]) \in SUBSET Tasks
    BY DEF Running, OfBranch, Reserved
  <2>2. Admissible(OfBranch(Reserved, Branch[t]))
    BY DEF CapInv
  <2> HIDE DEF R
  <2>3. Admissible(R)
    BY <2>1, <2>2, FewerAdmissible
  <2>4. \E u \in R : Cardinality(R) <= Limit[u]
    BY <2>1, <2>3, SomeCapSuffices
  <2> QED BY <2>4 DEF R
<1>3. TInv /\ CapInv /\ [Next]_vars => TInv' /\ CapInv'
  BY NextTypes, NextCaps
<1> QED BY <1>1, <1>2, <1>3, InitTypes, PTL DEF Spec

---------------------------------------------------------------------------
(* Contracts.                                                              *)

(* The status of the operation of a task that nobody has a call on.        *)
Told(status) ==
  CASE status = "absent" -> "none"
    [] status = "queued" -> "planned"
    [] status = "in_progress" -> "in_progress"
    [] status = "done" -> "committed"
    [] status = "failed" -> "failed"

Calls(u, t) == call[u] # NoCall /\ call[u].task = t
Queuing(t) == \E u \in Threads : Calls(u, t) /\ call[u].op = "queue"
Claiming(t) == \E u \in Threads : Calls(u, t) /\ call[u].op = "claim"

(* What a call in flight has done to its task, and what it will find.      *)
Story(u, t) ==
  LET c == call[u] IN
  /\ c.op = "queue" => c.stage = "execute"
  /\ c.op = "claim" =>
       /\ tasks[t].status = "in_progress"
       /\ c.oldTask.status = "queued" /\ c.oldTask.owner = NoAgent
       /\ ops[t].status = "planned" \/ Queuing(t)
  /\ c.op = "complete" =>
       /\ c.stage = "execute" /\ ops[t].status # "none"
       /\ tasks[t].status = IF c.success THEN "done" ELSE "failed"
  /\ c.op = "deregister" =>
       /\ c.stage = "execute" /\ ops[t].status # "none"
       /\ tasks[t].status = "queued"

TaskStory(t) ==
  /\ ~InFlight(t) => ops[t].status = Told(tasks[t].status)
  /\ Queuing(t) =>
       ops[t].status = "none" /\ (tasks[t].status = "queued" \/ Claiming(t))
  /\ \A u, v \in Threads :
       /\ Calls(u, t) /\ call[u].op = "queue"
       /\ Calls(v, t) /\ call[v].op = "queue"
       => u = v
  /\ \A u \in Threads : Calls(u, t) => Story(u, t)

Counted ==
  /\ Fresh(tasks, next) /\ Unowned(tasks)
  /\ \A t \in Tasks : next <= t => ops[t].status = "none"
  /\ \A u \in Threads : call[u] # NoCall =>
       call[u].task < next /\ (call[u].op # "queue" => u \in Servers)

Stories == up /\ Counted /\ \A t \in Tasks : TaskStory(t)

(* Before the first crash, while saves work.                               *)
StoryInv == ~crashed /\ ~Faulty => Stories

(* A task that an action does not touch.                                   *)
LEMMA StoryKept ==
  ASSUME NEW t \in Tasks, TaskStory(t),
         \A u \in Threads :
           call'[u] = call[u] \/ (~Calls(u, t) /\ ~Calls(u, t)'),
         tasks'[t].status = tasks[t].status, ops'[t].status = ops[t].status
  PROVE  TaskStory(t)'
<1>1. \A u \in Threads :
        Calls(u, t)' <=> Calls(u, t)
  BY DEF Calls
<1>2. \A u \in Threads : Calls(u, t) => call'[u] = call[u]
  BY DEF Calls
<1>3. (Queuing(t)' <=> Queuing(t)) /\ (Claiming(t)' <=> Claiming(t))
  BY <1>1, <1>2 DEF Queuing, Claiming
<1>4. InFlight(t)' <=> InFlight(t)
  BY <1>1 DEF InFlight, Calls
<1>5. \A u \in Threads : Calls(u, t)' => Story(u, t)'
  BY <1>1, <1>2, <1>3 DEF TaskStory, Story
<1> QED BY <1>1, <1>2, <1>3, <1>4, <1>5 DEF TaskStory

(* Nothing is told while the server is at its first section: only calls    *)
(* that queue are in flight.                                               *)
LEMMA OnlyQueuing ==
  ASSUME SingleServer, Counted, NEW th \in Servers, call[th] = NoCall,
         NEW t \in Tasks
  PROVE  /\ InFlight(t) => Queuing(t)
         /\ ~Claiming(t)
         /\ \A u \in Threads : Calls(u, t) => call[u].op = "queue"
BY DEF SingleServer, Counted, InFlight, Queuing, Claiming, Calls

(* A task with an owner has no call on it, and an operation.               *)
LEMMA OwnedIsTold ==
  ASSUME SingleServer, TypeOK, Stories, NEW th \in Servers, call[th] = NoCall,
         NEW t \in Tasks, tasks[t].owner # NoAgent
  PROVE  /\ ~InFlight(t) /\ ops[t].status # "none" /\ t < next
<1>1. tasks[t].status \in {"in_progress", "done", "failed"}
  BY DEF Stories, Counted, Unowned, TypeOK, TaskRecord
<1>2. TaskStory(t) /\ Counted
  BY DEF Stories
<1>3. ~Queuing(t)
  BY <1>1, <1>2, OnlyQueuing DEF TaskStory
<1>4. ~InFlight(t)
  BY <1>2, <1>3, OnlyQueuing
<1>5. ops[t].status # "none"
  BY <1>1, <1>2, <1>4 DEF TaskStory, Told
<1>6. t < next
  BY <1>1, RuntimeAssumption DEF Stories, Counted, Fresh, AbsentTask, TypeOK, Tasks
<1> QED BY <1>4, <1>5, <1>6

(* A first section that leads to a call on t touches no other task.        *)
LEMMA OthersStories ==
  ASSUME TypeOK, Stories, NEW th \in Threads, NEW t \in Tasks, NEW c,
         call[th] = NoCall, call' = [call EXCEPT ![th] = c], c.task = t,
         ops' = ops, \A u \in Tasks : u # t => tasks'[u] = tasks[u],
         NEW w \in Tasks, w # t
  PROVE  TaskStory(w)'
<1>1. \A u \in Threads : u # th => call'[u] = call[u]
  BY DEF TypeOK
<1>2. call'[th] = c
  BY DEF TypeOK
<1>3. ~Calls(th, w) /\ ~Calls(th, w)'
  BY <1>2 DEF Calls
<1> QED BY <1>1, <1>3, StoryKept DEF Stories

(* Queueing starts the story of the next task.                             *)
LEMMA QueueStories ==
  ASSUME TInv, Stories, ~Faulty, NEW th \in Threads, QueueTask(th)
  PROVE  Stories'
<1> USE DEF TInv
<1> DEFINE c == Calling("queue", next, NoAgent, TRUE)
<1>1. next \in Tasks /\ next \in Nat
  BY RuntimeAssumption DEF QueueTask, TypeOK, Tasks
<1>2. /\ tasks' = [tasks EXCEPT ![next] = QueuedTask]
      /\ next' = next + 1 /\ call[th] = NoCall /\ UNCHANGED <<up, ops>>
      /\ call' = [call EXCEPT ![th] = c]
  BY DEF QueueTask, LeadTo, Free, Faulty, SaveBoardFails
<1>3. /\ c.op = "queue" /\ c.task = next /\ c.stage = "execute"
      /\ c # NoCall
  BY DEF Calling, NoCall
<1> HIDE DEF c
<1>4. call'[th] = c /\ \A u \in Threads : u # th => call'[u] = call[u]
  BY <1>2 DEF TypeOK
<1>5. tasks'[next] = QueuedTask /\ \A u \in Tasks : u # next => tasks'[u] = tasks[u]
  BY <1>1, <1>2 DEF TypeOK
<1>6. Counted'
  <2>1. Fresh(tasks', next')
    BY <1>1, <1>2, <1>5 DEF Stories, Counted, Fresh, Tasks
  <2>2. Unowned(tasks')
    BY <1>5 DEF Stories, Counted, Unowned, QueuedTask
  <2>3. \A t \in Tasks : next' <= t => ops'[t].status = "none"
    BY <1>1, <1>2 DEF Stories, Counted, Tasks
  <2>4. ASSUME NEW u \in Threads, call'[u] # NoCall
        PROVE  call'[u].task < next' /\ (call'[u].op # "queue" => u \in Servers)
    <3>1. CASE u = th
      BY <1>1, <1>2, <1>3, <1>4, <3>1
    <3>2. CASE u # th
      <4>1. call[u].task < next /\ call[u].task \in Tasks
            /\ (call[u].op # "queue" => u \in Servers)
        BY <1>4, <2>4, <3>2 DEF Stories, Counted, TypeOK, CallRecord
      <4> QED BY <1>1, <1>2, <1>4, <3>2, <4>1 DEF Tasks
    <3> QED BY <3>1, <3>2
  <2> QED BY <2>1, <2>2, <2>3, <2>4 DEF Counted
<1>7. ASSUME NEW t \in Tasks, t = next PROVE TaskStory(t)'
  <2>1. \A u \in Threads : ~Calls(u, t)
    BY <1>1, <1>7 DEF Stories, Counted, Calls
  <2>2. \A u \in Threads : Calls(u, t)' <=> u = th
    BY <1>3, <1>4, <1>7, <2>1 DEF Calls
  <2>3. Queuing(t)' /\ InFlight(t)'
    BY <1>3, <1>4, <2>2 DEF Queuing, InFlight, Calls
  <2>4. ops'[t].status = "none" /\ tasks'[t].status = "queued"
    BY <1>1, <1>2, <1>5, <1>7 DEF Stories, Counted, QueuedTask
  <2>5. Story(th, t)'
    BY <1>3, <1>4 DEF Story
  <2> QED BY <2>2, <2>3, <2>4, <2>5 DEF TaskStory
<1>8. ASSUME NEW t \in Tasks, t # next PROVE TaskStory(t)'
  BY <1>1, <1>2, <1>3, <1>5, <1>8, OthersStories
<1> QED BY <1>2, <1>6, <1>7, <1>8 DEF Stories

(* A first section of the server: one task t changes, and c is its call.   *)
LEMMA ServerStories ==
  ASSUME SingleServer, TInv, Stories, NEW th \in Servers, NEW t \in Tasks, NEW c,
         call[th] = NoCall, call' = [call EXCEPT ![th] = c],
         c.task = t, c.op # "queue", c # NoCall, t < next,
         UNCHANGED <<up, ops, next>>,
         \A u \in Tasks : u # t => tasks'[u] = tasks[u],
         tasks'[t].status \in {"absent", "queued"} => tasks'[t].owner = NoAgent,
         Queuing(t) => c.op = "claim",
         Story(th, t)'
  PROVE  Stories'
<1> USE DEF TInv
<1>0. th \in Threads
  BY RuntimeAssumption
<1>1. call'[th] = c /\ \A u \in Threads : u # th => call'[u] = call[u]
  BY <1>0 DEF TypeOK
<1>2. Counted'
  <2>1. Fresh(tasks', next')
    BY RuntimeAssumption DEF Stories, Counted, Fresh, Tasks, TypeOK
  <2>2. Unowned(tasks')
    BY DEF Stories, Counted, Unowned
  <2>3. ASSUME NEW u \in Threads, call'[u] # NoCall
        PROVE  call'[u].task < next' /\ (call'[u].op # "queue" => u \in Servers)
    BY <1>1, <2>3 DEF Stories, Counted
  <2> QED BY <2>1, <2>2, <2>3 DEF Stories, Counted
<1>3. TaskStory(t)'
  <2>1. \A u \in Threads : Calls(u, t)' <=> (u = th \/ Calls(u, t))
    BY <1>1 DEF Calls
  <2>2. \A u \in Threads : Calls(u, t) => u # th /\ call'[u] = call[u]
    BY <1>1 DEF Calls
  <2>3. InFlight(t)'
    BY <1>0, <1>1 DEF InFlight
  <2>4. \A u \in Threads : Calls(u, t) => call[u].op = "queue"
    BY OnlyQueuing DEF Stories
  <2>5. Queuing(t)' <=> Queuing(t)
    BY <1>0, <1>1, <2>1, <2>2 DEF Queuing
  <2>6. c.op = "claim" => Claiming(t)'
    BY <1>0, <1>1 DEF Claiming, Calls
  <2>7. Queuing(t)' => ops'[t].status = "none" /\ Claiming(t)'
    BY <2>5, <2>6 DEF Stories, TaskStory
  <2>8. ASSUME NEW u \in Threads, Calls(u, t) PROVE Story(u, t)'
    BY <2>2, <2>4, <2>8 DEF Stories, TaskStory, Story
  <2>9. \A u, v \in Threads :
          /\ Calls(u, t)' /\ call'[u].op = "queue"
          /\ Calls(v, t)' /\ call'[v].op = "queue"
          => u = v
    BY <1>1, <2>1, <2>2 DEF Stories, TaskStory
  <2> QED BY <2>1, <2>3, <2>7, <2>8, <2>9 DEF TaskStory
<1>4. ASSUME NEW w \in Tasks, w # t PROVE TaskStory(w)'
  BY <1>0, <1>4, OthersStories
<1> QED BY <1>2, <1>3, <1>4 DEF Stories

(* A claim may come before the operation of its task exists.               *)
LEMMA ClaimStories ==
  ASSUME SingleServer, TInv, Stories, ~Faulty, NEW th \in Threads,
         NEW a \in Agents, NEW t \in Tasks, ClaimTask(th, a, t)
  PROVE  Stories'
<1> USE DEF TInv
<1> DEFINE c == Calling("claim", t, a, TRUE)
<1>1. /\ tasks' = [tasks EXCEPT ![t] = [status |-> "in_progress", owner |-> a]]
      /\ next' = next /\ call[th] = NoCall /\ UNCHANGED <<up, ops>>
      /\ call' = [call EXCEPT ![th] = c] /\ th \in Servers
      /\ tasks[t].status = "queued"
  BY DEF ClaimTask, LeadTo, Free, Faulty, SaveBoardFails
<1>2. /\ c.op = "claim" /\ c.task = t /\ c.oldTask = tasks[t]
      /\ c # NoCall
  BY Constants DEF Calling, NoCall
<1> HIDE DEF c
<1>3. t < next
  BY <1>1, RuntimeAssumption, SMTT(30)
  DEF Stories, Counted, Fresh, AbsentTask, TypeOK, Tasks
<1>4. tasks'[t].status = "in_progress" /\ call'[th] = c
      /\ \A u \in Tasks : u # t => tasks'[u] = tasks[u]
  BY <1>1 DEF TypeOK
<1>5. Story(th, t)'
  <2>1. c.oldTask.status = "queued" /\ c.oldTask.owner = NoAgent
    BY <1>1, <1>2 DEF Stories, Counted, Unowned
  <2>2. ops[t].status = "planned" \/ Queuing(t)
    BY <1>1, OnlyQueuing DEF Stories, TaskStory, Told
  <2>3. Queuing(t) => Queuing(t)'
    BY <1>1 DEF Queuing, Calls, TypeOK
  <2> QED BY <1>1, <1>2, <1>4, <2>1, <2>2, <2>3 DEF Story
<1> QED BY <1>1, <1>2, <1>3, <1>4, <1>5, ServerStories

(* A result is reported of a task whose story is told.                     *)
LEMMA CompleteStories ==
  ASSUME SingleServer, TInv, Stories, ~Faulty, NEW th \in Threads,
         NEW a \in Agents, NEW t \in Tasks, NEW s \in BOOLEAN,
         CompleteTask(th, a, t, s)
  PROVE  Stories'
<1> USE DEF TInv
<1> DEFINE c == Calling("complete", t, a, s)
<1>1. /\ tasks' = [tasks EXCEPT ![t].status = IF s THEN "done" ELSE "failed"]
      /\ next' = next /\ call[th] = NoCall /\ UNCHANGED <<up, ops>>
      /\ call' = [call EXCEPT ![th] = c] /\ th \in Servers
      /\ tasks[t].owner = a
  BY DEF CompleteTask, LeadTo, Free, Faulty, SaveBoardFails
<1>2. /\ c.op = "complete" /\ c.task = t /\ c.stage = "execute" /\ c.success = s
      /\ c # NoCall
  BY DEF Calling, NoCall
<1> HIDE DEF c
<1>3. t < next /\ ~InFlight(t) /\ ops[t].status # "none"
  BY <1>1, Constants, OwnedIsTold
<1>4. tasks'[t].status = (IF s THEN "done" ELSE "failed") /\ call'[th] = c
      /\ \A u \in Tasks : u # t => tasks'[u] = tasks[u]
  BY <1>1 DEF TypeOK, TaskRecord
<1>5. Story(th, t)'
  BY <1>1, <1>2, <1>3, <1>4 DEF Story
<1>6. ~Queuing(t)
  BY <1>3 DEF Queuing, InFlight, Calls
<1>7. tasks'[t].status \notin {"absent", "queued"}
  BY <1>4
<1> QED BY <1>1, <1>2, <1>3, <1>4, <1>5, <1>6, <1>7, ServerStories

(* An agent that retires returns a task whose story is told.               *)
LEMMA DeregisterStories ==
  ASSUME SingleServer, TInv, Stories, ~Faulty, NEW th \in Threads,
         NEW a \in Agents, DeregisterAgent(th, a)
  PROVE  Stories'
<1> USE DEF TInv
<1> DEFINE held == agents[a].task
           holds == held # NoTask
                    /\ tasks[held] = [status |-> "in_progress", owner |-> a]
<1>1. CASE holds
  <2>0. held \in Tasks /\ tasks[held].owner = a
    BY <1>1 DEF TypeOK, AgentRecord
  <2>1. PICK t \in Tasks : t = held /\ tasks[t].owner = a
    BY <2>0
  <2> DEFINE c == Calling("deregister", t, a, TRUE)
  <2>2. /\ tasks' = [tasks EXCEPT ![t] = QueuedTask]
        /\ next' = next /\ call[th] = NoCall /\ UNCHANGED <<up, ops>>
        /\ call' = [call EXCEPT ![th] = c] /\ th \in Servers
    BY <1>1, <2>1 DEF DeregisterAgent, LeadTo, Free, Faulty, SaveBoardFails
  <2>3. /\ c.op = "deregister" /\ c.task = t /\ c.stage = "execute"
        /\ c # NoCall
    BY DEF Calling, NoCall
  <2> HIDE DEF c, holds, held
  <2>4. t < next /\ ~InFlight(t) /\ ops[t].status # "none"
    BY <2>1, <2>2, Constants, OwnedIsTold
  <2>5. tasks'[t] = QueuedTask /\ call'[th] = c
        /\ \A u \in Tasks : u # t => tasks'[u] = tasks[u]
    BY <2>1, <2>2 DEF TypeOK
  <2>6. Story(th, t)'
    BY <2>2, <2>3, <2>4, <2>5 DEF Story, QueuedTask
  <2>7. ~Queuing(t)
    BY <2>4 DEF Queuing, InFlight, Calls
  <2>8. tasks'[t].owner = NoAgent
    BY <2>5 DEF QueuedTask
  <2> QED BY <2>1, <2>2, <2>3, <2>4, <2>5, <2>6, <2>7, <2>8, ServerStories
<1>2. CASE ~holds
  <2>1. UNCHANGED <<up, tasks, next, ops, call>>
    BY <1>2 DEF DeregisterAgent, EndSection
  <2>2. \A w \in Tasks : TaskStory(w)'
    BY <2>1, StoryKept DEF Stories
  <2> QED BY <2>1, <2>2 DEF Stories, Counted
<1> QED BY <1>1, <1>2

(* No other call is on a task whose operation a call of the server finds.  *)
LEMMA ServerAlone ==
  ASSUME SingleServer, Counted, NEW th \in Threads, NEW t \in Tasks,
         TaskStory(t), Calls(th, t), call[th].op # "queue",
         ops[t].status # "none"
  PROVE  \A u \in Threads : Calls(u, t) => u = th
BY DEF SingleServer, Counted, TaskStory, Queuing, Calls

(* The call into the execution runtime ends the call on its task.          *)
LEMMA ExecuteStories ==
  ASSUME SingleServer, TInv, Stories, ~Faulty, NEW th \in Threads, Execute(th)
  PROVE  Stories'
<1> USE DEF TInv
<1>1. call[th] \in CallRecord /\ call[th] # NoCall
  BY DEF Execute, TypeOK
<1>2. PICK t \in Tasks : t = call[th].task
  BY <1>1 DEF CallRecord
<1>3. Calls(th, t) /\ TaskStory(t) /\ Story(th, t) /\ Counted
  BY <1>1, <1>2 DEF Calls, Stories, TaskStory
<1>4. \A u \in Threads : u # th => call'[u] = call[u]
  BY DEF Execute, TypeOK
<1>5. UNCHANGED <<up, tasks, next>>
  BY DEF Execute
<1>6. ASSUME NEW w \in Tasks, w # t PROVE ops'[w] = ops[w]
  <2>1. call[th].op \in {"queue", "claim", "complete", "deregister"}
    BY <1>1 DEF CallRecord
  <2>2. ops' = Effect(call[th]) \/ ops' = ops
    BY DEF Execute
  <2>3. Effect(call[th])[w] = ops[w]
    BY <1>2, <1>6, <2>1
    DEF Effect, Registered, Claimed, Completed, Released, TypeOK
  <2> QED BY <2>2, <2>3
<1>7. \/ call'[th] = NoCall
      \/ /\ call'[th] = [call[th] EXCEPT !.stage = "rollback"]
         /\ call[th].op # "queue" /\ ops' = ops /\ ops[t].status = "none"
  BY <1>2 DEF Execute, TypeOK, Faulty, Known
<1>8. Counted'
  <2>1. t < next
    BY <1>2, <1>3 DEF Counted, Calls
  <2>2. \A w \in Tasks : next <= w => ops'[w].status = "none"
    BY <1>3, <1>6, <2>1 DEF Counted, TypeOK, Tasks
  <2>3. ASSUME NEW u \in Threads, call'[u] # NoCall
        PROVE  call'[u].task < next /\ (call'[u].op # "queue" => u \in Servers)
    <3>1. CASE u = th
      <4>1. /\ [call[th] EXCEPT !.stage = "rollback"].task = call[th].task
            /\ [call[th] EXCEPT !.stage = "rollback"].op = call[th].op
        BY <1>1 DEF CallRecord
      <4> QED BY <1>1, <1>3, <1>7, <2>3, <3>1, <4>1 DEF Counted
    <3> QED BY <1>3, <1>4, <2>3, <3>1 DEF Counted
  <2> QED BY <1>3, <1>5, <2>2, <2>3 DEF Counted
<1>9. TaskStory(t)'
  <2>1. CASE call[th].op = "queue"
    <3>1. ops[t].status = "none" /\ call'[th] = NoCall
      BY <1>3, <1>7, <2>1 DEF TaskStory, Queuing
    <3>2. ops'[t].status = "planned"
      BY <1>2, <2>1, <3>1 DEF Execute, Effect, Registered, Known, TypeOK
    <3>3. \A u \in Threads : Calls(u, t)' =>
            /\ u # th /\ Calls(u, t) /\ call'[u] = call[u]
            /\ call[u].op # "queue"
      BY <1>3, <1>4, <2>1, <3>1 DEF Calls, TaskStory
    <3>4. ~Queuing(t)'
      BY <3>3 DEF Queuing
    <3>5. ~InFlight(t)' => tasks[t].status = "queued"
      <4>1. Claiming(t) => InFlight(t)'
        <5> SUFFICES ASSUME Claiming(t) PROVE InFlight(t)'
          OBVIOUS
        <5>1. PICK u \in Threads : Calls(u, t) /\ call[u].op = "claim"
          BY DEF Claiming
        <5>2. call'[u] = call[u]
          BY <1>4, <2>1, <5>1
        <5> QED BY <5>1, <5>2 DEF InFlight, Calls
      <4> QED BY <1>3, <2>1, <4>1 DEF TaskStory, Queuing
    <3>6. ~InFlight(t)' => ops'[t].status = Told(tasks'[t].status)
      BY <1>5, <3>2, <3>5 DEF Told
    <3>7. ASSUME NEW u \in Threads, Calls(u, t)' PROVE Story(u, t)'
      BY <1>3, <1>5, <3>1, <3>2, <3>3, <3>7 DEF TaskStory, Story
    <3> QED BY <3>3, <3>4, <3>6, <3>7 DEF TaskStory
  <2>2. CASE call[th].op # "queue" /\ ops[t].status # "none"
    <3>1. call'[th] = NoCall /\ \A u \in Threads : ~Calls(u, t)'
      BY <1>3, <1>4, <1>7, <2>2, ServerAlone DEF Calls
    <3>2. ops'[t].status = Told(tasks[t].status)
      <4>0. ops' = Effect(call[th]) /\ Known(ops, t)
            /\ call[th].op \in {"queue", "claim", "complete", "deregister"}
            /\ call[th].success \in BOOLEAN
        BY <1>1, <1>2, <2>2 DEF Execute, Known, CallRecord
      <4>1. CASE call[th].op = "claim"
        BY <1>2, <1>3, <4>0, <4>1 DEF Effect, Claimed, Story, Told, TypeOK, Operation
      <4>2. CASE call[th].op = "complete"
        BY <1>2, <1>3, <4>0, <4>2 DEF Effect, Completed, Story, Told, TypeOK
      <4>3. CASE call[th].op = "deregister"
        BY <1>2, <1>3, <4>0, <4>3 DEF Effect, Released, Story, Told, TypeOK, Operation
      <4> QED BY <2>2, <4>0, <4>1, <4>2, <4>3
    <3>3. ~Queuing(t)' /\ ~InFlight(t)'
      BY <3>1 DEF Queuing, InFlight, Calls
    <3> QED BY <1>5, <3>1, <3>2, <3>3 DEF TaskStory
  <2>3. CASE call[th].op # "queue" /\ ops[t].status = "none"
    <3>1. call[th].op = "claim"
      BY <1>1, <1>3, <2>3 DEF Story, CallRecord
    <3> DEFINE d == [call[th] EXCEPT !.stage = "rollback"]
    <3>2. call'[th] = d /\ ops' = ops
      BY <1>2, <2>3 DEF Execute, Known, TypeOK
    <3>3. /\ d.op = "claim" /\ d.task = t /\ d.oldTask = call[th].oldTask
          /\ d # NoCall
      BY <1>1, <1>2, <3>1 DEF CallRecord, NoCall
    <3> HIDE DEF d
    <3>4. \A u \in Threads : Calls(u, t)' <=> Calls(u, t)
      BY <1>3, <1>4, <3>2, <3>3 DEF Calls
    <3>5. \A u \in Threads : call'[u] # NoCall => call'[u].op = call[u].op
      BY <1>4, <3>1, <3>2, <3>3
    <3>6. (Queuing(t)' <=> Queuing(t)) /\ (Claiming(t)' <=> Claiming(t))
          /\ (InFlight(t)' <=> InFlight(t))
      BY <3>4, <3>5 DEF Queuing, Claiming, InFlight, Calls
    <3>7. ASSUME NEW u \in Threads, Calls(u, t) PROVE Story(u, t)'
      <4>1. Story(u, t)
        BY <1>3, <3>7 DEF TaskStory
      <4>2. CASE u = th
        BY <1>5, <3>2, <3>3, <3>6, <4>1, <4>2, <3>1 DEF Story
      <4>3. CASE u # th
        <5>1. call'[u] = call[u]
          BY <1>4, <4>3
        <5> QED BY <1>5, <3>2, <3>6, <4>1, <5>1 DEF Story
      <4> QED BY <4>2, <4>3
    <3>8. \A u, v \in Threads :
            /\ Calls(u, t)' /\ call'[u].op = "queue"
            /\ Calls(v, t)' /\ call'[v].op = "queue"
            => u = v
      BY <1>3, <3>4, <3>5 DEF TaskStory, Calls
    <3> QED BY <1>3, <1>5, <3>2, <3>4, <3>6, <3>7, <3>8 DEF TaskStory
  <2> QED BY <2>1, <2>2, <2>3
<1>10. ASSUME NEW w \in Tasks, w # t PROVE TaskStory(w)'
  <2>1. ~Calls(th, w) /\ ~Calls(th, w)'
    <3>1. [call[th] EXCEPT !.stage = "rollback"].task = call[th].task
      BY <1>1 DEF CallRecord
    <3> QED BY <1>2, <1>7, <1>10, <3>1 DEF Calls
  <2> QED BY <1>4, <1>5, <1>6, <1>10, <2>1, StoryKept DEF Stories
<1> QED BY <1>5, <1>8, <1>9, <1>10 DEF Stories

(* Only a claim is rolled back, and its task goes back into the queue.     *)
LEMMA RollbackStories ==
  ASSUME SingleServer, TInv, Stories, ~Faulty, NEW th \in Threads, Rollback(th)
  PROVE  Stories'
<1> USE DEF TInv
<1>1. call[th] \in CallRecord /\ call[th] # NoCall
  BY DEF Rollback, TypeOK
<1>2. PICK t \in Tasks : t = call[th].task
  BY <1>1 DEF CallRecord
<1>3. Calls(th, t) /\ TaskStory(t) /\ Story(th, t) /\ Counted
  BY <1>1, <1>2 DEF Calls, Stories, TaskStory
<1>4. call[th].op = "claim"
  BY <1>1, <1>3 DEF Story, CallRecord, Rollback
<1>5. /\ tasks[t].status = "in_progress"
      /\ call[th].oldTask.status = "queued" /\ call[th].oldTask.owner = NoAgent
  BY <1>3, <1>4 DEF Story
<1>6. /\ UNCHANGED <<up, next, ops>> /\ call'[th] = NoCall
      /\ \A u \in Threads : u # th => call'[u] = call[u]
  BY DEF Rollback, TypeOK
<1>7. /\ tasks'[t].status = "queued" /\ tasks'[t].owner = NoAgent
      /\ \A w \in Tasks : w # t => tasks'[w] = tasks[w]
  BY <1>2, <1>4, <1>5 DEF Rollback, TypeOK
<1>8. Counted'
  <2>1. t < next
    BY <1>2, <1>3 DEF Counted, Calls
  <2>2. Fresh(tasks', next')
    BY <1>3, <1>6, <1>7, <2>1, RuntimeAssumption
    DEF Counted, Fresh, Tasks, TypeOK
  <2>3. Unowned(tasks')
    BY <1>3, <1>7 DEF Counted, Unowned
  <2> QED BY <1>3, <1>6, <2>2, <2>3 DEF Counted
<1>9. TaskStory(t)'
  <2>1. \A u \in Threads : Calls(u, t)' =>
          /\ Calls(u, t) /\ call'[u] = call[u] /\ call[u].op = "queue"
    BY <1>3, <1>4, <1>6 DEF Calls, Counted, SingleServer
  <2>2. Queuing(t) => Queuing(t)' /\ InFlight(t)'
    BY <1>4, <1>6 DEF Queuing, InFlight, Calls
  <2>3. Queuing(t)' => Queuing(t)
    BY <2>1 DEF Queuing
  <2>4. ~Queuing(t) => ops[t].status = "planned"
    BY <1>3, <1>4 DEF Story
  <2>5. \A u \in Threads : Calls(u, t)' => Story(u, t)'
    BY <1>3, <2>1 DEF TaskStory, Story
  <2>6. \A u, v \in Threads : Calls(u, t)' /\ Calls(v, t)' => u = v
    BY <1>3, <2>1 DEF TaskStory
  <2>7. ~InFlight(t)' => ops'[t].status = Told(tasks'[t].status)
    BY <1>6, <1>7, <2>2, <2>4 DEF Told
  <2>8. Queuing(t)' => ops'[t].status = "none" /\ tasks'[t].status = "queued"
    BY <1>3, <1>6, <1>7, <2>3 DEF TaskStory
  <2> QED BY <2>5, <2>6, <2>7, <2>8 DEF TaskStory
<1>10. ASSUME NEW w \in Tasks, w # t PROVE TaskStory(w)'
  <2>1. ~Calls(th, w) /\ ~Calls(th, w)'
    BY <1>2, <1>6, <1>10 DEF Calls
  <2> QED BY <1>6, <1>7, <1>10, <2>1, StoryKept DEF Stories
<1> QED BY <1>6, <1>8, <1>9, <1>10 DEF Stories

(* Every step, until the first kill.                                       *)
LEMMA NextStories ==
  ASSUME SingleServer, TInv, StoryInv, [Next]_vars
  PROVE  StoryInv'
<1>1. CASE Crash
  BY <1>1 DEF Crash, StoryInv
<1>2. CASE UNCHANGED <<up, tasks, next, call, crashed, env>> /\
           \A t \in Tasks : ops'[t].status = ops[t].status
  <2>1. Faulty' <=> Faulty
    BY <1>2 DEF Faulty
  <2>2. Stories => \A t \in Tasks : TaskStory(t)'
    BY <1>2, StoryKept DEF Stories
  <2> QED BY <1>2, <2>1, <2>2 DEF StoryInv, Stories, Counted
<1>3. CASE ~crashed /\ ~Faulty /\ Stories
  <2>1. CASE UNCHANGED vars
    BY <1>2, <2>1 DEF vars
  <2>2. ASSUME NEW th \in Threads, Handle(th) PROVE StoryInv'
    <3>1. ASSUME NEW a \in Agents,
                 RegisterAgent(th, a) \/ \E s \in Statuses : Heartbeat(th, a, s)
          PROVE  StoryInv'
      BY <1>2, <3>1 DEF RegisterAgent, Heartbeat, EndSection
    <3>2. ASSUME NEW t \in Tasks, Compensate(th, t) PROVE StoryInv'
      BY <1>2, <3>2 DEF Compensate, Compensated, TInv, TypeOK, Operation
    <3>3. CASE QueueTask(th)
      BY <1>3, <3>3, QueueStories DEF StoryInv
    <3>4. ASSUME NEW a \in Agents, NEW t \in Tasks, ClaimTask(th, a, t)
          PROVE  StoryInv'
      BY <1>3, <3>4, ClaimStories DEF StoryInv
    <3>5. ASSUME NEW a \in Agents, NEW t \in Tasks, NEW s \in BOOLEAN,
                 CompleteTask(th, a, t, s)
          PROVE  StoryInv'
      BY <1>3, <3>5, CompleteStories DEF StoryInv
    <3>6. ASSUME NEW a \in Agents, DeregisterAgent(th, a) PROVE StoryInv'
      BY <1>3, <3>6, DeregisterStories DEF StoryInv
    <3> QED BY <2>2, <3>1, <3>2, <3>3, <3>4, <3>5, <3>6 DEF Handle
  <2>3. ASSUME NEW th \in Threads, Execute(th) \/ Rollback(th) PROVE StoryInv'
    BY <1>3, <2>3, ExecuteStories, RollbackStories DEF StoryInv
  <2>4. ~Recover
    BY <1>3 DEF Stories, Recover, Boot, ReleaseRecovered
  <2> QED BY <1>1, <2>1, <2>2, <2>3, <2>4 DEF Next
<1>4. CASE (crashed \/ Faulty) /\ ~Crash
  <2>1. crashed' = crashed /\ env' = env
    <3>1. ASSUME NEW th \in Threads, Handle(th) PROVE crashed' = crashed /\ env' = env
      <4>1. ASSUME NEW a \in Agents, DeregisterAgent(th, a)
            PROVE  crashed' = crashed /\ env' = env
        BY <4>1 DEF DeregisterAgent, EndSection, LeadTo
      <4> QED BY <3>1, <4>1 DEF Handle, RegisterAgent, Heartbeat, QueueTask,
              ClaimTask, CompleteTask, Compensate, EndSection, LeadTo
    <3>2. ASSUME NEW th \in Threads, Execute(th) \/ Rollback(th)
          PROVE  crashed' = crashed /\ env' = env
      BY <3>2 DEF Execute, Rollback
    <3>3. Recover => crashed' = crashed /\ env' = env
      BY DEF Recover, Boot, ReleaseRecovered
    <3> QED BY <1>4, <3>1, <3>2, <3>3 DEF Next, vars
  <2> QED BY <1>4, <2>1 DEF StoryInv, Faulty
<1> QED BY <1>1, <1>3, <1>4 DEF StoryInv

(* Agent runtime and execution runtime agree about every task nobody has a *)
(* call on, however the queueing threads and the server interleave: also   *)
(* when a task is claimed before its operation exists.                     *)
THEOREM RuntimesAgree ==
  ASSUME SingleServer
  PROVE  Spec => []ContractsAgree
<1>1. Init => StoryInv
  <2> SUFFICES ASSUME Init PROVE Stories
    BY DEF StoryInv
  <2>1. \A t \in Tasks : ops[t].status = "none" /\ tasks[t].status = "absent"
    BY DEF Init, NoOperation, AbsentTask
  <2>2. \A u \in Threads, t \in Tasks : ~Calls(u, t)
    BY DEF Init, Calls
  <2>3. \A t \in Tasks : TaskStory(t)
    BY <2>1, <2>2 DEF TaskStory, Queuing, Told
  <2> QED BY <2>1, <2>3 DEF Init, Stories, Counted, Fresh, Unowned, AbsentTask
<1>2. StoryInv => ContractsAgree
  BY DEF StoryInv, Stories, TaskStory, ContractsAgree, Told
<1>3. TInv /\ StoryInv /\ [Next]_vars => TInv' /\ StoryInv'
  BY NextTypes, NextStories
<1> QED BY <1>1, <1>2, <1>3, InitTypes, PTL DEF Spec

---------------------------------------------------------------------------
(* Results are final.                                                      *)

FileInv ==
  /\ Fresh(tasks, next) /\ Fresh(savedBoard.tasks, savedBoard.next)
  /\ "board_fault" \notin env.may => savedBoard.tasks = tasks

KeepsResults ==
  env.may \cap {"board_fault", "duplicate"} = {} =>
    \A t \in Tasks : Finished(t) /\ ~InFlight(t) => tasks'[t] = tasks[t]

(* A section that changes the board and saves it, or fails to.             *)
LEMMA SectionFiles ==
  ASSUME FileInv, Fresh(tasks', next'), env' = env,
         SaveBoard \/ SaveBoardFails \/ UNCHANGED <<tasks, savedBoard>>
  PROVE  FileInv'
<1>1. CASE SaveBoard
  BY <1>1 DEF SaveBoard, FileInv
<1>2. CASE SaveBoardFails
  BY <1>2 DEF SaveBoardFails, FileInv
<1>3. CASE UNCHANGED <<tasks, savedBoard>>
  BY <1>3 DEF FileInv
<1> QED BY <1>1, <1>2, <1>3

(* The first section of a call, or a call of one section, that changes one *)
(* task, which is queued or in progress afterwards or was so before.       *)
LEMMA SectionResults ==
  ASSUME FileInv, env' = env, NEW t \in Tasks,
         \A u \in Tasks : u # t => tasks'[u] = tasks[u],
         next \in Nat, next' \in Nat, next <= next', t < next',
         ("duplicate" \notin env.may /\ Finished(t)) => t = next,
         SaveBoard \/ SaveBoardFails
  PROVE  FileInv' /\ KeepsResults
<1>2. Fresh(tasks', next')
  BY DEF FileInv, Fresh, Tasks
<1>3. ~(Finished(t) /\ t = next)
  BY DEF FileInv, Fresh, Finished, AbsentTask, Tasks
<1> QED BY <1>2, <1>3, SectionFiles DEF KeepsResults

(* Sections that touch no task.                                            *)
LEMMA SameTasksResults ==
  ASSUME FileInv, UNCHANGED <<tasks, next, env>>,
         SaveBoard \/ SaveBoardFails \/ UNCHANGED savedBoard
  PROVE  FileInv' /\ KeepsResults
<1>1. Fresh(tasks', next')
  BY DEF FileInv
<1> QED BY <1>1, SectionFiles DEF KeepsResults

(* A first section changes no finished task, unless it is told again.      *)
LEMMA HandleResults ==
  ASSUME TInv, FileInv, NEW th \in Threads, Handle(th)
  PROVE  FileInv' /\ KeepsResults
<1> USE DEF TInv
<1>0. next \in Nat /\ next \in 1 .. MaxTasks + 1
  BY RuntimeAssumption DEF TypeOK
<1>1. ASSUME NEW a \in Agents,
             RegisterAgent(th, a) \/ \E s \in Statuses : Heartbeat(th, a, s)
      PROVE  FileInv' /\ KeepsResults
  <2>1. UNCHANGED <<tasks, next, env>> /\ (SaveBoard \/ SaveBoardFails)
    BY <1>1 DEF RegisterAgent, Heartbeat, EndSection
  <2> QED BY <2>1, SameTasksResults
<1>2. ASSUME NEW t \in Tasks, Compensate(th, t) PROVE FileInv' /\ KeepsResults
  BY <1>2, SameTasksResults DEF Compensate
<1>3. CASE QueueTask(th)
  <2>1. next \in Tasks
    BY <1>3, RuntimeAssumption DEF QueueTask, TypeOK, Tasks
  <2>2. next' = next + 1 /\ env' = env /\ (SaveBoard \/ SaveBoardFails)
        /\ \A u \in Tasks : u # next => tasks'[u] = tasks[u]
    BY <1>3 DEF QueueTask, LeadTo, TypeOK
  <2>3. next' \in Nat /\ next <= next' /\ next < next'
    BY <1>0, <2>2
  <2> QED BY <1>0, <2>1, <2>2, <2>3, SectionResults
<1>4. ASSUME NEW a \in Agents, NEW t \in Tasks, ClaimTask(th, a, t)
      PROVE  FileInv' /\ KeepsResults
  <2>1. /\ \A u \in Tasks : u # t => tasks'[u] = tasks[u]
        /\ next' = next /\ env' = env /\ tasks[t].status = "queued"
        /\ SaveBoard \/ SaveBoardFails
    BY <1>4 DEF ClaimTask, LeadTo, TypeOK
  <2>2. t < next
    BY <1>0, <2>1 DEF FileInv, Fresh, AbsentTask, Tasks
  <2>3. ~Finished(t)
    BY <2>1 DEF Finished
  <2> QED BY <1>0, <2>1, <2>2, <2>3, SectionResults
<1>5. ASSUME NEW a \in Agents, NEW t \in Tasks, NEW s \in BOOLEAN,
             CompleteTask(th, a, t, s)
      PROVE  FileInv' /\ KeepsResults
  <2>1. /\ \A u \in Tasks : u # t => tasks'[u] = tasks[u]
        /\ next' = next /\ env' = env /\ tasks[t].owner = a
        /\ Finished(t) => "duplicate" \in env.may
        /\ SaveBoard \/ SaveBoardFails
    BY <1>5 DEF CompleteTask, LeadTo, TypeOK
  <2>2. t < next
    BY <1>0, <2>1, Constants DEF FileInv, Fresh, AbsentTask, Tasks
  <2> QED BY <1>0, <2>1, <2>2, SectionResults
<1>6. ASSUME NEW a \in Agents, DeregisterAgent(th, a) PROVE FileInv' /\ KeepsResults
  <2> DEFINE t == agents[a].task
             holds == t # NoTask
                      /\ tasks[t] = [status |-> "in_progress", owner |-> a]
  <2>1. CASE holds
    <3>1. t \in Tasks
      BY <2>1 DEF TypeOK, AgentRecord
    <3>2. /\ \A u \in Tasks : u # t => tasks'[u] = tasks[u]
          /\ next' = next /\ env' = env
          /\ SaveBoard \/ SaveBoardFails
      BY <1>6, <2>1, <3>1 DEF DeregisterAgent, LeadTo, TypeOK
    <3>4. tasks[t].status = "in_progress"
      BY <2>1
    <3> HIDE DEF t, holds
    <3>3. t < next
      BY <1>0, <3>1, <3>2, <3>4 DEF FileInv, Fresh, AbsentTask, Tasks
    <3>5. ~Finished(t)
      BY <3>4 DEF Finished
    <3> QED BY <1>0, <3>1, <3>2, <3>3, <3>5, SectionResults
  <2>2. CASE ~holds
    <3>1. UNCHANGED <<tasks, next, env>> /\ (SaveBoard \/ SaveBoardFails)
      BY <1>6, <2>2 DEF DeregisterAgent, EndSection
    <3> QED BY <3>1, SameTasksResults
  <2> QED BY <2>1, <2>2
<1> QED BY <1>1, <1>2, <1>3, <1>4, <1>5, <1>6 DEF Handle

(* A rollback puts a copy back only over a task that is in flight.         *)
LEMMA RollbackResults ==
  ASSUME TInv, FileInv, NEW th \in Threads, Rollback(th)
  PROVE  FileInv' /\ KeepsResults
<1> DEFINE c == call[th]
           t == c.task
<1>1. c \in CallRecord /\ c # NoCall /\ t \in Tasks
  BY DEF Rollback, TInv, TypeOK, CallRecord
<1>2. /\ \A u \in Tasks : u # t => tasks'[u] = tasks[u]
      /\ tasks[t].status = "absent" =>
           tasks'[t] = AbsentTask \/ tasks'[t] = tasks[t]
      /\ UNCHANGED <<next, env>> /\ (SaveBoard \/ SaveBoardFails)
  BY <1>1 DEF Rollback, TInv, TypeOK
<1>3. Fresh(tasks', next')
  BY <1>1, <1>2 DEF FileInv, Fresh, AbsentTask
<1>4. InFlight(t)
  BY <1>1 DEF InFlight
<1>5. KeepsResults
  BY <1>1, <1>2, <1>4 DEF KeepsResults
<1> QED BY <1>2, <1>3, <1>5, SectionFiles

(* A restart reads the results back, and requeues no finished task.        *)
LEMMA RestartResults ==
  ASSUME TInv, FileInv, Crash \/ Recover
  PROVE  FileInv' /\ KeepsResults
<1>1. CASE Crash
  BY <1>1 DEF Crash, FileInv, KeepsResults
<1>2. ASSUME NEW t \in Tasks, ReleaseRecovered(t) PROVE FileInv' /\ KeepsResults
  BY <1>2, SameTasksResults DEF ReleaseRecovered
<1>3. CASE Boot
  <2>1. /\ UNCHANGED <<next, env>>
        /\ \A t \in Tasks :
             tasks'[t] = IF tasks[t].status = "in_progress" THEN QueuedTask
                         ELSE tasks[t]
        /\ SaveBoard \/ UNCHANGED <<tasks, savedBoard>>
    <3>1. Recovered = {} => tasks' = tasks
      BY <1>3 DEF Boot, TInv, TypeOK
    <3> QED BY <1>3, <3>1 DEF Boot, Recovered
  <2>2. Fresh(tasks', next')
    BY <2>1 DEF FileInv, Fresh, AbsentTask
  <2>3. KeepsResults
    BY <2>1 DEF KeepsResults, Finished
  <2> QED BY <2>1, <2>2, <2>3, SectionFiles
<1> QED BY <1>1, <1>2, <1>3 DEF Recover

(* Every step.                                                             *)
LEMMA NextResults ==
  ASSUME TInv, FileInv, [Next]_vars
  PROVE  FileInv' /\ KeepsResults
<1>1. CASE UNCHANGED vars
  BY <1>1 DEF vars, FileInv, KeepsResults
<1>2. ASSUME NEW th \in Threads, Execute(th) PROVE FileInv' /\ KeepsResults
  BY <1>2, SameTasksResults DEF Execute
<1> QED BY <1>1, <1>2, HandleResults, RollbackResults, RestartResults DEF Next

(* A result its caller was told stays, whatever threads do and however     *)
(* often the process is killed, as long as the queue's saves work.         *)
THEOREM ResultsStay == Spec => ResultsAreFinal
<1>1. Init => FileInv
  BY DEF Init, FileInv, Fresh
<1>2. TInv /\ FileInv /\ [Next]_vars => TInv' /\ FileInv'
  BY NextTypes, NextResults
<1>3. TInv /\ FileInv /\ [Next]_vars =>
        [env.may \cap {"board_fault", "duplicate"} = {} =>
           \A t \in Tasks :
             Finished(t) /\ ~InFlight(t) => tasks'[t] = tasks[t]]_vars
  BY NextResults DEF KeepsResults
<1> QED BY <1>1, <1>2, <1>3, InitTypes, PTL DEF Spec, ResultsAreFinal

---------------------------------------------------------------------------
(* The queue as its callers see it.                                        *)

PostedIn(seen, ts) ==
  IF seen THEN {t \in Tasks : ts[t].status = "queued"} ELSE {}
FinishedIn(seen, ts) ==
  IF seen THEN {t \in Tasks : ts[t].status \in {"done", "failed"}} ELSE {}
HeldIn(seen, ts) ==
  IF seen THEN {t \in Tasks : ts[t].status = "in_progress"} ELSE {}
HolderIn(seen, ts) == [t \in HeldIn(seen, ts) |-> ts[t].owner]

(* TaskBoard's variables are these.                                        *)
BoardIs ==
  /\ Seen({t \in Tasks : tasks[t].status = "queued"}) = PostedIn(Orderly, tasks)
  /\ [t \in Seen(Recovered) |-> tasks[t].owner] = HolderIn(Orderly, tasks)
  /\ Seen({t \in Tasks : Finished(t)}) = FinishedIn(Orderly, tasks)

(* The substitution of the refinement, in the operators used here.         *)
LEMMA BoardVariables == BoardIs
<1>1. Seen(Recovered) = HeldIn(Orderly, tasks)
  BY DEF Seen, Recovered, HeldIn
<1> QED BY <1>1 DEF BoardIs, Seen, PostedIn, HolderIn, FinishedIn, Finished

(* What a step does to the tasks.                                          *)
Alike(S) == \A t \in Tasks \ S : tasks'[t] = tasks[t]
Posts(t) ==
  tasks[t].status = "absent" /\ tasks'[t].status = "queued" /\ Alike({t})
Takes(t, a) ==
  /\ tasks[t].status = "queued"
  /\ tasks'[t].status = "in_progress" /\ tasks'[t].owner = a
  /\ \A u \in Tasks : tasks[u].status = "in_progress" => tasks[u].owner # a
  /\ Alike({t})
Finishes(t) ==
  /\ tasks[t].status = "in_progress"
  /\ tasks'[t].status \in {"done", "failed"} /\ Alike({t})
Returns(S) ==
  /\ S \subseteq Recovered /\ Alike(S)
  /\ \A t \in S : tasks'[t].status = "queued"

Moved ==
  \/ Alike({})
  \/ \E t \in Tasks :
       Posts(t) \/ Finishes(t) \/ \E a \in Agents : Takes(t, a)
  \/ \E S \in SUBSET Tasks : Returns(S)

(* Each of them is a step of TaskBoard.                                    *)
LEMMA MovesOnBoard ==
  ASSUME env' = env, Orderly => Moved
  PROVE  [Board!Next]_Board!vars
<1> DEFINE P == PostedIn(Orderly, tasks)
           F == FinishedIn(Orderly, tasks)
           D == HeldIn(Orderly, tasks)
           H == HolderIn(Orderly, tasks)
           PP == PostedIn(Orderly, tasks')
           FF == FinishedIn(Orderly, tasks')
           DD == HeldIn(Orderly, tasks')
           HH == HolderIn(Orderly, tasks')
<1>1. BoardIs /\ BoardIs'
  <2>1. BoardIs'
    BY BoardVariables, PTL
  <2> QED BY <2>1, BoardVariables
<1>2. Orderly' <=> Orderly
  BY DEF Orderly, Faulty
<1>3. /\ Seen({t \in Tasks : tasks[t].status = "queued"})' = PP
      /\ [t \in Seen(Recovered) |-> tasks[t].owner]' = HH
      /\ Seen({t \in Tasks : Finished(t)})' = FF
  BY <1>1, <1>2 DEF BoardIs, PostedIn, FinishedIn, HolderIn, HeldIn
<1>4. /\ H = [t \in D |-> tasks[t].owner] /\ DOMAIN H = D
      /\ HH = [t \in DD |-> tasks'[t].owner] /\ DOMAIN HH = DD
  BY DEF HolderIn
<1>5. P \subseteq Tasks /\ F \subseteq Tasks /\ D \subseteq Tasks
  BY DEF PostedIn, FinishedIn, HeldIn
<1>6. ASSUME PP = P, FF = F, HH = H PROVE UNCHANGED Board!vars
  <2> HIDE DEF P, F, D, H, PP, FF, DD, HH
  <2> QED BY <1>1, <1>3, <1>6 DEF Board!vars, BoardIs, P, F, H
<1>7. CASE ~Orderly
  <2>1. PP = P /\ FF = F /\ HH = H
    BY <1>7 DEF PostedIn, FinishedIn, HolderIn, HeldIn
  <2> QED BY <1>6, <2>1
<1>8. CASE Orderly
  <2> USE <1>8
  <2>1. CASE Alike({})
    <3>1. PP = P /\ FF = F /\ DD = D
      BY <2>1 DEF Alike, PostedIn, FinishedIn, HeldIn
    <3>2. HH = H
      BY <1>4, <1>5, <2>1, <3>1 DEF Alike
    <3> QED BY <1>6, <3>1, <3>2
  <2>2. ASSUME NEW t \in Tasks, Posts(t) PROVE Board!Next
    <3>1. /\ t \notin P \cup D \cup F /\ PP = P \cup {t} /\ FF = F /\ DD = D
      BY <2>2 DEF Posts, Alike, PostedIn, FinishedIn, HeldIn
    <3>2. \A u \in D : tasks'[u] = tasks[u]
      BY <1>5, <2>2, <3>1 DEF Posts, Alike
    <3>3. HH = H
      BY <1>4, <3>1, <3>2
    <3> HIDE DEF P, F, D, H, PP, FF, DD, HH
    <3>4. Board!Post(t)
      BY <1>1, <1>3, <1>4, <3>1, <3>3 DEF Board!Post, Board!Held, BoardIs, P, F, H
    <3> QED BY <3>4 DEF Board!Next
  <2>3. ASSUME NEW t \in Tasks, Finishes(t) PROVE Board!Next
    <3>1. t \in D /\ PP = P /\ FF = F \cup {t} /\ DD = D \ {t}
      BY <2>3 DEF Finishes, Alike, PostedIn, FinishedIn, HeldIn
    <3>2. \A u \in DD : tasks'[u] = tasks[u]
      BY <1>5, <2>3, <3>1 DEF Finishes, Alike
    <3>3. HH = [u \in DOMAIN H \ {t} |-> H[u]]
      <4>1. DOMAIN H \ {t} = DD /\ \A u \in DD : H[u] = tasks'[u].owner
        BY <1>4, <3>1, <3>2, ZenonT(40)
      <4> HIDE DEF P, F, D, H, PP, FF, DD, HH
      <4> QED BY <1>4, <4>1
    <3> HIDE DEF P, F, D, H, PP, FF, DD, HH
    <3>4. Board!Finish(t)
      BY <1>1, <1>3, <1>4, <3>1, <3>3
      DEF Board!Finish, Board!Held, Board!Without, BoardIs, P, F, H
    <3> QED BY <3>4 DEF Board!Next
  <2>4. ASSUME NEW t \in Tasks, NEW a \in Agents, Takes(t, a) PROVE Board!Next
    <3>1. t \in P /\ PP = P \ {t} /\ FF = F /\ DD = D \cup {t}
      BY <2>4 DEF Takes, Alike, PostedIn, FinishedIn, HeldIn
    <3>2. t \notin D /\ \A u \in D : tasks[u].owner # a
      BY <2>4 DEF Takes, HeldIn
    <3>3. tasks'[t].owner = a /\ \A u \in D : tasks'[u] = tasks[u]
      BY <1>5, <2>4, <3>2 DEF Takes, Alike
    <3>4. HH = [u \in DOMAIN H \cup {t} |-> IF u = t THEN a ELSE H[u]]
      <4>1. DOMAIN H \cup {t} = DD
        BY <1>4, <3>1
      <4>2. ASSUME NEW u \in D PROVE H[u] = tasks'[u].owner /\ u # t
        <5>1. H[u] = tasks[u].owner
          BY <1>4, ZenonT(40)
        <5>2. tasks'[u] = tasks[u] /\ u # t
          BY <3>2, <3>3
        <5> QED BY <5>1, <5>2, Zenon
      <4> HIDE DEF P, F, D, H, PP, FF, DD, HH
      <4>3. \A u \in DD : tasks'[u].owner = IF u = t THEN a ELSE H[u]
        BY <3>1, <3>3, <4>2
      <4> QED BY <1>4, <4>1, <4>3
    <3>5. \A u \in DOMAIN H : H[u] # a
      BY <1>4, <3>2
    <3> HIDE DEF P, F, D, H, PP, FF, DD, HH
    <3>6. Board!Take(t, a)
      BY <1>1, <1>3, <3>1, <3>4, <3>5, ZenonT(40)
      DEF Board!Take, Board!Held, BoardIs, P, F, H
    <3> QED BY <3>6 DEF Board!Next
  <2>5. ASSUME NEW S \in SUBSET Tasks, Returns(S) PROVE Board!Next
    <3>1. S \subseteq D /\ PP = P \cup S /\ FF = F /\ DD = D \ S
      BY <2>5 DEF Returns, Recovered, Alike, PostedIn, FinishedIn, HeldIn
    <3>2. \A u \in DD : tasks'[u] = tasks[u]
      BY <1>5, <2>5, <3>1 DEF Returns, Alike
    <3>3. HH = [u \in DOMAIN H \ S |-> H[u]] /\ S \subseteq DOMAIN H
      <4>1. /\ DOMAIN H \ S = DD /\ \A u \in DD : H[u] = tasks'[u].owner
            /\ S \subseteq DOMAIN H
        BY <1>4, <3>1, <3>2, ZenonT(40)
      <4> HIDE DEF P, F, D, H, PP, FF, DD, HH
      <4> QED BY <1>4, <4>1
    <3> HIDE DEF P, F, D, H, PP, FF, DD, HH
    <3>4. Board!Return(S) /\ S \in SUBSET Board!Held
      BY <1>1, <1>3, <3>1, <3>3, ZenonT(40)
      DEF Board!Return, Board!Held, Board!Without, BoardIs, P, F, H
    <3> QED BY <3>4 DEF Board!Next
  <2> QED BY <2>1, <2>2, <2>3, <2>4, <2>5 DEF Moved
<1> QED BY <1>7, <1>8

(* The operations file is as in memory, a finished task has an operation,  *)
(* and calls that end or return a task find theirs.                        *)
Found ==
  /\ savedOps = ops
  /\ \A t \in Tasks : Finished(t) => Known(ops, t)
  /\ up => \A t \in Tasks :
       tasks[t].status = "in_progress" => Known(ops, t) \/ Claiming(t)
  /\ \A u \in Threads :
       call[u] # NoCall /\ call[u].op \in {"complete", "deregister"} =>
         call[u].stage = "execute" /\ Known(ops, call[u].task)

FoundInv == Orderly => Found

(* A call is made, or ends, on one task; the operations stay known.        *)
LEMMA FoundKept ==
  ASSUME Found, savedOps' = ops', NEW t \in Tasks,
         \A u \in Tasks : Known(ops, u) => Known(ops', u),
         \A u \in Tasks \ {t} : tasks'[u] = tasks[u],
         Finished(t)' => Known(ops', t),
         tasks'[t].status = "in_progress" => Known(ops', t) \/ Claiming(t)',
         up' => up,
         NEW th \in Threads, \A u \in Threads : u # th => call'[u] = call[u],
         \A u \in Threads : call[u] # NoCall => call[u].task \in Tasks,
         call[th] # NoCall /\ call[th].op = "claim" => call[th].task = t,
         call'[th] # NoCall /\ call'[th].op \in {"complete", "deregister"} =>
           call'[th].stage = "execute" /\ Known(ops', call'[th].task)
  PROVE  Found'
<1>1. \A u \in Tasks : Finished(u)' => Known(ops', u)
  BY DEF Found, Finished
<1>2. ASSUME NEW u \in Tasks, u # t, Claiming(u) PROVE Claiming(u)'
  <2>1. PICK v \in Threads : Calls(v, u) /\ call[v].op = "claim"
    BY <1>2 DEF Claiming
  <2>2. v # th
    BY <1>2, <2>1 DEF Calls
  <2> QED BY <2>1, <2>2 DEF Claiming, Calls
<1>3. up' => \A u \in Tasks :
        tasks'[u].status = "in_progress" => Known(ops', u) \/ Claiming(u)'
  BY <1>2 DEF Found
<1>4. \A u \in Threads :
        call'[u] # NoCall /\ call'[u].op \in {"complete", "deregister"} =>
          call'[u].stage = "execute" /\ Known(ops', call'[u].task)
  BY DEF Found
<1> QED BY <1>1, <1>3, <1>4 DEF Found

(* Sections that touch no task and no call.                                *)
LEMMA FoundSame ==
  ASSUME TypeOK, Found, savedOps' = ops', UNCHANGED <<tasks, call>>, up' => up,
         \A u \in Tasks : Known(ops, u) => Known(ops', u)
  PROVE  Found' /\ Moved
<1>1. \A u \in Tasks : Claiming(u)' <=> Claiming(u)
  BY DEF Claiming, Calls
<1>2. \A u \in Threads : call[u] # NoCall => call[u].task \in Tasks
  BY DEF TypeOK, CallRecord
<1>3. Found'
  BY <1>1, <1>2 DEF Found, Finished
<1> QED BY <1>3 DEF Moved, Alike

(* Queueing is Post.                                                       *)
LEMMA QueueMoves ==
  ASSUME TInv, IInv, Orderly, Found, NEW th \in Threads, QueueTask(th)
  PROVE  Found' /\ Moved
<1> USE DEF TInv
<1>1. PICK t \in Tasks : t = next
  BY RuntimeAssumption DEF QueueTask, TypeOK, Tasks
<1>2. /\ tasks' = [tasks EXCEPT ![t] = QueuedTask] /\ UNCHANGED <<up, ops, savedOps>>
      /\ call[th] = NoCall
      /\ call' = [call EXCEPT ![th] = Calling("queue", t, NoAgent, TRUE)]
  BY <1>1 DEF QueueTask, LeadTo, Free, Orderly, Faulty, SaveBoardFails
<1>3. tasks[t].status = "absent"
  BY <1>1, RuntimeAssumption
  DEF Orderly, IInv, BoardInv, Fresh, AbsentTask, TypeOK, Tasks
<1>4. tasks'[t].status = "queued" /\ \A u \in Tasks \ {t} : tasks'[u] = tasks[u]
  BY <1>2 DEF TypeOK, QueuedTask
<1>5. Moved
  BY <1>3, <1>4 DEF Moved, Posts, Alike
<1>6. call'[th].op = "queue" /\ \A u \in Threads : u # th => call'[u] = call[u]
  BY <1>2 DEF TypeOK, Calling
<1>7. \A u \in Threads : call[u] # NoCall => call[u].task \in Tasks
  BY DEF TypeOK, CallRecord
<1>8. ~Finished(t)'
  BY <1>4 DEF Finished
<1> QED BY <1>2, <1>4, <1>5, <1>6, <1>7, <1>8, FoundKept, ZenonT(40) DEF Found

(* Claiming is Take: the agent has no other task.                          *)
LEMMA ClaimMoves ==
  ASSUME TInv, IInv, Orderly, Found, NEW th \in Threads, NEW a \in Agents,
         NEW t \in Tasks, ClaimTask(th, a, t)
  PROVE  Found' /\ Moved
<1> USE DEF TInv
<1>1. /\ tasks' = [tasks EXCEPT ![t] = [status |-> "in_progress", owner |-> a]]
      /\ UNCHANGED <<up, ops, savedOps>> /\ call[th] = NoCall
      /\ call' = [call EXCEPT ![th] = Calling("claim", t, a, TRUE)]
      /\ tasks[t].status = "queued" /\ agents[a].task = NoTask
  BY DEF ClaimTask, LeadTo, Free, Orderly, Faulty, SaveBoardFails
<1>2. /\ tasks'[t] = [status |-> "in_progress", owner |-> a]
      /\ \A u \in Tasks \ {t} : tasks'[u] = tasks[u]
  BY <1>1 DEF TypeOK
<1>3. \A u \in Tasks : tasks[u].status = "in_progress" => tasks[u].owner # a
  <2>1. ASSUME NEW u \in Tasks, tasks[u].status = "in_progress", tasks[u].owner = a
        PROVE  FALSE
    <3>1. tasks[u] = [status |-> "in_progress", owner |-> a]
      BY <2>1 DEF TypeOK, TaskRecord
    <3>2. agents[a].task = u
      BY <3>1 DEF Orderly, IInv, BoardInv, Agreeing
    <3> QED BY <1>1, <3>2 DEF Tasks, NoTask
  <2> QED BY <2>1
<1>4. Moved
  BY <1>1, <1>2, <1>3 DEF Moved, Takes, Alike
<1>5. /\ call'[th].op = "claim" /\ call'[th].task = t /\ call'[th] # NoCall
      /\ \A u \in Threads : u # th => call'[u] = call[u]
  BY <1>1 DEF TypeOK, Calling, NoCall
<1>6. Claiming(t)'
  BY <1>5 DEF Claiming, Calls
<1>7. \A u \in Threads : call[u] # NoCall => call[u].task \in Tasks
  BY DEF TypeOK, CallRecord
<1>8. ~Finished(t)'
  BY <1>2 DEF Finished
<1> QED BY <1>1, <1>2, <1>4, <1>5, <1>6, <1>7, <1>8, FoundKept, ZenonT(40) DEF Found

(* The server finds the operation of a task that is in progress.           *)
LEMMA HeldIsKnown ==
  ASSUME OneServer, TInv, IInv, Orderly, Found, NEW th \in Servers, up,
         call[th] = NoCall, NEW t \in Tasks, tasks[t].status = "in_progress"
  PROVE  Known(ops, t)
<1>1. \A u \in Threads : call[u] # NoCall => call[u].op = "queue"
  BY DEF Orderly, IInv, CallInv, OneServer, SingleServer
<1> QED BY <1>1 DEF Found, Claiming, Calls

(* Reporting a result is Finish.                                           *)
LEMMA CompleteMoves ==
  ASSUME OneServer, TInv, IInv, Orderly, Found, NEW th \in Threads,
         NEW a \in Agents, NEW t \in Tasks, NEW s \in BOOLEAN,
         CompleteTask(th, a, t, s)
  PROVE  Found' /\ Moved
<1> USE DEF TInv
<1>1. /\ tasks' = [tasks EXCEPT ![t].status = IF s THEN "done" ELSE "failed"]
      /\ UNCHANGED <<up, ops, savedOps>> /\ call[th] = NoCall /\ th \in Servers
      /\ call' = [call EXCEPT ![th] = Calling("complete", t, a, s)]
      /\ ~Finished(t) /\ tasks[t].owner = a /\ up
  BY DEF CompleteTask, LeadTo, Free, Orderly, Faulty, SaveBoardFails
<1>2. tasks[t].status = "in_progress"
  BY <1>1, Constants
  DEF Orderly, IInv, BoardInv, Unowned, Finished, TypeOK, TaskRecord
<1>3. Known(ops, t)
  BY <1>1, <1>2, HeldIsKnown
<1>4. /\ tasks'[t].status \in {"done", "failed"}
      /\ \A u \in Tasks \ {t} : tasks'[u] = tasks[u]
  BY <1>1 DEF TypeOK, TaskRecord
<1>5. Moved
  BY <1>2, <1>4 DEF Moved, Finishes, Alike
<1>6. /\ call'[th].stage = "execute" /\ call'[th].task = t
      /\ \A u \in Threads : u # th => call'[u] = call[u]
  BY <1>1 DEF TypeOK, Calling
<1>7. \A u \in Threads : call[u] # NoCall => call[u].task \in Tasks
  BY DEF TypeOK, CallRecord
<1> QED BY <1>1, <1>3, <1>4, <1>5, <1>6, <1>7, FoundKept DEF Found

(* Retiring an agent is Return, or nothing.                                *)
LEMMA DeregisterMoves ==
  ASSUME OneServer, TInv, IInv, Orderly, Found, NEW th \in Threads,
         NEW a \in Agents, DeregisterAgent(th, a)
  PROVE  Found' /\ Moved
<1> USE DEF TInv
<1> DEFINE held == agents[a].task
           holds == held # NoTask
                    /\ tasks[held] = [status |-> "in_progress", owner |-> a]
<1>1. CASE holds
  <2>0. held \in Tasks
    BY <1>1 DEF TypeOK, AgentRecord
  <2>1. PICK t \in Tasks : t = held /\ tasks[t].status = "in_progress"
    BY <1>1, <2>0
  <2>2. /\ tasks' = [tasks EXCEPT ![t] = QueuedTask]
        /\ UNCHANGED <<up, ops, savedOps>> /\ call[th] = NoCall /\ th \in Servers
        /\ call' = [call EXCEPT ![th] = Calling("deregister", t, a, TRUE)] /\ up
    BY <1>1, <2>1 DEF DeregisterAgent, LeadTo, Free, Orderly, Faulty, SaveBoardFails
  <2> HIDE DEF holds, held
  <2>3. Known(ops, t)
    BY <2>1, <2>2, HeldIsKnown
  <2>4. /\ tasks'[t].status = "queued"
        /\ \A u \in Tasks \ {t} : tasks'[u] = tasks[u]
    BY <2>2 DEF TypeOK, QueuedTask
  <2>5. Returns({t})
    BY <2>1, <2>4 DEF Returns, Recovered, Alike
  <2>6. /\ call'[th].stage = "execute" /\ call'[th].task = t
        /\ \A u \in Threads : u # th => call'[u] = call[u]
    BY <2>2 DEF TypeOK, Calling
  <2>7. \A u \in Threads : call[u] # NoCall => call[u].task \in Tasks
    BY DEF TypeOK, CallRecord
  <2>8. ~Finished(t)'
    BY <2>4 DEF Finished
  <2>9. Found'
    BY <2>2, <2>3, <2>4, <2>6, <2>7, <2>8, FoundKept, ZenonT(40) DEF Found
  <2> QED BY <2>5, <2>9 DEF Moved
<1>2. CASE ~holds
  <2>1. UNCHANGED <<up, tasks, ops, savedOps, call>>
    BY <1>2 DEF DeregisterAgent, EndSection
  <2> QED BY <2>1, FoundSame DEF Found
<1> QED BY <1>1, <1>2

(* The operations known before the call are known after it.                *)
LEMMA ExecuteMoves ==
  ASSUME TInv, IInv, Orderly, Found, NEW th \in Threads, Execute(th)
  PROVE  Found' /\ Moved
<1> USE DEF TInv
<1>1. call[th] \in CallRecord /\ call[th] # NoCall
  BY DEF Execute, TypeOK
<1>2. PICK t \in Tasks : t = call[th].task
  BY <1>1 DEF CallRecord
<1>3. /\ UNCHANGED <<up, tasks>> /\ \A u \in Threads : u # th => call'[u] = call[u]
  BY DEF Execute, TypeOK
<1> DEFINE d == [call[th] EXCEPT !.stage = "rollback"]
<1>4. \/ ops' = Effect(call[th]) /\ savedOps' = ops' /\ call'[th] = NoCall
         /\ (call[th].op = "queue" \/ Known(ops, t))
      \/ ops' = ops /\ savedOps' = savedOps /\ call'[th] = d
         /\ call[th].op # "queue" /\ ~Known(ops, t)
  BY <1>2 DEF Execute, Orderly, Faulty, TypeOK
<1>5. d.op = call[th].op /\ d.task = t /\ d # NoCall
  BY <1>1, <1>2 DEF CallRecord, NoCall
<1> HIDE DEF d
<1>6. CASE ops' = Effect(call[th]) /\ savedOps' = ops' /\ call'[th] = NoCall
           /\ (call[th].op = "queue" \/ Known(ops, t))
  <2>1. call[th].op \in {"queue", "claim", "complete", "deregister"}
        /\ call[th].success \in BOOLEAN
    BY <1>1 DEF CallRecord
  <2>2. \A u \in Tasks : u = t \/ Known(ops, u) => Known(ops', u)
    BY <1>2, <1>6, <2>1
    DEF Effect, Registered, Claimed, Completed, Released, Known, TypeOK, Operation
  <2>3. \A u \in Threads : call[u] # NoCall => call[u].task \in Tasks
    BY DEF TypeOK, CallRecord
  <2>4. Found'
    BY <1>2, <1>3, <1>6, <2>2, <2>3, FoundKept
  <2> QED BY <1>3, <2>4 DEF Moved, Alike
<1>7. CASE ops' = ops /\ savedOps' = savedOps /\ call'[th] = d
           /\ call[th].op # "queue" /\ ~Known(ops, t)
  <2>1. call[th].op = "claim"
    BY <1>1, <1>2, <1>7 DEF Found, CallRecord
  <2>2. Claiming(t)'
    BY <1>5, <1>7, <2>1 DEF Claiming, Calls
  <2>3. \A u \in Threads : call[u] # NoCall => call[u].task \in Tasks
    BY DEF TypeOK, CallRecord
  <2>4. Finished(t)' => Known(ops', t)
    BY <1>3, <1>7 DEF Found, Finished
  <2>5. Found'
    BY <1>2, <1>3, <1>5, <1>7, <2>1, <2>2, <2>3, <2>4, FoundKept DEF Found
  <2> QED BY <1>3, <2>5 DEF Moved, Alike
<1> QED BY <1>4, <1>6, <1>7

(* Only a claim is rolled back, which returns its task.                    *)
LEMMA RollbackMoves ==
  ASSUME TInv, IInv, Orderly, Found, NEW th \in Threads, Rollback(th)
  PROVE  Found' /\ Moved
<1> USE DEF TInv
<1>1. call[th] \in CallRecord /\ call[th] # NoCall /\ call[th].stage = "rollback"
  BY DEF Rollback, TypeOK
<1>2. PICK t \in Tasks : t = call[th].task
  BY <1>1 DEF CallRecord
<1>3. CallInv(th)
  BY DEF Orderly, IInv
<1>4. call[th].op = "claim"
  <2>1. call[th].op # "queue"
    BY <1>1, <1>3 DEF CallInv, Orderly, Faulty
  <2> QED BY <1>1, <2>1 DEF Found, CallRecord
<1>5. tasks[t].status = "in_progress" /\ call[th].oldTask = QueuedTask
  BY <1>1, <1>2, <1>3, <1>4 DEF CallInv
<1>6. /\ tasks'[t].status = "queued"
      /\ \A u \in Tasks \ {t} : tasks'[u] = tasks[u]
      /\ UNCHANGED <<up, ops, savedOps>> /\ call'[th] = NoCall
      /\ \A u \in Threads : u # th => call'[u] = call[u]
  BY <1>2, <1>4, <1>5 DEF Rollback, TypeOK, QueuedTask
<1>7. Returns({t})
  BY <1>5, <1>6 DEF Returns, Recovered, Alike
<1>8. \A u \in Threads : call[u] # NoCall => call[u].task \in Tasks
  BY DEF TypeOK, CallRecord
<1>9. ~Finished(t)'
  BY <1>6 DEF Finished
<1>10. Found'
  BY <1>2, <1>6, <1>8, <1>9, FoundKept DEF Found
<1> QED BY <1>7, <1>10 DEF Moved

(* A kill loses nothing of tasks and operations; the restart returns every *)
(* task in progress.                                                       *)
LEMMA RestartMoves ==
  ASSUME TInv, IInv, FileInv, Orderly, Found, Crash \/ Recover
  PROVE  Found' /\ Moved
<1> USE DEF TInv
<1>1. CASE Crash
  <2>1. tasks' = tasks /\ ops' = ops /\ savedOps' = savedOps /\ ~up'
        /\ \A u \in Threads : call'[u] = NoCall
    BY <1>1 DEF Crash, FileInv, Orderly, Faulty, Found
  <2> QED BY <2>1 DEF Found, Finished, Moved, Alike
<1>2. ASSUME NEW t \in Tasks, ReleaseRecovered(t) PROVE Found' /\ Moved
  <2>1. /\ UNCHANGED <<up, tasks, call>> /\ savedOps' = ops' /\ ops' = Released(ops, t)
    BY <1>2 DEF ReleaseRecovered, Orderly, Faulty
  <2>2. \A u \in Tasks : Known(ops, u) => Known(ops', u)
    BY <2>1 DEF Released, Known, TypeOK, Operation
  <2> QED BY <2>1, <2>2, FoundSame
<1>3. CASE Boot
  <2>1. /\ \A t \in Recovered : tasks'[t] = QueuedTask
        /\ \A t \in Tasks \ Recovered : tasks'[t] = tasks[t]
        /\ UNCHANGED <<ops, call, savedOps>>
    BY <1>3 DEF Boot, Recovered
  <2>2. Returns(Recovered) /\ Recovered \in SUBSET Tasks
    BY <2>1 DEF Returns, Recovered, Alike, QueuedTask
  <2>3. \A t \in Tasks : tasks'[t].status # "in_progress"
    BY <2>1 DEF Recovered, QueuedTask
  <2>4. \A t \in Tasks : Finished(t)' => Finished(t)
    BY <2>1 DEF Recovered, QueuedTask, Finished
  <2>5. Found'
    BY <2>1, <2>3, <2>4 DEF Found
  <2> QED BY <2>2, <2>5 DEF Moved
<1> QED BY <1>1, <1>2, <1>3 DEF Recover

(* Every step.                                                             *)
LEMMA NextMoves ==
  ASSUME OneServer, TInv, IInv, FileInv, FoundInv, [Next]_vars
  PROVE  FoundInv' /\ (Orderly => Moved)
<1>1. Orderly' <=> Orderly
  BY EnvStays DEF Orderly, Faulty
<1>2. CASE Orderly
  <2>0. Found
    BY <1>2 DEF FoundInv
  <2>1. CASE UNCHANGED vars
    <3>1. UNCHANGED <<up, tasks, call, ops, savedOps>>
      BY <2>1 DEF vars
    <3>2. TypeOK /\ savedOps' = ops'
      BY <2>0, <3>1 DEF TInv, Found
    <3> QED BY <2>0, <3>1, <3>2, FoundSame DEF FoundInv
  <2>2. ASSUME NEW th \in Threads, Handle(th) PROVE Found' /\ Moved
    <3>1. ASSUME NEW a \in Agents,
                 RegisterAgent(th, a) \/ \E s \in Statuses : Heartbeat(th, a, s)
          PROVE  Found' /\ Moved
      BY <2>0, <3>1, FoundSame
      DEF RegisterAgent, Heartbeat, EndSection, Found, TInv
    <3>2. ASSUME NEW t \in Tasks, Compensate(th, t) PROVE Found' /\ Moved
      <4>1. UNCHANGED <<up, tasks, call>> /\ savedOps' = ops'
            /\ ops' = Compensated(ops, t)
        BY <1>2, <3>2 DEF Compensate, Orderly, Faulty
      <4>2. \A u \in Tasks : Known(ops, u) => Known(ops', u)
        BY <4>1 DEF Compensated, Known, TInv, TypeOK, Operation
      <4> QED BY <2>0, <4>1, <4>2, FoundSame DEF TInv
    <3> QED BY <1>2, <2>0, <2>2, <3>1, <3>2, QueueMoves, ClaimMoves,
            CompleteMoves, DeregisterMoves DEF Handle
  <2>3. ASSUME NEW th \in Threads, Execute(th) \/ Rollback(th)
        PROVE  Found' /\ Moved
    BY <1>2, <2>0, <2>3, ExecuteMoves, RollbackMoves
  <2>4. CASE Crash \/ Recover
    BY <1>2, <2>0, <2>4, RestartMoves DEF FoundInv
  <2> QED BY <2>1, <2>2, <2>3, <2>4 DEF Next, FoundInv
<1> QED BY <1>1, <1>2 DEF FoundInv

(* The queue keeps what TaskBoard promises: rollbacks of claims, retired   *)
(* agents and restarts return a task, nothing else takes it from its       *)
(* agent, and a kill between the two saves of a call loses nothing.        *)
THEOREM KeepsTaskBoard ==
  ASSUME OneServer
  PROVE  Spec => ImplementsTaskBoard
<1>1. Init => Board!Init
  <2> SUFFICES ASSUME Init PROVE Board!Init
    OBVIOUS
  <2>1. \A t \in Tasks : tasks[t].status = "absent"
    BY DEF Init, AbsentTask
  <2>2. PostedIn(Orderly, tasks) = {} /\ FinishedIn(Orderly, tasks) = {}
        /\ HeldIn(Orderly, tasks) = {}
    BY <2>1 DEF PostedIn, FinishedIn, HeldIn
  <2>3. HolderIn(Orderly, tasks) = << >>
    <3>1. DOMAIN HolderIn(Orderly, tasks) = {}
      BY <2>2 DEF HolderIn
    <3> QED BY <2>2, <3>1 DEF HolderIn
  <2> QED BY <2>2, <2>3, BoardVariables DEF Board!Init, BoardIs
<1>2. Init => TInv /\ IInv /\ FileInv /\ FoundInv
  <2> SUFFICES ASSUME Init PROVE FileInv /\ FoundInv
    BY InitTypes, InitInv
  <2>1. FileInv
    BY DEF Init, FileInv, Fresh
  <2>2. Found
    BY DEF Init, Found, Finished, AbsentTask
  <2> QED BY <2>1, <2>2 DEF FoundInv
<1>3. TInv /\ IInv /\ FileInv /\ FoundInv /\ [Next]_vars =>
        TInv' /\ IInv' /\ FileInv' /\ FoundInv'
  BY NextTypes, NextInv, NextResults, NextMoves
<1>4. TInv /\ IInv /\ FileInv /\ FoundInv /\ [Next]_vars =>
        [Board!Next]_Board!vars
  BY NextMoves, EnvStays, MovesOnBoard
<1> QED BY <1>1, <1>2, <1>3, <1>4, PTL DEF Spec, ImplementsTaskBoard, Board!Spec
=============================================================================
