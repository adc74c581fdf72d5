--------------------------- MODULE PlannerRuntime ---------------------------
(***************************************************************************)
(* planning/runtime.py: plans of steps that wait for one another, queued   *)
(* as tasks of the agent runtime.  The planner has one lock and one file,  *)
(* which it writes whole.  It learns what became of its tasks by copying   *)
(* the task list BEFORE it takes its lock, so two threads may apply their  *)
(* copies in the other order; between two locked sections of a call any    *)
(* other call may run, and the process can be killed between the save of   *)
(* the task queue and that of the planner's file.                          *)
(*                                                                         *)
(* A call is a list of instructions (todo) that its thread executes one by *)
(* one.  The task list is that of AgentRuntime seen from the planner: a    *)
(* task is active (queued or in progress: the planner treats them alike)   *)
(* until an agent reports it.  All plans are on one branch.                *)
(***************************************************************************)
EXTENDS Integers, FiniteSets, Sequences

CONSTANTS
  Server, Loop,  \* the two threads of the process
  Shape,         \* per name of a plan's signature: its kind, the steps each
                 \* step needs, its replay steps, the titles of its steps and
                 \* max_parallel_steps
  LoopShapes,    \* signatures of the plans the cognitive loop proposes
  ApiShapes,     \* signatures of the plans posted to the server
  Remediation,   \* the signature of remediation plans
  Threshold,     \* max_disrupted_replay_steps
  MaxPlans,      \* bound: plans made in a behaviour
  MaxTasks,      \* bound: tasks queued in a behaviour
  Calls,         \* calls the server gets, besides reports: some of "status",
                 \* "run", "advance"
  Envs           \* what may happen in a behaviour: sets of "failure" (a task
                 \* is reported failed), "crash", "fault" (queue_task, or the
                 \* save of the planner's file, raises), "compensation" (a
                 \* task is compensated by hand), "pressure" (the branch's
                 \* history restricts it)

Threads == {Server, Loop}
Nobody == "nobody"
NoTask == 0
NoPlan == 0
Names == DOMAIN Shape
StepsOf(n) == DOMAIN Shape[n].needs

ASSUME PlannerAssumption ==
  /\ Server # Loop /\ Nobody \notin Threads
  /\ \A n \in Names :
       /\ Shape[n].kind \in {"operational", "manual", "recovery",
                             "remediation"}
       /\ Shape[n].needs \in Seq(SUBSET Nat) /\ Shape[n].needs # << >>
       /\ \A s \in StepsOf(n) : Shape[n].needs[s] \subseteq StepsOf(n)
       /\ Shape[n].replay \subseteq StepsOf(n)
       /\ Shape[n].parallel \in 1 .. 5
  /\ Remediation \in Names
  /\ LoopShapes \cup ApiShapes \subseteq Names \ {Remediation}
  /\ \A n \in Names : Shape[n].kind = "remediation" <=> n = Remediation
  /\ Threshold \in 1 .. 6 /\ MaxPlans \in Nat /\ MaxTasks \in Nat
  /\ \A env \in Envs : Cardinality(env \cap {"crash", "fault", "compensation"}) <= 1

VARIABLES
  plans,   \* the plans, in the order they were made
  saved,   \* storage/planner_runtime.json
  tasks,   \* the tasks queued for steps, by task id
  lock,    \* the thread that holds the planner's lock
  todo,    \* per thread, what is left of its call
  seen,    \* per thread, its copy of the task list
  titles,  \* per thread, the titles of the active tasks it has read
  disturbed, \* whether the kill, the fault or the compensation by hand has
             \* happened (bound: one)
  env        \* what may happen in this behaviour

vars == <<plans, saved, tasks, lock, todo, seen, titles, disturbed, env>>
board == <<tasks, env>>

StepRecord ==
  [status : {"planned", "blocked", "active", "completed", "failed"},
   task : Nat, undone : BOOLEAN]
PlanRecord ==
  [shape : Names, parent : Nat, resolved : Nat, steps : Seq(StepRecord)]
WellShaped(file) ==
  /\ file \in Seq(PlanRecord)
  /\ \A p \in DOMAIN file : DOMAIN file[p].steps = StepsOf(file[p].shape)
TaskRecord == [plan : Nat, step : Nat, parent : Nat, undone : BOOLEAN,
               status : {"active", "done", "failed"}]
Instruction ==
  [do : {"read", "apply", "titles", "queue", "post", "save", "unlock",
         "compensate", "activate", "progress"},
   plan : Nat, steps : SUBSET Nat, parent : Nat]

PlanIds == DOMAIN plans
TaskIds == DOMAIN tasks
Kind(p) == Shape[plans[p].shape].kind
Needs(p) == Shape[plans[p].shape].needs
Title(p, s) == Shape[plans[p].shape].titles[s]
Steps(p) == DOMAIN plans[p].steps
StepStatus(p, s) == plans[p].steps[s].status
AllTitles == UNION {{Shape[n].titles[s] : s \in StepsOf(n)} : n \in Names}
Least(S) == CHOOSE x \in S : \A y \in S : x <= y
Newest(S) == CHOOSE x \in S : \A y \in S : y <= x

(* Mutant of PlanStatus: what is queued counts as done.                    *)
PlanStatusDispatched(p) ==
  IF \E s \in Steps(p) : StepStatus(p, s) = "failed" THEN "failed"
  ELSE IF \A s \in Steps(p) : StepStatus(p, s) \notin {"planned", "blocked"}
  THEN "completed" ELSE "open"

(* _sync_plan_status, which every section that changes a step ends with.   *)
(* (Planned, queued and in progress are one status: open.)                 *)
PlanStatus(p) ==
  IF \E s \in Steps(p) : StepStatus(p, s) = "failed" THEN "failed"
  ELSE IF \A s \in Steps(p) : StepStatus(p, s) = "completed" THEN "completed"
  ELSE "open"
Closed(p) == PlanStatus(p) # "open"

(* Type invariant.                                                         *)
TypeOK ==
  /\ WellShaped(plans) /\ WellShaped(saved)
  /\ tasks \in Seq(TaskRecord)
  /\ lock \in Threads \cup {Nobody}
  /\ todo \in [Threads -> Seq(Instruction)]
  /\ seen \in [Threads -> Seq(TaskRecord)]
  /\ titles \in [Threads -> SUBSET AllTitles]
  /\ disturbed \in BOOLEAN /\ env \in Envs

Init ==
  /\ plans = << >> /\ saved = << >> /\ tasks = << >>
  /\ lock = Nobody
  /\ todo = [th \in Threads |-> << >>]
  /\ seen = [th \in Threads |-> << >>]
  /\ titles = [th \in Threads |-> {}]
  /\ disturbed = FALSE /\ env \in Envs

---------------------------------------------------------------------------
(* The calls as lists of instructions.  A sync that directly follows       *)
(* another one (before, between or after the calls of a handler) is listed *)
(* once.                                                                   *)

Do(what, p) == [do |-> what, plan |-> p, steps |-> {}, parent |-> NoPlan]
Sync == <<Do("read", NoPlan), Do("apply", NoPlan)>>

(* execute_ready_steps: of one plan, or of all of them (NoPlan).  Called   *)
(* under the lock (it is reentrant), it still ends by giving it up.        *)
Execute(p) ==
  Sync \o <<Do("titles", NoPlan), Do("queue", p), Do("save", NoPlan),
            Do("unlock", NoPlan)>> \o Sync

(* advance_recovery_workflow *)
Advance(p) == Sync \o <<Do("compensate", p), Do("activate", p)>>

(* advance_from_task.  The task has its plan's parent as it was when it    *)
(* was queued.                                                             *)
AfterReport(task) ==
  LET p == task.plan IN
  CASE Kind(p) = "recovery" -> Advance(p)
    [] Kind(p) = "remediation" -> 
           Execute(p) \o <<[Do("progress", p) EXCEPT !.parent = task.parent]>>
    [] OTHER -> Execute(p)

Idle(th) == todo[th] = << >>
At(th, what) == ~Idle(th) /\ Head(todo[th]).do = what
Free(th) == lock \in {Nobody, th}
Continue(th) == todo' = [todo EXCEPT ![th] = Tail(todo[th])]
ContinueWith(th, list) ==
  todo' = [todo EXCEPT ![th] = list \o Tail(todo[th])]

(* _save_state writes the file or raises; then memory stays as it is and   *)
(* the rest of the call, whose locks are given up, is dropped.             *)
SaveAnd(th, list) ==
  \/ /\ saved' = plans' /\ todo' = [todo EXCEPT ![th] = list]
     /\ UNCHANGED disturbed
  \/ /\ "fault" \in env /\ ~disturbed /\ disturbed' = TRUE
     /\ todo' = [todo EXCEPT ![th] = << >>] /\ UNCHANGED saved
NoSave == UNCHANGED <<saved, disturbed>>

---------------------------------------------------------------------------
(* sync_with_runtime: the copy of the task list, and its application to    *)
(* every plan.                                                             *)

Read(th) ==
  /\ At(th, "read") /\ Continue(th)
  /\ seen' = [seen EXCEPT ![th] = tasks]
  /\ UNCHANGED <<plans, lock, titles, board>> /\ NoSave

(* A failed recovery step counts as completed once it is compensated.      *)
FromTask(kind, task) ==
  CASE task.status = "active" -> "active"
    [] task.status = "done" -> "completed"
    [] task.status = "failed" ->
         IF task.undone /\ kind = "recovery" THEN "completed" ELSE "failed"

(* Mutant of Reported: what is compensated counts as completed anywhere.   *)
ReportedAnyKind(copy, p, s) ==
  LET t == plans[p].steps[s].task IN
  IF t \in DOMAIN copy THEN FromTask("recovery", copy[t]) ELSE StepStatus(p, s)

(* The status of a step that has a task, as far as the copy tells.         *)
Reported(copy, p, s) ==
  LET t == plans[p].steps[s].task IN
  IF t \in DOMAIN copy THEN FromTask(Kind(p), copy[t]) ELSE StepStatus(p, s)

(* Mutant of Ready: one step it waits for is enough.                       *)
ReadySome(copy, p, s) ==
  Needs(p)[s] = {} \/ \E d \in Needs(p)[s] :
    (IF d < s THEN Reported(copy, p, d) ELSE StepStatus(p, d)) = "completed"

(* The steps of a plan are gone through in order.                          *)
Ready(copy, p, s) ==
  \A d \in Needs(p)[s] :
    (IF d < s THEN Reported(copy, p, d) ELSE StepStatus(p, d)) = "completed"

(* Mutant of SyncedStep: a task that the copy lacks is taken for lost.     *)
SyncedStepForgets(copy, p, s) ==
  LET step == plans[p].steps[s] IN
  IF step.task \notin DOMAIN copy
  THEN [step EXCEPT !.status = IF Ready(copy, p, s) THEN "planned"
                               ELSE "blocked", !.task = NoTask]
  ELSE [step EXCEPT !.status = Reported(copy, p, s)]

(* Mutant of SyncedStep: a blocked step is not planned again.              *)
SyncedStepOnce(copy, p, s) ==
  LET step == plans[p].steps[s] IN
  IF step.task = NoTask
  THEN [step EXCEPT !.status = IF @ = "planned" /\ Ready(copy, p, s)
                               THEN "planned" ELSE "blocked"]
  ELSE [step EXCEPT !.status = Reported(copy, p, s)]

SyncedStep(copy, p, s) ==
  LET step == plans[p].steps[s] IN
  IF step.task = NoTask
  THEN [step EXCEPT !.status = IF Ready(copy, p, s) THEN "planned"
                               ELSE "blocked"]
  ELSE [step EXCEPT !.status = Reported(copy, p, s),
                    !.undone = IF step.task \in DOMAIN copy
                               THEN copy[step.task].undone ELSE step.undone]

Synced(copy) ==
  [p \in PlanIds |-> [plans[p] EXCEPT
     !.steps = [s \in Steps(p) |-> SyncedStep(copy, p, s)]]]

(* The file is written only if some status changed.                        *)
Apply(th) ==
  /\ At(th, "apply") /\ Free(th)
  /\ plans' = Synced(seen[th])
  /\ seen' = [seen EXCEPT ![th] = << >>]
  /\ IF \E p \in PlanIds : \E s \in Steps(p) :
          plans'[p].steps[s].status # StepStatus(p, s)
     THEN SaveAnd(th, Tail(todo[th]))
     ELSE Continue(th) /\ NoSave
  /\ lock' = IF todo'[th] = << >> /\ lock = th THEN Nobody ELSE lock
  /\ UNCHANGED <<titles, board>>

---------------------------------------------------------------------------
(* Recovery plans, their disruptions and their remediation plans.          *)

Recoveries == {p \in PlanIds : Kind(p) = "recovery"}

(* Mutant of SelectedRecovery: the first one made.                         *)
SelectedOldest ==
  IF Recoveries # {} THEN Least(Recoveries) ELSE NoPlan

(* _select_recovery_plan: the newest that is not closed, or the newest.    *)
SelectedRecovery ==
  LET open == {p \in Recoveries : ~Closed(p)} IN
  IF open # {} THEN Newest(open)
  ELSE IF Recoveries # {} THEN Newest(Recoveries) ELSE NoPlan

Children(p) == {c \in PlanIds : Kind(c) = "remediation" /\ plans[c].parent = p}
OpenChildren(p) == {c \in Children(p) : ~Closed(c)}

Disrupted(p) ==
  {s \in Shape[plans[p].shape].replay :
     StepStatus(p, s) = "failed" \/ plans[p].steps[s].undone}

(* The budget is one lower under critical pressure, which a branch's       *)
(* history tells once a remediation has blocked it.                        *)
Budgets(p) ==
  {Threshold} \cup
    IF Children(p) # {} /\ Threshold > 1 THEN {Threshold - 1} ELSE {}
Required(p, budget) == Cardinality(Disrupted(p)) - plans[p].resolved >= budget

(* _latest_child_plan of the closed ones is the one updated last; every    *)
(* sync updates them all, the first made last.                             *)
LastChildFailed(p) ==
  Children(p) # {} /\ OpenChildren(p) = {}
    /\ PlanStatus(Least(Children(p))) = "failed"

(* Mutant of Blocking: a remediation that is going on does not block.      *)
BlockingOnlyFirst(p, budget) ==
  Required(p, budget) /\ (Children(p) = {} \/ LastChildFailed(p))

Blocking(p, budget) ==
  /\ Required(p, budget)
  /\ Children(p) = {} \/ OpenChildren(p) # {} \/ LastChildFailed(p)

---------------------------------------------------------------------------
(* The gate of the branch: _branch_health_summary, _planner_gate_summary.  *)

(* Blocked and restricted let the same plans pass.  What scores and trends *)
(* make of a completed recovery is left open.                              *)
Modes ==
  LET r == SelectedRecovery IN
  IF r = NoPlan
  THEN IF "pressure" \in env THEN {"open", "guarded", "restricted"}
       ELSE {"open"}
  ELSE IF PlanStatus(r) # "completed" \/ LastChildFailed(r)
  THEN {"restricted"}
  ELSE IF Disrupted(r) = {} /\ Children(r) = {}
  THEN {"open", "guarded", "restricted"}
  ELSE {"guarded", "restricted"}

Allowed(kind, mode) ==
  \/ kind \in {"recovery", "remediation"}
  \/ kind = "operational" /\ mode # "restricted"

---------------------------------------------------------------------------
(* execute_ready_steps.                                                    *)

(* Mutant of ReadTitles: the planner asks only for the tasks it knows.     *)
ReadTitlesKnown(th) ==
  /\ At(th, "titles") /\ Continue(th)
  /\ titles' = [titles EXCEPT ![th] =
       UNION {{Title(p, s) : s \in {r \in Steps(p) : StepStatus(p, r) = "active"}}
              : p \in PlanIds}]
  /\ UNCHANGED <<plans, lock, seen, board>> /\ NoSave

(* active_runtime_titles, read before the lock is taken.                   *)
ReadTitles(th) ==
  /\ At(th, "titles") /\ Continue(th)
  /\ titles' = [titles EXCEPT ![th] =
       {Title(tasks[t].plan, tasks[t].step) :
          t \in {u \in TaskIds : tasks[u].status = "active"}}]
  /\ UNCHANGED <<plans, lock, seen, board>> /\ NoSave

Unqueued(p, statuses) ==
  {s \in Steps(p) : plans[p].steps[s].task = NoTask
                      /\ StepStatus(p, s) \in statuses}

Slots(p, mode) ==
  LET free == Shape[plans[p].shape].parallel
                - Cardinality({s \in Steps(p) : StepStatus(p, s) = "active"})
  IN IF mode # "open" /\ free > 1 THEN 1 ELSE free

(* The first of the steps that may be queued; callers list a plan's        *)
(* manager step first, so the order is the plan's.                         *)
Chosen(p, mode) ==
  LET planned == Unqueued(p, {"planned"}) IN
  {s \in planned : Cardinality({r \in planned : r < s}) < Slots(p, mode)}

(* A plan that is closed, or a recovery that waits for its remediation, is *)
(* passed over; the steps of a plan the gate stops are marked blocked (the *)
(* next sync plans them again); otherwise the chosen steps are queued, one *)
(* after the other, under the lock.                                        *)
Queue(th) ==
  LET p == Head(todo[th]).plan IN
  /\ At(th, "queue") /\ Free(th) /\ lock' = th
  /\ \/ /\ p = NoPlan
        /\ ContinueWith(th, [i \in PlanIds |-> Do("queue", Len(plans) + 1 - i)])
        /\ UNCHANGED plans
     \/ /\ p # NoPlan
        /\ \/ Closed(p)
           \/ /\ Kind(p) = "recovery"
              /\ \E budget \in Budgets(p) : Blocking(p, budget)
        /\ Continue(th) /\ UNCHANGED plans
     \/ /\ p # NoPlan /\ ~Closed(p)
        /\ Kind(p) = "recovery" => \E budget \in Budgets(p) : ~Blocking(p, budget)
        /\ \E mode \in Modes :
             IF Allowed(Kind(p), mode)
             THEN /\ IF Chosen(p, mode) = {} THEN Continue(th)
                     ELSE ContinueWith(th, <<[Do("post", p) EXCEPT
                                              !.steps = Chosen(p, mode)]>>)
                  /\ UNCHANGED plans
             ELSE /\ Continue(th)
                  /\ plans' = [plans EXCEPT ![p].steps = [s \in Steps(p) |->
                       IF s \in Unqueued(p, {"planned", "blocked"})
                       THEN [plans[p].steps[s] EXCEPT !.status = "blocked"]
                       ELSE plans[p].steps[s]]]
  /\ UNCHANGED <<seen, titles, board>> /\ NoSave

NewTask(p, s) ==
  [plan |-> p, step |-> s, parent |-> plans[p].parent, undone |-> FALSE,
   status |-> "active"]

(* queue_task for the first of the chosen steps, unless a task with its    *)
(* title was active; if it raises, the agent runtime may have kept the     *)
(* task all the same (AgentRuntime, "board_fault").                        *)
Post(th) ==
  LET i == Head(todo[th])
      p == i.plan
      s == Least(i.steps)
  IN
  /\ At(th, "post") /\ lock = th
  /\ todo' = [todo EXCEPT ![th] =
       IF i.steps = {s} THEN Tail(todo[th])
       ELSE <<[i EXCEPT !.steps = @ \ {s}]>> \o Tail(todo[th])]
  /\ \/ /\ Title(p, s) \in titles[th]
        /\ UNCHANGED <<plans, tasks, titles, disturbed>>
     \/ /\ Title(p, s) \notin titles[th]
        /\ Len(tasks) < MaxTasks
        /\ tasks' = Append(tasks, NewTask(p, s))
        /\ plans' = [plans EXCEPT ![p].steps[s] =
                       [@ EXCEPT !.task = Len(tasks) + 1, !.status = "active"]]
        /\ titles' = [titles EXCEPT ![th] = @ \cup {Title(p, s)}]
        /\ UNCHANGED disturbed
     \/ /\ Title(p, s) \notin titles[th]
        /\ "fault" \in env /\ ~disturbed /\ disturbed' = TRUE
        /\ plans' = [plans EXCEPT ![p].steps[s].status = "blocked"]
        /\ \/ UNCHANGED tasks
           \/ Len(tasks) < MaxTasks /\ tasks' = Append(tasks, NewTask(p, s))
        /\ UNCHANGED titles
  /\ UNCHANGED <<saved, lock, seen, env>>

Save(th) ==
  /\ At(th, "save") /\ lock = th
  /\ UNCHANGED plans /\ SaveAnd(th, Tail(todo[th]))
  /\ lock' = IF todo'[th] = << >> THEN Nobody ELSE lock
  /\ titles' = [titles EXCEPT ![th] = {}]
  /\ UNCHANGED <<seen, board>>

Unlock(th) ==
  /\ At(th, "unlock") /\ Continue(th) /\ lock' = Nobody
  /\ UNCHANGED <<plans, seen, titles, board>> /\ NoSave

---------------------------------------------------------------------------
(* advance_recovery_workflow and advance_from_task.                        *)

(* EXECUTION_RUNTIME.compensate for the failed steps.                      *)
Compensate(th) ==
  LET p == Head(todo[th]).plan
      failed == {s \in Steps(p) : StepStatus(p, s) = "failed"}
      due == {t \in TaskIds : /\ tasks[t].status = "failed" /\ ~tasks[t].undone
                              /\ \E s \in failed : plans[p].steps[s].task = t}
  IN
  /\ At(th, "compensate") /\ Free(th)
  /\ tasks' = [t \in TaskIds |->
       IF t \in due THEN [tasks[t] EXCEPT !.undone = TRUE] ELSE tasks[t]]
  /\ UNCHANGED plans
  /\ IF due = {} THEN Continue(th) /\ NoSave
     ELSE SaveAnd(th, Sync \o Tail(todo[th]))
  /\ UNCHANGED <<lock, seen, titles, env>>

(* create_or_refresh_plan: an open plan with that signature is taken over, *)
(* otherwise a plan is made.                                               *)
NewPlan(name, parent) ==
  [shape |-> name, parent |-> parent, resolved |-> 0,
   steps |-> [s \in StepsOf(name) |->
     [status |-> IF Shape[name].needs[s] = {} THEN "planned" ELSE "blocked",
      task |-> NoTask, undone |-> FALSE]]]

OpenWith(name) == {p \in PlanIds : plans[p].shape = name /\ ~Closed(p)}
Target(name) ==
  IF OpenWith(name) # {} THEN Newest(OpenWith(name)) ELSE Len(plans) + 1
Create(name, parent) ==
  IF OpenWith(name) # {}
  THEN plans' = [plans EXCEPT ![Target(name)].parent = parent]
  ELSE Len(plans) < MaxPlans /\ plans' = Append(plans, NewPlan(name, parent))

(* _maybe_activate_recovery_remediation, and what advance_recovery_workflow *)
(* does next.  A remediation plan is run under the lock.                   *)
Activate(th) ==
  LET p == Head(todo[th]).plan IN
  /\ At(th, "activate") /\ Free(th)
  /\ \/ \E c \in OpenChildren(p) :
          /\ ContinueWith(th, Execute(c)) /\ lock' = th
          /\ UNCHANGED plans /\ NoSave
     \/ /\ OpenChildren(p) = {}
        /\ \E budget \in Budgets(p) : ~Required(p, budget)
        /\ ContinueWith(th, Execute(p))
        /\ UNCHANGED <<lock, plans>> /\ NoSave
     \/ /\ OpenChildren(p) = {}
        /\ \E budget \in Budgets(p) : Required(p, budget)
        /\ Create(Remediation, p)
        /\ SaveAnd(th, Execute(Target(Remediation)) \o Tail(todo[th]))
        /\ lock' = IF todo'[th] = << >> THEN Nobody ELSE th
  /\ UNCHANGED <<seen, titles, board>>

(* A remediation that has ended is noted in its recovery plan.             *)
Progress(th) ==
  LET r == Head(todo[th]).plan
      p == Head(todo[th]).parent
  IN
  /\ At(th, "progress") /\ Free(th)
  /\ CASE PlanStatus(r) = "completed" ->
            /\ plans' = [plans EXCEPT ![p].resolved = Cardinality(Disrupted(p))]
            /\ SaveAnd(th, Advance(p) \o Tail(todo[th]))
       [] PlanStatus(r) = "failed" ->
            UNCHANGED plans /\ SaveAnd(th, Tail(todo[th]))
       [] OTHER -> Continue(th) /\ UNCHANGED plans /\ NoSave
  /\ UNCHANGED <<lock, seen, titles, board>>

Step(th) ==
  \/ Read(th) \/ Apply(th) \/ ReadTitles(th) \/ Queue(th) \/ Post(th)
  \/ Save(th) \/ Unlock(th) \/ Compensate(th) \/ Activate(th) \/ Progress(th)

---------------------------------------------------------------------------
(* The calls.                                                              *)

(* POST /planner/run with steps, POST /planner/recovery, and the loop's    *)
(* act(): a plan is made or taken over, then run.                          *)
Submit(th, name) ==
  /\ Idle(th) /\ Free(th)
  /\ name \in IF th = Loop THEN LoopShapes ELSE ApiShapes
  /\ Create(name, NoPlan)
  /\ SaveAnd(th, IF th = Server /\ Shape[name].kind = "recovery"
                 THEN Advance(Target(name)) ELSE Execute(Target(name)))
  /\ UNCHANGED <<lock, seen, titles, board>>

(* GET /planner/status, POST /planner/run (of one plan or all) and         *)
(* /planner/recovery/advance.                                              *)
Request(what, list) ==
  /\ Idle(Server) /\ what \in Calls
  /\ todo' = [todo EXCEPT ![Server] = list]
  /\ UNCHANGED <<plans, lock, seen, titles, board>> /\ NoSave

(* A cycle of the loop in which it has nothing to propose: learn() syncs.  *)
Learn ==
  /\ Idle(Loop)
  /\ todo' = [todo EXCEPT ![Loop] = Sync]
  /\ UNCHANGED <<plans, lock, seen, titles, board>> /\ NoSave

(* POST /execution/compensate asks only that the task has a contract.      *)
CompensateByHand(t) ==
  /\ Idle(Server) /\ "compensation" \in env
  /\ ~disturbed /\ disturbed' = TRUE
  /\ tasks' = [tasks EXCEPT ![t].undone = TRUE]
  /\ UNCHANGED <<plans, saved, lock, todo, seen, titles, env>>

(* POST /agents/complete: the outcome of a task is stored, then its plan   *)
(* is taken further.  (Bound: a recovery or a remediation fails only while *)
(* there is room for another remediation plan.)                            *)
Report(t, success) ==
  LET p == tasks[t].plan IN
  /\ Idle(Server) /\ tasks[t].status = "active"
  /\ success \/ /\ "failure" \in env
                /\ Kind(p) = "operational" \/ Len(plans) < MaxPlans
  /\ tasks' = [tasks EXCEPT ![t].status = IF success THEN "done" ELSE "failed",
                            ![t].undone = FALSE]
  /\ todo' = [todo EXCEPT ![Server] = AfterReport(tasks[t])]
  /\ UNCHANGED <<plans, saved, lock, seen, titles, disturbed, env>>

(* A kill and the restart: the plans are those of the file.  The task      *)
(* queue, saved task by task, comes back with tasks in progress queued.    *)
Crash ==
  /\ "crash" \in env /\ ~disturbed
  /\ disturbed' = TRUE
  /\ plans' = saved /\ lock' = Nobody
  /\ todo' = [th \in Threads |-> << >>]
  /\ seen' = [th \in Threads |-> << >>]
  /\ titles' = [th \in Threads |-> {}]
  /\ UNCHANGED <<saved, tasks, env>>

Next ==
  \/ \E th \in Threads : Step(th) \/ \E name \in Names : Submit(th, name)
  \/ Learn
  \/ Request("status", Sync)
  \/ \E p \in PlanIds \cup {NoPlan} : Request("run", Execute(p))
  \/ \E p \in Recoveries : Request("advance", Advance(p))
  \/ \E t \in TaskIds :
       CompensateByHand(t) \/ \E success \in BOOLEAN : Report(t, success)
  \/ Crash

Spec == Init /\ [][Next]_vars

(* Calls go on and get the lock in the end (it is held only for a moment); *)
(* the loop keeps proposing its plans, and syncs in every cycle; agents    *)
(* report their tasks, and the server gets to it.                          *)
FairSpec ==
  /\ Spec
  /\ SF_vars(Step(Server)) /\ SF_vars(Step(Loop))
  /\ SF_vars(Learn) /\ SF_vars(\E name \in LoopShapes : Submit(Loop, name))
  /\ SF_vars(\E t \in TaskIds, success \in BOOLEAN : Report(t, success))

---------------------------------------------------------------------------
(* Properties.  They are about the task list, which the agents see.        *)

(* What a task list tells of a step: it was done or, in a recovery, failed *)
(* and was compensated.                                                    *)
Settles(t) ==
  \/ tasks[t].status = "done"
  \/ tasks[t].status = "failed" /\ tasks[t].undone
       /\ Kind(tasks[t].plan) = "recovery"
TasksOf(p, s) == {t \in TaskIds : tasks[t].plan = p /\ tasks[t].step = s}
Settled(p, s) == \E t \in TasksOf(p, s) : Settles(t)
Finished(p) == \A s \in Steps(p) : Settled(p, s)
Over(p) ==
  Finished(p) \/ \E s \in Steps(p) : \E t \in TasksOf(p, s) :
                    tasks[t].status = "failed" /\ ~Settles(t)
Queues(t) == t = Len(tasks) + 1 /\ t \in DOMAIN tasks'

(* Whatever copies are applied late, whatever is lost in a kill: a step is *)
(* given to agents only after everything it depends on was settled.        *)
Graph == INSTANCE PlanGraph WITH
  needs <- [x \in UNION {{p} \X Steps(p) : p \in PlanIds} |->
              {<<x[1], d>> : d \in Needs(x[1])[x[2]]}],
  started <- {<<tasks[t].plan, tasks[t].step>> : t \in TaskIds},
  settled <- {<<tasks[t].plan, tasks[t].step>> :
                t \in {u \in TaskIds : Settles(u)}}
ImplementsPlanGraph == Graph!Spec

(* The planner may be behind the task list, by a stale copy or a lost      *)
(* save, but is never ahead of it: what it takes for completed or failed   *)
(* is, and the tasks it knows are its own.                                 *)
NeverAhead ==
  \A p \in PlanIds : \A s \in Steps(p) :
    LET step == plans[p].steps[s] IN
    /\ step.task # NoTask => step.task \in TasksOf(p, s)
    /\ step.status = "completed" => Settled(p, s)
    /\ step.status = "failed" => \E t \in TasksOf(p, s) :
                                    tasks[t].status = "failed"
    /\ step.status \in {"planned", "blocked"} => step.task = NoTask

(* "do not queue again what is active": a step is queued once; after a     *)
(* kill it may be queued again, but not while its first task is active.    *)
OneLiveTask ==
  "fault" \notin env =>
  \A t, u \in TaskIds :
    /\ tasks[t].plan = tasks[u].plan /\ tasks[t].step = tasks[u].step
    /\ t < u
    => "crash" \in env /\ tasks[t].status # "active"

(* max_parallel_steps bounds the tasks that are active at a time, also     *)
(* when calls overlap and late copies are applied.  (A planner that is     *)
(* killed forgets active tasks and queues others beside them.)             *)
LimitHolds ==
  env \cap {"crash", "fault"} = {} => \A p \in PlanIds :
    Cardinality({t \in TaskIds :
                   tasks[t].plan = p /\ tasks[t].status = "active"})
      <= Shape[plans[p].shape].parallel

(* The replay steps of a recovery, other than s, whose last task failed.   *)
Disruptions(p, s) ==
  {r \in Shape[plans[p].shape].replay \ {s} :
     TasksOf(p, r) # {} /\ tasks[Newest(TasksOf(p, r))].status = "failed"}
Repairs == {c \in PlanIds : Kind(c) = "remediation" /\ Finished(c)}

(* The recoveries the planner makes (unless a client allows more steps at  *)
(* a time): steps that follow one another, one with agents at a time.      *)
RecoveriesInTurn ==
  \A n \in Names : Shape[n].kind = "recovery" =>
    /\ Shape[n].parallel = 1
    /\ \A s \in StepsOf(n) \ {1} : s - 1 \in Shape[n].needs[s]

(* "after the budget is spent the planner pauses the recovery": no step of *)
(* it is queued before a remediation has been finished, whoever calls, if  *)
(* its steps follow one another.  (With two at a time, a late copy that    *)
(* sets a failed step back to active hides its disruption and leaves room  *)
(* for another step.)                                                      *)
RecoveryPauses ==
  [][\A t \in 1 .. MaxTasks :
       LET task == tasks'[t] IN
       Queues(t) /\ Kind(task.plan) = "recovery"
         /\ Cardinality(Disruptions(task.plan, task.step)) >= Threshold
       => Repairs # {}]_vars

(* A recovery never has two remediations that are both still to be done.   *)
OneRemediation ==
  \A p \in Recoveries : \A c, d \in Children(p) : c # d => Over(c) \/ Over(d)

(* "restricted stops other work on the branch": no operational step is     *)
(* queued while the branch's latest recovery is still to be done.          *)
OperationalWaits ==
  [][\A t \in 1 .. MaxTasks :
       Queues(t) /\ Kind(tasks'[t].plan) = "operational"
         => Recoveries = {} \/ Over(Newest(Recoveries))]_vars

(* Every plan of the loop is worked off, kills or not.                     *)
PlansEnd ==
  \A p \in 1 .. MaxPlans :
    (p \in PlanIds /\ plans[p].shape \in LoopShapes /\ "fault" \notin env) ~>
       (p \in PlanIds /\ Closed(p))

(* "replay -> validate -> complete runs without anyone's hand": a recovery *)
(* whose tasks are reported is worked off by the reports alone.            *)
ChainRunsByItself ==
  \A p \in 1 .. MaxPlans :
    (p \in PlanIds /\ Kind(p) = "recovery") ~> (p \in PlanIds /\ Closed(p))
=============================================================================
