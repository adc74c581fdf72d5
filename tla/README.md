# Verification of the AI OS runtime

The repository is a local "AI operating system" in Python: one process that registers agents, hands them tasks, plans
multi-step work, keeps a log of every operation, recovers after failures, and writes what it learns into a memory
document. These TLA+ modules model the parts that keep state and decide what happens to it. TLC checks them on small
instances; TLAPS proves the theorems named below for every value of the constants.

All paths are relative to the repository's root. `PROJECT.json` gives, per definition, the source lines it stands for.

## 1. The system

### Threads and files

The process has two threads. The HTTP server (`scripts/api_server.py`, a single-threaded `QuietHTTPServer`) handles one
request at a time. The cognitive loop (`ai_os/cognitive_loop.py`) is a daemon thread that exists only after
`POST /cognitive/start`; `stop` waits for it one second at most. Command-line tools (`scripts/*.py`) are further
processes that load and save the memory document.

Each runtime has a reentrant lock and one JSON document, written whole. Locks are taken in the order planner, agents,
execution, ledger; calls that cross runtimes usually give their own lock up first, and this is where the other thread
gets in.

| Component | Source | State | Operations that change it |
|---|---|---|---|
| Atomic store | `ai_os/atomic_store.py` | primary file and backups | save (stage, rotate, rename), load (candidates, fallback, forensics) |
| Agent runtime | `ai_os/agent_runtime.py` | agents, task queue | register, heartbeat, deregister, queue, claim, complete, restart recovery |
| Execution runtime | `execution/runtime.py`, `contracts.py` | one operation (contract) per task | register, claim, release, complete, compensate |
| Operation ledger | `execution/ledger.py` | entries, branches, logical clock | record_event |
| Snapshot lineage | `execution/snapshots.py` | snapshot records | register_snapshot; reads: replay_plan |
| Planner | `planning/runtime.py` | plans of dependent steps | create or refresh, sync, execute ready steps, advance recovery, advance from task |
| Cognitive loop | `ai_os/cognitive_loop.py` | thread, stop event, flag, cycle lock | start, stop, run_cycle |
| Memory document | `core/memory_engine.py`, `core/graph_engine.py`, `scripts/runtime_store.py` | blocks, graph | add, delete, save_graph |
| Role policy | `ai_os/role_policy.py` | none | scores agents and tasks, plans a round of assignments |
| Branch health | `planning/runtime.py` 421-1562 | history of observations per branch | recorded by every sync; yields trend, drift, gate, dispatch cap |
| Concepts | `ai_os/concept_core.py`, `semantic_mesh.py`, `semantic_relation_*.py` | in the memory document | add with or without the relation contract; reads: mesh, classifier, inventories |

How they call one another: the server and the loop call planner and agent runtime; the planner queues tasks with the
agent runtime and copies its task list; the agent runtime tells the execution runtime of every change of a task; the
execution runtime records every change in the ledger before it saves its own file; the snapshot registry reads the
ledger; the loop writes outcomes of finished plans into the memory document, which the server edits too.

### What is hard, and what makes each part correct

* **Store.** A save is up to `Backups + 2` renames, and can be killed or fail between any two; writers of the memory
  document have no common lock. Correct: what a load returns is always the last completed save.
* **Agents.** `claim_task`, `complete_task`, `queue_task` and `deregister_agent` change memory and file, give the lock
  up, call the execution runtime, and on an exception put back copies made at the start. Correct: task and agent agree
  about every assignment, caps hold, no queued task is lost, a restart queues what was in progress again.
* **History.** Two documents are saved one after the other and either save may raise. Correct: the ledger is in the
  order of what happened, is never behind the execution file, and a replay misses nothing since the snapshot.
* **Planner.** `sync_with_runtime` copies the task list *before* it takes the lock, so older copies are applied over
  newer ones; `active_runtime_titles` is read before the lock as well; a kill forgets tasks that agents go on with.
  Correct: steps start after what they depend on, once at a time, within the plan's limit; a recovery pauses when its
  failure budget is spent; other work of the branch waits for it; plans end.
* **Branch health.** The gate is computed from a history that the gate's own observations are part of, and every sync,
  also one that only reads, appends to it. Correct: a branch under repair holds other work back, is let go after it has
  been stabilized, its repair goes on by itself, and reading the status changes nothing that is decided.
* **Role policy.** A round of assignments is planned on a copy of the queue and claimed one by one, each claim changing
  scores and caps the next one meets, while clients queue tasks and agents report their status. Correct: what was
  planned is claimed, nothing is left that an agent planned for could do, and tasks that may never be dispatched do not
  fill the window for ever.
* **Concepts.** Blocks are renumbered by every deletion, other software may have written any of them, and four builders
  pass counts on to one another, each with minimum counts of its own that refuse what they do not believe. Correct: the
  mesh points at what is in the document, and no builder refuses what the one before it made.
* **Loop and memory.** start and stop race with a runner that is still in its cycle; load-change-save of the document
  without a lock undoes others' saves. Correct: one runner, which ends when told; each outcome in the document once,
  and learned again when a stale save removes it.

`PROJECT.json` lists these hazards one by one, at the line where each bites.

## 2. The modules

| Module | Models | Used by |
|---|---|---|
| `DurableDocument` | abstract: one document, replaced atomically | `AtomicStore` refines it |
| `AtomicStore` | slots, rename by rename, and loads, read by read | |
| `ExecutionRuntime` | what each method makes of an operation's status (pure operators) | `AgentRuntime`, `OperationLedger` |
| `TaskBoard` | abstract: tasks waiting, held by one agent, finished | `AgentRuntime` refines it |
| `AgentRuntime` | agents, tasks, operations, two files, pending calls | |
| `PlanGraph` | abstract: steps start after what they need | `PlannerRuntime` refines it |
| `PlannerRuntime` | plans, task list, lock, calls as instruction lists | |
| `OperationLedger` | `record_event` as a function of the ledger (pure operators) | `ExecutionHistory` |
| `ExecutionHistory` | operations, ledger and snapshots with their three files | |
| `CognitiveLoop` | threads, cycle lock, memory document | |
| `BranchHealth` | observations of a branch, trend, drift, gate, stabilization plans, the loop's cycle | discharges what `PlannerRuntime` assumes of the gate |
| `RolePolicy` | scores, priorities, caps, the plan of a dispatch and its claims | says which of `AgentRuntime`'s eligible pairs is taken |
| `RelationContract` | what the writer accepts, how a stored list is classified (pure operators) | `RelationInventory` |
| `RelationInventory` | reports, batches, comparisons and their sums | `ConceptMemory` |
| `ConceptMemory` | blocks of the memory document, the mesh over them | |
| `AtomicStoreProofs`, `AgentRuntimeProofs`, `ExecutionHistoryProofs`, `CognitiveLoopProofs`, `ConceptMemoryProofs`, `PlannerRuntimeProofs`, `BranchHealthProofs`, `RolePolicyProofs` | the theorems on the module of that name (`ConceptMemoryProofs` also on the relation modules it is built from) | |
| `MC*` | instances for TLC | the `.cfg` files |

Operators named "Mutant of X" are plausible mistakes in X. Nothing uses them; putting one in X's place breaks the
property it is listed with in `PROJECT.json`, which shows that the property depends on that part of the code.

### From the code to the models

**AtomicStore.** A document is its number in the order of completed saves. `Stage` is `atomic_write_text` up to the
fsync; each unlink or rename of `_rotate_backups` is a `Rotate`; `Replace` is `os.replace`; `FailSave` is an exception at
any rename, after which the renames already done stay. `Exists` and `Read` are separate as in `_load_one`. Damage comes
in two kinds: `Corrupt` is passed over for the next candidate, `Garbled` (bytes that are no UTF-8) raises there and then,
as `_load_one` catches only `OSError` and `JSONDecodeError` (`ai_os/atomic_store.py:251`). `GiveUp` has
`preserve_corrupt` and `on_unrecoverable`. `policy`, one of `Policies`, distinguishes the runtimes (`exclusive`: a lock
around saves, loads at start) from the memory document.

**AgentRuntime.** Each locked section is one action; a call that goes on to the execution runtime leaves a record in
`call` with the copies its rollback needs, then `Execute`, then perhaps `Rollback`. A save either writes the whole file
or raises and leaves memory changed. `Crash` loads both files; `ReleaseRecovered` and `Boot` are
`_recover_after_restart`, itself interruptible. Scores only order eligible pairs, so any eligible pair may be claimed.

**PlannerRuntime.** A call is a list of instructions (`read`, `apply`, `titles`, `queue`, `post`, ...) of which each is
one locked section or one unlocked read; calls within calls expand the list. `Synced`, `PlanStatus`, `Blocking`,
`Modes` and `Allowed` are the code's decisions. Queued and in progress are both "active", as the planner treats them.
The gate's mode is left open where it depends on health scores, trends and drift; `BranchHealth` computes it, and its
`GateAsAssumed` is the assumption made here. Plans are on one branch, have one
signature per shape, and a remediation's three steps are one.

**OperationLedger, ExecutionHistory.** `Recorded` is `record_event` up to its save: parent branch, branch registry,
sequence numbers, parent entry, causal depth, trimming. `Change` is an execution method up to the ledger's save,
`SaveOps` the rest. `ReadSource` and `Register` are the two parts of `register_snapshot`, which reads the ledger before
it locks. `Parents` is any id the client names, which nobody looks up, or the one that the registry chooses; a
snapshot's `named` tells the two apart and is no field of the code's record. An entry's id is a time stamp never used twice; its logical time is the index in the file.

**CognitiveLoop.** `Start`, `Stop`, `Joined`, `Begin`, `Check`, `Wake`, `End` are the life of the thread; `Snapshot`,
`ReadKnown`, `Learn`, `SaveLearned`, `Finish` the part of a cycle that writes memory; `Edit`, `LoadForGraph`,
`SaveEdit` the server's requests. Each load and each save of the document is a step.

**BranchHealth.** A call of the planner is one step; a branch is its plans and its history. `Sync` records an
observation of every recovery and stabilization plan, newest first, unless it equals the last record; `Direction`,
`Pressure`, `Gate` and `DispatchCap` are the four summaries built on the history. Scores keep their numbers and Python's
rounding, and each call has as many syncs as in the code, where every snapshot in its answer is one. `StartRecovery`,
`Advance`, `Stabilize` and `Status` are the planner's routes, `Report` is `/agents/complete` with `advance_from_task`,
and `Cycle` is a cycle of the loop: `Strained` and `Uncovered` are why `reason` notices the branch, and `ActedOn` is the
stabilization and the recovery that `plan` then asks for. How calls interleave, and a plan's tasks in progress at a
restart, are left to `PlannerRuntime`; so is a compensation by hand.

**RolePolicy.** `Suit` is the part of `score_agent_for_task` that does not change, `Experience` what depends on the
agent's counters (which stop at `MaxCount`; the code's own limits are ten and above, so `MaxCount` bounds the claims that
tell apart). `Dispatch` is `dispatch_preview`, `ClaimAssigned` one `claim_task` of the round; tasks are queued and
heartbeats come between. `available` are the agents whose `status` is `idle`: `Heartbeat` sets it to anything, a claim
takes the agent out, the end of its task puts it back. A plan is for agents that are `Idle`, without a task and
available (`ai_os/role_policy.py:430`); a claim, also that of `ClaimNext`, which is `claim_next_task`, asks only that
the agent is `Free`. The capabilities that keywords of a task's texts hint at, and those it asks for, are its `topics`.
What a failing save does to a claim is in `AgentRuntime`.

**RelationContract, RelationInventory, ConceptMemory.** Ids, types and references are model values with one invalid
value each; an id may be padded with blanks, because the writer compares ids it has not trimmed. `Validation` gives the
first fault in the order of the code; `Classify` is the report on a stored list; `ReportFits` and `InventoryFits` are
the checks the builders make of what they are given; `Compare` subtracts batches and adds comparisons up. `AddAuthored`,
`AddConcept`, `AddText`, `Import` and `Delete` write the document, `Nodes` and `ExplicitRelations` read it as the mesh
does.

## 3. What TLC checks

Counts are distinct states. Passing runs explore everything within their bounds.

| Run | States | What it shows |
|---|---|---|
| `store_crash` | 830,464 | Two writers and a reader, under the lock of a runtime or without one as for the memory document, with kills, failing renames and damaged files anywhere: the files hold the last completed save, generations stay in order, a damaged file costs one generation (or the load, if garbled), loads neither go back in time nor, unless overtaken by as many saves as there are slots, miss the document, `DurableDocument` is implemented. |
| `agents_deployed` | 340,405 | Server and loop, two agents, caps, retirements, kills also during restart; or the server alone with failing saves of either file or results reported twice: assignments and contracts agree, caps hold, rollbacks restore task and agent, results are final, `TaskBoard` is implemented, restarts requeue. |
| `planner_work` | 139,233 | Server and loop work off a fan-in plan, or a client's plan of two tasks one at a time, with a kill, a fault, failures or a compensation by hand: nothing starts early or twice at a time, the limit holds, `PlanGraph` is implemented, the plan ends. |
| `planner_recovery` | 1,571,627 | Recoveries fail, are compensated, pause for a remediation and go on while the loop and manual calls work on the branch: the pause is kept, one remediation at a time, other work waits. |
| `branch_health` | 31,312 | Failures with their compensations and remediations, failing remediations and stabilizations, a second recovery, stabilizations by clients or by a running loop, the status read at any time: the gate is what `PlannerRuntime` assumes, a branch held back is serial, work is admitted again after two stabilizations (three if one failed), the only recovery of a branch is always with the agents, reads decide nothing. |
| `dispatch_rounds` | 18,200 | Four tasks (one nobody may do, one urgent but late, one for a manager, one branch with two caps), three agents, the manager reporting any status at any time, rounds over all tasks or one plan's: the plan of a round over all is claimed in full, leaves nothing that an agent it planned for could claim, keeps priority, and every task gets its turn if the agents it needs report as idle in the end. |
| `concept_memory` | 189,124 | Blocks written with and without contract, imported and deleted; their relations counted and compared: the mesh points back to the document, no builder refuses. |
| `history_replay` | 4,169,731 | Two branches, two operations, saves of three files that raise, kills, clients that name any parent: ledger order, nothing unrecorded, complete replays, snapshots form a tree as far as the registry chose their parents. |
| `loop_memory` | 173,688 | Start, stop, manual cycles, edits, exceptions and kills: one runner, outcomes once, stopped runners end, lost outcomes return. |

Three runs end with a violation; each shows the code disagreeing with a sentence or a test of the repository.

| Run | What happens |
|---|---|
| `agents_dangling` | The engineering specification (`docs/developer/AI_OS_META_PRINCIPLES_ENGINEERING_SPEC.md:458`) says rollbacks leave no dangling references. `queue_task`'s rollback removes a task that an agent has claimed meanwhile. |
| `branch_guarded` | The smoke test of the recovery workflow (`development/scripts/smoke_recovery_workflow.py:373`) expects the gate of a compensated recovery to be guarded. Its own records, made while the gate was restricted, keep it restricted. |
| `planner_stalls` | `README.md:88` says the recovery chain runs without anyone's hand. The loop's older copy of the task list, applied between a report's sync and its queueing, hides the finished step; nothing is queued, and no report ever comes again. |

### Bounds, and why they are enough

* `store_crash`: three backups as in the code, five saves, two damaged files. `MaxAttempts = 3` unfinished saves in a
  row is `Backups`, the most for which the property can hold: each ages all generations by one slot, and one more
  discards the last good document. Five saves fill all four slots and age a document out of them, and can overtake a
  reader. Both load policies are tried (`Policies`).
* `agents_*`: two agents suffice for a rollback that meets another task's claim, three tasks for a cap of two and a task
  that only one agent may take. A behaviour is of one kind (`Envs`: which faults it may have, who calls, how many
  tasks), since all kinds at once are too many states. Kills are unbounded.
* `planner_work`: a plan of two parallel steps and one that needs both, which loop and clients ask for, or a client's
  plan of two steps with a limit of one. `MaxPlans = 1`: either plan is made, and asked for again and again.
  `MaxTasks = 6` is twice the steps and never binds: at most one kill, fault or manual compensation happens in a
  behaviour. That other shapes and numbers of plans add nothing is what the proofs say.
* `planner_recovery`: one recovery and room for a second plan of each kind (`MaxPlans = 3`, `MaxTasks = 5`), budget 1.
  Reports of a failure need room for a remediation; this is a bound, not a behaviour of the code.
* `branch_health`: two recoveries of two replayed operations, two remediations, three stabilizations and one that
  failed (`MaxProposals = 1` while the loop makes them, each with a recovery). A step fails only while there is room for
  the remediation it may need. The code keeps 24 records of a branch and nothing reads more than the last six, so six are
  kept. A behaviour has one of four mixtures of trouble (`Envs`).
* `dispatch_rounds`: limits 1 and 3, so that one task that may not be dispatched fills the smaller window and not the
  larger; four tasks give every kind and both sides of each cap. Heartbeats come from the manager (`Reporters`), the
  only one who suits the manager's task, so that its status decides who gets something; with a worker as well the run
  takes too long. The proofs are for any reporters.
* `concept_memory`: two blocks for the mesh, or one block whose relations are counted twice and compared; lists of at
  most three relations where two are allowed; one list of each kind of fault.
* `history_replay`: three entries kept, four entries or snapshots made, two of them within the replay limit, so that
  trimming and the limit both bind. An id that the client names is any of those stamps, in use or not.
* `loop_memory`: two runners (one may be ending when the next is made), two outcomes, three edits, two exceptions.
  `LearnedAgain` needs edits and faults to end: a client could delete the block for ever.

`CHECK_DEADLOCK FALSE` is set where a bound or quiescence stops the system (no request has to come, all tasks used up).
`loop_memory` has no such state and checks deadlock.

### Fairness

Liveness is checked under assumptions that the code's scheduling justifies.

* `AgentRuntime`: a call once begun goes on, and a killed process is started again (weak fairness). No requests are
  assumed.
* `PlannerRuntime`: each thread's next step, the loop's sync (once per cycle), the loop's proposals and the agents'
  reports are strongly fair: the planner's lock is held only while one call queues its steps, so that a thread that
  wants it finds it free again and again, and an `RLock` waiter gets it. Manual calls (`run`, `advance`, `status`) are not fair.
* `RolePolicy`: a dispatch once begun is carried out; clients keep dispatching the whole queue and end the tasks they
  hold. Without the last two nothing has to happen, since the runtime waits for requests. The property itself assumes
  that the agents in `Steady` report as idle from some time on when they have no task; the loop does so for its agents
  in every cycle (`ai_os/cognitive_loop.py:1325`), for others it is up to them.
* `CognitiveLoop`: runners go on (their wait has a timeout), and so does a request once begun (weak fairness).

Where fairness is written out instead of `WF_`, it says the same with the condition that enables the action.

## 4. What is proved

| Module | Theorem | Property | Assumes |
|---|---|---|---|
| `AtomicStoreProofs` | `TypeCorrect`, `OrderSurvives`, `DamageIsBounded` | `TypeOK`, `GenerationsOrdered`, `DamageCostsOneGeneration` | constants |
| | `LoadsAreNew`, `LoadsFind` | `LoadsAreNotStale`, `LoadsFindTheDocument` | `PreservesAlone` |
| | `CommittedSurvives`, `Refinement` | `CommittedIsRecovered`, `ImplementsDurableDocument` | `PreservesAlone`, `FewAttempts` |
| | `NeverSilent` | `NoSilentDefault` | a load that raises moves nothing aside |
| `AgentRuntimeProofs` | `TypeCorrect`, `ResultsStay` | `TypeOK`, `ResultsAreFinal` | constants |
| | `CapsHold`, `RuntimesAgree` | `LimitsRespected`, `ContractsAgree` | `SingleServer` |
| | `NothingDangles`, `KeepsTaskBoard` | `NoDanglingTask`, `ImplementsTaskBoard` | `OneServer` |
| | `AssignmentsAgree` | `HoldersAgree` | `OneServer`, no result reported twice |
| `ExecutionHistoryProofs` | `TypeCorrect`, `LedgerKeepsOrder`, `HistoryIsRecorded`, `ReplayMissesNothing`, `LineageIsATree` | `TypeOK`, `LedgerInOrder`, `NothingUnrecorded`, `ReplayComplete`, `SnapshotsFormATree` | constants |
| `CognitiveLoopProofs` | `TypeCorrect`, `OneRunner`, `LearnedOnce` | `TypeOK`, `LoopIsTold`, `DocumentInOrder` | constants |
| `ConceptMemoryProofs` | `BuildersAgree`, `StoredIsAccepted` (of any lists; of what the document holds) | `Accepted` | constants |
| | `TypeCorrect`, `MeshIsFaithful` | `TypeOK`, `MeshPointsBack` | constants |
| | `ReportsFit`, `AuthoredIsCompatible` | (the classifier by itself) | constants |
| `PlannerRuntimeProofs` | `TypeCorrect`, `PlannerNeverAhead`, `PlannerKeepsOrder` | `TypeOK`, `NeverAhead`, `ImplementsPlanGraph` | constants |
| | `OneTaskAtATime`, `ParallelismIsBounded`, `RemediesOneByOne`, `OperationalWork` | `OneLiveTask`, `LimitHolds`, `OneRemediation`, `OperationalWaits` | constants |
| | `RecoveryIsPaused` | `RecoveryPauses` | `RecoveriesInTurn` |
| `RolePolicyProofs` | `TypeCorrect`, `PlansAreClaimed`, `NothingIsWasted`, `PrioritiesAreKept` | `TypeOK`, `PlanIsClaimed`, `NothingLeftWaiting`, `PriorityIsKept` | constants |
| `BranchHealthProofs` | `TypeCorrect`, `GateHolds`, `NothingIsStranded` | `TypeOK`, `GateAsAssumed`, `NothingStranded` | constants |
| | `PausedIsSerial` | `PausedBranchIsSerial` | a horizon of six records, a history of five |

"Constants" means the named `ASSUME`s of the module, which TLC evaluates in every run; they say what values the
constants have (a plan's steps need steps of the same plan, the remediation is one of the shapes), and no more. The
others are about how the code is used:

* `PreservesAlone`: only a load that excludes saves moves a wreck aside. So it is: the runtimes load at start, and
  `scripts/runtime_store.py` loads with `preserve_corrupt=False`. `FewAttempts`: no more saves in a row stay unfinished
  than there are backups. With one more the property is false, in the model and in the code.
* `NeverSilent` assumes that whoever raises does not preserve, which is true of both policies in use. It needs it: with
  both, one load would move the wreck aside and the next find nothing and answer with the default.
* `SingleServer`: one thread claims, completes and deregisters, as in the deployed process. `OneServer`: in addition the
  execution runtime's saves fail only when nobody else calls; `agents_dangling` is what happens otherwise.
* `RecoveriesInTurn`: the steps of a recovery follow one another, and one at a time is with agents. The planner makes
  them so: coordination, review of the anchor, each replay after the one before, validation (`planning/runtime.py:2926`,
  `:2964`, `:2996`, `:3022`), with `max_parallel_steps` 1 (`:2285`, and what the loop asks for,
  `ai_os/cognitive_loop.py:1364`) unless a client posts a recovery with more (`scripts/api_server.py:634`) or steps of
  its own (`:596`).
  With two the property is false in the model: a late copy of the task list sets a disrupted step back to active, which
  hides its disruption and leaves room for another step. The code then lowers the budget under critical pressure, which
  the model leaves open, so this is a limit of what is shown rather than a finding. TLC evaluates the assumption for the
  shapes of the runs.
* Properties that speak of behaviours without a kill or without a fault say so themselves: `OneLiveTask` and
  `LimitHolds` do, `ContractsAgree` ends with the first kill, and `ImplementsTaskBoard` is about behaviours in which no
  result is reported twice (a second report takes the agent's next task from it).

### The arguments

* **Store.** No single slot holds the last document throughout a save, so the invariant numbers files by the save that
  wrote them: there is an assignment of saves to slots, in order of age, in which each unfinished save accounts for at
  most one slot of age (`Pending` saves pay for it), and the rotation under way has not touched what is at or below its
  position. The last completed save therefore never falls off the end before `Backups + 1` unfinished ones. `Reaches`
  says the same of a load that walks the slots while they rotate under it: everything it passed was older than what was
  current at its start, or has moved on to where it still has to look. `Layout` and `Lost` count damaged files against
  the generations that are missing, when saves exclude each other.
* **Agents, who has what.** `HoldersAgree` alone is not inductive because a rollback overwrites task and agent with old
  copies. `CallInv` says that what a call's first section wrote is still there when its rollback comes, and that the
  copies fit together; `BoardInv` is kept for memory and for the file, so a restart starts from an agreeing board.
* **Agents, how many.** A cap is judged when a task is claimed and recorded with it, and caps of a branch differ from
  claim to claim. "At most k tasks in progress have a cap of at most k" holds for every k, carries over to every subset
  (whatever ends or is lost), and counts tasks that a rollback may yet return as taken.
* **Agents, two files.** Each task has a story: what agent and execution runtime say of it, and which call is between
  the two. `Stories` holds of every task by itself, which lets queueing threads and the server interleave. A result is
  final because the file equals the memory whenever no save has failed, and calls touch only the tasks they have in
  flight. The steps of `TaskBoard` follow from two more facts: the operations on file are those in memory, so that a
  restart finds every finished task again, and only claims are ever rolled back.
* **History.** `LedgerInv`, kept for memory and file, relates entries to the branch registry: the newest entry of a
  branch carries the branch's count, all of them are older than the next index and the next stamp. `Told` must hold of
  the ledger in memory for both the current and the saved operations, since the file follows later. `ReplayMissesNothing`
  needs in addition that entries made after a snapshot's source have a later logical time, which holds unless failed
  saves and kills come together.
* **Loop.** `LearnedOnce` rests on `CopiesInv`: the server's pending copy has no outcome that the document lacks, and
  the copy a cycle is about to save none that it still has to write. So a save of the server can only take outcomes
  away, and the one cycle under the lock cannot be overtaken by another that adds the same.
* **Relations.** `BuildersAgree` is about lists of any length and any number of them. A report has one of seven statuses,
  each with facts about its counts (`KindsOfRelations` relates the three sets a list is divided into to the list).
  `Good` says of a sum what `InventoryFits` asks, together with what keeps it true when one more report
  (`CountedIsGood`) or another sum (`SumIsGood`) is added: a count is positive only if a status that explains it has
  been seen. `AuthoredIsCompatible` connects the writer to the classifier: what the first accepts the second calls
  compatible, although they are separate pieces of code.
* **Concepts.** `MeshIsFaithful` needs that blocks are numbered as they stand, which every writer and every renumbering
  deletion keeps, and that lists stored by this code hold objects only (`ObjectsOnly`): then what `__post_init__` keeps
  of a list is the list, place by place. That is a loop, written as a function of the rounds done; that such a function
  exists, and what it returns, is shown by its least round that fails (`LoopEnds`, `CoercedFits`).
* **Role policy.** What a claim of the plan finds depends on everything claimed before it, so the invariant speaks of
  the plan that is left (`Promise`). `InTurn`: each assignment could be claimed if those before it had been. `Settled`:
  a task of the window that got no agent finds its branch full, or every agent it suits taken, by what precedes it. The
  loop of `build_dispatch_plan` establishes both round by round (`PlacedFits`), because the window is in the order of
  priority (`WindowFits`) and ranking finds an agent if one fits (`BestAgentFits`); a claim hands both on to the rest of
  the plan (`ClaimKeeps`), and tasks queued or statuses reported meanwhile touch neither. The agents spoken of are those
  the round looked at (`considered`), not those idle now. At the end nothing is left of the plan:
  `Settled` is then `NothingLeftWaiting`, since more on a branch never opens it (`FullStays`), and `PriorityIsKept`, since
  an agent holds one task at most (`OneTaskEach`). Scores need to be numbers and nothing more.
* **Planner, what it believes.** `FileInv`: whatever a plan says of a step (done, failed, ready) is covered by the task
  list, and so it is for the file where a kill may happen, which also has the same plans. `CopyInv`: a thread's copy is
  the task list of some earlier time; what it shows as ended still is. `ListInv` and `HeadInv`: a call's instructions are
  well formed (steps are queued right after titles are read, saves and unlocks come only after what is done under the
  lock), a thread that posts holds the lock, and the steps it is about to post are as it found them. So applying an old
  copy can set a step back but never ahead, and what is ready stays ready because what is settled stays settled
  (`SettledStays`). Every step of a call is then a step of `PlanGraph` or none (`Moves`).
* **Planner, what it hands out.** While a thread posts, no other changes the plans, and it comes to post only by
  queueing (`PostHeads`). *Once at a time* (`WorkInv`): as long as nothing was lost, the plans know all tasks; after a
  kill, a thread about to queue has read the titles of every active task they do not know. *Within the limit*
  (`LimitInv`): as all tasks are known, the active tasks of a plan go one to one into the steps it takes for active,
  and the steps chosen fit beside these (`FirstFew`: no more than k elements have fewer than k below them). *Other work
  waits* (`OperationalInv`): a gate that lets operational work pass was read when the newest recovery was finished, and
  no recovery is made while the lock is held. *One remediation* (`RemediesInv`): one is made only if none is open, closed
  remediations are over by `FileInv`, and what is over stays so, since nobody can compensate a remediation away.
* **Planner, pauses.** The budget counts disruptions that the planner sees, while `RecoveryPauses` counts those of the
  task list, so the proof shows that it misses none when it matters. `TraceInv`: the plans in memory, and those on file
  where a kill may happen, know the newest task of every step before one that was queued or is planned, and a completed
  step whose task failed bears the mark of its compensation. Hence of the one step chosen (`ChosenInTurn`) all before it
  are completed, by tasks the plan knows, and nothing after it was queued (`EarlierTasked`): every disruption of the task
  list is one of the plan (`DisruptionsKnown`). `MendInv`: disruptions are taken for resolved only when a remediation is
  done, for which `NotesInv` follows through the calls what will be noted in a recovery. So the budget is not spent or a
  remediation is done (`BudgetKept`), and while the thread posts nobody changes that (`PausedInv`).
* **Branch, its gate.** For the types and the gate it does not matter what the history holds: each plan is at one of its
  steps, or past the last and at rest, and a remediation belongs to a recovery made before it. Each part of a call
  (`Keeps`) preserves it, hence every call, however many syncs it has. The gate then follows from the plans alone:
  `_select_recovery_plan` takes an open recovery if there is one, its health is at best `verifying` or `recovering`, and
  no trend or pressure opens a gate at these (`OpenGate`); a disrupted or repaired one is at best `observe`
  (`TroubledGate`). So the part of the gate that `PlannerRuntime` leaves open is computed, in `BranchHealth`, within what
  is assumed there.
* **Branch, its repair.** That something is with the agents (`Going`) is not inductive: while the recovery's own step is
  out a remediation might come to be required, and the next call would queue neither. The invariant (`Afloat`) adds that
  the recovery's step is out only while none is required (`Affordable`). What is required depends on the budget, and that
  on critical pressure, which is a record of a blocked gate among the last six (`AlarmRings`); a sync makes such a record
  only of a recovery that waits for its remediation (`LookFits`), so one that finds none required leaves none required
  (`SyncFits`). Each part of a call then keeps or restores the invariant, and a step fails only while its remediation
  can still be made.
* **Branch, its pressure.** A blocked gate has no cap of its own, so the pressure must be high: two of the last six
  records, the present among them, must tell of trouble. The present does; the other is a record of the recovery that
  waits. The invariant (`Warned`) is that the last records, as many as plans are observed, hold one of it. A sync of n
  observed plans records each once or finds it recorded last (`RecordMarks`), so what was recorded before ages by n
  at most; by induction over the sync a recovery that waits at its end was recorded as waiting during it, or was made to
  wait by an alarm raised later in the same sync, which is itself such a record (`SyncWarns`). Every call ends with a
  sync, or changes nothing that is observed. Without a recovery no record of the history is blocked (`Calm`).

### Only model-checked

* Liveness, for which TLAPS has no fairness: `RestartRequeues`, `PlansEnd`, `ChainRunsByItself`, `EveryTaskGetsItsTurn`,
  `StopEnds`, `LearnedAgain`.
* Of branch health, `StabilizedBranchReopens` and `ReadsDecideNothing`: they depend on the scores summed over the last
  records of a history, and on which syncs repeat each other.

## 5. What is not modelled

* What the loop weighs before it proposes a plan (perceive, reason, plan: texts of plan groups from counts of what is
  in the memory and the runtimes), its history and its error record.
* Texts, summaries, titles' wording, HTTP parsing, the dashboard, the read-only routes.
* The steps of stabilization plans taken from playbooks, plan previews, the demo seed.
* `replay_plan` from a snapshot or operation the client names; snapshot files and `rotate_dir`.
* Some detail of what is modelled. The planner lowers its failure budget by the history of the whole branch
  (`Budgets`), and once a remediation has ended it reads its status again without the lock to decide whether the
  recovery goes on (`planning/runtime.py:3530`; `Progress` reads it once). The loop also plans remediation tasks and a
  recovery of their branch (`ai_os/cognitive_loop.py:1116`), beside the two plans of `ActedOn`. It learns from the 20
  plans that `status_snapshot` shows it; the model has fewer. No builder checks the sums in comparisons it adds up; that
  these would pass as well (`Accepted`) is a claim of the model, not a check of the code.
* Concept core's guard and decision engine, relations the mesh derives from shared words, retrieval, temporal, tag and
  importance engines: read-only scoring.
* The batch memory pipeline, the legacy loop bridges, agent stubs and entry points, which keep no state of their own or
  only call what is modelled.
* `development/scripts`, which is more than half of the repository's lines: smoke tests, and tools that rewrite the
  sources once. The tests are read as documentation.

Hazards no property covers are in `PROJECT.json` with the reason: most are behaviours nobody promises (an entry's
second use of a logical time after a failed save and a kill, a `start` that comes while the old thread is still ending,
client edits undone by the loop's stale save).

One thing was seen in the store, and is in the model. `read_json_resilient` says "Primary bad, a backup good -> log a
warning, return the backup" (`ai_os/atomic_store.py:278`), and
`development/changes/2026-08-28_atomic_storage_p0.md:26` that a corrupt primary makes it walk the `.bak` chain. A primary
that is no UTF-8 makes it raise `UnicodeDecodeError` instead: no backup is tried, nothing is kept aside, and
`on_unrecoverable="default"` does not apply. So `DamageCostsOneGeneration` bounds what damage costs unless a garbled file
comes before every good one (`Blocked`).

One thing was seen in the snapshot registry, and is in the model. A `parent_snapshot_id` that a client sends
(`scripts/api_server.py:1070`) is stored as it came (`execution/snapshots.py:146`): the parent may be a snapshot that
does not exist, or one of another branch or made later. So `SnapshotsFormATree` speaks of the parents the registry
chooses itself.

And one in the role policy. Only agents whose `status` is `idle` are planned for (`ai_os/role_policy.py:430`), and a
heartbeat may set any status (`ai_os/agent_runtime.py:392`), but `claim_task` does not look at it. An agent that reported
another status and has no task may claim a task by hand and is dispatched none until it reports as idle, so a task that
only it suits can wait for good. `NothingLeftWaiting` and `EveryTaskGetsItsTurn` say for whom they hold.

Two more things were seen while the concepts were modelled. The mesh numbers a concept's relations after everything
that is no object has been dropped, so the `field_path` it gives as evidence is that of another relation when a stored
list holds something else than objects (no writer of this code stores one; `MeshPointsBack` says so). And a stored
`relations` that is neither a list nor a text nor an object, such as a number, makes `build_semantic_mesh` raise
instead of reporting a malformed block; the model has `NotAList` for texts and objects only.

One thing was seen while the planner was proved correct. `max_parallel_steps` bounds the parallel steps of a plan
(`development/changes/2026-04-13_planner_orchestration_and_remediation.md:26`), but counts only the steps the planner
takes for active: after a kill between the save of the queue and its own, others are queued beside the forgotten task.
So `LimitHolds` speaks of behaviours without a kill.

Four things were seen while branch health was modelled, and are in the model.

* A cycle of the loop that stabilizes a branch also starts a recovery of it (`ai_os/cognitive_loop.py:1123`), and the
  new recovery closes the gate for which the stabilization was made. So `StabilizedBranchReopens` speaks of branches
  with one recovery: while the loop runs, a branch once strained stays closed.
* A snapshot counts as stale once the branch has a recovery: `last_updated` is then the time at which the status is
  asked for (`planning/runtime.py:1155`), and every snapshot is older. With two ended stabilizations a sync records both
  again, with the same effect. `development/changes/2026-04-28_snapshot_coverage_freshness_bridge.md:8` says that a
  fresh snapshot after a completed stabilization is not flagged; its smoke test uses a snapshot of the year 2099.
* Two recoveries of one branch have steps with the same titles. A step waits while a task with its title is active, and
  when that has ended only a cycle that takes the plan over or a client queues it (`NothingStranded` says why it speaks
  of a single recovery).
* A blocked gate itself sets no cap (`planning/runtime.py:1057`); the pressure does. Each sync records the plans of a
  branch once, so with five ended stabilizations made before the recovery the record of its pause is no longer one of
  the last six when the sync is over: the pressure is medium and the paused branch gets two assignments at a time.
  `PausedBranchIsSerial` says so by speaking of five recorded plans at most; the proof shows that this is enough.

## 6. Plan

Done, in this order: the store (every other component rests on it), agents with execution runtime, the planner, the
history, the loop with the memory document, role policy, branch health, concepts.

Next, to model: `replay_plan` with explicit anchors, and the entries beyond its limit against `README.md:86` (replay
gaps are decomposed into steps); plans on two branches; snapshot export, record and file, with `rotate_dir`.

## 7. Running

    tlc -config store_crash.cfg MCAtomicStore
    tlc -config agents_deployed.cfg MCAgentRuntime
    tlc -config planner_work.cfg MCPlannerRuntime
    tlc -config branch_health.cfg MCBranchHealth
    tlc -config dispatch_rounds.cfg MCRolePolicy
    tlc -config concept_memory.cfg MCConceptMemory
    tlc -config history_replay.cfg MCExecutionHistory
    tlc -config loop_memory.cfg MCCognitiveLoop
    tlc -config planner_recovery.cfg MCPlannerRuntime
    tlapm AtomicStoreProofs.tla
    tlapm AgentRuntimeProofs.tla
    tlapm ExecutionHistoryProofs.tla
    tlapm CognitiveLoopProofs.tla
    tlapm ConceptMemoryProofs.tla
    tlapm PlannerRuntimeProofs.tla
    tlapm BranchHealthProofs.tla
    tlapm RolePolicyProofs.tla

The longest run takes about four minutes, the longest proof about ten.
