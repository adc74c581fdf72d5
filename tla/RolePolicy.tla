----------------------------- MODULE RolePolicy -----------------------------
(***************************************************************************)
(* ai_os/role_policy.py: which agent gets which task.  AgentRuntime leaves *)
(* open which eligible pair is claimed; here the pair is computed as the   *)
(* code does, from what tasks and agents are and what the agents have done.*)
(*                                                                         *)
(* A dispatch first makes a plan for the whole queue and then claims its   *)
(* assignments one after the other; other threads queue tasks and report   *)
(* the status of agents meanwhile.  Only agents whose status is idle are   *)
(* planned for, while a claim asks only whether the agent has a task.      *)
(* (What a claim does when a save fails, a restart and a deregistration    *)
(* are the matter of AgentRuntime.)                                        *)
(***************************************************************************)
EXTENDS Integers, FiniteSets, SequencesExt

CONSTANTS
  Roster,    \* the agents, ordered by name
  Profile,   \* per agent: role, the words of its name, capabilities
  Work,      \* the tasks in the order they are queued: plan, kind, role,
             \* branch, owner, wanted (preferred_agent_id), topics
             \* (capabilities asked for or hinted at by its title), and the
             \* dispatch policy put down for it: mode, allow, cap
  None,      \* a field that is not set
  MaxWindow, \* a dispatch looks at no more queued tasks than this (25)
  Windows,   \* the limits dispatches are asked with
  MaxCount,  \* bound: the counters of an agent stop growing here
  Filters,   \* the plans dispatches are confined to, None for all tasks
  Reporters, \* bound: agents whose heartbeats bring a status
  Steady     \* agents of which liveness assumes that they report as idle
             \* in the end; the others report what they like

Agents == ToSet(Roster)
Tasks == DOMAIN Work
Plans == {Work[t].plan : t \in Tasks}
Kinds == {"recovery", "remediation", "branch_stabilization", "operational"}

ASSUME PolicyAssumption ==
  /\ Roster \in Seq(Agents) /\ DOMAIN Work = 1 .. Len(Work) /\ Len(Work) \in Nat
  /\ None \notin Agents /\ Filters \subseteq Plans \cup {None}
  /\ \A a \in Agents :
       /\ IsFiniteSet(Profile[a].capabilities)
       /\ Profile[a].role \in {"manager", "worker"}
       /\ Profile[a].words \subseteq {"development", "coding", "research", "memory",
                                   "manager", "agent"}
  /\ \A t \in Tasks :
       /\ Work[t].kind \in Kinds /\ Work[t].role \in {"manager", "worker", None}
       /\ Work[t].owner \in Agents \cup {None}
       /\ Work[t].wanted \in Agents \cup {None}
       /\ Work[t].mode \in {"open", "guarded", "restricted", "blocked"}
       /\ Work[t].allow \in BOOLEAN \cup {None}
       /\ Work[t].cap \in 0 .. 8 \cup {None}
  /\ MaxWindow \in Nat \ {0} /\ Windows \subseteq Int /\ MaxCount \in Nat
  /\ Reporters \subseteq Agents /\ Steady \subseteq Agents

VARIABLES
  status,  \* per task: absent, queued, in_progress, done or failed
  holder,  \* per task, assigned_agent_id
  history, \* per agent: how many tasks it claimed, completed, failed, and the
           \* branch of the last one
  available, \* the agents whose status is idle
  pending, \* assignments of the dispatch under way that are still to be claimed
  round    \* the last dispatch: its filter, the tasks and the agents it looked
           \* at, the tasks it gave an agent, and whether a claim of its plan
           \* came to nothing

vars == <<status, holder, history, available, pending, round>>

---------------------------------------------------------------------------
(* dispatch_policy_for_task and evaluate_task_dispatch.                    *)

Allowed(w) ==
  IF w.allow # None THEN w.allow
  ELSE w.mode # "blocked" /\ ~(w.kind = "operational" /\ w.mode = "restricted")

Unlimited == 1000
BranchCap(w) ==
  CASE w.cap # None -> w.cap
    [] w.cap = None /\ ~Allowed(w) -> 0
    [] w.cap = None /\ Allowed(w) /\ w.mode = "restricted" -> 1
    [] w.cap = None /\ Allowed(w) /\ w.mode = "guarded" ->
         IF w.kind = "operational" THEN 1 ELSE 2
    [] OTHER -> Unlimited

(* A task may be assigned while so many of its branch are in progress.     *)
Dispatchable(t, active) == Allowed(Work[t]) /\ active < BranchCap(Work[t])

---------------------------------------------------------------------------
(* score_agent_for_task.                                                   *)

(* infer_required_capabilities.  (OWNER_HINT_CAPABILITIES lists those of   *)
(* the agents the program registers.)                                      *)
KindCapabilities ==
  [recovery |-> {"runtime", "integration", "analysis"},
   remediation |-> {"runtime", "integration", "delivery"},
   branch_stabilization |-> {"runtime", "integration", "planning"},
   operational |-> {"analysis", "planning"}]

Required(w) ==
  w.topics \cup KindCapabilities[w.kind]
    \cup (IF w.owner = None THEN {} ELSE Profile[w.owner].capabilities)

Points(condition, points) == IF condition THEN points ELSE 0

KindAffinity(w, words) ==
  CASE w.kind = "recovery" ->
         Points(words \cap {"development", "coding"} # {}, 15)
    [] w.kind = "remediation" ->
         Points(words \cap {"development", "coding"} # {}, 12)
    [] w.kind = "operational" -> Points("research" \in words, 12)
    [] w.kind = "branch_stabilization" ->
         Points(words \cap {"development", "research"} # {}, 10)

(* _affinity_bonus, without the one for the branch of the last task.       *)
Affinity(w, required, words) ==
  KindAffinity(w, words)
    + Points("memory-core" \in required /\ "memory" \in words, 8)
    + Points("analysis" \in required /\ "research" \in words, 8)
    + Points("runtime" \in required /\ words \cap {"development", "coding"} # {}, 8)

OwnerMatch(w, a) ==
  CASE w.owner = a -> 120
    [] w.owner # None /\ w.owner # a ->
         Points(Profile[w.owner].words \cap Profile[a].words # {}, 28)
    [] OTHER -> 0

Overlap(w, a, required) ==
  IF required \cap Profile[a].capabilities # {}
  THEN 18 * Cardinality(required \cap Profile[a].capabilities)
  ELSE -Points(required # {} /\ w.owner # a, 12)

RoleFits(t, a) == Work[t].role \in {None, Profile[a].role}

(* What does not change ...                                                *)
SuitOf(w, a, required) ==
  20 + Points(w.role # None, 40) + Points(w.wanted = a, 140) + OwnerMatch(w, a)
    + Overlap(w, a, required) + Affinity(w, required, Profile[a].words)
Suit == [t \in Tasks |-> [a \in Agents |-> SuitOf(Work[t], a, Required(Work[t]))]]

(* ... and what depends on the agent's history.                            *)
Experience(w, h) ==
  Points(h.last = w.branch, 10)
    + Min({h.completed, 10}) - Min({6 * h.failed, 30}) - Min({h.claimed \div 3, 10})

Score(t, a) == Suit[t][a] + Experience(Work[t], history[a])

---------------------------------------------------------------------------
(* Ranking.                                                                *)

NameOrder(a) == CHOOSE i \in DOMAIN Roster : Roster[i] = a

(* Mutant of BestAgent: the ranking puts no agent of the wrong role last.  *)
BestAgentUnfit(t, free) ==
  LET better(a, b) == \/ Score(t, a) > Score(t, b)
                      \/ Score(t, a) = Score(t, b) /\ NameOrder(a) <= NameOrder(b)
      best == CHOOSE a \in free \cup {None} :
                free # {} => a # None /\ \A b \in free : better(a, b)
  IN IF best # None /\ RoleFits(t, best) THEN best ELSE None

(* rank_agents_for_task: the first eligible one of the free agents.        *)
BestAgent(t, free) ==
  LET fit == {a \in free : RoleFits(t, a)}
      score == [a \in fit |-> Score(t, a)]
      better(a, b) == \/ score[a] > score[b]
                      \/ score[a] = score[b] /\ NameOrder(a) <= NameOrder(b)
  IN IF fit = {} THEN None ELSE CHOOSE a \in fit : \A b \in fit : better(a, b)

KindRank ==
  [recovery |-> 0, remediation |-> 1, branch_stabilization |-> 2, operational |-> 3]

(* task_priority: by kind, then what is for managers, then by age.         *)
Precedes(t, u) ==
  LET kind(x) == KindRank[Work[x].kind]
      role(x) == IF Work[x].role = "manager" THEN 0 ELSE 1
  IN \/ kind(t) < kind(u)
     \/ kind(t) = kind(u) /\ role(t) < role(u)
     \/ kind(t) = kind(u) /\ role(t) = role(u) /\ t <= u

(* rank_tasks_for_agent: its first task, if that is eligible.              *)
BestTask(a, able) ==
  LET fit == {t \in able : RoleFits(t, a)}
      score == [t \in fit |-> Score(t, a)]
      better(t, u) == \/ score[t] > score[u]
                      \/ score[t] = score[u] /\ Precedes(t, u)
  IN IF fit = {} THEN None ELSE CHOOSE t \in fit : \A u \in fit : better(t, u)

---------------------------------------------------------------------------
(* build_dispatch_plan.                                                    *)

OnBranch(S, b) == {t \in S : Work[t].branch = b}
InProgress == {t \in Tasks : status[t] = "in_progress"}
Matching(filter) == {t \in Tasks : filter \in {None, Work[t].plan}}

(* Agents without a task, and those of them that are planned for.          *)
Free == {a \in Agents : \A t \in InProgress : holder[t] # a}
Idle == Free \cap available

Queued(filter) == {t \in Matching(filter) : status[t] = "queued"}
FirstOf(S, size, before(_, _)) ==
  [i \in 1 .. Min({size, Cardinality(S)}) |->
     CHOOSE t \in S : Cardinality({u \in S : before(u, t)}) = i]
Bounded(limit) == Max({1, Min({limit, MaxWindow})})

(* Mutant of Window: the queue in the order it came in.                    *)
WindowByAge(limit, filter) == FirstOf(Queued(filter), Bounded(limit), <=)

(* The queued tasks by priority, as many as the limit allows; those that   *)
(* may not be dispatched count.                                            *)
Window(limit, filter) == FirstOf(Queued(filter), Bounded(limit), Precedes)

(* Mutant of Assigned: the plan counts only what is already in progress.   *)
AssignedUncounted(plan, t, active, a) ==
  IF a = None \/ ~Dispatchable(t, Cardinality(OnBranch(InProgress, Work[t].branch)))
  THEN plan
  ELSE [made |-> Append(plan.made, [task |-> t, agent |-> a]),
        active |-> active \cup {t}, free |-> plan.free \ {a}]

(* One task of the window: it counts for its branch from now on.           *)
Assigned(plan, t, active, a) ==
  IF a = None \/ ~Dispatchable(t, Cardinality(OnBranch(active, Work[t].branch)))
  THEN plan
  ELSE [made |-> Append(plan.made, [task |-> t, agent |-> a]),
        active |-> active \cup {t}, free |-> plan.free \ {a}]

Placed(plan, t) == Assigned(plan, t, plan.active, BestAgent(t, plan.free))
NothingMade(filter) ==
  [made |-> << >>, active |-> InProgress \cap Matching(filter), free |-> Idle]
PlanFor(window, filter) ==
  LET plan[n \in 0 .. Len(window)] ==
        IF n = 0 THEN NothingMade(filter) ELSE Placed(plan[n - 1], window[n])
  IN plan[Len(window)].made

---------------------------------------------------------------------------
(* Calls.                                                                  *)

Init ==
  /\ status = [t \in Tasks |-> "absent"] /\ holder = [t \in Tasks |-> None]
  /\ history = [a \in Agents |-> [claimed |-> 0, completed |-> 0, failed |-> 0,
                                  last |-> None]]
  /\ available = Agents /\ pending = << >>
  /\ round = [filter |-> None, window |-> {}, considered |-> {}, given |-> {},
              missed |-> FALSE]

(* queue_task, by any thread.                                              *)
QueueTask(t) ==
  /\ status[t] = "absent" /\ \A u \in Tasks : status[u] = "absent" => t <= u
  /\ status' = [status EXCEPT ![t] = "queued"]
  /\ UNCHANGED <<holder, history, available, pending, round>>

(* heartbeat, by any thread: whatever status it brings is set, also that   *)
(* of an agent at work.                                                    *)
Heartbeat(a, idle) ==
  /\ a \in Reporters
  /\ available' = IF idle THEN available \cup {a} ELSE available \ {a}
  /\ UNCHANGED <<status, holder, history, pending, round>>

(* What claim_task asks of an agent that has no task: nothing of its status.*)
Claimable(t, a) ==
  /\ status[t] = "queued" /\ a \in Free /\ RoleFits(t, a)
  /\ Dispatchable(t, Cardinality(OnBranch(InProgress, Work[t].branch)))

Grown(n) == Min({n + 1, MaxCount})
Claimed(t, a) ==
  /\ status' = [status EXCEPT ![t] = "in_progress"]
  /\ holder' = [holder EXCEPT ![t] = a]
  /\ history' = [history EXCEPT ![a].claimed = Grown(@),
                                ![a].last = Work[t].branch]
  /\ available' = available \ {a}

Begun(window, planned, filter) ==
  /\ pending' = PlanFor(planned, filter)
  /\ round' = [filter |-> filter, window |-> ToSet(window), considered |-> Idle,
               given |-> {ass.task : ass \in ToSet(pending')}, missed |-> FALSE]

(* Mutant of Begins: a plan ends with the first task it cannot place.      *)
BeginsInOrder(window, filter) ==
  LET placed == {ass.task : ass \in ToSet(PlanFor(window, filter))}
      first == CHOOSE n \in 0 .. Len(window) :
                 /\ n < Len(window) => window[n + 1] \notin placed
                 /\ \A i \in 1 .. n : window[i] \in placed
  IN Begun(window, SubSeq(window, 1, first), filter)

Begins(window, filter) == Begun(window, window, filter)

(* dispatch_preview, the first half of dispatch_ready_tasks.               *)
Dispatch(limit, filter) ==
  /\ pending = << >> /\ UNCHANGED <<status, holder, history, available>>
  /\ Begins(Window(limit, filter), filter)

(* claim_task of its next assignment.  One that raises is passed over, and *)
(* an agent that has a task only answers with that.                        *)
ClaimAssigned ==
  /\ pending # << >> /\ pending' = Tail(pending)
  /\ IF Claimable(Head(pending).task, Head(pending).agent)
     THEN Claimed(Head(pending).task, Head(pending).agent) /\ UNCHANGED round
     ELSE /\ round' = [round EXCEPT !.missed = TRUE]
          /\ UNCHANGED <<status, holder, history, available>>

Able == {t \in Tasks :
           /\ status[t] = "queued"
           /\ Dispatchable(t, Cardinality(OnBranch(InProgress, Work[t].branch)))}

(* claim_next_task of an agent that has no task, whatever its status is.   *)
ClaimNext(a) ==
  /\ pending = << >> /\ a \in Free /\ BestTask(a, Able) # None
  /\ Claimed(BestTask(a, Able), a)
  /\ UNCHANGED <<pending, round>>

(* complete_task                                                           *)
CompleteTask(t, success) ==
  /\ pending = << >> /\ status[t] = "in_progress"
  /\ status' = [status EXCEPT ![t] = IF success THEN "done" ELSE "failed"]
  /\ history' = [history EXCEPT ![holder[t]].completed = Grown(@),
                   ![holder[t]].failed = IF success THEN @ ELSE Grown(@),
                   ![holder[t]].last = Work[t].branch]
  /\ available' = available \cup {holder[t]}
  /\ UNCHANGED <<holder, pending, round>>

Next ==
  \/ \E t \in Tasks : QueueTask(t) \/ \E success \in BOOLEAN : CompleteTask(t, success)
  \/ \E limit \in Windows, filter \in Filters : Dispatch(limit, filter)
  \/ ClaimAssigned
  \/ \E a \in Agents : ClaimNext(a) \/ \E idle \in BOOLEAN : Heartbeat(a, idle)

Spec == Init /\ [][Next]_vars

(* A dispatch that was begun is carried out; clients keep dispatching the  *)
(* whole queue and end the tasks they hold.  (Written out, with what       *)
(* enables an action: TLC finds that faster than ENABLED.)                 *)
Whole == Max(Windows)
FairSpec ==
  /\ Spec
  /\ WF_vars(ClaimAssigned)
  /\ \/ <>[](pending # << >> \/ PlanFor(Window(Whole, None), None) = << >>)
     \/ []<><<Dispatch(Whole, None)>>_vars
  /\ \A t \in Tasks :
       \/ <>[](pending # << >> \/ status[t] # "in_progress")
       \/ []<><<\E success \in BOOLEAN : CompleteTask(t, success)>>_vars

---------------------------------------------------------------------------
(* Properties.                                                             *)

(* The preview of a whole queue is what happens: claim_task checks the     *)
(* role, the agent and the branch anew for every assignment, with what the *)
(* earlier ones have changed, and refuses none.  (The preview of one       *)
(* plan's tasks does not see what is in progress on the branch for others, *)
(* and claims of it may be refused.)                                       *)
PlanIsClaimed == round.filter = None => ~round.missed

RoundEnds == (pending # << >> \/ round' # round) /\ pending' = << >>

(* A dispatch of the whole queue wastes no agent it may use: at its end no *)
(* task it looked at could be claimed by an agent that had no task and was *)
(* idle when the plan was made, though it picks the agents one task at a   *)
(* time and by score, and whatever they report meanwhile.  (An agent that  *)
(* had reported another status gets nothing of the plan, and may claim.)   *)
NothingLeftWaiting ==
  [][RoundEnds /\ round'.filter = None =>
       \A t \in round'.window, a \in round'.considered : ~Claimable(t, a)']_vars

(* Priority is kept: a task that got an agent was not served before one of *)
(* higher priority which that agent suited, unless the branch of that one  *)
(* was full with what came before it.                                      *)
PriorityIsKept ==
  [][RoundEnds /\ round'.filter = None =>
       \A u \in round'.given, t \in round'.window \ round'.given :
         Precedes(t, u) /\ RoleFits(t, holder'[u])
           => ~Dispatchable(t, Cardinality(
                 {v \in OnBranch(InProgress', Work[t].branch) :
                    v \in round'.given => Precedes(v, t)}))]_vars

Runnable(t) ==
  BranchCap(Work[t]) > 0 /\ Allowed(Work[t]) /\ \E a \in Steady : RoleFits(t, a)

(* Every task that a steady agent may do is done in the end, in spite of   *)
(* the tasks that are never dispatched and stay in the window, as long as  *)
(* they do not fill it, if the steady agents report as idle from some time *)
(* on whenever they have no task.  (An agent whose last heartbeat had      *)
(* another status is never dispatched to, so a task only it suits waits    *)
(* for good.)                                                              *)
EveryTaskGetsItsTurn ==
  <>[](Steady \cap Free \subseteq available) =>
    \A t \in Tasks :
      Runnable(t) /\ Cardinality({u \in Tasks : ~Runnable(u)}) < Whole
        => (status[t] = "queued" ~> status[t] \in {"done", "failed"})
=============================================================================
