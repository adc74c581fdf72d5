---------------------------- MODULE BranchHealth ----------------------------
(***************************************************************************)
(* planning/runtime.py: the health of a branch, and the planner gate and   *)
(* dispatch policy that follow from it.  PlannerRuntime leaves open which  *)
(* gate a branch has; here it is computed as the code does, from the       *)
(* recovery that is looked at and from the history of observations.        *)
(*                                                                         *)
(* Every sync goes through the plans, the newest first, and records an     *)
(* observation of each recovery and stabilization plan, old ones included, *)
(* unless it equals the record that happens to be the last one.  With two  *)
(* such plans every sync records both again, so the history tells in which *)
(* order the plans were made and not what happened when.                   *)
(*                                                                         *)
(* A cycle of the cognitive loop looks at the branch too: one whose gate   *)
(* holds work back, or that has no snapshot newer than its health, gets a  *)
(* stabilization and also a new recovery, which closes the gate again.     *)
(*                                                                         *)
(* All plans are on one branch, a plan's steps wait for one another in     *)
(* order, and a call of the planner is one step of the model (how calls    *)
(* interleave is the matter of PlannerRuntime).  A failed step of a        *)
(* recovery is compensated by the call that reports it.                    *)
(***************************************************************************)
EXTENDS Integers, FiniteSets, Sequences, SequencesExt

CONSTANTS
  Steps,       \* per kind of plan, the phases its steps belong to
  Threshold,   \* max_disrupted_replay_steps
  MaxHistory,  \* MAX_BRANCH_HEALTH_HISTORY_PER_BRANCH (24; nothing reads more
               \* than the last six records)
  TrendWindow, \* BRANCH_HEALTH_TREND_WINDOW
  DriftWindow, \* BRANCH_HEALTH_DRIFT_WINDOW
  MaxRecoveries, MaxStabilizations, MaxRemediations, \* bounds: plans made
  MaxProposals, \* bound: stabilizations made when the loop makes them
  Envs         \* what may happen in a behaviour: sets of "again" (a client
               \* starts a recovery beside or after another), "failure" (a
               \* step of a recovery fails), "repair_failure" (a remediation
               \* fails), "unstable" (a stabilization fails), "operator"
               \* (clients make stabilizations), "loop" (the loop runs)

Kinds == {"recovery", "remediation", "branch_stabilization"}

ASSUME BranchHealthAssumption ==
  /\ DOMAIN Steps = Kinds
  /\ \A kind \in Kinds : Steps[kind] \in Seq(STRING) /\ Steps[kind] # << >>
  /\ Threshold \in 1 .. 6
  /\ TrendWindow \in Nat \ {0} /\ DriftWindow \in Nat \ {0}
  /\ MaxHistory \in Nat \ {0}
  /\ MaxRecoveries \in Nat /\ MaxStabilizations \in Nat /\ MaxRemediations \in Nat
  /\ MaxProposals \in Nat

VARIABLES
  plans,  \* the plans, in the order they were made, as a sync would show them:
          \* kind, parent (a remediation's recovery), the step it is at and
          \* that step's state, how many were disrupted and resolved
  health, \* _branch_health_history: what is read of its records (window: of
          \* each status, quality, confidence and gate), the signature of the
          \* last one (last), and what the newest snapshot of the branch is
          \* against it (coverage): missing, stale or fresh
  env     \* what may happen in this behaviour

vars == <<plans, health, env>>

NoPlan == 0

Init ==
  /\ plans = << >>
  /\ health = [window |-> << >>, last |-> << >>, coverage |-> "missing"]
  /\ env \in Envs

Suffix(seq, n) == IF Len(seq) <= n THEN seq ELSE SubSeq(seq, Len(seq) - n + 1, Len(seq))
Least(S) == CHOOSE x \in S : \A y \in S : x <= y
Newest(S) == CHOOSE x \in S : \A y \in S : y <= x
Smaller(x, y) == IF x < y THEN x ELSE y
Clamped(score) == IF score < 0 THEN 0 ELSE score

---------------------------------------------------------------------------
(* Trend and drift of a sequence of observations.                          *)

(* Python's round: ties go to the even neighbour.                          *)
RoundedMean(sum, n) ==
  sum \div n +
    (IF \/ 2 * (sum % n) > n
        \/ 2 * (sum % n) = n /\ (sum \div n) % 2 = 1 THEN 1 ELSE 0)

(* The last score against the mean of up to k before it.                   *)
AgainstMean(score, before) ==
  IF before = << >> THEN 0
  ELSE score - RoundedMean(FoldLeft(LAMBDA sum, x : sum + x, 0, before),
                           Len(before))
Delta(scores, k) == AgainstMean(Last(scores), Suffix(Front(scores), k))
Qualities(seq) == [i \in DOMAIN seq |-> seq[i].quality]
Confidences(seq) == [i \in DOMAIN seq |-> seq[i].confidence]

StatusSet(seq) == {seq[i].status : i \in DOMAIN seq}

(* _branch_health_trend_summary, of the records in its window: the last    *)
(* status, the last four and how quality and confidence have moved.        *)
Trend(last, lately, dq, dc) ==
  IF last \in {"blocked", "degraded"} THEN "declining"
  ELSE IF \/ "blocked" \in lately /\ lately \cap {"healthy", "observe"} # {}
          \/ Cardinality(lately) >= 3
  THEN "volatile"
  ELSE IF dq >= 6 /\ dc >= 5 THEN "improving"
  ELSE IF dq <= -6 \/ dc <= -6 THEN "declining" ELSE "stable"
DirectionOf(recent) ==
  IF Len(recent) <= 1 THEN "insufficient_history"
  ELSE Trend(Last(recent).status, StatusSet(Suffix(recent, 4)),
             Delta(Qualities(recent), 3), Delta(Confidences(recent), 3))
Direction(seq) == DirectionOf(Suffix(seq, TrendWindow))

(* _branch_quality_drift_summary: how much pressure the branch is under.   *)
Gates(seq, mode) == Cardinality({i \in DOMAIN seq : seq[i].gate = mode})
Seen(seq, set) == Cardinality({i \in DOMAIN seq : seq[i].status \in set})

CountedPressure(last6, dq, dc) ==
  Smaller(Gates(last6, "guarded"), 3) + 2 * Gates(last6, "restricted")
    + 3 * Gates(last6, "blocked") + 2 * Seen(last6, {"degraded", "blocked"})
    + (IF Seen(last6, {"observe"}) >= 3 THEN 1 ELSE 0)
    + (IF Seen(last6, {"recovering", "verifying"}) >= 2 THEN 1 ELSE 0)
    + (IF dq <= -12 \/ dc <= -12 THEN 2
       ELSE IF dq <= -6 \/ dc <= -6 THEN 1 ELSE 0)
Eased(score, dq, dc) ==
  IF dq >= 8 /\ dc >= 8 /\ score > 0 THEN score - 1 ELSE score

PressureLevel(last6, score) ==
  IF Gates(last6, "blocked") > 0 THEN "critical"
  ELSE IF \/ score >= 7 \/ Gates(last6, "restricted") >= 2
          \/ Seen(last6, {"degraded", "blocked"}) >= 2
  THEN "high"
  ELSE IF \/ score >= 4 \/ Gates(last6, "guarded") >= 2
          \/ Seen(last6, {"observe"}) >= 2
  THEN "medium" ELSE "low"
PressureBy(last6, dq, dc) ==
  PressureLevel(last6, Eased(CountedPressure(last6, dq, dc), dq, dc))
(* Mutant of PressureOf: all of the horizon counts, not the last six.      *)
PressureOfHorizon(horizon) ==
  IF horizon = << >> THEN "insufficient_history"
  ELSE PressureBy(horizon, Delta(Qualities(horizon), 5),
                  Delta(Confidences(horizon), 5))
PressureOf(horizon) ==
  IF horizon = << >> THEN "insufficient_history"
  ELSE PressureBy(Suffix(horizon, 6), Delta(Qualities(horizon), 5),
                  Delta(Confidences(horizon), 5))
Pressure(seq) == PressureOf(Suffix(seq, DriftWindow))

---------------------------------------------------------------------------
(* The gate and the dispatch policy.                                       *)

(* Mutant of Gate: a verifying branch is not restricted.                   *)
GateOfVerified(status, direction, pressure) ==
  IF status = "blocked" THEN "blocked"
  ELSE IF status \in {"degraded", "recovering"}
            \/ pressure \in {"critical", "high"}
  THEN "restricted"
  ELSE IF status = "observe" \/ direction \in {"declining", "volatile"}
            \/ pressure = "medium"
  THEN "guarded" ELSE "open"

(* _planner_gate_summary.  (A status has one recommendation.)              *)
Gate(status, direction, pressure) ==
  IF status = "blocked" THEN "blocked"
  ELSE IF status \in {"degraded", "recovering", "verifying"}
            \/ pressure \in {"critical", "high"}
  THEN "restricted"
  ELSE IF status = "observe" \/ direction \in {"declining", "volatile"}
            \/ pressure = "medium"
  THEN "guarded" ELSE "open"

Admits(gate, kind) == kind \in Kinds \/ gate \in {"open", "guarded"}

Uncapped == 100

(* Mutant of DispatchCap: only the pressure serializes recoveries.         *)
DispatchCapByPressure(gate, pressure, kind) ==
  IF ~Admits(gate, kind) THEN 0
  ELSE IF kind \notin Kinds
  THEN IF gate = "guarded" THEN 1 ELSE Uncapped
  ELSE IF pressure \in {"critical", "high"} THEN 1
  ELSE IF pressure = "medium" \/ gate # "open" THEN 2 ELSE Uncapped

(* _execution_dispatch_policy: how many assignments a branch may take.     *)
DispatchCap(gate, pressure, kind) ==
  IF ~Admits(gate, kind) THEN 0
  ELSE IF kind \notin Kinds
  THEN IF gate = "guarded" THEN 1 ELSE Uncapped
  ELSE IF pressure \in {"critical", "high"} \/ gate = "restricted" THEN 1
  ELSE IF pressure = "medium" \/ gate = "guarded" THEN 2 ELSE Uncapped

---------------------------------------------------------------------------
(* What a recovery plan and its remediation plans say of the branch.       *)

PlanStatus(p) ==
  IF p.state # "failed" /\ p.step > Len(Steps[p.kind]) THEN "completed"
  ELSE p.state
Open(p) == PlanStatus(p) \notin {"completed", "failed"}
IdsOf(ps, kind) == {i \in DOMAIN ps : ps[i].kind = kind}
Children(ps, r) == {i \in IdsOf(ps, "remediation") : ps[i].parent = r}

(* _latest_child_plan: an open one, or the one a sync updates last.        *)
LatestChild(ps, r) ==
  LET open == {i \in Children(ps, r) : Open(ps[i])} IN
  IF open # {} THEN Newest(open)
  ELSE IF Children(ps, r) # {} THEN Least(Children(ps, r)) ELSE NoPlan

(* _recovery_remediation_policy: the budget of disruptions is one lower    *)
(* while the history shows critical pressure.                              *)
Budget(window) ==
  IF Pressure(window) = "critical" /\ Threshold > 1 THEN Threshold - 1
  ELSE Threshold

(* _recovery_disruption_profile                                            *)
Failing(p) ==
  IF p.state = "failed" /\ Steps[p.kind][p.step] = "replay_execution" THEN 1 ELSE 0
Disrupted(p) == p.disrupted + Failing(p)

Required(p, window) == Disrupted(p) - p.resolved >= Budget(window)

(* _recovery_remediation_summary, with the state of the latest child.      *)
RemediationBy(child, required) ==
  [status |-> IF required /\ child \in {"not_required", "completed"}
              THEN "required" ELSE child,
   blocking |-> required /\ child # "completed",
   unfinished |-> child \notin {"not_required", "completed"}]
ChildStatus(ps, c) == IF c = NoPlan THEN "not_required" ELSE PlanStatus(ps[c])
Remediation(ps, r, window) ==
  RemediationBy(ChildStatus(ps, LatestChild(ps, r)), Required(ps[r], window))

(* _recovery_workflow_summary's current_phase: phases have an order, and   *)
(* remediation comes before validation.                                    *)
CurrentPhase(p, remediation) ==
  LET own == IF p.step > Len(Steps["recovery"]) THEN "completed"
             ELSE Steps["recovery"][p.step]
  IN IF \/ remediation.blocking
        \/ remediation.unfinished /\ own \in {"validation", "completed"}
     THEN "remediation" ELSE own

Less(condition, points) == IF condition THEN points ELSE 0

(* _recovery_branch_health_summary: phase, scores and status.              *)
CommonLoss(p) ==
  Smaller(8 * Disrupted(p), 24) + Less(PlanStatus(p) # "completed", 18)
    + Less(Open(p), 10)
Quality(p, used, remediation) ==
  100 - CommonLoss(p) - Less(p.disrupted > 0, 6) - Less(used, 8)
    - Less(remediation.status = "failed", 20) - Less(remediation.blocking, 24)
Confidence(p, used, remediation) ==
  100 - CommonLoss(p) - Less(used, 10)
    - Less(remediation.status = "failed", 25) - Less(remediation.blocking, 20)

RecoveryStatus(p, used, remediation, phase, q, c) ==
  IF remediation.blocking THEN "blocked"
  ELSE IF "failed" \in {PlanStatus(p), remediation.status} THEN "degraded"
  ELSE IF PlanStatus(p) # "completed"
  THEN IF phase = "validation" THEN "verifying" ELSE "recovering"
  ELSE IF q >= 90 /\ c >= 90 /\ Disrupted(p) = 0 /\ ~used THEN "healthy"
  ELSE IF q >= 70 /\ c >= 65 THEN "observe" ELSE "degraded"

HealthBy(p, used, remediation, phase, q, c) ==
  [quality |-> Clamped(q), confidence |-> Clamped(c), phase |-> phase,
   remediation |-> remediation.status,
   status |-> RecoveryStatus(p, used, remediation, phase, q, c)]
HealthWith(p, used, remediation) ==
  HealthBy(p, used, remediation, CurrentPhase(p, remediation),
           Quality(p, used, remediation), Confidence(p, used, remediation))
RecoveryHealth(ps, r, window) ==
  HealthWith(ps[r], Children(ps, r) # {}, Remediation(ps, r, window))

(* _branch_stabilization_health_summary                                    *)
StabilizationHealth(p) ==
  IF PlanStatus(p) = "completed"
  THEN [status |-> "observe", quality |-> 78, confidence |-> 74]
  ELSE [status |-> "degraded", quality |-> 48, confidence |-> 42]

(* An observation, and one that has no gate.                               *)
Observed(h, gate) == [status |-> h.status, quality |-> h.quality,
                      confidence |-> h.confidence, gate |-> gate]
Bare(h) == Observed(h, "unknown")

(* How the branch looks with the present of a recovery.  The records of a  *)
(* recovery have a gate, the present has none: it never equals the last    *)
(* record, and is always counted beside it.                                *)
Judged(h, direction, pressure) ==
  [health |-> h, pressure |-> pressure,
   gate |-> Gate(h.status, direction, pressure)]
Beside(h, seen) == Judged(h, Direction(seen), Pressure(seen))
Joined(h, window) == Beside(h, Append(window, Bare(h)))
Outlook(ps, r, window) == Joined(RecoveryHealth(ps, r, window), window)

---------------------------------------------------------------------------
(* What is recorded.                                                       *)

(* _branch_health_record_signature: a record like the last one is left out.*)
Recorded(h, observation, signature) ==
  IF signature = h.last THEN h
  ELSE [window |-> Suffix(Append(h.window, observation), MaxHistory),
        last |-> signature,
        coverage |-> IF h.coverage = "fresh" THEN "stale" ELSE h.coverage]

(* _record_branch_health_observation of a plan.                            *)
RecoveryRecorded(h, i, p, look) ==
  Recorded(h, Observed(look.health, look.gate),
           <<i, PlanStatus(p), look.health, look.gate, Disrupted(p),
             p.disrupted>>)
Record(ps, i, h) ==
  CASE ps[i].kind = "recovery" ->
         RecoveryRecorded(h, i, ps[i], Outlook(ps, i, h.window))
    [] ps[i].kind = "branch_stabilization" /\ ~Open(ps[i]) ->
         Recorded(h, Bare(StabilizationHealth(ps[i])), <<i, PlanStatus(ps[i])>>)
    [] OTHER -> h

(* sync_with_runtime, as far as the history goes: the newest plan first.   *)
Sync(ps, h) ==
  LET after[n \in 0 .. Len(ps)] ==
        IF n = 0 THEN h ELSE Record(ps, Len(ps) + 1 - n, after[n - 1])
  IN after[Len(ps)]

---------------------------------------------------------------------------
(* What the branch is taken for: _branch_health_summary.                   *)

Recoveries(ps) == IdsOf(ps, "recovery")

(* _select_recovery_plan: the newest that is not over, or the newest.      *)
Selected(ps) ==
  LET open == {i \in Recoveries(ps) : Open(ps[i])} IN
  IF open # {} THEN Newest(open)
  ELSE IF Recoveries(ps) # {} THEN Newest(Recoveries(ps)) ELSE NoPlan

(* _branch_health_summary: gate and pressure.                              *)
BranchSummary(ps, h) ==
  IF Selected(ps) # NoPlan THEN Outlook(ps, Selected(ps), h.window)
  ELSE IF h.window # << >> THEN Beside(Last(h.window), h.window)
  ELSE [health |-> [status |-> "unknown"], gate |-> "open",
        pressure |-> "insufficient_history"]
BranchGate(ps, h) == BranchSummary(ps, h).gate

---------------------------------------------------------------------------
(* The calls, on a branch: [plans, health].                                *)

Branch == [plans |-> plans, health |-> health]
Becomes(b) == plans' = b.plans /\ health' = b.health
Synced(b) == [b EXCEPT !.health = Sync(b.plans, b.health)]

NewPlan(kind, parent) ==
  [kind |-> kind, parent |-> parent, step |-> 1, state |-> "planned",
   disrupted |-> 0, resolved |-> 0]

(* create_or_refresh_plan of a new plan, which it observes at once.        *)
Made(b, kind, parent) ==
  LET ps == Append(b.plans, NewPlan(kind, parent)) IN
  [plans |-> ps, health |-> Record(ps, Len(ps), b.health)]

(* A step waits while a task with its title is active.  Two recoveries of  *)
(* a branch have all titles in common but those of the operations they     *)
(* replay, and so have their remediations.  (Clients give a stabilization  *)
(* titles of its own.)                                                     *)
TitleTaken(ps, i) ==
  /\ ps[i].kind # "branch_stabilization"
  /\ Steps[ps[i].kind][ps[i].step] # "replay_execution"
  /\ \E j \in IdsOf(ps, ps[i].kind) :
       ps[j].step = ps[i].step /\ ps[j].state \in {"queued", "in_progress"}

(* execute_ready_steps of one plan: its next step is queued, unless it is  *)
(* a recovery that waits for its remediation or its title is taken.  (Every *)
(* gate admits all of the kinds modelled.)                                 *)
Queued(s, i) ==
  IF /\ s.plans[i].state = "planned" /\ Open(s.plans[i])
     /\ ~TitleTaken(s.plans, i)
     /\ s.plans[i].kind = "recovery" =>
          ~Remediation(s.plans, i, s.health.window).blocking
  THEN [s EXCEPT !.plans[i].state = "queued"] ELSE s
Executed(b, i) == Synced(Queued(Synced(b), i))

(* The compensation of a failed step: it counts as completed from now on.  *)
PastFailure(p) ==
  [p EXCEPT !.state = "planned", !.step = p.step + 1, !.disrupted = Disrupted(p)]
Compensated(b, r) ==
  IF b.plans[r].state # "failed" THEN b
  ELSE Synced([b EXCEPT !.plans[r] = PastFailure(@)])

RoomForRemediation(ps) ==
  Cardinality(IdsOf(ps, "remediation")) < MaxRemediations

(* advance_recovery_workflow: an open remediation goes on, or one that is  *)
(* required is made, or the recovery goes on.  (Its answer is made of      *)
(* several snapshots, and each of them is a sync.)                         *)
Continued(s, r, c) ==
  IF c # NoPlan /\ Open(s.plans[c]) THEN Synced(Executed(s, c))
  ELSE IF ~Required(s.plans[r], s.health.window)
  THEN Executed(Synced(Synced(s)), r)
  ELSE IF RoomForRemediation(s.plans)
  THEN Synced(Executed(Made(s, "remediation", r), Len(s.plans) + 1)) ELSE s
AdvancedFrom(s, r) == Synced(Continued(s, r, LatestChild(s.plans, r)))
Advanced(b, r) == AdvancedFrom(Compensated(Synced(b), r), r)

(* POST /planner/recovery                                                  *)
StartRecovery ==
  /\ Cardinality(Recoveries(plans)) < MaxRecoveries
  /\ Recoveries(plans) = {} \/ "again" \in env
  /\ Becomes(Advanced(Made(Branch, "recovery", NoPlan), Len(plans) + 1))
  /\ UNCHANGED env

(* POST /planner/recovery/advance                                          *)
Advance(r) ==
  /\ plans[r].kind = "recovery" /\ Open(plans[r])
  /\ Becomes(Advanced(Branch, r))
  /\ UNCHANGED env

(* GET /planner/status, and the loop's learn().                            *)
Status == Becomes(Synced(Branch)) /\ UNCHANGED env

(* An agent takes the task of a step.                                      *)
Take(i) ==
  /\ plans[i].state = "queued"
  /\ plans' = [plans EXCEPT ![i].state = "in_progress"]
  /\ UNCHANGED <<health, env>>

(* POST /agents/complete, with advance_from_task.  (Bound: a step fails    *)
(* only while every open recovery can still be given a remediation, and    *)
(* one stabilization.)                                                     *)
Failures(ps) == {i \in IdsOf(ps, "branch_stabilization") : ps[i].state = "failed"}
RoomForRepairs ==
  Cardinality(IdsOf(plans, "remediation"))
    + Cardinality({r \in Recoveries(plans) : Open(plans[r])}) <= MaxRemediations
MayFail(p) ==
  CASE p.kind = "recovery" -> "failure" \in env /\ RoomForRepairs
    [] p.kind = "remediation" -> "repair_failure" \in env /\ RoomForRepairs
    [] OTHER -> "unstable" \in env /\ Failures(plans) = {}

StepEnded(p, success) ==
  IF success THEN [p EXCEPT !.step = p.step + 1, !.state = "planned"]
  ELSE [p EXCEPT !.state = "failed"]
Reported(i, success) == [Branch EXCEPT !.plans[i] = StepEnded(@, success)]

Resolved(b, r) == [b EXCEPT !.plans[r].resolved = Disrupted(b.plans[r])]

(* Mutant of Repaired: the recovery waits to be advanced by hand.          *)
RepairedOnly(b, c) ==
  IF PlanStatus(b.plans[c]) # "completed" THEN b
  ELSE Resolved(b, b.plans[c].parent)

Repaired(b, c) ==
  IF PlanStatus(b.plans[c]) # "completed" THEN b
  ELSE Advanced(Resolved(b, b.plans[c].parent), b.plans[c].parent)

(* Mutant of Report: only tasks of recoveries advance the planner.         *)
ReportUnseen(i, success) ==
  /\ plans[i].state = "in_progress"
  /\ success \/ MayFail(plans[i])
  /\ Becomes(CASE plans[i].kind = "recovery" ->
                    Advanced(Reported(i, success), i)
               [] plans[i].kind = "remediation" ->
                    Repaired(Executed(Synced(Reported(i, success)), i), i)
               [] OTHER -> Reported(i, success))
  /\ UNCHANGED env

Report(i, success) ==
  /\ plans[i].state = "in_progress"
  /\ success \/ MayFail(plans[i])
  /\ Becomes(CASE plans[i].kind = "recovery" ->
                    Advanced(Reported(i, success), i)
               [] plans[i].kind = "remediation" ->
                    Repaired(Executed(Synced(Reported(i, success)), i), i)
               [] OTHER -> Synced(Executed(Synced(Reported(i, success)), i)))
  /\ UNCHANGED env

(* create_or_refresh_plan, and execute_ready_steps of that plan.  An open  *)
(* plan with the same steps is taken over.  (Which that is, if any, is left *)
(* open: the steps name the entries replayed and the lessons reused.)      *)
Reusable(kind) == {i \in IdsOf(plans, kind) : Open(plans[i])} \union {NoPlan}
Refreshed(b, kind, i) ==
  IF i = NoPlan THEN Executed(Made(b, kind, NoPlan), Len(b.plans) + 1)
  ELSE Executed([b EXCEPT !.health = Record(b.plans, i, @)], i)

(* The bounds on new plans.  (A failed one leaves room for another.)       *)
RoomFor(kind, i, max) ==
  i # NoPlan \/ Cardinality(IdsOf(plans, kind) \ Failures(plans)) < max

(* POST /planner/run with the steps of a stabilization.                    *)
Stabilize(i) ==
  /\ "operator" \in env
  /\ RoomFor("branch_stabilization", i, MaxStabilizations)
  /\ Becomes(Refreshed(Branch, "branch_stabilization", i))
  /\ UNCHANGED env

(* POST /snapshot/export.  (Only the loop asks for it.)                    *)
RegisterSnapshot ==
  /\ "loop" \in env /\ health.coverage # "fresh"
  /\ health' = [health EXCEPT !.coverage = "fresh"]
  /\ UNCHANGED <<plans, env>>

(* _snapshot_coverage_branches: whether the snapshot is older than the     *)
(* newest observation.  Where there is a recovery that is its present,     *)
(* which is observed when it is asked for: every snapshot is older.        *)
Uncovered(b) ==
  /\ BranchSummary(b.plans, b.health).health.status \in {"observe", "degraded"}
  /\ b.health.coverage = "fresh" => Recoveries(b.plans) # {}

(* reason: the branch is under pressure.                                   *)
Strained(b) == BranchGate(b.plans, b.health) \in {"restricted", "blocked"}

(* plan: the branch gets tasks of stabilization, and a recovery with them. *)
Attended(b) == Strained(b) \/ Uncovered(b) \/ b.health.coverage = "missing"

(* act, and the syncs of learn and of the status that run_cycle returns.   *)
ActedOn(b, i, r) ==
  Refreshed(Refreshed(b, "branch_stabilization", i), "recovery", r)
Cycle(i, r) ==
  /\ "loop" \in env
  /\ \/ /\ Attended(Branch)
        /\ RoomFor("branch_stabilization", i, MaxProposals)
        /\ RoomFor("recovery", r, MaxRecoveries)
        /\ Becomes(Synced(Synced(ActedOn(Branch, i, r))))
     \/ /\ ~Attended(Branch) /\ i = NoPlan /\ r = NoPlan
        /\ Becomes(Synced(Synced(Branch)))
  /\ UNCHANGED env

Next ==
  \/ StartRecovery \/ Status \/ RegisterSnapshot
  \/ \E i \in Reusable("branch_stabilization") : Stabilize(i)
  \/ \E i \in Reusable("branch_stabilization"), r \in Reusable("recovery") :
       Cycle(i, r)
  \/ \E i \in DOMAIN plans : Advance(i) \/ Take(i)
  \/ \E i \in DOMAIN plans, success \in BOOLEAN : Report(i, success)

Spec == Init /\ [][Next]_vars

---------------------------------------------------------------------------
(* Properties.                                                             *)

Now == BranchSummary(plans, health)

(* PlannerRuntime's assumption on the gate: while some recovery of the     *)
(* branch is still to be done, whichever recovery is looked at, the gate   *)
(* holds operational work back; and after one that was disrupted or        *)
(* remediated the branch is never simply open again.                       *)
GateAsAssumed ==
  LET rs == Recoveries(plans) IN
  /\ (\E r \in rs : Open(plans[r])) => Now.gate \in {"restricted", "blocked"}
  /\ rs # {} /\ (plans[Newest(rs)].disrupted > 0
                   \/ Children(plans, Newest(rs)) # {})
     => Now.gate # "open"

(* The plans of which each sync records an observation.                    *)
Watched(ps) ==
  Recoveries(ps)
    \union {i \in IdsOf(ps, "branch_stabilization") : ~Open(ps[i])}

(* "serialized while the branch is under pressure": on a branch whose gate *)
(* holds work back, recovery, remediation and stabilization get one        *)
(* assignment at a time.  The cap of a blocked gate comes only from the    *)
(* pressure that the history and the present add up to, in six records:    *)
(* so many plans may have been recorded since the one that is blocked.     *)
(* (With a sixth plan it is false: five completed stabilizations, which a  *)
(* sync records after the recovery, and the cap is two.)                   *)
PausedBranchIsSerial ==
  Now.gate \in {"restricted", "blocked"} /\ Cardinality(Watched(plans)) <= 5 =>
    \A kind \in Kinds : DispatchCap(Now.gate, Now.pressure, kind) = 1

(* A recovery does not hold a branch back for good: once everything is     *)
(* over and two stabilizations after it have completed, three after one    *)
(* that failed, operational work is admitted again, unless the recovery    *)
(* ended degraded, which asks for a manual review.  (While the loop runs   *)
(* it never comes to that: a cycle that makes a stabilization makes a      *)
(* recovery too.)                                                          *)
StabilizedBranchReopens ==
  LET since == {i \in IdsOf(plans, "branch_stabilization") :
                  \A j \in Failures(plans) \union Recoveries(plans) : j < i} IN
  /\ \A i \in DOMAIN plans : ~Open(plans[i])
  /\ Cardinality(Recoveries(plans)) = 1
  /\ Cardinality(since) >= 2 + Cardinality(Failures(plans))
  /\ Now.health.status # "degraded"
  => ~Strained(Branch)

(* The only recovery of a branch never waits for someone to advance it by  *)
(* hand: a step of it or of its remediation is with the agents, unless a   *)
(* remediation failed.  How many disruptions it may have depends on the    *)
(* pressure of the branch, which other plans move between the two syncs of *)
(* a call.  (Of two recoveries one may wait for a title the other has in   *)
(* use, and when that is free again nothing queues the step.)              *)
NothingStranded ==
  \A r \in Recoveries(plans) :
    /\ Open(plans[r]) /\ Recoveries(plans) = {r}
    /\ \A c \in Children(plans, r) : PlanStatus(plans[c]) # "failed"
    => \E i \in {r} \union Children(plans, r) :
         plans[i].state \in {"queued", "in_progress"}

(* Reading the status writes the history from which the gate is computed,  *)
(* and once there are two recoveries or stabilizations it writes both      *)
(* again.  However often and whenever it is read, the gate stays what the  *)
(* last call that changed a plan has left: these calls end with as many    *)
(* syncs as it takes for the last records to repeat themselves.            *)
ReadsDecideNothing ==
  [][plans' = plans => BranchGate(plans', health') = Now.gate]_vars

(* "expected guarded planner gate after compensated recovery": what the    *)
(* smoke test of the recovery workflow asserts.                            *)
GuardedAfterRecovery ==
  Now.health.status = "observe" /\ Recoveries(plans) # {} => Now.gate = "guarded"
=============================================================================
