------------------------ MODULE PlannerRuntimeProofs ------------------------
(***************************************************************************)
(* PlannerRuntime for plans of any shape, any number of plans and tasks    *)
(* and any calls.  What it believes: the planner is never ahead of the     *)
(* task list, and starts no step early.  What it hands to agents: no step  *)
(* twice at a time, no more steps of a plan than its limit, no operational *)
(* step while a recovery is to be done, no second remediation beside one   *)
(* that is going on, and no step of a recovery that has spent its failure  *)
(* budget before a remediation is done.                                    *)
(***************************************************************************)
EXTENDS PlannerRuntime, FiniteSetTheorems, SequenceTheorems,
        WellFoundedInduction, TLAPS

(* What a list of tasks tells of a step.                                   *)
StepTasks(ts, p, s) == {t \in DOMAIN ts : ts[t].plan = p /\ ts[t].step = s}
SettledBy(ts, f, t) ==
  \/ ts[t].status = "done"
  \/ ts[t].status = "failed" /\ ts[t].undone
       /\ Shape[f[ts[t].plan].shape].kind = "recovery"
IsSettled(ts, f, p, s) == \E t \in StepTasks(ts, p, s) : SettledBy(ts, f, t)

(* What a plan says of a step is covered by the task list, and it is       *)
(* planned only when what it waits for was settled.                        *)
StepFits(ts, f, n, p, s, step) ==
  /\ step.task # NoTask => step.task \in StepTasks(ts, p, s)
  /\ step.status = "completed" => IsSettled(ts, f, p, s)
  /\ step.status = "failed" => \E t \in StepTasks(ts, p, s) :
                                  ts[t].status = "failed"
  /\ step.status \in {"planned", "blocked"} => step.task = NoTask
  /\ step.status = "planned" =>
       \A d \in Shape[n].needs[s] : IsSettled(ts, f, p, d)

(* A remediation plan has the recovery it was made for.                    *)
FileFits(file, ts, f) ==
  /\ WellShaped(file)
  /\ \A p \in DOMAIN file : \A s \in DOMAIN file[p].steps :
       StepFits(ts, f, file[p].shape, p, s, file[p].steps[s])
  /\ \A p \in DOMAIN file :
       file[p].shape = Remediation => file[p].parent \in DOMAIN file

(* Nothing on file is missing where a kill may make it all there is.       *)
SameShapes(f, g) ==
  DOMAIN f = DOMAIN g /\ \A p \in DOMAIN f : f[p].shape = g[p].shape
FileInv ==
  /\ FileFits(plans, tasks, plans)
  /\ "crash" \in env => /\ FileFits(saved, tasks, plans)
                        /\ SameShapes(saved, plans)

(* A task is that of a step of a plan, queued when the step was due.       *)
TaskFits(ts, f, t) ==
  LET p == ts[t].plan IN
  /\ p \in DOMAIN f /\ ts[t].step \in DOMAIN f[p].steps
  /\ \A d \in Shape[f[p].shape].needs[ts[t].step] : IsSettled(ts, f, p, d)
  /\ f[p].shape = Remediation => ts[t].parent \in DOMAIN f
TasksFit(ts, f) ==
  ts \in Seq(TaskRecord) /\ \A t \in DOMAIN ts : TaskFits(ts, f, t)
TaskInv == TasksFit(tasks, plans)

(* A thread's copy is the task list as it was at some time before.         *)
CopyFits(copy, ts) ==
  /\ copy \in Seq(TaskRecord) /\ DOMAIN copy \subseteq DOMAIN ts
  /\ \A t \in DOMAIN copy :
       /\ copy[t].plan = ts[t].plan
       /\ copy[t].status # "active" => copy[t].status = ts[t].status
       /\ copy[t].status = "failed" /\ copy[t].undone => ts[t].undone
CopyInv == \A th \in Threads : CopyFits(seen[th], tasks)

(* Instructions name plans there are, steps are queued right after titles  *)
(* are read, a save comes only after what is done under the lock, an       *)
(* unlock only after a save.                                               *)
Proper(i, ids) ==
  /\ i.do = "queue" => i.plan \in ids \cup {NoPlan}
  /\ i.do \in {"post", "compensate", "activate", "progress"} => i.plan \in ids
  /\ i.do = "progress" => i.parent \in ids
Locked == {"post", "save", "unlock"}
Follows(i, j) ==
  /\ j.do # "post"
  /\ j.do = "queue" => i.do \in {"titles", "queue", "post"}
  /\ j.do = "save" => i.do \in {"queue", "post"}
  /\ j.do = "unlock" => i.do = "save"
GoodList(list, ids) ==
  /\ list \in Seq(Instruction)
  /\ \A k \in 1 .. Len(list) : Proper(list[k], ids)
  /\ \A k \in 1 .. Len(list) - 1 : Follows(list[k], list[k + 1])
Fresh(list) == list = << >> \/ list[1].do \notin Locked \cup {"queue"}
ListInv == \A th \in Threads : GoodList(todo[th], PlanIds)

(* A thread that posts, saves or unlocks has the lock, and the steps that  *)
(* it is about to post are as it found them.                               *)
Postable(f, p, s) ==
  /\ s \in DOMAIN f[p].steps
  /\ f[p].steps[s].task = NoTask /\ f[p].steps[s].status = "planned"
HeadFits(th, list, holder, f) ==
  list # << >> =>
    /\ list[1].do \in Locked => holder = th
    /\ list[1].do = "post" =>
         list[1].steps # {} /\ \A s \in list[1].steps : Postable(f, list[1].plan, s)
HeadInv == \A th \in Threads : HeadFits(th, todo[th], lock, plans)

IInv == TypeOK /\ FileInv /\ TaskInv /\ CopyInv /\ ListInv /\ HeadInv
---------------------------------------------------------------------------
(* Numbers, sequences and the constants.                                   *)

(* A set of numbers that is not empty has a least one.                     *)
LEMMA LeastIn ==
  ASSUME NEW S \in SUBSET Nat, S # {}
  PROVE  Least(S) \in S /\ \A y \in S : Least(S) <= y
<1> DEFINE below == {ss \in Nat \X Nat : ss[1] < ss[2]}
<1>1. IsWellFoundedOn(below, Nat)
  BY NatLessThanWellFounded, Zenon DEF OpToRel
<1>2. PICK n \in S : \A m \in S : ~ (<<m, n>> \in below)
  BY <1>1, WFMin
<1>3. ASSUME NEW m \in S PROVE n <= m
  <2>1. m \in Nat /\ n \in Nat
    BY S \in SUBSET Nat, n \in S, m \in S
  <2>2. ~ (m < n)
    <3> SUFFICES ASSUME m < n PROVE <<m, n>> \in below
      BY <1>2
    <3> QED BY <2>1
  <2> QED BY <2>1, <2>2
<1> QED BY <1>3 DEF Least

(* A set of plan numbers that is not empty has a newest one.               *)
LEMMA NewestIn ==
  ASSUME NEW n \in Nat, NEW S \in SUBSET (1 .. n), S # {}
  PROVE  Newest(S) \in S /\ \A y \in S : y <= Newest(S)
<1> DEFINE T == {n - x : x \in S}
<1>1. T \in SUBSET Nat /\ T # {}
  <2>1. \A x \in S : n - x \in Nat
    OBVIOUS
  <2> QED BY <2>1
<1>2. Least(T) \in T /\ \A k \in T : Least(T) <= k
  <2> HIDE DEF T
  <2> QED BY <1>1, LeastIn
<1>3. PICK x \in S : Least(T) = n - x
  BY <1>2
<1>4. \A y \in S : n - x <= n - y
  BY <1>2, <1>3
<1>5. \A y \in S : y <= x
  BY <1>4
<1> QED BY <1>5 DEF Newest

(* A function on 1 .. n is a sequence of length n.                         *)
LEMMA MakeSeq ==
  ASSUME NEW S, NEW n \in Nat, NEW f \in [1 .. n -> S]
  PROVE  f \in Seq(S) /\ Len(f) = n
OBVIOUS

(* The steps of a plan are numbered, and wait for steps of the plan.       *)
LEMMA Shapes ==
  ASSUME NEW n \in Names
  PROVE  /\ StepsOf(n) \in SUBSET Nat /\ IsFiniteSet(StepsOf(n))
         /\ StepsOf(n) = 1 .. Len(Shape[n].needs) /\ Len(Shape[n].needs) \in Nat
         /\ \A s \in StepsOf(n) : Shape[n].needs[s] \subseteq StepsOf(n)
         /\ Shape[n].replay \subseteq StepsOf(n)
<1>1. Shape[n].needs \in Seq(SUBSET Nat)
  BY PlannerAssumption
<1>2. StepsOf(n) = 1 .. Len(Shape[n].needs) /\ Len(Shape[n].needs) \in Nat
  BY <1>1, LenProperties DEF StepsOf
<1>3. IsFiniteSet(1 .. Len(Shape[n].needs))
  BY <1>2, FS_Interval
<1>4. StepsOf(n) \in SUBSET Nat
  BY <1>2
<1> QED BY <1>2, <1>3, <1>4, PlannerAssumption

(* A behaviour has a kill or a fault, not both.                            *)
LEMMA NotBoth ==
  ASSUME NEW e \in Envs, "crash" \in e
  PROVE  "fault" \notin e
<1> SUFFICES ASSUME "fault" \in e PROVE FALSE
  OBVIOUS
<1> DEFINE Three == {"crash", "fault", "compensation"}
<1>1. IsFiniteSet(Three)
  <2>1. IsFiniteSet({"crash"} \cup {"fault"})
    BY FS_Singleton, FS_AddElement
  <2>2. IsFiniteSet(({"crash"} \cup {"fault"}) \cup {"compensation"})
    BY <2>1, FS_AddElement
  <2>3. ({"crash"} \cup {"fault"}) \cup {"compensation"} = Three
    OBVIOUS
  <2> QED BY <2>2, <2>3
<1>2. IsFiniteSet(e \cap Three) /\ {"crash", "fault"} \subseteq e \cap Three
  <2>1. e \cap Three \subseteq Three
    OBVIOUS
  <2> QED BY <1>1, <2>1, FS_Subset
<1>3. Cardinality({"crash", "fault"}) = 2
  <2>2. IsFiniteSet({"crash"}) /\ Cardinality({"crash"}) = 1
    BY FS_Singleton
  <2>3. Cardinality({"crash"} \cup {"fault"}) = 2
    <3>1. Cardinality({"crash"} \cup {"fault"}) = Cardinality({"crash"}) + 1
      <4>1. "fault" \notin {"crash"}
        OBVIOUS
      <4> QED BY <2>2, <4>1, FS_AddElement
    <3> QED BY <3>1, <2>2
  <2>4. {"crash"} \cup {"fault"} = {"crash", "fault"}
    OBVIOUS
  <2> QED BY <2>3, <2>4
<1>4. Cardinality({"crash", "fault"}) <= Cardinality(e \cap Three)
  BY <1>2, FS_Subset
<1>5. Cardinality(e \cap Three) <= 1
  BY PlannerAssumption
<1>6. Cardinality(e \cap Three) \in Nat
  BY <1>2, FS_CardinalityType
<1> QED BY <1>3, <1>4, <1>5, <1>6
---------------------------------------------------------------------------
(* Lists of instructions.                                                  *)

(* Executing the first instruction of a list leaves a good list.           *)
LEMMA GoodTail ==
  ASSUME NEW ids, NEW list, GoodList(list, ids), list # << >>
  PROVE  /\ GoodList(Tail(list), ids)
         /\ Head(list) = list[1] /\ list[1] \in Instruction /\ Proper(list[1], ids)
         /\ Tail(list) # << >> => Follows(list[1], Tail(list)[1])
         /\ list[1].do \notin {"titles", "queue", "post", "save"} => Fresh(Tail(list))
<1>1. list \in Seq(Instruction) /\ Len(list) \in Nat /\ Len(list) >= 1
  BY LenProperties, EmptySeq DEF GoodList
<1>2. /\ Tail(list) \in Seq(Instruction) /\ Len(Tail(list)) = Len(list) - 1
      /\ \A i \in 1 .. Len(Tail(list)) : Tail(list)[i] = list[i + 1]
  BY <1>1, HeadTailProperties
<1>3. \A k \in 1 .. Len(Tail(list)) : Proper(Tail(list)[k], ids)
  <2> SUFFICES ASSUME NEW k \in 1 .. Len(Tail(list)) PROVE Proper(Tail(list)[k], ids)
    OBVIOUS
  <2>1. k + 1 \in 1 .. Len(list) /\ Tail(list)[k] = list[k + 1]
    BY <1>1, <1>2
  <2> QED BY <2>1 DEF GoodList
<1>4. \A k \in 1 .. Len(Tail(list)) - 1 : Follows(Tail(list)[k], Tail(list)[k + 1])
  <2> SUFFICES ASSUME NEW k \in 1 .. Len(Tail(list)) - 1
               PROVE  Follows(Tail(list)[k], Tail(list)[k + 1])
    OBVIOUS
  <2>1. k + 1 \in 1 .. Len(list) - 1 /\ k \in 1 .. Len(Tail(list))
          /\ k + 1 \in 1 .. Len(Tail(list))
    BY <1>1, <1>2
  <2>2. Tail(list)[k] = list[k + 1] /\ Tail(list)[k + 1] = list[(k + 1) + 1]
    BY <1>2, <2>1
  <2> QED BY <2>1, <2>2 DEF GoodList
<1>5. Head(list) = list[1] /\ list[1] \in Instruction /\ Proper(list[1], ids)
  <2>1. 1 \in 1 .. Len(list)
    BY <1>1
  <2> QED BY <1>1, <2>1, ElementOfSeq DEF GoodList
<1>6. ASSUME Tail(list) # << >> PROVE Follows(list[1], Tail(list)[1])
  <2>1. Len(Tail(list)) >= 1
    BY <1>2, <1>6, EmptySeq
  <2>2. 1 \in 1 .. Len(list) - 1 /\ 1 \in 1 .. Len(Tail(list))
    BY <1>1, <1>2, <2>1
  <2>3. Tail(list)[1] = list[1 + 1]
    BY <1>2, <2>2
  <2> QED BY <2>2, <2>3 DEF GoodList
<1>7. GoodList(Tail(list), ids)
  BY <1>2, <1>3, <1>4 DEF GoodList
<1> QED BY <1>5, <1>6, <1>7 DEF Fresh, Follows, Locked

(* A good list may be put before another one that follows its last one.    *)
LEMMA GoodConcat ==
  ASSUME NEW ids, NEW a, NEW b, GoodList(a, ids), GoodList(b, ids), a # << >>,
         b # << >> => Follows(a[Len(a)], b[1])
  PROVE  GoodList(a \o b, ids) /\ a \o b # << >> /\ (a \o b)[1] = a[1]
<1>1. /\ a \in Seq(Instruction) /\ Len(a) \in Nat /\ Len(a) >= 1
      /\ b \in Seq(Instruction) /\ Len(b) \in Nat
  BY LenProperties, EmptySeq DEF GoodList
<1> DEFINE c == a \o b
<1>2. /\ c \in Seq(Instruction) /\ Len(c) = Len(a) + Len(b)
      /\ \A i \in 1 .. Len(a) + Len(b) : c[i] = IF i <= Len(a) THEN a[i] ELSE b[i - Len(a)]
  BY <1>1, ConcatProperties
<1> HIDE DEF c
<1>3. \A k \in 1 .. Len(c) : Proper(c[k], ids)
  <2> SUFFICES ASSUME NEW k \in 1 .. Len(c) PROVE Proper(c[k], ids)
    OBVIOUS
  <2>1. CASE k <= Len(a)
    <3>1. k \in 1 .. Len(a) /\ c[k] = a[k]
      BY <1>1, <1>2, <2>1
    <3> QED BY <3>1 DEF GoodList
  <2>2. CASE ~ (k <= Len(a))
    <3>1. k - Len(a) \in 1 .. Len(b) /\ c[k] = b[k - Len(a)]
      BY <1>1, <1>2, <2>2
    <3> QED BY <3>1 DEF GoodList
  <2> QED BY <2>1, <2>2
<1>4. \A k \in 1 .. Len(c) - 1 : Follows(c[k], c[k + 1])
  <2> SUFFICES ASSUME NEW k \in 1 .. Len(c) - 1 PROVE Follows(c[k], c[k + 1])
    OBVIOUS
  <2>0. k \in 1 .. Len(a) + Len(b) /\ k + 1 \in 1 .. Len(a) + Len(b)
    BY <1>1, <1>2
  <2>1. CASE k < Len(a)
    <3>1. k \in 1 .. Len(a) - 1 /\ c[k] = a[k] /\ c[k + 1] = a[k + 1]
      BY <1>1, <1>2, <2>0, <2>1
    <3> QED BY <3>1 DEF GoodList
  <2>2. CASE k = Len(a)
    <3>1. c[k] = a[Len(a)] /\ c[k + 1] = b[1] /\ Len(b) # 0
      <4>1. c[k + 1] = b[k + 1 - Len(a)] /\ k + 1 - Len(a) = 1
        BY <1>1, <1>2, <2>0, <2>2
      <4> QED BY <1>1, <1>2, <2>0, <2>2, <4>1
    <3>2. b # << >>
      BY <3>1
    <3> QED BY <3>1, <3>2
  <2>3. CASE k > Len(a)
    <3>1. k - Len(a) \in 1 .. Len(b) - 1
            /\ c[k] = b[k - Len(a)] /\ c[k + 1] = b[(k - Len(a)) + 1]
      <4>1. c[k + 1] = b[k + 1 - Len(a)] /\ k + 1 - Len(a) = (k - Len(a)) + 1
        BY <1>1, <1>2, <2>0, <2>3
      <4> QED BY <1>1, <1>2, <2>0, <2>3, <4>1
    <3> QED BY <3>1 DEF GoodList
  <2> QED BY <1>1, <2>1, <2>2, <2>3
<1>5. c # << >> /\ c[1] = a[1]
  <2>1. Len(c) >= 1 /\ 1 \in 1 .. Len(a) + Len(b) /\ 1 <= Len(a)
    BY <1>1, <1>2
  <2> QED BY <1>2, <2>1, EmptySeq
<1>6. GoodList(c, ids)
  BY <1>2, <1>3, <1>4 DEF GoodList
<1> QED BY <1>5, <1>6 DEF c

(* Anything may be put before a list that neither posts, saves nor unlocks *)
(* first.                                                                  *)
LEMMA GoodBeforeFresh ==
  ASSUME NEW ids, NEW a, NEW b, GoodList(a, ids), GoodList(b, ids), a # << >>,
         Fresh(a), Fresh(b)
  PROVE  GoodList(a \o b, ids) /\ a \o b # << >> /\ Fresh(a \o b)
<1>1. b # << >> => Follows(a[Len(a)], b[1])
  BY DEF Fresh, Follows, Locked
<1>2. GoodList(a \o b, ids) /\ a \o b # << >> /\ (a \o b)[1] = a[1]
  BY <1>1, GoodConcat
<1> QED BY <1>2 DEF Fresh

(* A good list stays good when plans are added.                            *)
LEMMA GoodGrows ==
  ASSUME NEW ids, NEW more, ids \subseteq more, NEW list, GoodList(list, ids)
  PROVE  GoodList(list, more)
BY DEF GoodList, Proper

(* The calls' lists are good.                                              *)
LEMMA SyncGood ==
  ASSUME NEW ids
  PROVE  GoodList(Sync, ids) /\ Fresh(Sync) /\ Sync # << >>
<1>1. Sync \in Seq(Instruction) /\ Len(Sync) = 2
  BY DEF Sync, Do, Instruction, NoPlan
<1>2. Sync[1].do = "read" /\ Sync[2].do = "apply"
  BY DEF Sync, Do
<1>3. \A k \in 1 .. 2 : Proper(Sync[k], ids)
  <2>1. \A k \in 1 .. 2 : k = 1 \/ k = 2
    OBVIOUS
  <2> QED BY <1>2, <2>1 DEF Proper
<1>4. \A k \in 1 .. 1 : Follows(Sync[k], Sync[k + 1])
  <2>1. \A k \in 1 .. 1 : k = 1 /\ k + 1 = 2
    OBVIOUS
  <2> QED BY <1>2, <2>1 DEF Follows
<1>5. Sync # << >>
  BY <1>1
<1> QED BY <1>1, <1>2, <1>3, <1>4, <1>5 DEF GoodList, Fresh, Locked

(* execute_ready_steps, as a list, may be begun at any time.               *)
LEMMA ExecuteGood ==
  ASSUME NEW ids \in SUBSET Nat, NEW p \in ids \cup {NoPlan}
  PROVE  GoodList(Execute(p), ids) /\ Fresh(Execute(p)) /\ Execute(p) # << >>
<1> DEFINE mid == <<Do("titles", NoPlan), Do("queue", p), Do("save", NoPlan),
                    Do("unlock", NoPlan)>>
<1>1. mid \in Seq(Instruction) /\ Len(mid) = 4
  BY DEF Do, Instruction, NoPlan
<1>0. mid # << >>
  OBVIOUS
<1>2. /\ mid[1].do = "titles" /\ mid[2].do = "queue" /\ mid[2].plan = p
      /\ mid[3].do = "save" /\ mid[4].do = "unlock"
  BY DEF Do
<1> HIDE DEF mid
<1>3. \A k \in 1 .. 4 : Proper(mid[k], ids)
  <2>1. \A k \in 1 .. 4 : k = 1 \/ k = 2 \/ k = 3 \/ k = 4
    OBVIOUS
  <2> QED BY <1>2, <2>1 DEF Proper
<1>4. \A k \in 1 .. 3 : Follows(mid[k], mid[k + 1])
  <2>1. \A k \in 1 .. 3 : k = 1 \/ k = 2 \/ k = 3
    OBVIOUS
  <2>2. 1 + 1 = 2 /\ 2 + 1 = 3 /\ 3 + 1 = 4
    OBVIOUS
  <2> QED BY <1>2, <2>1, <2>2 DEF Follows
<1>5. GoodList(mid, ids) /\ Fresh(mid) /\ mid # << >>
  BY <1>0, <1>1, <1>2, <1>3, <1>4 DEF GoodList, Fresh, Locked
<1>6. GoodList(mid \o Sync, ids) /\ Fresh(mid \o Sync)
  BY <1>5, SyncGood, GoodBeforeFresh
<1>7. GoodList(Sync \o (mid \o Sync), ids) /\ Fresh(Sync \o (mid \o Sync))
        /\ Sync \o (mid \o Sync) # << >>
  BY <1>6, SyncGood, GoodBeforeFresh
<1>8. Sync \o (mid \o Sync) = (Sync \o mid) \o Sync
  BY <1>5, SyncGood, ConcatAssociative DEF GoodList
<1>9. Execute(p) = (Sync \o mid) \o Sync
  BY DEF Execute, mid
<1> QED BY <1>7, <1>8, <1>9

(* So may advance_recovery_workflow.                                       *)
LEMMA AdvanceGood ==
  ASSUME NEW ids \in SUBSET Nat, NEW p \in ids
  PROVE  GoodList(Advance(p), ids) /\ Fresh(Advance(p)) /\ Advance(p) # << >>
<1> DEFINE rest == <<Do("compensate", p), Do("activate", p)>>
<1>1. rest \in Seq(Instruction) /\ Len(rest) = 2
  BY DEF Do, Instruction, NoPlan
<1>2. /\ rest[1].do = "compensate" /\ rest[1].plan = p
      /\ rest[2].do = "activate" /\ rest[2].plan = p
  BY DEF Do
<1> HIDE DEF rest
<1>3. \A k \in 1 .. 2 : Proper(rest[k], ids)
  <2>1. \A k \in 1 .. 2 : k = 1 \/ k = 2
    OBVIOUS
  <2> QED BY <1>2, <2>1 DEF Proper
<1>4. \A k \in 1 .. 1 : Follows(rest[k], rest[k + 1])
  <2>1. \A k \in 1 .. 1 : k = 1 /\ k + 1 = 2
    OBVIOUS
  <2> QED BY <1>2, <2>1 DEF Follows
<1>5. GoodList(rest, ids) /\ Fresh(rest)
  BY <1>1, <1>2, <1>3, <1>4 DEF GoodList, Fresh, Locked
<1> QED BY <1>5, SyncGood, GoodBeforeFresh DEF Advance, rest
---------------------------------------------------------------------------
(* What lasts: tasks are added and reported, plans are added.              *)

GrowTasks(ts, us) ==
  /\ DOMAIN ts \subseteq DOMAIN us
  /\ \A t \in DOMAIN ts :
       /\ us[t].plan = ts[t].plan /\ us[t].step = ts[t].step
       /\ us[t].parent = ts[t].parent
       /\ ts[t].status # "active" => us[t].status = ts[t].status
       /\ ts[t].status = "failed" /\ ts[t].undone => us[t].undone
GrowPlans(f, g) ==
  DOMAIN f \subseteq DOMAIN g /\ \A p \in DOMAIN f : g[p].shape = f[p].shape

(* What is settled stays settled.                                          *)
LEMMA SettledStays ==
  ASSUME NEW ts, NEW us, NEW f, NEW g, TasksFit(ts, f), GrowTasks(ts, us),
         GrowPlans(f, g), NEW p, NEW s
  PROVE  /\ StepTasks(ts, p, s) \subseteq StepTasks(us, p, s)
         /\ IsSettled(ts, f, p, s) => IsSettled(us, g, p, s)
<1>1. StepTasks(ts, p, s) \subseteq StepTasks(us, p, s)
  BY DEF StepTasks, GrowTasks
<1>2. ASSUME NEW t \in StepTasks(ts, p, s), SettledBy(ts, f, t)
      PROVE  SettledBy(us, g, t)
  <2>1. t \in DOMAIN ts /\ ts[t].plan \in DOMAIN f
    BY DEF StepTasks, TasksFit, TaskFits
  <2>2. g[us[t].plan].shape = f[ts[t].plan].shape
    BY <2>1 DEF GrowTasks, GrowPlans
  <2> QED BY <1>2, <2>1, <2>2 DEF SettledBy, GrowTasks
<1> QED BY <1>1, <1>2 DEF IsSettled

(* What a plan says of a step stays covered.                               *)
LEMMA FitsStays ==
  ASSUME NEW ts, NEW us, NEW f, NEW g, TasksFit(ts, f), GrowTasks(ts, us),
         GrowPlans(f, g), NEW n, NEW p, NEW s, NEW step,
         StepFits(ts, f, n, p, s, step)
  PROVE  StepFits(us, g, n, p, s, step)
<1>1. StepTasks(ts, p, s) \subseteq StepTasks(us, p, s)
  BY SettledStays
<1>2. \A d : IsSettled(ts, f, p, d) => IsSettled(us, g, p, d)
  BY SettledStays
<1>3. \A t \in StepTasks(ts, p, s) :
        ts[t].status = "failed" => us[t].status = "failed"
  BY DEF StepTasks, GrowTasks
<1> QED BY <1>1, <1>2, <1>3 DEF StepFits

(* A file stays covered when tasks and plans grow.                         *)
LEMMA FileStays ==
  ASSUME NEW ts, NEW us, NEW f, NEW g, TasksFit(ts, f), GrowTasks(ts, us),
         GrowPlans(f, g), NEW file, FileFits(file, ts, f)
  PROVE  FileFits(file, us, g)
<1>1. \A p \in DOMAIN file : \A s \in DOMAIN file[p].steps :
        StepFits(us, g, file[p].shape, p, s, file[p].steps[s])
  BY FitsStays DEF FileFits
<1> QED BY <1>1 DEF FileFits

(* A task stays that of a step that was due.                               *)
LEMMA TaskStays ==
  ASSUME NEW ts, NEW us, NEW f, NEW g, TasksFit(ts, f), GrowTasks(ts, us),
         GrowPlans(f, g), WellShaped(f), WellShaped(g), NEW t \in DOMAIN ts
  PROVE  TaskFits(us, g, t)
<1> DEFINE p == ts[t].plan
           s == ts[t].step
<1>1. TaskFits(ts, f, t) /\ us[t].plan = p /\ us[t].step = s
        /\ us[t].parent = ts[t].parent
  BY DEF TasksFit, GrowTasks
<1>2. p \in DOMAIN f /\ s \in DOMAIN f[p].steps
  BY <1>1 DEF TaskFits
<1>3. p \in DOMAIN g /\ g[p].shape = f[p].shape /\ s \in DOMAIN g[p].steps
  BY <1>2 DEF GrowPlans, WellShaped
<1>4. \A d \in Shape[g[p].shape].needs[s] : IsSettled(us, g, p, d)
  <2>1. \A d \in Shape[f[p].shape].needs[s] : IsSettled(ts, f, p, d)
    BY <1>1 DEF TaskFits
  <2>2. \A d : IsSettled(ts, f, p, d) => IsSettled(us, g, p, d)
    BY SettledStays
  <2> QED BY <1>3, <2>1, <2>2
<1>5. g[p].shape = Remediation => us[t].parent \in DOMAIN g
  BY <1>1, <1>2, <1>3 DEF TaskFits, GrowPlans
<1> HIDE DEF p, s
<1> QED BY <1>1, <1>3, <1>4, <1>5 DEF TaskFits

(* A copy of the task list stays a past one.                               *)
LEMMA CopyStays ==
  ASSUME NEW ts, NEW us, GrowTasks(ts, us), NEW copy, CopyFits(copy, ts)
  PROVE  CopyFits(copy, us)
BY DEF CopyFits, GrowTasks

(* When the tasks stay and plans of the same shape take the place of plans *)
(* every task still fits.                                                  *)
LEMMA SameTasksFit ==
  ASSUME NEW ts, NEW f, NEW g, TasksFit(ts, f), GrowPlans(f, g), WellShaped(f),
         WellShaped(g)
  PROVE  GrowTasks(ts, ts) /\ TasksFit(ts, g)
<1>1. GrowTasks(ts, ts)
  BY DEF GrowTasks
<1>2. \A t \in DOMAIN ts : TaskFits(ts, g, t)
  BY <1>1, TaskStays
<1> QED BY <1>1, <1>2 DEF TasksFit
---------------------------------------------------------------------------
(* What the steps of calls have in common.                                 *)

(* What every step keeps.                                                  *)
Kept == IInv' /\ GrowTasks(tasks, tasks') /\ GrowPlans(plans, plans')

(* A step of a thread: the others' calls stay as they are, a copy is       *)
(* dropped or taken, and who holds the lock is not disturbed.              *)
LEMMA Preserve ==
  ASSUME IInv, NEW th \in Threads, NEW list, NEW copy \in {<< >>, tasks, seen[th]},
         env' = env, disturbed' \in BOOLEAN,
         titles' \in [Threads -> SUBSET AllTitles],
         lock' \in Threads \cup {Nobody},
         FileFits(plans', tasks', plans'), TasksFit(tasks', plans'),
         GrowTasks(tasks, tasks'), GrowPlans(plans, plans'),
         \/ saved' = plans'
         \/ saved' = saved /\ ("crash" \in env => SameShapes(plans, plans')),
         seen' = [seen EXCEPT ![th] = copy],
         todo' = [todo EXCEPT ![th] = list], GoodList(list, PlanIds'),
         HeadFits(th, list, lock', plans'),
         \A u \in Threads \ {th} : lock = u => lock' = u /\ plans' = plans
  PROVE  Kept
<1>1. TypeOK /\ FileInv /\ TaskInv /\ CopyInv /\ ListInv /\ HeadInv
  BY DEF IInv
<1>2. WellShaped(plans') /\ tasks' \in Seq(TaskRecord)
  BY DEF FileFits, TasksFit
<1>3. FileInv'
  <2>1. ASSUME "crash" \in env'
        PROVE  FileFits(saved', tasks', plans') /\ SameShapes(saved', plans')
    <3>1. CASE saved' = plans'
      BY <3>1 DEF SameShapes
    <3>2. CASE saved' = saved /\ SameShapes(plans, plans')
      <4>1. FileFits(saved, tasks, plans) /\ SameShapes(saved, plans)
        BY <1>1, <2>1 DEF FileInv
      <4>2. FileFits(saved, tasks', plans')
        BY <1>1, <4>1, FileStays DEF TaskInv
      <4> QED BY <3>2, <4>1, <4>2 DEF SameShapes
    <3> QED BY <2>1, <3>1, <3>2
  <2> QED BY <2>1 DEF FileInv
<1>4. TaskInv'
  BY DEF TaskInv
<1>5. CopyInv'
  <2>1. CopyFits(copy, tasks)
    <3>1. CASE copy = << >>
      BY <3>1 DEF CopyFits
    <3>2. CASE copy = tasks
      BY <1>1, <3>2 DEF CopyFits, TypeOK
    <3>3. CASE copy = seen[th]
      BY <1>1, <3>3 DEF CopyInv
    <3> QED BY <3>1, <3>2, <3>3
  <2>2. \A u \in Threads : CopyFits(seen'[u], tasks)
    BY <1>1, <2>1 DEF CopyInv, TypeOK
  <2>3. \A u \in Threads : CopyFits(seen'[u], tasks')
    BY <2>2, CopyStays
  <2> QED BY <2>3 DEF CopyInv
<1>6. ListInv'
  <2>1. \A u \in Threads \ {th} : todo'[u] = todo[u] /\ GoodList(todo[u], PlanIds)
    BY <1>1 DEF ListInv, TypeOK
  <2>2. todo'[th] = list
    BY <1>1 DEF TypeOK
  <2>3. PlanIds \subseteq PlanIds'
    BY DEF GrowPlans, PlanIds
  <2>4. \A u \in Threads \ {th} : GoodList(todo'[u], PlanIds')
    BY <2>1, <2>3, GoodGrows
  <2>5. \A u \in Threads : GoodList(todo'[u], PlanIds')
    BY <2>2, <2>4
  <2> QED BY <2>5 DEF ListInv
<1>7. HeadInv'
  <2>1. ASSUME NEW u \in Threads PROVE HeadFits(u, todo'[u], lock', plans')
    <3>1. CASE u = th
      BY <1>1, <3>1 DEF TypeOK
    <3>2. CASE u # th
      <4>1. todo'[u] = todo[u] /\ HeadFits(u, todo[u], lock, plans)
        BY <1>1, <3>2 DEF HeadInv, TypeOK
      <4>2. lock = u => lock' = u /\ plans' = plans
        BY <3>2
      <4> QED BY <4>1, <4>2 DEF HeadFits, Locked
    <3> QED BY <3>1, <3>2
  <2> QED BY <2>1 DEF HeadInv
<1>8. TypeOK'
  <2>1. WellShaped(saved')
    BY <1>1, <1>2 DEF TypeOK
  <2>2. todo' \in [Threads -> Seq(Instruction)]
    <3>1. list \in Seq(Instruction)
      BY DEF GoodList
    <3>2. todo \in [Threads -> Seq(Instruction)]
      BY <1>1 DEF TypeOK
    <3> QED BY <3>1, <3>2
  <2>3. seen' \in [Threads -> Seq(TaskRecord)]
    <3>1. \A u \in Threads : seen'[u] \in Seq(TaskRecord)
      BY <1>5 DEF CopyInv, CopyFits
    <3>2. seen \in [Threads -> Seq(TaskRecord)]
      BY <1>1 DEF TypeOK
    <3>3. seen' = [u \in Threads |-> seen'[u]]
      BY <3>2
    <3> QED BY <3>1, <3>3
  <2>4. env' \in Envs
    BY <1>1 DEF TypeOK
  <2> QED BY <1>2, <2>1, <2>2, <2>3, <2>4 DEF TypeOK
<1>9. IInv'
  BY <1>3, <1>4, <1>5, <1>6, <1>7, <1>8 DEF IInv
<1> QED BY <1>9 DEF Kept

(* Steps that change neither plans nor tasks.                              *)
LEMMA Quiet ==
  ASSUME IInv, NEW th \in Threads, NEW list, NEW copy \in {<< >>, tasks, seen[th]},
         UNCHANGED <<plans, tasks, env>>, disturbed' \in BOOLEAN,
         titles' \in [Threads -> SUBSET AllTitles],
         lock' \in Threads \cup {Nobody},
         saved' = plans' \/ saved' = saved,
         seen' = [seen EXCEPT ![th] = copy],
         todo' = [todo EXCEPT ![th] = list], GoodList(list, PlanIds),
         HeadFits(th, list, lock', plans),
         \A u \in Threads \ {th} : lock = u => lock' = u
  PROVE  Kept
<1>1. FileFits(plans, tasks, plans) /\ TasksFit(tasks, plans)
  BY DEF IInv, FileInv, TaskInv
<1>2. FileFits(plans', tasks', plans') /\ TasksFit(tasks', plans')
  BY <1>1
<1>3. GrowTasks(tasks, tasks') /\ GrowPlans(plans, plans') /\ SameShapes(plans, plans')
  BY DEF GrowTasks, GrowPlans, SameShapes
<1>4. GoodList(list, PlanIds') /\ HeadFits(th, list, lock', plans')
  BY DEF PlanIds
<1>5. \A u \in Threads \ {th} : lock = u => lock' = u /\ plans' = plans
  OBVIOUS
<1> QED BY <1>2, <1>3, <1>4, <1>5, Preserve

(* What is left of a call after an instruction that is not one of those    *)
(* under the lock.                                                         *)
LEMMA Rest ==
  ASSUME IInv, NEW th \in Threads, ~Idle(th)
  PROVE  /\ todo[th] # << >> /\ Head(todo[th]) = todo[th][1]
         /\ todo[th][1] \in Instruction /\ Proper(todo[th][1], PlanIds)
         /\ GoodList(todo[th], PlanIds) /\ GoodList(Tail(todo[th]), PlanIds)
         /\ Tail(todo[th]) # << >> => Follows(todo[th][1], Tail(todo[th])[1])
         /\ todo[th][1].do \notin {"titles", "queue", "post", "save"} =>
              Fresh(Tail(todo[th]))
         /\ HeadFits(th, todo[th], lock, plans)
<1>1. GoodList(todo[th], PlanIds) /\ todo[th] # << >>
  BY DEF IInv, ListInv, Idle
<1>2. HeadFits(th, todo[th], lock, plans)
  BY DEF IInv, HeadInv
<1> QED BY <1>1, <1>2, GoodTail

(* A list whose first instruction is not a post asks nothing of the lock.  *)
LEMMA FreshFits ==
  ASSUME NEW th, NEW list, Fresh(list), NEW holder, NEW f
  PROVE  HeadFits(th, list, holder, f)
BY DEF Fresh, HeadFits, Locked

(* A call that has ended.                                                  *)
LEMMA EmptyList ==
  ASSUME NEW ids
  PROVE  GoodList(<< >>, ids) /\ Fresh(<< >>)
BY DEF GoodList, Fresh
---------------------------------------------------------------------------
(* What the steps write.                                                   *)

(* The plans in memory are plans, and their steps those of their shapes.   *)
LEMMA PlanFacts ==
  ASSUME IInv
  PROVE  /\ PlanIds = 1 .. Len(plans) /\ Len(plans) \in Nat /\ PlanIds \in SUBSET Nat
         /\ \A p \in PlanIds :
              /\ plans[p] \in PlanRecord /\ plans[p].shape \in Names
              /\ Steps(p) = StepsOf(plans[p].shape) /\ Steps(p) \in SUBSET Nat
              /\ Steps(p) = 1 .. Len(Needs(p)) /\ Len(Needs(p)) \in Nat
              /\ Needs(p) = Shape[plans[p].shape].needs
              /\ \A s \in Steps(p) : plans[p].steps[s] \in StepRecord
<1>1. plans \in Seq(PlanRecord)
      /\ \A p \in PlanIds : DOMAIN plans[p].steps = StepsOf(plans[p].shape)
  BY DEF IInv, FileInv, FileFits, WellShaped, PlanIds
<1>2. PlanIds = 1 .. Len(plans) /\ Len(plans) \in Nat
  BY <1>1, LenProperties DEF PlanIds
<1>3. ASSUME NEW p \in PlanIds
      PROVE  /\ plans[p] \in PlanRecord /\ plans[p].shape \in Names
             /\ Steps(p) = StepsOf(plans[p].shape) /\ Steps(p) \in SUBSET Nat
             /\ Steps(p) = 1 .. Len(Needs(p)) /\ Len(Needs(p)) \in Nat
             /\ Needs(p) = Shape[plans[p].shape].needs
             /\ \A s \in Steps(p) : plans[p].steps[s] \in StepRecord
  <2>1. plans[p] \in PlanRecord
    BY <1>1, <1>2, ElementOfSeq
  <2>2. plans[p].shape \in Names /\ plans[p].steps \in Seq(StepRecord)
    BY <2>1 DEF PlanRecord
  <2>3. Steps(p) = StepsOf(plans[p].shape) /\ Needs(p) = Shape[plans[p].shape].needs
    BY <1>1 DEF Steps, Needs
  <2>4. Steps(p) = 1 .. Len(Needs(p)) /\ Len(Needs(p)) \in Nat /\ Steps(p) \in SUBSET Nat
    BY <2>2, <2>3, Shapes
  <2>5. \A s \in Steps(p) : plans[p].steps[s] \in StepRecord
    <3>1. Steps(p) = 1 .. Len(plans[p].steps)
      BY <2>2, LenProperties DEF Steps
    <3> QED BY <2>2, <3>1, ElementOfSeq
  <2> QED BY <2>1, <2>2, <2>3, <2>4, <2>5
<1> QED BY <1>2, <1>3

(* A plan may be replaced by one of its shape whose new steps fit.         *)
LEMMA ReplaceFits ==
  ASSUME NEW ts, NEW us, NEW f, TasksFit(ts, f), FileFits(f, ts, f), GrowTasks(ts, us),
         NEW p \in DOMAIN f, NEW r \in PlanRecord,
         r.shape = f[p].shape, DOMAIN r.steps = DOMAIN f[p].steps,
         r.shape = Remediation => r.parent \in DOMAIN f,
         \A s \in DOMAIN r.steps :
           r.steps[s] = f[p].steps[s] \/ StepFits(us, f, r.shape, p, s, r.steps[s])
  PROVE  LET g == [f EXCEPT ![p] = r]
         IN  FileFits(g, us, g) /\ SameShapes(f, g) /\ GrowPlans(f, g)
<1> DEFINE g == [f EXCEPT ![p] = r]
<1>1. f \in Seq(PlanRecord) /\ p \in 1 .. Len(f)
  BY LenProperties DEF FileFits, WellShaped
<1>2. g \in Seq(PlanRecord) /\ DOMAIN g = DOMAIN f
  BY <1>1, ExceptSeq
<1>3. g[p] = r /\ \A q \in DOMAIN f : q # p => g[q] = f[q]
  OBVIOUS
<1> HIDE DEF g
<1>4. SameShapes(f, g) /\ GrowPlans(f, g)
  BY <1>2, <1>3 DEF SameShapes, GrowPlans
<1>5. \A q \in DOMAIN f : \A s \in DOMAIN f[q].steps :
        StepFits(us, g, f[q].shape, q, s, f[q].steps[s])
  <2>1. FileFits(f, us, g)
    BY <1>4, FileStays
  <2> QED BY <2>1 DEF FileFits
<1>6. ASSUME NEW q \in DOMAIN g, NEW s \in DOMAIN g[q].steps
      PROVE  StepFits(us, g, g[q].shape, q, s, g[q].steps[s])
  <2>1. CASE q # p \/ r.steps[s] = f[p].steps[s]
    BY <1>2, <1>3, <1>5, <2>1
  <2>2. CASE q = p /\ r.steps[s] # f[p].steps[s]
    <3>1. StepFits(us, f, r.shape, p, s, r.steps[s])
      BY <1>3, <2>2
    <3>2. TasksFit(ts, f) /\ GrowTasks(us, us) /\ GrowPlans(f, g)
      BY <1>4 DEF GrowTasks
    <3>3. ASSUME NEW d, IsSettled(us, f, p, d) PROVE IsSettled(us, g, p, d)
      <4>1. PICK t \in StepTasks(us, p, d) : SettledBy(us, f, t)
        BY <3>3 DEF IsSettled
      <4>2. us[t].plan = p /\ g[p].shape = f[p].shape
        BY <1>3 DEF StepTasks
      <4> QED BY <4>1, <4>2 DEF IsSettled, SettledBy
    <3>4. StepFits(us, g, r.shape, p, s, r.steps[s])
      BY <3>1, <3>3 DEF StepFits
    <3> QED BY <1>3, <2>2, <3>4
  <2> QED BY <2>1, <2>2
<1>7. ASSUME NEW q \in DOMAIN g
      PROVE  /\ DOMAIN g[q].steps = StepsOf(g[q].shape)
             /\ g[q].shape = Remediation => g[q].parent \in DOMAIN g
  BY <1>2, <1>3 DEF FileFits, WellShaped
<1>8. FileFits(g, us, g)
  BY <1>2, <1>6, <1>7 DEF FileFits, WellShaped
<1> QED BY <1>4, <1>8 DEF g

(* What a copy of the task list tells of a step is so.                     *)
LEMMA ReportedTrue ==
  ASSUME IInv, NEW copy, CopyFits(copy, tasks), NEW p \in PlanIds, NEW s \in Steps(p)
  PROVE  /\ Reported(copy, p, s) \in {"planned", "blocked", "active", "completed", "failed"}
         /\ Reported(copy, p, s) = "completed" => IsSettled(tasks, plans, p, s)
         /\ Reported(copy, p, s) = "failed" =>
              \E t \in StepTasks(tasks, p, s) : tasks[t].status = "failed"
         /\ plans[p].steps[s].task # NoTask =>
              Reported(copy, p, s) \in {"active", "completed", "failed"}
<1> DEFINE t == plans[p].steps[s].task
<1>1. plans[p].steps[s] \in StepRecord
  BY PlanFacts
<1>2. StepFits(tasks, plans, plans[p].shape, p, s, plans[p].steps[s])
  BY DEF IInv, FileInv, FileFits, PlanIds, Steps
<1>3. CASE t \in DOMAIN copy
  <2>1. copy \in Seq(TaskRecord) /\ t \in 1 .. Len(copy)
    BY <1>3, LenProperties DEF CopyFits
  <2>2. copy[t] \in TaskRecord /\ t # NoTask
    BY <2>1, ElementOfSeq DEF NoTask
  <2>3. t \in StepTasks(tasks, p, s)
    BY <1>2, <2>2 DEF StepFits
  <2>4. tasks[t].plan = p
    BY <2>3 DEF StepTasks
  <2>5. /\ copy[t].status # "active" => copy[t].status = tasks[t].status
        /\ copy[t].status = "failed" /\ copy[t].undone => tasks[t].undone
    BY <1>3 DEF CopyFits
  <2>6. copy[t].status \in {"active", "done", "failed"}
    BY <2>2 DEF TaskRecord
  <2>7. Reported(copy, p, s) = FromTask(Kind(p), copy[t])
    BY <1>3 DEF Reported
  <2> DEFINE x == FromTask(Kind(p), copy[t])
  <2>8. /\ x \in {"active", "completed", "failed"}
        /\ x = "completed" => \/ copy[t].status = "done"
                              \/ copy[t].status = "failed" /\ copy[t].undone
                                   /\ Kind(p) = "recovery"
        /\ x = "failed" => copy[t].status = "failed"
    BY <2>6 DEF FromTask
  <2> HIDE DEF x, t
  <2>9. x = "completed" => SettledBy(tasks, plans, t)
    BY <2>4, <2>5, <2>8 DEF SettledBy, Kind
  <2>10. x = "failed" => tasks[t].status = "failed"
    BY <2>5, <2>8
  <2> QED BY <2>3, <2>7, <2>8, <2>9, <2>10 DEF IsSettled, x
<1>4. CASE t \notin DOMAIN copy
  <2>1. Reported(copy, p, s) = plans[p].steps[s].status
    BY <1>4 DEF Reported, StepStatus
  <2> QED BY <1>1, <1>2, <2>1 DEF StepFits, StepRecord
<1> QED BY <1>3, <1>4

(* A step that a sync takes for ready is.                                  *)
LEMMA ReadyTrue ==
  ASSUME IInv, NEW copy, CopyFits(copy, tasks), NEW p \in PlanIds, NEW s \in Steps(p),
         Ready(copy, p, s)
  PROVE  \A d \in Shape[plans[p].shape].needs[s] : IsSettled(tasks, plans, p, d)
<1> SUFFICES ASSUME NEW d \in Shape[plans[p].shape].needs[s]
             PROVE  IsSettled(tasks, plans, p, d)
  OBVIOUS
<1>1. d \in Steps(p) /\ d \in Needs(p)[s]
  BY PlanFacts, Shapes
<1>2. Reported(copy, p, d) = "completed" \/ StepStatus(p, d) = "completed"
  BY <1>1 DEF Ready
<1>3. StepFits(tasks, plans, plans[p].shape, p, d, plans[p].steps[d])
  BY <1>1 DEF IInv, FileInv, FileFits, PlanIds, Steps
<1> QED BY <1>1, <1>2, <1>3, ReportedTrue DEF StepFits, StepStatus

(* What a sync makes of the plans fits, whatever copy it applies.          *)
LEMMA SyncedFits ==
  ASSUME IInv, NEW copy, CopyFits(copy, tasks)
  PROVE  LET g == Synced(copy)
         IN  FileFits(g, tasks, g) /\ SameShapes(plans, g) /\ GrowPlans(plans, g)
<1> DEFINE g == Synced(copy)
<1>1. ASSUME NEW p \in PlanIds, NEW s \in Steps(p)
      PROVE  /\ SyncedStep(copy, p, s) \in StepRecord
             /\ StepFits(tasks, plans, plans[p].shape, p, s, SyncedStep(copy, p, s))
  <2> DEFINE step == plans[p].steps[s]
  <2>1. step \in StepRecord
    BY PlanFacts
  <2>2. StepFits(tasks, plans, plans[p].shape, p, s, step)
    BY DEF IInv, FileInv, FileFits, PlanIds, Steps
  <2>3. CASE step.task = NoTask
    <3> DEFINE new == [step EXCEPT !.status = IF Ready(copy, p, s) THEN "planned"
                                              ELSE "blocked"]
    <3>1. SyncedStep(copy, p, s) = new
      BY <2>3 DEF SyncedStep
    <3>2. /\ new \in StepRecord /\ new.task = NoTask
          /\ new.status \in {"planned", "blocked"}
          /\ new.status = "planned" => Ready(copy, p, s)
      BY <2>1, <2>3 DEF StepRecord
    <3> HIDE DEF new
    <3>3. new.status = "planned" =>
            \A d \in Shape[plans[p].shape].needs[s] : IsSettled(tasks, plans, p, d)
      BY <3>2, ReadyTrue
    <3>4. StepFits(tasks, plans, plans[p].shape, p, s, new)
      BY <3>2, <3>3 DEF StepFits
    <3> QED BY <3>1, <3>2, <3>4
  <2>4. CASE step.task # NoTask
    <3> DEFINE undone == IF step.task \in DOMAIN copy THEN copy[step.task].undone
                         ELSE step.undone
               new == [step EXCEPT !.status = Reported(copy, p, s), !.undone = undone]
    <3>1. SyncedStep(copy, p, s) = new
      BY <2>4 DEF SyncedStep
    <3>2. undone \in BOOLEAN
      <4>1. CASE step.task \in DOMAIN copy
        <5>1. copy \in Seq(TaskRecord) /\ step.task \in 1 .. Len(copy)
          BY <4>1, LenProperties DEF CopyFits
        <5>2. copy[step.task] \in TaskRecord
          BY <5>1, ElementOfSeq
        <5> QED BY <4>1, <5>2 DEF TaskRecord
      <4>2. CASE step.task \notin DOMAIN copy
        BY <2>1, <4>2 DEF StepRecord
      <4> QED BY <4>1, <4>2
    <3> HIDE DEF undone
    <3>3. new.status = Reported(copy, p, s) /\ new.task = step.task
      BY <2>1 DEF StepRecord
    <3>4. new \in StepRecord
      BY <2>1, <3>2, ReportedTrue DEF StepRecord
    <3> HIDE DEF new
    <3>5. StepFits(tasks, plans, plans[p].shape, p, s, new)
      BY <2>2, <2>4, <3>3, ReportedTrue DEF StepFits
    <3> QED BY <3>1, <3>4, <3>5
  <2> QED BY <2>3, <2>4
<1>2. ASSUME NEW p \in PlanIds
      PROVE  /\ g[p] \in PlanRecord /\ g[p].shape = plans[p].shape
             /\ g[p].parent = plans[p].parent
             /\ g[p].steps = [s \in Steps(p) |-> SyncedStep(copy, p, s)]
  <2> DEFINE new == [s \in Steps(p) |-> SyncedStep(copy, p, s)]
  <2>1. new \in [1 .. Len(Needs(p)) -> StepRecord]
    BY <1>1, PlanFacts
  <2> HIDE DEF new
  <2>2. new \in Seq(StepRecord)
    BY <2>1, PlanFacts, MakeSeq
  <2>3. plans[p] \in PlanRecord
    BY PlanFacts
  <2>4. g[p] = [plans[p] EXCEPT !.steps = new]
    BY DEF Synced, new
  <2> HIDE DEF g
  <2>5. g[p] \in PlanRecord /\ g[p].shape = plans[p].shape
          /\ g[p].parent = plans[p].parent /\ g[p].steps = new
    BY <2>2, <2>3, <2>4 DEF PlanRecord
  <2> QED BY <2>5 DEF new
<1>3. DOMAIN g = PlanIds
  BY DEF Synced
<1>4. g \in Seq(PlanRecord)
  <2>1. g \in [1 .. Len(plans) -> PlanRecord]
    <3>1. g = [p \in PlanIds |-> g[p]]
      BY DEF Synced
    <3> HIDE DEF g
    <3> QED BY <1>2, <3>1, PlanFacts
  <2> HIDE DEF g
  <2> QED BY <2>1, PlanFacts, MakeSeq
<1> HIDE DEF g
<1>5. SameShapes(plans, g) /\ GrowPlans(plans, g)
  BY <1>2, <1>3 DEF SameShapes, GrowPlans, PlanIds
<1>6. FileFits(g, tasks, plans)
  <2>1. WellShaped(g)
    BY <1>2, <1>3, <1>4, PlanFacts DEF WellShaped
  <2>2. \A p \in DOMAIN g : \A s \in DOMAIN g[p].steps :
          StepFits(tasks, plans, g[p].shape, p, s, g[p].steps[s])
    <3> SUFFICES ASSUME NEW p \in PlanIds, NEW s \in DOMAIN g[p].steps
                 PROVE  StepFits(tasks, plans, g[p].shape, p, s, g[p].steps[s])
      BY <1>3
    <3>1. s \in Steps(p) /\ g[p].steps[s] = SyncedStep(copy, p, s)
      BY <1>2
    <3> QED BY <1>1, <1>2, <3>1
  <2>3. \A p \in DOMAIN g : g[p].shape = Remediation => g[p].parent \in DOMAIN g
    BY <1>2, <1>3 DEF IInv, FileInv, FileFits, PlanIds
  <2> QED BY <2>1, <2>2, <2>3 DEF FileFits
<1>7. GrowTasks(tasks, tasks)
  BY DEF GrowTasks
<1>8. FileFits(g, tasks, g)
  BY <1>5, <1>6, <1>7, FileStays DEF IInv, TaskInv
<1> QED BY <1>5, <1>8 DEF g
---------------------------------------------------------------------------
(* The instructions of a call.                                             *)

(* What the variables are, one by one.                                     *)
LEMMA Types ==
  ASSUME IInv
  PROVE  /\ tasks \in Seq(TaskRecord) /\ lock \in Threads \cup {Nobody}
         /\ todo \in [Threads -> Seq(Instruction)]
         /\ seen \in [Threads -> Seq(TaskRecord)]
         /\ titles \in [Threads -> SUBSET AllTitles]
         /\ disturbed \in BOOLEAN /\ env \in Envs
         /\ WellShaped(plans)
         /\ FileFits(plans, tasks, plans) /\ TasksFit(tasks, plans)
BY DEF IInv, TypeOK, FileInv, TaskInv

(* A fault leaves the file behind, which no kill uncovers.                 *)
LEMMA SaveFacts ==
  ASSUME IInv, NEW th \in Threads, NEW list, SaveAnd(th, list), env' = env
  PROVE  /\ disturbed' \in BOOLEAN
         /\ \/ saved' = plans' /\ todo' = [todo EXCEPT ![th] = list]
            \/ /\ saved' = saved /\ "crash" \notin env
               /\ todo' = [todo EXCEPT ![th] = << >>]
<1>1. disturbed \in BOOLEAN /\ env \in Envs
  BY Types
<1>2. "fault" \in env => "crash" \notin env
  BY <1>1, NotBoth
<1> QED BY <1>1, <1>2 DEF SaveAnd

(* A thread that is free to take the lock disturbs nobody.                 *)
LEMMA FreeAlone ==
  ASSUME IInv, NEW th \in Threads, Free(th)
  PROVE  \A u \in Threads \ {th} : lock # u
BY PlannerAssumption DEF Free

(* The copy of the task list is the present one.                           *)
LEMMA ReadStep ==
  ASSUME IInv, NEW th \in Threads, Read(th)
  PROVE  Kept
<1>1. ~Idle(th) /\ Head(todo[th]).do = "read" /\ Continue(th)
        /\ seen' = [seen EXCEPT ![th] = tasks]
        /\ UNCHANGED <<plans, tasks, env, lock, titles, saved, disturbed>>
  BY DEF Read, At, NoSave, board
<1>2. GoodList(Tail(todo[th]), PlanIds) /\ HeadFits(th, Tail(todo[th]), lock', plans)
  BY <1>1, Rest, FreshFits
<1>3. todo' = [todo EXCEPT ![th] = Tail(todo[th])]
  BY <1>1 DEF Continue
<1> QED BY <1>1, <1>2, <1>3, Types, Quiet

(* Reading titles changes nothing else.                                    *)
LEMMA ReadTitlesStep ==
  ASSUME IInv, NEW th \in Threads, ReadTitles(th)
  PROVE  Kept
<1> DEFINE new == {Title(tasks[t].plan, tasks[t].step) :
                     t \in {u \in TaskIds : tasks[u].status = "active"}}
<1>1. ~Idle(th) /\ Head(todo[th]).do = "titles" /\ Continue(th)
        /\ titles' = [titles EXCEPT ![th] = new]
        /\ UNCHANGED <<plans, tasks, env, lock, seen, saved, disturbed>>
  BY DEF ReadTitles, At, NoSave, board
<1>2. GoodList(Tail(todo[th]), PlanIds) /\ HeadFits(th, Tail(todo[th]), lock', plans)
  <2>1. GoodList(Tail(todo[th]), PlanIds)
          /\ (Tail(todo[th]) # << >> => Tail(todo[th])[1].do \notin Locked)
    BY <1>1, Rest DEF Follows, Locked
  <2> QED BY <2>1 DEF HeadFits, Locked
<1>3. todo' = [todo EXCEPT ![th] = Tail(todo[th])]
  BY <1>1 DEF Continue
<1>4. new \subseteq AllTitles
  <2> SUFFICES ASSUME NEW t \in TaskIds
               PROVE  Title(tasks[t].plan, tasks[t].step) \in AllTitles
    OBVIOUS
  <2>1. tasks[t].plan \in PlanIds /\ tasks[t].step \in Steps(tasks[t].plan)
    BY Types DEF TasksFit, TaskFits, TaskIds, PlanIds, Steps
  <2>2. plans[tasks[t].plan].shape \in Names
          /\ tasks[t].step \in StepsOf(plans[tasks[t].plan].shape)
    BY <2>1, PlanFacts
  <2> DEFINE n == plans[tasks[t].plan].shape
             T == {Shape[n].titles[s] : s \in StepsOf(n)}
  <2>3. Title(tasks[t].plan, tasks[t].step) \in T
    BY <2>2 DEF Title
  <2>4. T \in {{Shape[m].titles[s] : s \in StepsOf(m)} : m \in Names}
    BY <2>2
  <2> HIDE DEF T
  <2> QED BY <2>3, <2>4 DEF AllTitles
<1>5. seen' = [seen EXCEPT ![th] = seen[th]]
  BY <1>1, Types
<1> HIDE DEF new
<1>6. titles' \in [Threads -> SUBSET AllTitles]
  BY <1>1, <1>4, Types
<1> QED BY <1>1, <1>2, <1>3, <1>5, <1>6, Types, Quiet

(* A copy, however late, makes no step more than the task list says.       *)
LEMMA ApplyStep ==
  ASSUME IInv, NEW th \in Threads, Apply(th)
  PROVE  Kept
<1> DEFINE g == Synced(seen[th])
<1>1. /\ ~Idle(th) /\ Head(todo[th]).do = "apply" /\ Free(th) /\ plans' = g
      /\ seen' = [seen EXCEPT ![th] = << >>]
      /\ SaveAnd(th, Tail(todo[th])) \/ (Continue(th) /\ NoSave)
      /\ lock' = IF todo'[th] = << >> /\ lock = th THEN Nobody ELSE lock
      /\ UNCHANGED <<titles, tasks, env>>
  <2>1. SaveAnd(th, Tail(todo[th])) \/ (Continue(th) /\ NoSave)
    BY DEF Apply
  <2> QED BY <2>1 DEF Apply, At, board
<1>2. FileFits(g, tasks, g) /\ SameShapes(plans, g) /\ GrowPlans(plans, g)
  <2>1. CopyFits(seen[th], tasks)
    BY DEF IInv, CopyInv
  <2> QED BY <2>1, SyncedFits
<1> HIDE DEF g
<1>3. GrowTasks(tasks, tasks) /\ TasksFit(tasks, g)
  BY <1>2, Types, SameTasksFit DEF FileFits
<1>4. PlanIds' = PlanIds
  BY <1>1, <1>2 DEF SameShapes, PlanIds
<1>5. PICK list \in {Tail(todo[th]), << >>} : todo' = [todo EXCEPT ![th] = list]
  BY <1>1, SaveFacts DEF Continue
<1>6. GoodList(list, PlanIds') /\ Fresh(list)
  BY <1>1, <1>4, Rest, EmptyList
<1>7. /\ saved' = plans' \/ saved' = saved
      /\ disturbed' \in BOOLEAN
  BY <1>1, SaveFacts, Types DEF NoSave
<1>8. lock' \in Threads \cup {Nobody} /\ \A u \in Threads \ {th} : lock # u
  BY <1>1, Types, FreeAlone
<1>9. HeadFits(th, list, lock', plans')
  BY <1>6, FreshFits
<1> QED BY <1>1, <1>2, <1>3, <1>5, <1>6, <1>7, <1>8, <1>9, Types, Preserve

(* A save, or one that raises.                                             *)
LEMMA SaveStep ==
  ASSUME IInv, NEW th \in Threads, Save(th)
  PROVE  Kept
<1>1. /\ ~Idle(th) /\ Head(todo[th]).do = "save" /\ lock = th
      /\ SaveAnd(th, Tail(todo[th]))
      /\ lock' = IF todo'[th] = << >> THEN Nobody ELSE lock
      /\ titles' = [titles EXCEPT ![th] = {}]
      /\ UNCHANGED <<plans, tasks, env, seen>>
  BY DEF Save, At, board
<1>2. PICK list \in {Tail(todo[th]), << >>} : todo' = [todo EXCEPT ![th] = list]
  BY <1>1, SaveFacts
<1>3. GoodList(list, PlanIds)
  BY <1>1, Rest, EmptyList
<1>4. todo'[th] = list
  BY <1>2, Types
<1>5. HeadFits(th, list, lock', plans)
  <2>1. list # << >> => lock' = th /\ list = Tail(todo[th])
    BY <1>1, <1>4
  <2>2. list # << >> => list[1].do # "post"
    BY <1>1, <2>1, Rest DEF Follows
  <2> QED BY <2>1, <2>2 DEF HeadFits
<1>6. seen' = [seen EXCEPT ![th] = seen[th]]
  BY <1>1, Types
<1>7. titles' \in [Threads -> SUBSET AllTitles]
  BY <1>1, Types
<1>8. disturbed' \in BOOLEAN /\ (saved' = plans' \/ saved' = saved)
  BY <1>1, SaveFacts
<1>9. lock' \in Threads \cup {Nobody} /\ \A u \in Threads \ {th} : lock # u
  BY <1>1
<1> QED BY <1>1, <1>2, <1>3, <1>5, <1>6, <1>7, <1>8, <1>9, Quiet

(* The end of a locked section.                                            *)
LEMMA UnlockStep ==
  ASSUME IInv, NEW th \in Threads, Unlock(th)
  PROVE  Kept
<1>1. ~Idle(th) /\ Head(todo[th]).do = "unlock" /\ Continue(th) /\ lock' = Nobody
        /\ UNCHANGED <<plans, tasks, env, seen, titles, saved, disturbed>>
  BY DEF Unlock, At, NoSave, board
<1>2. GoodList(Tail(todo[th]), PlanIds) /\ HeadFits(th, Tail(todo[th]), lock', plans)
  BY <1>1, Rest, FreshFits
<1>3. todo' = [todo EXCEPT ![th] = Tail(todo[th])]
  BY <1>1 DEF Continue
<1>4. lock = th
  BY <1>1, Rest DEF HeadFits, Locked
<1>5. seen' = [seen EXCEPT ![th] = seen[th]]
  BY <1>1, Types
<1> QED BY <1>1, <1>2, <1>3, <1>4, <1>5, Types, Quiet
---------------------------------------------------------------------------
(* Queueing and posting.                                                   *)

(* Under the lock a thread may go on with anything but a post.             *)
LEMMA HolderFits ==
  ASSUME NEW th, NEW list, list # << >> => list[1].do # "post", NEW f
  PROVE  HeadFits(th, list, th, f)
BY DEF HeadFits

(* What is chosen is planned, so what it needs is settled.                 *)
LEMMA QueueStep ==
  ASSUME IInv, NEW th \in Threads, Queue(th)
  PROVE  Kept
<1> DEFINE p == Head(todo[th]).plan
           rest == Tail(todo[th])
<1>1. ~Idle(th) /\ Head(todo[th]).do = "queue" /\ Free(th) /\ lock' = th
        /\ UNCHANGED <<tasks, env, seen, titles, saved, disturbed>>
  BY DEF Queue, At, NoSave, board
<1>2. /\ GoodList(rest, PlanIds) /\ p \in PlanIds \cup {NoPlan}
      /\ rest # << >> => Follows(Head(todo[th]), rest[1])
      /\ todo[th][1] = Head(todo[th])
  BY <1>1, Rest DEF Proper
<1>3. rest # << >> => rest[1].do # "post"
  BY <1>2 DEF Follows
<1>4. \A u \in Threads \ {th} : lock # u
  BY <1>1, FreeAlone
<1>5. seen' = [seen EXCEPT ![th] = seen[th]] /\ lock' \in Threads \cup {Nobody}
  BY <1>1, Types
<1>6. CASE p = NoPlan /\ UNCHANGED plans
             /\ ContinueWith(th, [i \in PlanIds |-> Do("queue", Len(plans) + 1 - i)])
  <2> DEFINE all == [i \in PlanIds |-> Do("queue", Len(plans) + 1 - i)]
  <2>1. \A i \in PlanIds : Len(plans) + 1 - i \in PlanIds
    BY PlanFacts
  <2>2. all \in [1 .. Len(plans) -> Instruction]
    BY <2>1, PlanFacts DEF Do, Instruction, NoPlan
  <2>3. \A i \in PlanIds : all[i].do = "queue" /\ all[i].plan \in PlanIds
    BY <2>1 DEF Do
  <2> HIDE DEF all
  <2>4. all \in Seq(Instruction) /\ Len(all) = Len(plans)
    BY <2>2, PlanFacts, MakeSeq
  <2>5. GoodList(all, PlanIds)
    <3>1. \A k \in 1 .. Len(all) : Proper(all[k], PlanIds)
      BY <2>3, <2>4, PlanFacts DEF Proper
    <3>2. ASSUME NEW k \in 1 .. Len(all) - 1 PROVE Follows(all[k], all[k + 1])
      <4>1. k \in PlanIds /\ k + 1 \in PlanIds
        BY <2>4, PlanFacts
      <4> QED BY <2>3, <4>1 DEF Follows
    <3> QED BY <2>4, <3>1, <3>2 DEF GoodList
  <2>6. GoodList(all \o rest, PlanIds)
          /\ (all \o rest # << >> => (all \o rest)[1].do # "post")
    <3>1. CASE all = << >>
      <4>1. all \o rest = rest
        BY <1>2, <3>1, ConcatEmptySeq DEF GoodList
      <4> QED BY <1>2, <1>3, <4>1
    <3>2. CASE all # << >>
      <4>1. Len(all) \in Nat /\ Len(all) >= 1 /\ 1 \in PlanIds /\ Len(all) \in PlanIds
        BY <2>4, <3>2, EmptySeq, PlanFacts
      <4>2. rest # << >> => Follows(all[Len(all)], rest[1])
        BY <1>1, <1>2, <2>3, <4>1 DEF Follows
      <4>3. GoodList(all \o rest, PlanIds) /\ (all \o rest)[1] = all[1]
        BY <1>2, <2>5, <3>2, <4>2, GoodConcat
      <4> QED BY <2>3, <4>1, <4>3
    <3> QED BY <3>1, <3>2
  <2>7. todo' = [todo EXCEPT ![th] = all \o rest]
    BY <1>6 DEF ContinueWith, all
  <2>8. HeadFits(th, all \o rest, lock', plans)
    BY <1>1, <2>6, HolderFits
  <2> QED BY <1>1, <1>4, <1>5, <1>6, <2>6, <2>7, <2>8, Types, Quiet
<1>7. CASE Continue(th) /\ UNCHANGED plans
  <2>1. todo' = [todo EXCEPT ![th] = rest]
    BY <1>7 DEF Continue
  <2>2. HeadFits(th, rest, lock', plans)
    BY <1>1, <1>3, HolderFits
  <2> HIDE DEF rest
  <2> QED BY <1>1, <1>2, <1>4, <1>5, <1>7, <2>1, <2>2, Types, Quiet
<1>8. ASSUME NEW mode, p # NoPlan, Chosen(p, mode) # {}, UNCHANGED plans,
             ContinueWith(th, <<[Do("post", p) EXCEPT !.steps = Chosen(p, mode)]>>)
      PROVE  Kept
  <2> DEFINE post == [Do("post", p) EXCEPT !.steps = Chosen(p, mode)]
  <2>1. p \in PlanIds
    BY <1>2, <1>8
  <2>2. \A s \in Chosen(p, mode) : Postable(plans, p, s)
    BY <2>1 DEF Chosen, Unqueued, Postable, Steps, StepStatus
  <2>3. Chosen(p, mode) \in SUBSET Nat
    BY <2>1, PlanFacts DEF Chosen, Unqueued
  <2>4. post \in Instruction /\ post.do = "post" /\ post.plan = p
          /\ post.steps = Chosen(p, mode)
    BY <2>1, <2>3, PlanFacts DEF Do, Instruction, NoPlan
  <2> HIDE DEF post
  <2> DEFINE one == <<post>>
  <2>5. one \in Seq(Instruction) /\ Len(one) = 1 /\ one[1] = post /\ one # << >>
    BY <2>4
  <2> HIDE DEF one
  <2>6. GoodList(one, PlanIds)
    <3>1. \A k \in 1 .. 1 : one[k] = post
      BY <2>5
    <3> QED BY <2>1, <2>4, <2>5, <3>1 DEF GoodList, Proper
  <2>7. rest # << >> => Follows(one[Len(one)], rest[1])
    BY <1>1, <1>2, <2>4, <2>5 DEF Follows
  <2>8. GoodList(one \o rest, PlanIds) /\ (one \o rest)[1] = post
    BY <1>2, <2>5, <2>6, <2>7, GoodConcat
  <2>9. todo' = [todo EXCEPT ![th] = one \o rest]
    BY <1>8 DEF ContinueWith, one, post
  <2>10. HeadFits(th, one \o rest, lock', plans)
    BY <1>1, <1>8, <2>2, <2>4, <2>8 DEF HeadFits
  <2> QED BY <1>1, <1>4, <1>5, <1>8, <2>8, <2>9, <2>10, Types, Quiet
<1>9. ASSUME p # NoPlan, Continue(th),
             plans' = [plans EXCEPT ![p].steps = [s \in Steps(p) |->
                         IF s \in Unqueued(p, {"planned", "blocked"})
                         THEN [plans[p].steps[s] EXCEPT !.status = "blocked"]
                         ELSE plans[p].steps[s]]]
      PROVE  Kept
  <2> DEFINE new == [s \in Steps(p) |->
                       IF s \in Unqueued(p, {"planned", "blocked"})
                       THEN [plans[p].steps[s] EXCEPT !.status = "blocked"]
                       ELSE plans[p].steps[s]]
             r == [plans[p] EXCEPT !.steps = new]
  <2>1. p \in PlanIds
    BY <1>2, <1>9
  <2>2. ASSUME NEW s \in Steps(p)
        PROVE  /\ new[s] \in StepRecord
               /\ \/ new[s] = plans[p].steps[s]
                  \/ new[s].task = NoTask /\ new[s].status = "blocked"
    <3>1. plans[p].steps[s] \in StepRecord
      BY <2>1, PlanFacts
    <3>2. CASE s \in Unqueued(p, {"planned", "blocked"})
      <4>1. plans[p].steps[s].task = NoTask
        BY <3>2 DEF Unqueued
      <4>2. new[s] = [plans[p].steps[s] EXCEPT !.status = "blocked"]
        BY <3>2
      <4> HIDE DEF new
      <4> QED BY <3>1, <4>1, <4>2 DEF StepRecord
    <3>3. CASE s \notin Unqueued(p, {"planned", "blocked"})
      BY <3>1, <3>3
    <3> QED BY <3>2, <3>3
  <2>3. new \in Seq(StepRecord) /\ DOMAIN new = Steps(p)
    <3>1. new \in [1 .. Len(Needs(p)) -> StepRecord]
      BY <2>1, <2>2, PlanFacts
    <3> HIDE DEF new
    <3>2. new \in Seq(StepRecord)
      BY <2>1, <3>1, PlanFacts, MakeSeq
    <3>3. DOMAIN new = Steps(p)
      BY <2>1, <3>1, PlanFacts
    <3> QED BY <3>2, <3>3
  <2>4. plans' = [plans EXCEPT ![p] = r]
    BY <1>9
  <2> HIDE DEF new
  <2>5. r \in PlanRecord /\ r.shape = plans[p].shape /\ r.parent = plans[p].parent
          /\ r.steps = new
    BY <2>1, <2>3, PlanFacts DEF PlanRecord
  <2> HIDE DEF r
  <2>6. \A s \in DOMAIN r.steps :
          \/ r.steps[s] = plans[p].steps[s]
          \/ StepFits(tasks, plans, r.shape, p, s, r.steps[s])
    BY <2>2, <2>3, <2>5 DEF StepFits
  <2>7. r.shape = Remediation => r.parent \in DOMAIN plans
    BY <2>1, <2>5, Types DEF FileFits, PlanIds
  <2>8. GrowTasks(tasks, tasks) /\ DOMAIN r.steps = DOMAIN plans[p].steps
    BY <2>3, <2>5 DEF GrowTasks, Steps
  <2>9. FileFits(plans', tasks, plans') /\ SameShapes(plans, plans')
          /\ GrowPlans(plans, plans')
    <3>1. LET g == [plans EXCEPT ![p] = r]
          IN  FileFits(g, tasks, g) /\ SameShapes(plans, g) /\ GrowPlans(plans, g)
      <4> HIDE DEF p
      <4> QED BY <2>1, <2>5, <2>6, <2>7, <2>8, Types, ReplaceFits DEF PlanIds
    <3> QED BY <2>4, <3>1
  <2>10. TasksFit(tasks, plans')
    BY <2>9, Types, SameTasksFit DEF FileFits
  <2>11. PlanIds' = PlanIds /\ GoodList(rest, PlanIds') /\ HeadFits(th, rest, lock', plans')
    BY <1>1, <1>2, <1>3, <2>9, HolderFits DEF SameShapes, PlanIds
  <2>12. todo' = [todo EXCEPT ![th] = rest]
    BY <1>9 DEF Continue
  <2> HIDE DEF p, rest
  <2> QED BY <1>1, <1>4, <1>5, <2>8, <2>9, <2>10, <2>11, <2>12, Types, Preserve
<1>10. \/ p = NoPlan /\ UNCHANGED plans
             /\ ContinueWith(th, [i \in PlanIds |-> Do("queue", Len(plans) + 1 - i)])
       \/ Continue(th) /\ UNCHANGED plans
       \/ \E mode : /\ p # NoPlan /\ Chosen(p, mode) # {} /\ UNCHANGED plans
                    /\ ContinueWith(th, <<[Do("post", p) EXCEPT
                                            !.steps = Chosen(p, mode)]>>)
       \/ /\ p # NoPlan /\ Continue(th)
          /\ plans' = [plans EXCEPT ![p].steps = [s \in Steps(p) |->
                         IF s \in Unqueued(p, {"planned", "blocked"})
                         THEN [plans[p].steps[s] EXCEPT !.status = "blocked"]
                         ELSE plans[p].steps[s]]]
  BY DEF Queue
<1> HIDE DEF p
<1> QED BY <1>6, <1>7, <1>8, <1>9, <1>10
---------------------------------------------------------------------------
(* Posting, reporting and compensating: what becomes of the task list.     *)

(* A task for a step that is due, put behind the others, fits.             *)
LEMMA AppendFits ==
  ASSUME IInv, NEW p \in PlanIds, NEW s \in Steps(p),
         StepStatus(p, s) = "planned", NEW us,
         us = Append(tasks, NewTask(p, s))
  PROVE  /\ GrowTasks(tasks, us) /\ us \in Seq(TaskRecord)
         /\ DOMAIN us = 1 .. Len(tasks) + 1 /\ Len(tasks) \in Nat
         /\ us[Len(tasks) + 1] = NewTask(p, s)
         /\ \A t \in DOMAIN tasks : us[t] = tasks[t]
         /\ TasksFit(us, plans)
<1>1. tasks \in Seq(TaskRecord) /\ Len(tasks) \in Nat /\ DOMAIN tasks = 1 .. Len(tasks)
  BY Types, LenProperties
<1>2. plans[p] \in PlanRecord /\ p \in Nat /\ s \in Nat
  BY PlanFacts
<1>3. NewTask(p, s) \in TaskRecord
  BY <1>2 DEF NewTask, TaskRecord, PlanRecord
<1>4. us \in Seq(TaskRecord) /\ Len(us) = Len(tasks) + 1
        /\ \A t \in 1 .. Len(us) : us[t] = IF t <= Len(tasks) THEN tasks[t]
                                           ELSE NewTask(p, s)
  BY <1>1, <1>3, AppendProperties
<1>5. DOMAIN us = 1 .. Len(tasks) + 1
  BY <1>4, LenProperties
<1>6. us[Len(tasks) + 1] = NewTask(p, s) /\ \A t \in DOMAIN tasks : us[t] = tasks[t]
  BY <1>1, <1>4
<1>7. GrowTasks(tasks, us)
  BY <1>1, <1>5, <1>6 DEF GrowTasks
<1>8. GrowPlans(plans, plans)
  BY DEF GrowPlans
<1>9. \A t \in DOMAIN tasks : TaskFits(us, plans, t)
  BY <1>7, <1>8, Types, TaskStays
<1>10. TaskFits(us, plans, Len(tasks) + 1)
  <2>1. us[Len(tasks) + 1].plan = p /\ us[Len(tasks) + 1].step = s
          /\ us[Len(tasks) + 1].parent = plans[p].parent
    BY <1>6 DEF NewTask
  <2>2. StepFits(tasks, plans, plans[p].shape, p, s, plans[p].steps[s])
    BY Types DEF FileFits, PlanIds, Steps
  <2>3. \A d \in Shape[plans[p].shape].needs[s] : IsSettled(tasks, plans, p, d)
    BY <2>2 DEF StepFits, StepStatus
  <2>4. \A d \in Shape[plans[p].shape].needs[s] : IsSettled(us, plans, p, d)
    BY <1>7, <1>8, <2>3, Types, SettledStays
  <2>5. plans[p].shape = Remediation => plans[p].parent \in DOMAIN plans
    BY Types DEF FileFits, PlanIds
  <2>6. p \in DOMAIN plans /\ s \in DOMAIN plans[p].steps
    BY DEF PlanIds, Steps
  <2> QED BY <2>1, <2>4, <2>5, <2>6 DEF TaskFits
<1>11. TasksFit(us, plans)
  <2>1. \A t \in DOMAIN us : t \in DOMAIN tasks \/ t = Len(tasks) + 1
    BY <1>1, <1>5
  <2> QED BY <1>4, <1>9, <1>10, <2>1 DEF TasksFit
<1> QED BY <1>1, <1>4, <1>5, <1>6, <1>7, <1>11

(* A task list whose tasks are reported or compensated fits.               *)
LEMMA ChangedFits ==
  ASSUME IInv, NEW us \in Seq(TaskRecord), GrowTasks(tasks, us), DOMAIN us = DOMAIN tasks
  PROVE  TasksFit(us, plans) /\ FileFits(plans, us, plans)
<1>1. GrowPlans(plans, plans)
  BY DEF GrowPlans
<1>2. \A t \in DOMAIN us : TaskFits(us, plans, t)
  BY <1>1, Types, TaskStays
<1>3. FileFits(plans, us, plans)
  BY <1>1, Types, FileStays
<1> QED BY <1>2, <1>3 DEF TasksFit

(* A queued task takes its place in plan and list alike.                   *)
LEMMA PostStep ==
  ASSUME IInv, NEW th \in Threads, Post(th)
  PROVE  Kept
<1> DEFINE i == Head(todo[th])
           p == i.plan
           s == Least(i.steps)
           rest == Tail(todo[th])
           list == IF i.steps = {s} THEN rest
                   ELSE <<[i EXCEPT !.steps = @ \ {s}]>> \o rest
<1>1. ~Idle(th) /\ i.do = "post" /\ lock = th
        /\ UNCHANGED <<saved, lock, seen, env>>
        /\ todo' = [todo EXCEPT ![th] = list]
  BY DEF Post, At
<1>2. /\ GoodList(rest, PlanIds) /\ p \in PlanIds /\ i \in Instruction
      /\ rest # << >> => Follows(i, rest[1])
  BY <1>1, Rest DEF Proper
<1>3. rest # << >> => rest[1].do # "post"
  BY <1>2 DEF Follows
<1>4. i.steps # {} /\ \A r \in i.steps : Postable(plans, p, r)
  BY <1>1, Rest DEF HeadFits
<1>5. i.steps \in SUBSET Nat /\ i.steps \subseteq Steps(p)
  BY <1>2, <1>4 DEF Instruction, Postable, Steps
<1>6. s \in i.steps
  <2> HIDE DEF i
  <2> QED BY <1>4, <1>5, LeastIn
<1>7. s \in Steps(p) /\ plans[p].steps[s].task = NoTask /\ StepStatus(p, s) = "planned"
  BY <1>4, <1>5, <1>6 DEF Postable, StepStatus
<1> DEFINE next == [i EXCEPT !.steps = @ \ {s}]
<1>8. next \in Instruction /\ next.do = "post" /\ next.plan = p
        /\ next.steps = i.steps \ {s}
  <2> HIDE DEF i, s
  <2> QED BY <1>1, <1>2, <1>5 DEF Instruction
<1>9. list = IF i.steps = {s} THEN rest ELSE <<next>> \o rest
  OBVIOUS
<1> HIDE DEF next, list
<1>10. GoodList(<<next>> \o rest, PlanIds) /\ (<<next>> \o rest)[1] = next
  <2> DEFINE one == <<next>>
  <2>1. one \in Seq(Instruction) /\ Len(one) = 1 /\ one[1] = next /\ one # << >>
    BY <1>8
  <2> HIDE DEF one
  <2>2. GoodList(one, PlanIds)
    <3>1. \A k \in 1 .. 1 : one[k] = next
      BY <2>1
    <3> QED BY <1>2, <1>8, <2>1, <3>1 DEF GoodList, Proper
  <2>3. rest # << >> => Follows(one[Len(one)], rest[1])
    BY <1>1, <1>2, <1>8, <2>1 DEF Follows
  <2>4. GoodList(one \o rest, PlanIds) /\ (one \o rest)[1] = one[1]
    <3> HIDE DEF rest
    <3> QED BY <1>2, <2>1, <2>2, <2>3, GoodConcat
  <2> QED BY <2>1, <2>4 DEF one
<1>11. GoodList(list, PlanIds)
  BY <1>2, <1>9, <1>10
<1>12. ASSUME NEW f, \A r \in i.steps \ {s} : Postable(f, p, r)
       PROVE  HeadFits(th, list, lock', f)
  <2>1. CASE i.steps = {s}
    <3>1. list = rest
      BY <1>9, <2>1
    <3> QED BY <1>1, <1>3, <3>1 DEF HeadFits
  <2>2. CASE i.steps # {s}
    <3>1. list = <<next>> \o rest /\ list[1] = next
      BY <1>9, <1>10, <2>2
    <3>2. i.steps \ {s} # {}
      BY <1>6, <2>2
    <3> QED BY <1>1, <1>8, <1>12, <3>1, <3>2 DEF HeadFits
  <2> QED BY <2>1, <2>2
<1>13. \A u \in Threads \ {th} : lock # u
  BY <1>1
<1>14. seen' = [seen EXCEPT ![th] = seen[th]] /\ lock' \in Threads \cup {Nobody}
         /\ disturbed \in BOOLEAN /\ titles \in [Threads -> SUBSET AllTitles]
  BY <1>1, Types
<1>15. CASE UNCHANGED <<plans, tasks, titles, disturbed>>
  <2>1. HeadFits(th, list, lock', plans)
    BY <1>4, <1>12
  <2> HIDE DEF i, p, s, rest
  <2> QED BY <1>1, <1>11, <1>13, <1>14, <1>15, <2>1, Quiet
(* The step's new entry, when its plan is written.                         *)
<1>16. ASSUME NEW step \in StepRecord, disturbed' \in BOOLEAN,
              titles' \in [Threads -> SUBSET AllTitles],
              tasks' = tasks \/ tasks' = Append(tasks, NewTask(p, s)),
              StepFits(tasks', plans, plans[p].shape, p, s, step),
              plans' = [plans EXCEPT ![p].steps[s] = step]
       PROVE  Kept
  <2> DEFINE new == [plans[p].steps EXCEPT ![s] = step]
             r == [plans[p] EXCEPT !.steps = new]
  <2> HIDE DEF i, p, s, rest
  <2>1. plans' = [plans EXCEPT ![p] = r]
    BY <1>16
  <2>2. plans[p].steps \in Seq(StepRecord) /\ s \in 1 .. Len(plans[p].steps)
    BY <1>2, <1>7, PlanFacts, LenProperties DEF PlanRecord, Steps
  <2>3. new \in Seq(StepRecord) /\ DOMAIN new = Steps(p)
    BY <2>2, ExceptSeq DEF Steps
  <2>4. new[s] = step /\ \A d \in Steps(p) : d # s => new[d] = plans[p].steps[d]
    BY <1>7 DEF Steps
  <2> HIDE DEF new
  <2>5. r \in PlanRecord /\ r.shape = plans[p].shape /\ r.parent = plans[p].parent
          /\ r.steps = new
    BY <1>2, <2>3, PlanFacts DEF PlanRecord
  <2> HIDE DEF r
  <2>6. GrowTasks(tasks, tasks') /\ TasksFit(tasks', plans)
    <3>1. CASE tasks' = tasks
      BY <3>1, Types DEF GrowTasks
    <3>2. CASE tasks' = Append(tasks, NewTask(p, s))
      BY <1>2, <1>7, <3>2, AppendFits
    <3> QED BY <1>16, <3>1, <3>2
  <2>7. \A d \in DOMAIN r.steps :
          \/ r.steps[d] = plans[p].steps[d]
          \/ StepFits(tasks', plans, r.shape, p, d, r.steps[d])
    BY <1>16, <2>3, <2>4, <2>5
  <2>8. r.shape = Remediation => r.parent \in DOMAIN plans
    BY <1>2, <2>5, Types DEF FileFits, PlanIds
  <2>9. DOMAIN r.steps = DOMAIN plans[p].steps /\ p \in DOMAIN plans
    BY <1>2, <2>3, <2>5 DEF Steps, PlanIds
  <2>10. FileFits(plans', tasks', plans') /\ SameShapes(plans, plans')
           /\ GrowPlans(plans, plans')
    <3>1. LET g == [plans EXCEPT ![p] = r]
          IN  FileFits(g, tasks', g) /\ SameShapes(plans, g) /\ GrowPlans(plans, g)
      BY <2>5, <2>6, <2>7, <2>8, <2>9, Types, ReplaceFits
    <3> QED BY <2>1, <3>1
  <2>11. TasksFit(tasks', plans')
    BY <2>6, <2>10, Types, SameTasksFit DEF FileFits
  <2>12. PlanIds' = PlanIds
    BY <2>10 DEF SameShapes, PlanIds
  <2>13. HeadFits(th, list, lock', plans')
    <3>1. ASSUME NEW d \in i.steps \ {s} PROVE Postable(plans', p, d)
      <4>1. Postable(plans, p, d) /\ d \in Steps(p)
        BY <1>4, <1>5
      <4>2. plans'[p].steps = new
        BY <2>1, <2>5, <2>9
      <4> QED BY <2>3, <2>4, <4>1, <4>2 DEF Postable
    <3> QED BY <1>12, <3>1
  <2> QED BY <1>1, <1>11, <1>13, <1>14, <1>16, <2>6, <2>10, <2>11, <2>12, <2>13, Preserve
<1>17. ASSUME tasks' = Append(tasks, NewTask(p, s)),
              plans' = [plans EXCEPT ![p].steps[s] =
                          [@ EXCEPT !.task = Len(tasks) + 1, !.status = "active"]],
              titles' = [titles EXCEPT ![th] = @ \cup {Title(p, s)}],
              UNCHANGED disturbed
       PROVE  Kept
  <2> DEFINE step == [plans[p].steps[s] EXCEPT !.task = Len(tasks) + 1,
                                               !.status = "active"]
  <2> HIDE DEF i, p, s, rest
  <2>1. plans[p].steps[s] \in StepRecord /\ Len(tasks) \in Nat
    BY <1>2, <1>7, PlanFacts, AppendFits
  <2>2. step \in StepRecord /\ step.task = Len(tasks) + 1 /\ step.status = "active"
    <3> DEFINE old == plans[p].steps[s]
               num == Len(tasks) + 1
    <3>1. old \in StepRecord /\ num \in Nat
      BY <2>1
    <3>2. step = [old EXCEPT !.task = num, !.status = "active"]
      OBVIOUS
    <3> HIDE DEF old, num, step
    <3>3. step \in StepRecord /\ step.task = num /\ step.status = "active"
      BY <3>1, <3>2 DEF StepRecord
    <3> QED BY <3>3 DEF num
  <2>3. plans' = [plans EXCEPT ![p].steps[s] = step]
    BY <1>17
  <2> HIDE DEF step
  <2>4. Len(tasks) + 1 \in StepTasks(tasks', p, s)
    <3>1. tasks'[Len(tasks) + 1] = NewTask(p, s) /\ Len(tasks) + 1 \in DOMAIN tasks'
      BY <1>2, <1>7, <1>17, <2>1, AppendFits
    <3> QED BY <3>1 DEF StepTasks, NewTask
  <2>5. StepFits(tasks', plans, plans[p].shape, p, s, step)
    BY <2>2, <2>4 DEF StepFits
  <2>6. Title(p, s) \in AllTitles
    BY <1>2, <1>7, PlanFacts DEF Title, AllTitles
  <2>7. titles' \in [Threads -> SUBSET AllTitles]
    BY <1>14, <1>17, <2>6
  <2> QED BY <1>14, <1>16, <1>17, <2>2, <2>3, <2>5, <2>7
<1>18. ASSUME tasks' = tasks \/ tasks' = Append(tasks, NewTask(p, s)),
              plans' = [plans EXCEPT ![p].steps[s].status = "blocked"],
              UNCHANGED titles, disturbed' = TRUE
       PROVE  Kept
  <2> DEFINE step == [plans[p].steps[s] EXCEPT !.status = "blocked"]
  <2> HIDE DEF i, p, s, rest
  <2>1. plans[p].steps[s] \in StepRecord
    BY <1>2, <1>7, PlanFacts
  <2>2. step \in StepRecord /\ step.task = NoTask /\ step.status = "blocked"
    BY <1>7, <2>1 DEF StepRecord
  <2>3. plans' = [plans EXCEPT ![p].steps[s] = step]
    BY <1>18
  <2> HIDE DEF step
  <2>4. StepFits(tasks', plans, plans[p].shape, p, s, step)
    BY <2>2 DEF StepFits
  <2> QED BY <1>14, <1>16, <1>18, <2>2, <2>3, <2>4
<1>19. \/ UNCHANGED <<plans, tasks, titles, disturbed>>
       \/ /\ tasks' = Append(tasks, NewTask(p, s))
          /\ plans' = [plans EXCEPT ![p].steps[s] =
                         [@ EXCEPT !.task = Len(tasks) + 1, !.status = "active"]]
          /\ titles' = [titles EXCEPT ![th] = @ \cup {Title(p, s)}]
          /\ UNCHANGED disturbed
       \/ /\ tasks' = tasks \/ tasks' = Append(tasks, NewTask(p, s))
          /\ plans' = [plans EXCEPT ![p].steps[s].status = "blocked"]
          /\ UNCHANGED titles /\ disturbed' = TRUE
  BY DEF Post
<1> HIDE DEF i, p, s, rest
<1> QED BY <1>15, <1>17, <1>18, <1>19
---------------------------------------------------------------------------
(* Recoveries and their remediations.                                      *)

LEMMA CompensateStep ==
  ASSUME IInv, NEW th \in Threads, Compensate(th)
  PROVE  Kept
<1> DEFINE p == Head(todo[th]).plan
           failed == {s \in Steps(p) : StepStatus(p, s) = "failed"}
           due == {t \in TaskIds : /\ tasks[t].status = "failed" /\ ~tasks[t].undone
                                   /\ \E s \in failed : plans[p].steps[s].task = t}
           us == [t \in TaskIds |->
                    IF t \in due THEN [tasks[t] EXCEPT !.undone = TRUE] ELSE tasks[t]]
           rest == Tail(todo[th])
<1>1. /\ ~Idle(th) /\ Head(todo[th]).do = "compensate" /\ Free(th) /\ tasks' = us
      /\ (Continue(th) /\ NoSave) \/ SaveAnd(th, Sync \o rest)
      /\ UNCHANGED <<plans, lock, seen, titles, env>>
  BY DEF Compensate, At
<1>2. tasks \in Seq(TaskRecord) /\ Len(tasks) \in Nat /\ TaskIds = 1 .. Len(tasks)
        /\ \A t \in TaskIds : tasks[t] \in TaskRecord
  BY Types, LenProperties, ElementOfSeq DEF TaskIds
<1>3. us \in Seq(TaskRecord) /\ DOMAIN us = DOMAIN tasks
  <2>1. ASSUME NEW t \in TaskIds PROVE us[t] \in TaskRecord
    <3>1. us[t] = tasks[t] \/ us[t] = [tasks[t] EXCEPT !.undone = TRUE]
      OBVIOUS
    <3>2. tasks[t] \in TaskRecord
      BY <1>2
    <3> QED BY <3>1, <3>2 DEF TaskRecord
  <2>2. us \in [1 .. Len(tasks) -> TaskRecord]
    BY <1>2, <2>1
  <2>3. DOMAIN us = TaskIds
    OBVIOUS
  <2> HIDE DEF us
  <2> QED BY <1>2, <2>2, <2>3, MakeSeq DEF TaskIds
<1>4. GrowTasks(tasks, us)
  <2>1. ASSUME NEW t \in TaskIds
        PROVE  /\ us[t].plan = tasks[t].plan /\ us[t].step = tasks[t].step
               /\ us[t].parent = tasks[t].parent /\ us[t].status = tasks[t].status
               /\ tasks[t].undone => us[t].undone
    <3>1. us[t] = tasks[t] \/ us[t] = [tasks[t] EXCEPT !.undone = TRUE]
      OBVIOUS
    <3>2. tasks[t] \in TaskRecord
      BY <1>2
    <3> HIDE DEF us
    <3> QED BY <3>1, <3>2 DEF TaskRecord
  <2> HIDE DEF us
  <2> QED BY <1>3, <2>1 DEF GrowTasks, TaskIds
<1> HIDE DEF us, due
<1>5. TasksFit(us, plans) /\ FileFits(plans, us, plans)
  BY <1>3, <1>4, ChangedFits
<1>6. GoodList(rest, PlanIds) /\ Fresh(rest)
  BY <1>1, Rest
<1>7. GoodList(Sync \o rest, PlanIds) /\ Fresh(Sync \o rest)
  BY <1>6, SyncGood, GoodBeforeFresh
<1>8. PICK list \in {rest, Sync \o rest, << >>} : todo' = [todo EXCEPT ![th] = list]
  BY <1>1, SaveFacts DEF Continue
<1>9. GoodList(list, PlanIds) /\ Fresh(list)
  BY <1>6, <1>7, EmptyList
<1>10. disturbed' \in BOOLEAN /\ (saved' = plans' \/ saved' = saved)
  BY <1>1, SaveFacts, Types DEF NoSave
<1>11. \A u \in Threads \ {th} : lock # u
  BY <1>1, FreeAlone
<1>12. seen' = [seen EXCEPT ![th] = seen[th]]
  BY <1>1, Types
<1>13. GrowPlans(plans, plans') /\ SameShapes(plans, plans') /\ PlanIds' = PlanIds
  BY <1>1 DEF GrowPlans, SameShapes, PlanIds
<1>14. HeadFits(th, list, lock', plans')
  BY <1>9, FreshFits
<1> QED BY <1>1, <1>4, <1>5, <1>8, <1>9, <1>10, <1>11, <1>12, <1>13, <1>14, Types, Preserve

(* A plan taken over or made for a call.                                   *)
NewFile(name, parent) ==
  IF OpenWith(name) # {}
  THEN [plans EXCEPT ![Target(name)].parent = parent]
  ELSE Append(plans, NewPlan(name, parent))

(* A plan that is new, or taken over, is covered by the task list.         *)
LEMMA CreatedFits ==
  ASSUME IInv, NEW name \in Names, NEW parent \in PlanIds \cup {NoPlan},
         name = Remediation => parent \in PlanIds
  PROVE  LET g == NewFile(name, parent)
         IN  /\ FileFits(g, tasks, g) /\ GrowPlans(plans, g) /\ TasksFit(tasks, g)
             /\ DOMAIN g \in SUBSET Nat /\ Target(name) \in DOMAIN g
<1> DEFINE g == NewFile(name, parent)
<1>1. PlanIds = 1 .. Len(plans) /\ Len(plans) \in Nat /\ PlanIds \in SUBSET Nat
        /\ PlanIds = DOMAIN plans
  BY PlanFacts DEF PlanIds
<1>2. parent \in Nat
  BY <1>1 DEF NoPlan
<1>3. GrowTasks(tasks, tasks)
  BY DEF GrowTasks
<1>4. CASE OpenWith(name) # {}
  <2> DEFINE q == Target(name)
             r == [plans[q] EXCEPT !.parent = parent]
  <2>1. q \in PlanIds /\ plans[q].shape = name
    <3>1. OpenWith(name) \in SUBSET (1 .. Len(plans))
      BY <1>1 DEF OpenWith
    <3>2. q \in OpenWith(name)
      BY <1>1, <1>4, <3>1, NewestIn DEF Target
    <3> QED BY <3>2 DEF OpenWith
  <2>2. g = [plans EXCEPT ![q] = r]
    BY <1>4 DEF NewFile
  <2> HIDE DEF g, q
  <2>3. r \in PlanRecord /\ r.shape = plans[q].shape /\ r.parent = parent
          /\ r.steps = plans[q].steps
    BY <1>2, <2>1, PlanFacts DEF PlanRecord
  <2> HIDE DEF r
  <2>4. r.shape = Remediation => r.parent \in DOMAIN plans
    BY <1>1, <2>1, <2>3
  <2>5. FileFits(g, tasks, g) /\ SameShapes(plans, g) /\ GrowPlans(plans, g)
    BY <1>1, <1>3, <2>1, <2>2, <2>3, <2>4, Types, ReplaceFits
  <2>6. TasksFit(tasks, g)
    BY <2>5, Types, SameTasksFit DEF FileFits
  <2> QED BY <1>1, <2>1, <2>5, <2>6 DEF SameShapes, g, q
<1>5. CASE OpenWith(name) = {}
  <2> DEFINE n == Len(plans) + 1
             r == NewPlan(name, parent)
  <2>1. plans \in Seq(PlanRecord)
    BY Types DEF WellShaped
  <2>2. r \in PlanRecord /\ r.shape = name /\ r.parent = parent
          /\ DOMAIN r.steps = StepsOf(name)
          /\ \A s \in StepsOf(name) : /\ r.steps[s].task = NoTask
                                      /\ r.steps[s].status \in {"planned", "blocked"}
                                      /\ r.steps[s].status = "planned" =>
                                           Shape[name].needs[s] = {}
    <3> DEFINE steps == [s \in StepsOf(name) |->
                 [status |-> IF Shape[name].needs[s] = {} THEN "planned" ELSE "blocked",
                  task |-> NoTask, undone |-> FALSE]]
    <3>1. steps \in [1 .. Len(Shape[name].needs) -> StepRecord]
      BY Shapes DEF StepRecord, NoTask
    <3>2. \A s \in StepsOf(name) : /\ steps[s].task = NoTask
                                   /\ steps[s].status \in {"planned", "blocked"}
                                   /\ steps[s].status = "planned" =>
                                        Shape[name].needs[s] = {}
      OBVIOUS
    <3>3. DOMAIN steps = StepsOf(name)
      OBVIOUS
    <3>4. r = [shape |-> name, parent |-> parent, resolved |-> 0, steps |-> steps]
      BY DEF NewPlan
    <3> HIDE DEF steps, r
    <3>5. steps \in Seq(StepRecord)
      BY <3>1, Shapes, MakeSeq
    <3>6. r \in PlanRecord
      BY <1>2, <3>4, <3>5 DEF PlanRecord
    <3> QED BY <3>2, <3>3, <3>4, <3>6
  <2>3. g = Append(plans, r)
    BY <1>5 DEF NewFile
  <2> HIDE DEF g, r
  <2>4. g \in Seq(PlanRecord) /\ Len(g) = n /\ DOMAIN g = 1 .. n
          /\ \A p \in 1 .. n : g[p] = IF p <= Len(plans) THEN plans[p] ELSE r
    BY <1>1, <2>1, <2>2, <2>3, AppendProperties, LenProperties
  <2>5. g[n] = r /\ n \in DOMAIN g /\ \A p \in PlanIds : p \in DOMAIN g /\ g[p] = plans[p]
    BY <1>1, <2>4
  <2>6. \A p \in DOMAIN g : p \in PlanIds \/ p = n
    BY <1>1, <2>4
  <2>7. GrowPlans(plans, g)
    BY <1>1, <2>5 DEF GrowPlans
  <2>8. WellShaped(g)
    <3>1. \A p \in PlanIds : DOMAIN plans[p].steps = StepsOf(plans[p].shape)
      BY <1>1, Types DEF WellShaped
    <3> QED BY <2>2, <2>4, <2>5, <2>6, <3>1 DEF WellShaped
  <2>9. TasksFit(tasks, g)
    BY <2>7, <2>8, Types, SameTasksFit
  <2>10. FileFits(plans, tasks, g)
    BY <1>3, <2>7, Types, FileStays
  <2>11. ASSUME NEW p \in DOMAIN g, NEW s \in DOMAIN g[p].steps
         PROVE  StepFits(tasks, g, g[p].shape, p, s, g[p].steps[s])
    <3>1. CASE p \in PlanIds
      BY <1>1, <2>5, <2>10, <3>1 DEF FileFits
    <3>2. CASE p = n
      BY <2>2, <2>5, <3>2 DEF StepFits
    <3> QED BY <2>6, <3>1, <3>2
  <2>12. ASSUME NEW p \in DOMAIN g, g[p].shape = Remediation
         PROVE  g[p].parent \in DOMAIN g
    <3>1. CASE p \in PlanIds
      BY <1>1, <2>5, <2>10, <2>12, <3>1 DEF FileFits
    <3>2. CASE p = n
      BY <2>2, <2>5, <2>12, <3>2
    <3> QED BY <2>6, <3>1, <3>2
  <2>13. FileFits(g, tasks, g)
    BY <2>8, <2>11, <2>12 DEF FileFits
  <2>14. DOMAIN g \in SUBSET Nat /\ Target(name) \in DOMAIN g
    BY <1>1, <1>5, <2>4, <2>5 DEF Target
  <2> QED BY <2>7, <2>9, <2>13, <2>14 DEF g
<1> QED BY <1>4, <1>5

(* A remediation is made or run, or the recovery is.                       *)
LEMMA ActivateStep ==
  ASSUME IInv, NEW th \in Threads, Activate(th)
  PROVE  Kept
<1> DEFINE p == Head(todo[th]).plan
           rest == Tail(todo[th])
<1>1. ~Idle(th) /\ Head(todo[th]).do = "activate" /\ Free(th)
        /\ UNCHANGED <<seen, titles, tasks, env>>
  BY DEF Activate, At, board
<1>2. GoodList(rest, PlanIds) /\ Fresh(rest) /\ p \in PlanIds
  BY <1>1, Rest DEF Proper
<1>3. \A u \in Threads \ {th} : lock # u
  BY <1>1, FreeAlone
<1>4. seen' = [seen EXCEPT ![th] = seen[th]]
  BY <1>1, Types
<1>5. ASSUME NEW c \in PlanIds, ContinueWith(th, Execute(c)), lock' \in {th, lock},
             UNCHANGED <<plans, saved, disturbed>>
      PROVE  Kept
  <2> DEFINE list == Execute(c) \o rest
  <2>1. todo' = [todo EXCEPT ![th] = list]
    BY <1>5 DEF ContinueWith
  <2>2. GoodList(list, PlanIds) /\ Fresh(list)
    BY <1>2, <1>5, PlanFacts, ExecuteGood, GoodBeforeFresh
  <2>3. HeadFits(th, list, lock', plans)
    BY <2>2, FreshFits
  <2> HIDE DEF list
  <2> QED BY <1>1, <1>3, <1>4, <1>5, <2>1, <2>2, <2>3, Types, Quiet
<1>6. ASSUME Create(Remediation, p),
             SaveAnd(th, Execute(Target(Remediation)) \o rest),
             lock' = IF todo'[th] = << >> THEN Nobody ELSE th
      PROVE  Kept
  <2> DEFINE g == NewFile(Remediation, p)
             c == Target(Remediation)
             full == Execute(c) \o rest
  <2>1. Remediation \in Names
    BY PlannerAssumption
  <2>2. FileFits(g, tasks, g) /\ GrowPlans(plans, g) /\ TasksFit(tasks, g)
          /\ DOMAIN g \in SUBSET Nat /\ c \in DOMAIN g
    BY <1>2, <2>1, CreatedFits
  <2>3. plans' = g
    BY <1>6 DEF Create, NewFile
  <2> HIDE DEF g, p, c
  <2>4. GoodList(rest, DOMAIN g)
    BY <1>2, <2>2, GoodGrows DEF GrowPlans, PlanIds
  <2>5. GoodList(full, DOMAIN g) /\ Fresh(full)
    <3>1. GoodList(Execute(c), DOMAIN g) /\ Fresh(Execute(c)) /\ Execute(c) # << >>
      BY <2>2, ExecuteGood
    <3> QED BY <1>2, <2>4, <3>1, GoodBeforeFresh
  <2>6. PICK list \in {full, << >>} : todo' = [todo EXCEPT ![th] = list]
    BY <1>1, <1>6, SaveFacts DEF c
  <2> HIDE DEF full
  <2>7. GoodList(list, PlanIds') /\ Fresh(list)
    BY <2>3, <2>5, EmptyList DEF PlanIds
  <2>8. HeadFits(th, list, lock', plans')
    BY <2>7, FreshFits
  <2>9. disturbed' \in BOOLEAN
          /\ (saved' = plans' \/ (saved' = saved /\ "crash" \notin env))
    BY <1>1, <1>6, SaveFacts
  <2>10. GrowTasks(tasks, tasks) /\ lock' \in Threads \cup {Nobody}
    BY <1>6 DEF GrowTasks
  <2> QED BY <1>1, <1>3, <1>4, <2>2, <2>3, <2>6, <2>7, <2>8, <2>9, <2>10, Types, Preserve
<1>7. \/ \E c \in OpenChildren(p) :
           /\ ContinueWith(th, Execute(c)) /\ lock' = th
           /\ UNCHANGED <<plans, saved, disturbed>>
      \/ ContinueWith(th, Execute(p)) /\ UNCHANGED <<lock, plans, saved, disturbed>>
      \/ /\ Create(Remediation, p)
         /\ SaveAnd(th, Execute(Target(Remediation)) \o rest)
         /\ lock' = IF todo'[th] = << >> THEN Nobody ELSE th
  BY DEF Activate, NoSave
<1>8. OpenChildren(p) \subseteq PlanIds
  BY DEF OpenChildren, Children
<1> HIDE DEF p, rest
<1> QED BY <1>2, <1>5, <1>6, <1>7, <1>8

(* A remediation that ended is noted.                                      *)
LEMMA ProgressStep ==
  ASSUME IInv, NEW th \in Threads, Progress(th)
  PROVE  Kept
<1> DEFINE p == Head(todo[th]).parent
           rest == Tail(todo[th])
<1>1. ~Idle(th) /\ Head(todo[th]).do = "progress" /\ Free(th)
        /\ UNCHANGED <<lock, seen, titles, tasks, env>>
  BY DEF Progress, At, board
<1>2. GoodList(rest, PlanIds) /\ Fresh(rest) /\ p \in PlanIds
  BY <1>1, Rest DEF Proper
<1>3. \A u \in Threads \ {th} : lock # u
  BY <1>1, FreeAlone
<1>4. seen' = [seen EXCEPT ![th] = seen[th]]
  BY <1>1, Types
<1>5. CASE UNCHANGED plans /\ (SaveAnd(th, rest) \/ (Continue(th) /\ NoSave))
  <2>1. PICK list \in {rest, << >>} : todo' = [todo EXCEPT ![th] = list]
    BY <1>1, <1>5, SaveFacts DEF Continue
  <2>2. GoodList(list, PlanIds) /\ Fresh(list)
    BY <1>2, EmptyList
  <2>3. HeadFits(th, list, lock', plans)
    BY <2>2, FreshFits
  <2>4. disturbed' \in BOOLEAN /\ (saved' = plans' \/ saved' = saved)
    BY <1>1, <1>5, SaveFacts, Types DEF NoSave
  <2> HIDE DEF rest
  <2> QED BY <1>1, <1>3, <1>4, <1>5, <2>1, <2>2, <2>3, <2>4, Types, Quiet
<1>6. ASSUME plans' = [plans EXCEPT ![p].resolved = Cardinality(Disrupted(p))],
             SaveAnd(th, Advance(p) \o rest)
      PROVE  Kept
  <2> DEFINE r == [plans[p] EXCEPT !.resolved = Cardinality(Disrupted(p))]
             full == Advance(p) \o rest
  <2> HIDE DEF p, rest
  <2>1. Cardinality(Disrupted(p)) \in Nat
    <3>1. Disrupted(p) \subseteq StepsOf(plans[p].shape)
            /\ IsFiniteSet(StepsOf(plans[p].shape))
      BY <1>2, PlanFacts, Shapes DEF Disrupted
    <3> QED BY <3>1, FS_Subset, FS_CardinalityType
  <2>2. plans' = [plans EXCEPT ![p] = r]
    BY <1>6
  <2>3. r \in PlanRecord /\ r.shape = plans[p].shape /\ r.parent = plans[p].parent
          /\ r.steps = plans[p].steps
    BY <1>2, <2>1, PlanFacts DEF PlanRecord
  <2> HIDE DEF r
  <2>4. r.shape = Remediation => r.parent \in DOMAIN plans
    BY <1>2, <2>3, Types DEF FileFits, PlanIds
  <2>5. GrowTasks(tasks, tasks)
    BY DEF GrowTasks
  <2>6. FileFits(plans', tasks, plans') /\ SameShapes(plans, plans')
          /\ GrowPlans(plans, plans')
    <3>1. LET g == [plans EXCEPT ![p] = r]
          IN  FileFits(g, tasks, g) /\ SameShapes(plans, g) /\ GrowPlans(plans, g)
      BY <1>2, <2>3, <2>4, <2>5, Types, ReplaceFits DEF PlanIds
    <3> QED BY <2>2, <3>1
  <2>7. TasksFit(tasks, plans')
    BY <2>6, Types, SameTasksFit DEF FileFits
  <2>8. GoodList(full, PlanIds) /\ Fresh(full)
    <3>1. GoodList(Advance(p), PlanIds) /\ Fresh(Advance(p)) /\ Advance(p) # << >>
      BY <1>2, PlanFacts, AdvanceGood
    <3> QED BY <1>2, <3>1, GoodBeforeFresh
  <2>9. PICK list \in {full, << >>} : todo' = [todo EXCEPT ![th] = list]
    BY <1>1, <1>6, SaveFacts
  <2> HIDE DEF full
  <2>10. PlanIds' = PlanIds
    BY <2>6 DEF SameShapes, PlanIds
  <2>11. GoodList(list, PlanIds') /\ Fresh(list)
    BY <2>8, <2>10, EmptyList
  <2>12. HeadFits(th, list, lock', plans')
    BY <2>11, FreshFits
  <2>13. disturbed' \in BOOLEAN /\ (saved' = plans' \/ saved' = saved)
    BY <1>1, <1>6, SaveFacts
  <2> QED BY <1>1, <1>3, <1>4, <2>5, <2>6, <2>7, <2>9, <2>11, <2>12, <2>13, Types, Preserve
<1>7. \/ UNCHANGED plans /\ (SaveAnd(th, rest) \/ (Continue(th) /\ NoSave))
      \/ /\ plans' = [plans EXCEPT ![p].resolved = Cardinality(Disrupted(p))]
         /\ SaveAnd(th, Advance(p) \o rest)
  <2> DEFINE status == PlanStatus(Head(todo[th]).plan)
  <2>1. CASE status = "completed"
    BY <2>1 DEF Progress
  <2>2. CASE status = "failed"
    BY <2>2 DEF Progress
  <2>3. CASE status # "completed" /\ status # "failed"
    BY <2>3 DEF Progress
  <2> QED BY <2>1, <2>2, <2>3
<1> HIDE DEF p, rest
<1> QED BY <1>5, <1>6, <1>7
---------------------------------------------------------------------------
(* The calls, reports and the kill.                                        *)

(* A call that begins.                                                     *)
LEMMA Begin ==
  ASSUME IInv, NEW th \in Threads, NEW list, GoodList(list, PlanIds), Fresh(list),
         todo' = [todo EXCEPT ![th] = list],
         UNCHANGED <<plans, saved, tasks, lock, seen, titles, disturbed, env>>
  PROVE  Kept
<1>1. HeadFits(th, list, lock', plans)
  BY FreshFits
<1>2. seen' = [seen EXCEPT ![th] = seen[th]]
  BY Types
<1> QED BY <1>1, <1>2, Types, Quiet

(* A plan is made, or taken over, and its call begins.                     *)
LEMMA SubmitStep ==
  ASSUME IInv, NEW th \in Threads, NEW name \in Names, Submit(th, name)
  PROVE  Kept
<1> DEFINE g == NewFile(name, NoPlan)
           p == Target(name)
           call == IF th = Server /\ Shape[name].kind = "recovery"
                   THEN Advance(p) ELSE Execute(p)
<1>1. /\ Free(th) /\ name # Remediation /\ plans' = g /\ SaveAnd(th, call)
      /\ UNCHANGED <<lock, seen, titles, tasks, env>>
  <2>1. name # Remediation
    BY PlannerAssumption DEF Submit
  <2>2. plans' = g
    BY DEF Submit, Create, NewFile
  <2> QED BY <2>1, <2>2 DEF Submit, board
<1>2. FileFits(g, tasks, g) /\ GrowPlans(plans, g) /\ TasksFit(tasks, g)
        /\ DOMAIN g \in SUBSET Nat /\ p \in DOMAIN g
  BY <1>1, CreatedFits
<1> HIDE DEF g, p
<1>3. GoodList(call, DOMAIN g) /\ Fresh(call)
  BY <1>2, ExecuteGood, AdvanceGood
<1> HIDE DEF call
<1>4. PICK list \in {call, << >>} : todo' = [todo EXCEPT ![th] = list]
  BY <1>1, SaveFacts
<1>5. GoodList(list, PlanIds') /\ Fresh(list)
  BY <1>1, <1>3, EmptyList DEF PlanIds
<1>6. HeadFits(th, list, lock', plans')
  BY <1>5, FreshFits
<1>7. disturbed' \in BOOLEAN
        /\ (saved' = plans' \/ (saved' = saved /\ "crash" \notin env))
  BY <1>1, SaveFacts
<1>8. GrowTasks(tasks, tasks) /\ seen' = [seen EXCEPT ![th] = seen[th]]
  BY <1>1, Types DEF GrowTasks
<1>9. \A u \in Threads \ {th} : lock # u
  BY <1>1, FreeAlone
<1> QED BY <1>1, <1>2, <1>4, <1>5, <1>6, <1>7, <1>8, <1>9, Types, Preserve

(* Reports and compensations by hand: a change of one task.                *)
LEMMA TaskChange ==
  ASSUME IInv, NEW t \in TaskIds, NEW list, GoodList(list, PlanIds), Fresh(list),
         NEW new \in TaskRecord,
         new.plan = tasks[t].plan, new.step = tasks[t].step,
         new.parent = tasks[t].parent,
         tasks[t].status # "active" => new.status = tasks[t].status,
         tasks[t].status = "failed" /\ tasks[t].undone => new.undone,
         tasks' = [tasks EXCEPT ![t] = new],
         todo' = [todo EXCEPT ![Server] = list], disturbed' \in BOOLEAN,
         UNCHANGED <<plans, saved, lock, seen, titles, env>>
  PROVE  Kept
<1>1. tasks \in Seq(TaskRecord) /\ t \in 1 .. Len(tasks) /\ DOMAIN tasks = 1 .. Len(tasks)
  BY Types, LenProperties DEF TaskIds
<1>2. tasks' \in Seq(TaskRecord) /\ DOMAIN tasks' = DOMAIN tasks
  BY <1>1, ExceptSeq
<1>3. tasks'[t] = new /\ \A u \in DOMAIN tasks : u # t => tasks'[u] = tasks[u]
  BY <1>1
<1>4. GrowTasks(tasks, tasks')
  BY <1>2, <1>3 DEF GrowTasks
<1>5. TasksFit(tasks', plans') /\ FileFits(plans', tasks', plans')
  BY <1>2, <1>4, ChangedFits
<1>6. GrowPlans(plans, plans') /\ SameShapes(plans, plans') /\ PlanIds' = PlanIds
  BY DEF GrowPlans, SameShapes, PlanIds
<1>7. seen' = [seen EXCEPT ![Server] = seen[Server]] /\ Server \in Threads
  BY Types DEF Threads
<1>8. HeadFits(Server, list, lock', plans')
  BY FreshFits
<1> QED BY <1>4, <1>5, <1>6, <1>7, <1>8, Types, Preserve

(* Compensated tasks stay settled.                                         *)
LEMMA CompensateByHandStep ==
  ASSUME IInv, NEW t \in TaskIds, CompensateByHand(t)
  PROVE  Kept
<1> DEFINE new == [tasks[t] EXCEPT !.undone = TRUE]
<1>1. tasks[t] \in TaskRecord
  BY Types, LenProperties, ElementOfSeq DEF TaskIds
<1>2. /\ new \in TaskRecord /\ new.plan = tasks[t].plan /\ new.step = tasks[t].step
      /\ new.parent = tasks[t].parent /\ new.status = tasks[t].status /\ new.undone
  BY <1>1 DEF TaskRecord
<1>3. tasks' = [tasks EXCEPT ![t] = new] /\ todo[Server] = << >>
        /\ UNCHANGED <<plans, saved, lock, todo, seen, titles, env>>
        /\ disturbed' \in BOOLEAN
  BY DEF CompensateByHand, Idle
<1>4. todo' = [todo EXCEPT ![Server] = << >>]
  BY <1>3, Types DEF Threads
<1> HIDE DEF new
<1> QED BY <1>2, <1>3, <1>4, EmptyList, TaskChange

(* A reported task is settled or failed for good.                          *)
LEMMA ReportStep ==
  ASSUME IInv, NEW t \in TaskIds, NEW success \in BOOLEAN, Report(t, success)
  PROVE  Kept
<1> DEFINE result == IF success THEN "done" ELSE "failed"
           new == [tasks[t] EXCEPT !.status = result, !.undone = FALSE]
           p == tasks[t].plan
           list == AfterReport(tasks[t])
<1>1. tasks[t] \in TaskRecord
  BY Types, LenProperties, ElementOfSeq DEF TaskIds
<1>2. /\ new \in TaskRecord /\ new.plan = tasks[t].plan /\ new.step = tasks[t].step
      /\ new.parent = tasks[t].parent
  <2>1. result \in {"active", "done", "failed"}
    OBVIOUS
  <2> HIDE DEF result
  <2> QED BY <1>1, <2>1 DEF TaskRecord
<1>3. /\ tasks[t].status = "active"
      /\ todo' = [todo EXCEPT ![Server] = list]
      /\ UNCHANGED <<plans, saved, lock, seen, titles, disturbed, env>>
  BY DEF Report
<1>4. tasks' = [tasks EXCEPT ![t] = new]
  BY DEF Report
<1>5. p \in PlanIds /\ (plans[p].shape = Remediation => tasks[t].parent \in PlanIds)
        /\ tasks[t].parent \in Nat
  BY <1>1, Types DEF TasksFit, TaskFits, TaskIds, PlanIds, TaskRecord
<1>6. GoodList(list, PlanIds) /\ Fresh(list)
  <2>1. GoodList(Execute(p), PlanIds) /\ Fresh(Execute(p)) /\ Execute(p) # << >>
    BY <1>5, PlanFacts, ExecuteGood
  <2>2. CASE Kind(p) = "recovery"
    BY <1>5, <2>2, PlanFacts, AdvanceGood DEF AfterReport
  <2>3. CASE Kind(p) = "remediation"
    <3> DEFINE last == [Do("progress", p) EXCEPT !.parent = tasks[t].parent]
               one == <<last>>
    <3>1. tasks[t].parent \in PlanIds
      BY <1>5, <2>3, PlanFacts, PlannerAssumption DEF Kind
    <3>2. last \in Instruction /\ last.do = "progress" /\ last.plan = p
            /\ last.parent = tasks[t].parent
      BY <1>5, PlanFacts DEF Do, Instruction, NoPlan
    <3>3. list = Execute(p) \o one
      BY <2>3 DEF AfterReport
    <3> HIDE DEF last, list, p
    <3>4. one \in Seq(Instruction) /\ Len(one) = 1 /\ one[1] = last
      BY <3>2
    <3> HIDE DEF one
    <3>5. GoodList(one, PlanIds) /\ Fresh(one)
      <4>1. \A k \in 1 .. 1 : one[k] = last
        BY <3>4
      <4> QED BY <1>5, <3>1, <3>2, <3>4, <4>1 DEF GoodList, Proper, Fresh, Locked
    <3> QED BY <2>1, <3>3, <3>5, GoodBeforeFresh
  <2>4. CASE Kind(p) \notin {"recovery", "remediation"}
    BY <2>1, <2>4 DEF AfterReport
  <2> QED BY <2>2, <2>3, <2>4
<1> HIDE DEF new, p, list
<1> QED BY <1>2, <1>3, <1>4, <1>6, Types, TaskChange

(* The plans of the file are covered as well as those in memory.           *)
LEMMA CrashStep ==
  ASSUME IInv, Crash
  PROVE  Kept
<1>1. /\ "crash" \in env /\ disturbed' = TRUE /\ plans' = saved /\ lock' = Nobody
      /\ todo' = [th \in Threads |-> << >>] /\ seen' = [th \in Threads |-> << >>]
      /\ titles' = [th \in Threads |-> {}] /\ UNCHANGED <<saved, tasks, env>>
  BY DEF Crash
<1>2. FileFits(saved, tasks, plans) /\ SameShapes(saved, plans)
  BY <1>1 DEF IInv, FileInv
<1>3. GrowPlans(plans, saved) /\ GrowTasks(tasks, tasks) /\ SameShapes(saved, saved)
  BY <1>2 DEF SameShapes, GrowPlans, GrowTasks
<1>4. FileFits(saved, tasks, saved)
  BY <1>2, <1>3, Types, FileStays
<1>5. TasksFit(tasks, saved)
  BY <1>2, <1>3, Types, SameTasksFit DEF FileFits
<1>6. FileInv' /\ TaskInv'
  BY <1>1, <1>3, <1>4, <1>5 DEF FileInv, TaskInv
<1>7. CopyInv'
  <2>1. CopyFits(<< >>, tasks')
    BY DEF CopyFits
  <2> QED BY <1>1, <2>1 DEF CopyInv
<1>8. ListInv' /\ HeadInv'
  <2>1. \A th \in Threads : todo'[th] = << >>
    BY <1>1
  <2>2. GoodList(<< >>, PlanIds')
    BY EmptyList
  <2> QED BY <2>1, <2>2 DEF ListInv, HeadInv, HeadFits
<1>9. TypeOK'
  <2>1. WellShaped(saved)
    BY <1>2 DEF FileFits
  <2>2. todo' \in [Threads -> Seq(Instruction)] /\ seen' \in [Threads -> Seq(TaskRecord)]
          /\ titles' \in [Threads -> SUBSET AllTitles]
    BY <1>1
  <2> QED BY <1>1, <2>1, <2>2, Types DEF TypeOK
<1>10. IInv'
  BY <1>6, <1>7, <1>8, <1>9 DEF IInv
<1> QED BY <1>1, <1>3, <1>10 DEF Kept
---------------------------------------------------------------------------
(* The invariant.                                                          *)

LEMMA Initial ==
  ASSUME Init
  PROVE  IInv
<1>1. /\ plans = << >> /\ saved = << >> /\ tasks = << >> /\ lock = Nobody
      /\ todo = [th \in Threads |-> << >>] /\ seen = [th \in Threads |-> << >>]
      /\ titles = [th \in Threads |-> {}] /\ disturbed = FALSE /\ env \in Envs
  BY DEF Init
<1>2. WellShaped(<< >>)
  BY DEF WellShaped
<1>3. FileInv /\ TaskInv /\ CopyInv
  BY <1>1, <1>2 DEF FileInv, FileFits, SameShapes, TaskInv, TasksFit, CopyInv, CopyFits
<1>4. ListInv /\ HeadInv
  BY <1>1, EmptyList DEF ListInv, HeadInv, HeadFits
<1>5. TypeOK
  <2>1. todo \in [Threads -> Seq(Instruction)] /\ seen \in [Threads -> Seq(TaskRecord)]
          /\ titles \in [Threads -> SUBSET AllTitles]
    BY <1>1
  <2>2. tasks \in Seq(TaskRecord)
    <3>1. tasks = << >>
      BY <1>1
    <3> QED BY <3>1
  <2>3. lock \in Threads \cup {Nobody} /\ disturbed \in BOOLEAN /\ env \in Envs
    BY <1>1
  <2> QED BY <1>1, <1>2, <2>1, <2>2, <2>3 DEF TypeOK
<1> QED BY <1>3, <1>4, <1>5 DEF IInv

(* Steps of others.                                                        *)
LEMMA Stutter ==
  ASSUME IInv, UNCHANGED vars
  PROVE  Kept
<1>1. IInv'
  BY DEF IInv, vars, TypeOK, FileInv, TaskInv, CopyInv, ListInv, HeadInv, PlanIds
<1>2. GrowTasks(tasks, tasks') /\ GrowPlans(plans, plans')
  BY DEF vars, GrowTasks, GrowPlans
<1> QED BY <1>1, <1>2 DEF Kept

(* Every step keeps the invariant.                                         *)
LEMMA Inductive ==
  ASSUME IInv, [Next]_vars
  PROVE  Kept
<1>1. ASSUME NEW th \in Threads, Step(th) PROVE Kept
  BY <1>1, ReadStep, ApplyStep, ReadTitlesStep, QueueStep, PostStep, SaveStep,
     UnlockStep, CompensateStep, ActivateStep, ProgressStep DEF Step
<1>2. ASSUME NEW th \in Threads, NEW name \in Names, Submit(th, name) PROVE Kept
  BY <1>2, SubmitStep
<1>3. ASSUME Learn PROVE Kept
  <2>1. todo' = [todo EXCEPT ![Loop] = Sync] /\ Loop \in Threads
          /\ UNCHANGED <<plans, saved, tasks, lock, seen, titles, disturbed, env>>
    BY <1>3 DEF Learn, NoSave, board, Threads
  <2> QED BY <2>1, SyncGood, Begin
<1>4. ASSUME NEW what, NEW list, GoodList(list, PlanIds), Fresh(list),
             Request(what, list)
      PROVE  Kept
  <2>1. todo' = [todo EXCEPT ![Server] = list] /\ Server \in Threads
          /\ UNCHANGED <<plans, saved, tasks, lock, seen, titles, disturbed, env>>
    BY <1>4 DEF Request, NoSave, board, Threads
  <2> QED BY <1>4, <2>1, Begin
<1>5. ASSUME Request("status", Sync) PROVE Kept
  BY <1>4, <1>5, SyncGood
<1>6. ASSUME NEW p \in PlanIds \cup {NoPlan}, Request("run", Execute(p)) PROVE Kept
  BY <1>4, <1>6, PlanFacts, ExecuteGood
<1>7. ASSUME NEW p \in Recoveries, Request("advance", Advance(p)) PROVE Kept
  BY <1>4, <1>7, PlanFacts, AdvanceGood DEF Recoveries
<1>8. ASSUME NEW t \in TaskIds, CompensateByHand(t) PROVE Kept
  BY <1>8, CompensateByHandStep
<1>9. ASSUME NEW t \in TaskIds, NEW success \in BOOLEAN, Report(t, success) PROVE Kept
  BY <1>9, ReportStep
<1>10. CASE Crash
  BY <1>10, CrashStep
<1>11. CASE UNCHANGED vars
  BY <1>11, Stutter
<1> QED BY <1>1, <1>2, <1>3, <1>5, <1>6, <1>7, <1>8, <1>9, <1>10, <1>11 DEF Next

(* So it always holds.                                                     *)
LEMMA Invariance == Spec => []IInv
<1>1. IInv /\ [Next]_vars => IInv'
  BY Inductive DEF Kept
<1> QED BY <1>1, Initial, PTL DEF Spec

(* Type correctness of the planner's state, the thread's calls included.   *)
THEOREM TypeCorrect == Spec => []TypeOK
<1>1. IInv => TypeOK
  BY DEF IInv
<1> QED BY <1>1, Invariance, PTL

(* For plans of any shape, any number of threads' steps between the copy   *)
(* of the task list and its application, and a kill or a fault anywhere:   *)
(* the planner never takes for done, failed or queued what is not.         *)
THEOREM PlannerNeverAhead == Spec => []NeverAhead
<1>1. ASSUME IInv PROVE NeverAhead
  <2>1. ASSUME NEW p, NEW s PROVE TasksOf(p, s) = StepTasks(tasks, p, s)
    BY DEF TasksOf, StepTasks, TaskIds
  <2>2. ASSUME NEW p, NEW s PROVE Settled(p, s) <=> IsSettled(tasks, plans, p, s)
    BY <2>1 DEF Settled, IsSettled, Settles, SettledBy, Kind
  <2>3. \A p \in PlanIds : \A s \in Steps(p) :
          StepFits(tasks, plans, plans[p].shape, p, s, plans[p].steps[s])
    BY <1>1, Types DEF FileFits, PlanIds, Steps
  <2> QED BY <2>1, <2>2, <2>3 DEF NeverAhead, StepFits
<1> QED BY <1>1, Invariance, PTL
---------------------------------------------------------------------------
(* The order of work.                                                      *)

(* The variables of PlanGraph, for any plans and any tasks.                *)
NeedsOf(f) ==
  [x \in UNION {{p} \X DOMAIN f[p].steps : p \in DOMAIN f} |->
     {<<x[1], d>> : d \in Shape[f[x[1]].shape].needs[x[2]]}]
StartedBy(ts) == {<<ts[t].plan, ts[t].step>> : t \in DOMAIN ts}
SettledSteps(ts, f) ==
  {<<ts[t].plan, ts[t].step>> : t \in {u \in DOMAIN ts : SettledBy(ts, f, u)}}

(* What the abstract graph has for nodes and edges.                        *)
LEMMA NeedsDomain ==
  ASSUME NEW f
  PROVE  /\ \A x : x \in DOMAIN NeedsOf(f) <=>
                     \E p \in DOMAIN f : \E s \in DOMAIN f[p].steps : x = <<p, s>>
         /\ \A p \in DOMAIN f : \A s \in DOMAIN f[p].steps :
              NeedsOf(f)[<<p, s>>] = {<<p, d>> : d \in Shape[f[p].shape].needs[s]}
<1>1. DOMAIN NeedsOf(f) = UNION {{p} \X DOMAIN f[p].steps : p \in DOMAIN f}
  BY DEF NeedsOf
<1>2. \A x : x \in DOMAIN NeedsOf(f) <=>
               \E p \in DOMAIN f : \E s \in DOMAIN f[p].steps : x = <<p, s>>
  BY <1>1
<1>3. ASSUME NEW p \in DOMAIN f, NEW s \in DOMAIN f[p].steps
      PROVE  NeedsOf(f)[<<p, s>>] = {<<p, d>> : d \in Shape[f[p].shape].needs[s]}
  <2>1. <<p, s>> \in UNION {{q} \X DOMAIN f[q].steps : q \in DOMAIN f}
    BY <1>1, <1>2
  <2> QED BY <2>1 DEF NeedsOf
<1> QED BY <1>2, <1>3

(* Plans are added, and none changes what its steps wait for.              *)
LEMMA NeedsStay ==
  ASSUME NEW f, NEW g, WellShaped(f), WellShaped(g), GrowPlans(f, g)
  PROVE  /\ DOMAIN NeedsOf(f) \subseteq DOMAIN NeedsOf(g)
         /\ \A x \in DOMAIN NeedsOf(f) : NeedsOf(g)[x] = NeedsOf(f)[x]
<1> SUFFICES ASSUME NEW x \in DOMAIN NeedsOf(f)
             PROVE  x \in DOMAIN NeedsOf(g) /\ NeedsOf(g)[x] = NeedsOf(f)[x]
  OBVIOUS
<1>1. PICK p \in DOMAIN f : \E s \in DOMAIN f[p].steps : x = <<p, s>>
  BY NeedsDomain
<1>2. PICK s \in DOMAIN f[p].steps : x = <<p, s>>
  BY <1>1
<1>3. p \in DOMAIN g /\ g[p].shape = f[p].shape /\ s \in DOMAIN g[p].steps
  BY DEF GrowPlans, WellShaped
<1>4. x \in DOMAIN NeedsOf(g)
  BY <1>2, <1>3, NeedsDomain
<1>5. NeedsOf(g)[<<p, s>>] = {<<p, d>> : d \in Shape[g[p].shape].needs[s]}
  BY <1>3, NeedsDomain
<1>6. NeedsOf(f)[<<p, s>>] = {<<p, d>> : d \in Shape[f[p].shape].needs[s]}
  BY NeedsDomain
<1> QED BY <1>2, <1>3, <1>4, <1>5, <1>6

(* They depend on the shapes only.                                         *)
LEMMA SameNeeds ==
  ASSUME NEW f, NEW g, WellShaped(f), WellShaped(g), SameShapes(f, g)
  PROVE  NeedsOf(g) = NeedsOf(f)
<1>1. GrowPlans(f, g) /\ GrowPlans(g, f)
  BY DEF SameShapes, GrowPlans
<1>2. DOMAIN NeedsOf(f) = DOMAIN NeedsOf(g)
        /\ \A x \in DOMAIN NeedsOf(f) : NeedsOf(g)[x] = NeedsOf(f)[x]
  BY <1>1, NeedsStay
<1>3. NeedsOf(f) = [x \in DOMAIN NeedsOf(f) |-> NeedsOf(f)[x]]
        /\ NeedsOf(g) = [x \in DOMAIN NeedsOf(g) |-> NeedsOf(g)[x]]
  BY DEF NeedsOf
<1> QED BY <1>2, <1>3

(* What is settled stays so, and is a step that was started.               *)
LEMMA SettledGrow ==
  ASSUME NEW ts, NEW us, NEW f, NEW g, TasksFit(ts, f), GrowTasks(ts, us),
         GrowPlans(f, g)
  PROVE  /\ SettledSteps(ts, f) \subseteq SettledSteps(us, g)
         /\ SettledSteps(us, g) \subseteq StartedBy(us)
         /\ DOMAIN us = DOMAIN ts => StartedBy(us) = StartedBy(ts)
         /\ ts = us => SettledSteps(us, g) = SettledSteps(ts, f)
<1>1. ASSUME NEW t \in DOMAIN ts
      PROVE  /\ SettledBy(ts, f, t) => SettledBy(us, g, t)
             /\ (ts = us /\ SettledBy(us, g, t)) => SettledBy(ts, f, t)
             /\ us[t].plan = ts[t].plan /\ us[t].step = ts[t].step /\ t \in DOMAIN us
  <2>1. ts[t].plan \in DOMAIN f /\ us[t].plan = ts[t].plan /\ us[t].step = ts[t].step
          /\ t \in DOMAIN us
    BY DEF TasksFit, TaskFits, GrowTasks
  <2>2. g[us[t].plan].shape = f[ts[t].plan].shape
    BY <2>1 DEF GrowPlans
  <2> QED BY <2>1, <2>2 DEF SettledBy, GrowTasks
<1>2. SettledSteps(ts, f) \subseteq SettledSteps(us, g)
  BY <1>1 DEF SettledSteps
<1>3. SettledSteps(us, g) \subseteq StartedBy(us)
  BY DEF SettledSteps, StartedBy
<1>4. DOMAIN us = DOMAIN ts => StartedBy(us) = StartedBy(ts)
  BY <1>1 DEF StartedBy
<1>5. ts = us => SettledSteps(us, g) = SettledSteps(ts, f)
  BY <1>1 DEF SettledSteps
<1> QED BY <1>2, <1>3, <1>4, <1>5

(* PlanGraph's variables are these.                                        *)
GraphIs ==
  /\ [x \in UNION {{p} \X Steps(p) : p \in PlanIds} |->
        {<<x[1], d>> : d \in Needs(x[1])[x[2]]}] = NeedsOf(plans)
  /\ {<<tasks[t].plan, tasks[t].step>> : t \in TaskIds} = StartedBy(tasks)
  /\ {<<tasks[t].plan, tasks[t].step>> : t \in {u \in TaskIds : Settles(u)}} =
       SettledSteps(tasks, plans)

(* The substitution of the refinement, in the operators used here.         *)
LEMMA GraphVariables == GraphIs
<1>1. \A t : Settles(t) <=> SettledBy(tasks, plans, t)
  BY DEF Settles, SettledBy, Kind
<1>2. TaskIds = DOMAIN tasks
  BY DEF TaskIds
<1>3. {<<tasks[t].plan, tasks[t].step>> : t \in {u \in TaskIds : Settles(u)}} =
        SettledSteps(tasks, plans)
  BY <1>1, <1>2 DEF SettledSteps
<1>4. [x \in UNION {{p} \X Steps(p) : p \in PlanIds} |->
        {<<x[1], d>> : d \in Needs(x[1])[x[2]]}] = NeedsOf(plans)
  BY DEF NeedsOf, Steps, PlanIds, Needs
<1> QED BY <1>2, <1>3, <1>4 DEF StartedBy, GraphIs

(* Every step adds plans, adds to the task list what a step waits for no   *)
(* more, or notes what became of the tasks.                                *)
LEMMA Moves ==
  ASSUME IInv, [Next]_vars
  PROVE  \/ tasks' = tasks
         \/ plans' = plans /\ DOMAIN tasks' = DOMAIN tasks
         \/ \E p \in PlanIds : \E s \in Steps(p) :
              /\ StepStatus(p, s) = "planned" /\ DOMAIN plans' = DOMAIN plans
              /\ tasks' = Append(tasks, NewTask(p, s))
<1> DEFINE Goal == \/ tasks' = tasks
                   \/ plans' = plans /\ DOMAIN tasks' = DOMAIN tasks
                   \/ \E p \in PlanIds : \E s \in Steps(p) :
                        /\ StepStatus(p, s) = "planned" /\ DOMAIN plans' = DOMAIN plans
                        /\ tasks' = Append(tasks, NewTask(p, s))
<1>1. ASSUME NEW th \in Threads, Post(th) PROVE Goal
  <2> DEFINE i == Head(todo[th])
             p == i.plan
             s == Least(i.steps)
  <2>1. ~Idle(th) /\ i.do = "post"
    BY <1>1 DEF Post, At
  <2>2. p \in PlanIds /\ i \in Instruction
    BY <2>1, Rest DEF Proper
  <2>3. i.steps # {} /\ \A r \in i.steps : Postable(plans, p, r)
    BY <2>1, Rest DEF HeadFits
  <2>4. i.steps \in SUBSET Nat
    BY <2>2 DEF Instruction
  <2>5. s \in Steps(p) /\ StepStatus(p, s) = "planned"
    <3> HIDE DEF i
    <3>1. s \in i.steps
      BY <2>3, <2>4, LeastIn
    <3> QED BY <2>3, <3>1 DEF Postable, Steps, StepStatus
  <2>6. \/ tasks' = tasks
        \/ DOMAIN plans' = DOMAIN plans /\ tasks' = Append(tasks, NewTask(p, s))
    BY <1>1 DEF Post
  <2> HIDE DEF i, p, s
  <2> QED BY <2>2, <2>5, <2>6
<1>2. ASSUME NEW th \in Threads, Compensate(th) PROVE Goal
  BY <1>2 DEF Compensate, TaskIds
<1>3. ASSUME NEW t \in TaskIds, CompensateByHand(t) PROVE Goal
  BY <1>3 DEF CompensateByHand
<1>4. ASSUME NEW t \in TaskIds, NEW success \in BOOLEAN, Report(t, success) PROVE Goal
  BY <1>4 DEF Report
<1>5. ASSUME NEW th \in Threads, Step(th), ~Post(th), ~Compensate(th)
      PROVE  tasks' = tasks
  BY <1>5 DEF Step, Read, Apply, ReadTitles, Queue, Save, Unlock, Activate, Progress, board
<1>6. ASSUME NEW th \in Threads, NEW name \in Names, Submit(th, name) PROVE tasks' = tasks
  BY <1>6 DEF Submit, board
<1>7. Learn \/ (\E what, list : Request(what, list)) \/ Crash \/ UNCHANGED vars
        => tasks' = tasks
  BY DEF Learn, Request, Crash, vars, board
<1>8. \/ \E th \in Threads : Step(th) \/ \E name \in Names : Submit(th, name)
      \/ Learn \/ (\E what, list : Request(what, list)) \/ Crash \/ UNCHANGED vars
      \/ \E t \in TaskIds :
           CompensateByHand(t) \/ \E success \in BOOLEAN : Report(t, success)
  BY DEF Next
<1> HIDE DEF Goal
<1>9. tasks' = tasks => Goal
  BY DEF Goal
<1>10. Goal
  BY <1>1, <1>2, <1>3, <1>4, <1>5, <1>6, <1>7, <1>8, <1>9
<1> QED BY <1>10 DEF Goal

(* The planner keeps the order of work of PlanGraph, with copies of the    *)
(* task list applied late, in any order, after kills and failed saves.     *)
THEOREM PlannerKeepsOrder == Spec => ImplementsPlanGraph
<1>1. Init => Graph!Init
  <2> SUFFICES ASSUME Init PROVE Graph!Init
    OBVIOUS
  <2>1. plans = << >> /\ tasks = << >>
    BY DEF Init
  <2>2. NeedsOf(plans) = << >>
    <3>1. DOMAIN NeedsOf(plans) = {}
      BY <2>1 DEF NeedsOf
    <3> QED BY <2>1, <3>1 DEF NeedsOf
  <2>3. StartedBy(tasks) = {} /\ SettledSteps(tasks, plans) = {}
    BY <2>1 DEF StartedBy, SettledSteps
  <2> QED BY <2>2, <2>3, GraphVariables DEF Graph!Init, GraphIs
<1>2. IInv /\ [Next]_vars => [Graph!Next]_Graph!vars
  <2> SUFFICES ASSUME IInv, [Next]_vars PROVE Graph!Next
    OBVIOUS
  <2>1. Kept
    BY Inductive
  <2>2. /\ GrowTasks(tasks, tasks') /\ GrowPlans(plans, plans')
        /\ TasksFit(tasks, plans) /\ WellShaped(plans)
        /\ TasksFit(tasks', plans') /\ WellShaped(plans')
    BY <2>1, Types DEF Kept, IInv, TaskInv, TypeOK
  <2> DEFINE N == NeedsOf(plans)
             A == StartedBy(tasks)
             S == SettledSteps(tasks, plans)
             NN == NeedsOf(plans')
             AA == StartedBy(tasks')
             SS == SettledSteps(tasks', plans')
  <2>3. S \subseteq SS /\ SS \subseteq AA
    BY <2>2, SettledGrow
  <2>4. DOMAIN N \subseteq DOMAIN NN /\ \A x \in DOMAIN N : NN[x] = N[x]
    BY <2>2, NeedsStay
  <2>5. GraphIs /\ GraphIs'
    <3>1. GraphIs'
      BY GraphVariables, PTL
    <3> QED BY <3>1, GraphVariables
  <2>6. ASSUME AA = A, SS = S PROVE Graph!Next
    <3> HIDE DEF N, A, S, NN, AA, SS
    <3> QED BY <2>4, <2>5, <2>6 DEF GraphIs, N, A, S, NN, AA, SS, Graph!Next, Graph!Publish
  <2>7. CASE tasks' = tasks
    BY <2>2, <2>6, <2>7, SettledGrow
  <2>8. CASE plans' = plans /\ DOMAIN tasks' = DOMAIN tasks
    <3>1. NN = N /\ AA = A
      BY <2>2, <2>8, SettledGrow
    <3>2. SS \ S \in SUBSET (A \ S) /\ SS = S \cup (SS \ S)
      BY <2>3, <3>1
    <3> HIDE DEF N, A, S, NN, AA, SS
    <3> QED BY <2>5, <3>1, <3>2 DEF GraphIs, N, A, S, NN, AA, SS, Graph!Next, Graph!Settle
  <2>9. ASSUME NEW p \in PlanIds, NEW s \in Steps(p), StepStatus(p, s) = "planned",
               DOMAIN plans' = DOMAIN plans,
               tasks' = Append(tasks, NewTask(p, s))
        PROVE  Graph!Next
    <3> DEFINE x == <<p, s>>
    <3>1. NN = N
      <4>1. SameShapes(plans, plans')
        BY <2>2, <2>9 DEF SameShapes, GrowPlans
      <4> QED BY <2>2, <4>1, SameNeeds
    <3>2. /\ DOMAIN tasks' = 1 .. Len(tasks) + 1 /\ Len(tasks) \in Nat
          /\ tasks'[Len(tasks) + 1] = NewTask(p, s)
          /\ \A t \in DOMAIN tasks : tasks'[t] = tasks[t]
      BY <2>9, AppendFits
    <3>3. DOMAIN tasks = 1 .. Len(tasks)
      BY Types, LenProperties
    <3>4. \A t : t \in DOMAIN tasks' <=> t \in DOMAIN tasks \/ t = Len(tasks) + 1
      BY <3>2, <3>3
    <3>5. NewTask(p, s).plan = p /\ NewTask(p, s).step = s
            /\ NewTask(p, s).status = "active"
      BY DEF NewTask
    <3>6. AA = A \cup {x}
      BY <3>2, <3>4, <3>5 DEF StartedBy
    <3>7. SS = S
      <4>1. ~SettledBy(tasks', plans', Len(tasks) + 1)
        BY <3>2, <3>5 DEF SettledBy
      <4>2. ASSUME NEW t \in DOMAIN tasks
            PROVE  SettledBy(tasks', plans', t) <=> SettledBy(tasks, plans, t)
        <5>1. tasks'[t] = tasks[t] /\ tasks[t].plan \in DOMAIN plans
          BY <2>2, <3>2 DEF TasksFit, TaskFits
        <5>2. plans'[tasks[t].plan].shape = plans[tasks[t].plan].shape
          BY <2>2, <5>1 DEF GrowPlans
        <5> QED BY <5>1, <5>2 DEF SettledBy
      <4> QED BY <3>2, <3>4, <4>1, <4>2 DEF SettledSteps
    <3>8. x \in DOMAIN N /\ N[x] \subseteq S
      <4>1. N[x] = {<<p, d>> : d \in Shape[plans[p].shape].needs[s]} /\ x \in DOMAIN N
        BY NeedsDomain DEF PlanIds, Steps
      <4>2. \A d \in Shape[plans[p].shape].needs[s] : IsSettled(tasks, plans, p, d)
        BY <2>9, Types DEF FileFits, StepFits, PlanIds, Steps, StepStatus
      <4>3. ASSUME NEW d, IsSettled(tasks, plans, p, d) PROVE <<p, d>> \in S
        BY <4>3 DEF IsSettled, StepTasks, SettledSteps
      <4> QED BY <4>1, <4>2, <4>3
    <3>9. CASE x \in A
      BY <2>6, <3>6, <3>7, <3>9
    <3>10. CASE x \notin A
      <4> HIDE DEF N, A, S, NN, AA, SS, x
      <4>1. \E y \in DOMAIN N \ A : /\ N[y] \subseteq S /\ AA = A \cup {y}
                                   /\ NN = N /\ SS = S
        BY <3>1, <3>6, <3>7, <3>8, <3>10
      <4> QED BY <2>5, <4>1 DEF GraphIs, N, A, S, NN, AA, SS, Graph!Next, Graph!Start
    <3> QED BY <3>9, <3>10
  <2> QED BY <2>7, <2>8, <2>9, Moves
<1> QED BY <1>1, <1>2, Invariance, PTL DEF Spec, ImplementsPlanGraph, Graph!Spec
---------------------------------------------------------------------------
(* What it hands to agents.                                                *)

(* The instruction that a thread executes next.                            *)
First(list, whats) == list # << >> /\ list[1].do \in whats
Calm(list) == ~ First(list, {"queue", "post"})

(* No task is added, and none becomes active again.                        *)
NoNewTask ==
  /\ DOMAIN tasks' = DOMAIN tasks
  /\ \A t \in DOMAIN tasks : tasks'[t].status = "active" => tasks[t].status = "active"

(* The steps have the tasks they had.                                      *)
SameNumbers ==
  \A p \in PlanIds : \A s \in Steps(p) :
    plans'[p].steps[s].task = plans[p].steps[s].task

(* At most one plan is made, and only where none like it is open.          *)
PlansMade ==
  \/ DOMAIN plans' = DOMAIN plans
  \/ \E name \in Names : \E parent :
       OpenWith(name) = {} /\ plans' = Append(plans, NewPlan(name, parent))

(* What all steps of a thread do that neither read titles, queue nor post. *)
Plain(th) ==
  /\ \E list : Calm(list) /\ todo' = [todo EXCEPT ![th] = list]
  /\ titles' = titles \/ titles' = [titles EXCEPT ![th] = {}]
  /\ plans' = plans \/ Free(th)
  /\ NoNewTask /\ SameNumbers /\ PlansMade
  /\ env' = env /\ (disturbed => disturbed')
---------------------------------------------------------------------------
(* The steps.                                                              *)

(* A list that begins with neither lock nor queue is calm.                 *)
LEMMA FreshCalm ==
  ASSUME NEW list, Fresh(list)
  PROVE  Calm(list)
BY DEF Fresh, Calm, First, Locked

(* What a save leaves of a call.                                           *)
LEMMA SaveCalm ==
  ASSUME IInv, NEW th \in Threads, NEW list, SaveAnd(th, list), env' = env, Calm(list)
  PROVE  /\ \E l : Calm(l) /\ todo' = [todo EXCEPT ![th] = l]
         /\ disturbed => disturbed'
<1>1. Calm(<< >>)
  BY DEF Calm, First
<1>2. disturbed => disturbed'
  BY DEF SaveAnd
<1>3. todo' = [todo EXCEPT ![th] = list] \/ todo' = [todo EXCEPT ![th] = << >>]
  BY DEF SaveAnd
<1> QED BY <1>1, <1>2, <1>3

(* Plans and tasks as they were.                                           *)
LEMMA Unchanged ==
  ASSUME IInv
  PROVE  /\ tasks' = tasks => NoNewTask
         /\ plans' = plans => SameNumbers /\ PlansMade
BY DEF NoNewTask, SameNumbers, PlansMade

(* Reading, saving and unlocking.                                          *)
LEMMA PlainMoves ==
  ASSUME IInv, NEW th \in Threads, Read(th) \/ Save(th) \/ Unlock(th)
  PROVE  Plain(th)
<1>1. ~Idle(th) /\ Head(todo[th]).do \in {"read", "save", "unlock"}
        /\ UNCHANGED <<plans, tasks, env>>
        /\ (titles' = titles \/ titles' = [titles EXCEPT ![th] = {}])
  BY DEF Read, Save, Unlock, At, board
<1>2. Calm(Tail(todo[th]))
  BY <1>1, Rest DEF Calm, First, Follows
<1>3. CASE Read(th) \/ Unlock(th)
  <2>1. todo' = [todo EXCEPT ![th] = Tail(todo[th])] /\ disturbed' = disturbed
    BY <1>3 DEF Read, Unlock, Continue, NoSave
  <2> QED BY <1>1, <1>2, <2>1, Unchanged DEF Plain
<1>4. CASE Save(th)
  <2>1. SaveAnd(th, Tail(todo[th]))
    BY <1>4 DEF Save
  <2> QED BY <1>1, <1>2, <2>1, SaveCalm, Unchanged DEF Plain
<1> QED BY <1>3, <1>4

(* Applying a copy.                                                        *)
LEMMA PlainApply ==
  ASSUME IInv, NEW th \in Threads, Apply(th)
  PROVE  Plain(th)
<1>1. /\ ~Idle(th) /\ Head(todo[th]).do = "apply" /\ Free(th)
      /\ plans' = Synced(seen[th])
      /\ SaveAnd(th, Tail(todo[th])) \/ (Continue(th) /\ NoSave)
      /\ UNCHANGED <<titles, tasks, env>>
  <2>1. SaveAnd(th, Tail(todo[th])) \/ (Continue(th) /\ NoSave)
    BY DEF Apply
  <2> QED BY <2>1 DEF Apply, At, board
<1>2. Calm(Tail(todo[th]))
  BY <1>1, Rest, FreshCalm
<1>3. /\ \E l : Calm(l) /\ todo' = [todo EXCEPT ![th] = l]
      /\ disturbed => disturbed'
  <2>1. CASE SaveAnd(th, Tail(todo[th]))
    BY <1>1, <1>2, <2>1, SaveCalm
  <2>2. CASE Continue(th) /\ NoSave
    BY <1>2, <2>2 DEF Continue, NoSave
  <2> QED BY <1>1, <2>1, <2>2
<1>4. SameNumbers
  <2> SUFFICES ASSUME NEW p \in PlanIds, NEW s \in Steps(p)
               PROVE  plans'[p].steps[s].task = plans[p].steps[s].task
    BY DEF SameNumbers
  <2>1. plans[p] \in PlanRecord /\ plans[p].steps[s] \in StepRecord
    BY PlanFacts
  <2>2. plans'[p] = [plans[p] EXCEPT !.steps =
                       [r \in Steps(p) |-> SyncedStep(seen[th], p, r)]]
    BY <1>1 DEF Synced
  <2>3. plans'[p].steps[s] = SyncedStep(seen[th], p, s)
    BY <2>1, <2>2 DEF PlanRecord
  <2> QED BY <2>1, <2>3 DEF SyncedStep, StepRecord
<1>5. DOMAIN plans' = DOMAIN plans
  BY <1>1 DEF Synced, PlanIds
<1> QED BY <1>1, <1>3, <1>4, <1>5, Unchanged DEF Plain, PlansMade

(* Compensating, which marks tasks that failed.                            *)
LEMMA PlainCompensate ==
  ASSUME IInv, NEW th \in Threads, Compensate(th)
  PROVE  Plain(th)
<1> DEFINE rest == Tail(todo[th])
<1>1. /\ ~Idle(th) /\ Head(todo[th]).do = "compensate"
      /\ SaveAnd(th, Sync \o rest) \/ (Continue(th) /\ NoSave)
      /\ UNCHANGED <<plans, titles, env>>
  <2>1. SaveAnd(th, Sync \o rest) \/ (Continue(th) /\ NoSave)
    BY DEF Compensate
  <2> QED BY <2>1 DEF Compensate, At
<1>2. GoodList(rest, PlanIds) /\ Fresh(rest)
  BY <1>1, Rest
<1>3. Calm(rest) /\ Calm(Sync \o rest)
  BY <1>2, SyncGood, GoodBeforeFresh, FreshCalm
<1>4. /\ \E l : Calm(l) /\ todo' = [todo EXCEPT ![th] = l]
      /\ disturbed => disturbed'
  <2>1. CASE SaveAnd(th, Sync \o rest)
    BY <1>1, <1>3, <2>1, SaveCalm
  <2>2. CASE Continue(th) /\ NoSave
    BY <1>3, <2>2 DEF Continue, NoSave
  <2> QED BY <1>1, <2>1, <2>2
<1>5. NoNewTask
  <2>1. DOMAIN tasks' = DOMAIN tasks
          /\ \A t \in DOMAIN tasks :
               tasks'[t] = tasks[t] \/ tasks'[t] = [tasks[t] EXCEPT !.undone = TRUE]
    BY DEF Compensate, TaskIds
  <2>2. \A t \in DOMAIN tasks : tasks[t] \in TaskRecord
    BY Types, LenProperties, ElementOfSeq
  <2>3. \A t \in DOMAIN tasks : tasks'[t].status = tasks[t].status
    BY <2>1, <2>2 DEF TaskRecord
  <2> QED BY <2>1, <2>3 DEF NoNewTask
<1> QED BY <1>1, <1>4, <1>5, Unchanged DEF Plain

(* What making or taking over a plan changes.                              *)
LEMMA CreateMade ==
  ASSUME IInv, NEW name \in Names, NEW parent, Create(name, parent)
  PROVE  SameNumbers /\ PlansMade
<1>1. plans \in Seq(PlanRecord) /\ PlanIds = DOMAIN plans /\ PlanIds = 1 .. Len(plans)
        /\ Len(plans) \in Nat
  BY PlanFacts, Types DEF WellShaped, PlanIds
<1>2. CASE OpenWith(name) # {}
  <2>1. plans' = [plans EXCEPT ![Target(name)].parent = parent]
    BY <1>2 DEF Create
  <2>2. ASSUME NEW p \in PlanIds PROVE plans'[p].steps = plans[p].steps
    <3>1. plans[p] \in PlanRecord
      BY PlanFacts
    <3>2. plans'[p] = plans[p] \/ plans'[p] = [plans[p] EXCEPT !.parent = parent]
      BY <1>1, <2>1
    <3> QED BY <3>1, <3>2 DEF PlanRecord
  <2> QED BY <2>1, <2>2 DEF SameNumbers, PlansMade
<1>3. CASE OpenWith(name) = {}
  <2>1. plans' = Append(plans, NewPlan(name, parent))
    BY <1>3 DEF Create
  <2>2. \A p \in PlanIds : plans'[p] = plans[p]
    BY <1>1, <2>1
  <2> QED BY <1>3, <2>1, <2>2 DEF SameNumbers, PlansMade
<1> QED BY <1>2, <1>3

(* Running remediations and recoveries.                                    *)
LEMMA PlainActivate ==
  ASSUME IInv, NEW th \in Threads, Activate(th)
  PROVE  Plain(th)
<1> DEFINE p == Head(todo[th]).plan
           rest == Tail(todo[th])
<1>1. ~Idle(th) /\ Head(todo[th]).do = "activate" /\ Free(th)
        /\ UNCHANGED <<titles, tasks, env>>
  BY DEF Activate, At, board
<1>2. GoodList(rest, PlanIds) /\ Fresh(rest) /\ p \in PlanIds
  BY <1>1, Rest DEF Proper
<1>3. ASSUME NEW c \in PlanIds, ContinueWith(th, Execute(c)),
             UNCHANGED <<plans, disturbed>>
      PROVE  Plain(th)
  <2>1. Calm(Execute(c) \o rest)
    BY <1>2, <1>3, PlanFacts, ExecuteGood, GoodBeforeFresh, FreshCalm
  <2>2. \E l : Calm(l) /\ todo' = [todo EXCEPT ![th] = l]
    BY <1>3, <2>1 DEF ContinueWith
  <2> QED BY <1>1, <1>3, <2>2, Unchanged DEF Plain
<1>4. ASSUME Create(Remediation, p),
             SaveAnd(th, Execute(Target(Remediation)) \o rest)
      PROVE  Plain(th)
  <2>1. Remediation \in Names
    BY PlannerAssumption
  <2> DEFINE g == NewFile(Remediation, p)
             c == Target(Remediation)
  <2>2. GrowPlans(plans, g) /\ DOMAIN g \in SUBSET Nat /\ c \in DOMAIN g
    BY <1>2, <2>1, CreatedFits
  <2> HIDE DEF g, c
  <2>3. GoodList(rest, DOMAIN g)
    BY <1>2, <2>2, GoodGrows DEF GrowPlans, PlanIds
  <2>4. GoodList(Execute(c), DOMAIN g) /\ Fresh(Execute(c)) /\ Execute(c) # << >>
    BY <2>2, ExecuteGood
  <2>5. Calm(Execute(c) \o rest)
    BY <1>2, <2>3, <2>4, GoodBeforeFresh, FreshCalm
  <2>6. SaveAnd(th, Execute(c) \o rest)
    BY <1>4 DEF c
  <2>7. /\ \E l : Calm(l) /\ todo' = [todo EXCEPT ![th] = l]
        /\ disturbed => disturbed'
    BY <1>1, <2>5, <2>6, SaveCalm
  <2>8. SameNumbers /\ PlansMade
    BY <1>4, <2>1, CreateMade
  <2> QED BY <1>1, <2>7, <2>8, Unchanged DEF Plain
<1>5. \/ \E c \in OpenChildren(p) :
           ContinueWith(th, Execute(c)) /\ UNCHANGED <<plans, disturbed>>
      \/ ContinueWith(th, Execute(p)) /\ UNCHANGED <<plans, disturbed>>
      \/ Create(Remediation, p) /\ SaveAnd(th, Execute(Target(Remediation)) \o rest)
  BY DEF Activate, NoSave
<1>6. OpenChildren(p) \subseteq PlanIds
  BY DEF OpenChildren, Children
<1> HIDE DEF p, rest
<1> QED BY <1>2, <1>3, <1>4, <1>5, <1>6

(* Noting a remediation that has ended.                                    *)
LEMMA PlainProgress ==
  ASSUME IInv, NEW th \in Threads, Progress(th)
  PROVE  Plain(th)
<1> DEFINE p == Head(todo[th]).parent
           rest == Tail(todo[th])
<1>1. ~Idle(th) /\ Head(todo[th]).do = "progress" /\ Free(th)
        /\ UNCHANGED <<titles, tasks, env>>
  BY DEF Progress, At, board
<1>2. GoodList(rest, PlanIds) /\ Fresh(rest) /\ p \in PlanIds
  BY <1>1, Rest DEF Proper
<1>3. \/ UNCHANGED plans /\ SaveAnd(th, rest)
      \/ UNCHANGED plans /\ Continue(th) /\ NoSave
      \/ /\ plans' = [plans EXCEPT ![p].resolved = Cardinality(Disrupted(p))]
         /\ SaveAnd(th, Advance(p) \o rest)
  <2> DEFINE status == PlanStatus(Head(todo[th]).plan)
  <2>1. CASE status = "completed"
    BY <2>1 DEF Progress
  <2>2. CASE status = "failed"
    BY <2>2 DEF Progress
  <2>3. CASE status # "completed" /\ status # "failed"
    BY <2>3 DEF Progress
  <2> QED BY <2>1, <2>2, <2>3
<1> HIDE DEF p
<1>4. CASE UNCHANGED plans /\ SaveAnd(th, rest)
  <2>1. /\ \E l : Calm(l) /\ todo' = [todo EXCEPT ![th] = l]
        /\ disturbed => disturbed'
    BY <1>1, <1>2, <1>4, FreshCalm, SaveCalm
  <2> QED BY <1>1, <1>4, <2>1, Unchanged DEF Plain
<1>5. CASE UNCHANGED plans /\ Continue(th) /\ NoSave
  <2>1. \E l : Calm(l) /\ todo' = [todo EXCEPT ![th] = l]
    BY <1>2, <1>5, FreshCalm DEF Continue
  <2> QED BY <1>1, <1>5, <2>1, Unchanged DEF Plain, NoSave
<1>6. ASSUME plans' = [plans EXCEPT ![p].resolved = Cardinality(Disrupted(p))],
             SaveAnd(th, Advance(p) \o rest)
      PROVE  Plain(th)
  <2>1. GoodList(Advance(p), PlanIds) /\ Fresh(Advance(p)) /\ Advance(p) # << >>
    BY <1>2, PlanFacts, AdvanceGood
  <2>2. Calm(Advance(p) \o rest)
    BY <1>2, <2>1, GoodBeforeFresh, FreshCalm
  <2>3. /\ \E l : Calm(l) /\ todo' = [todo EXCEPT ![th] = l]
        /\ disturbed => disturbed'
    BY <1>1, <1>6, <2>2, SaveCalm
  <2>4. ASSUME NEW q \in PlanIds PROVE plans'[q].steps = plans[q].steps
    <3>1. plans[q] \in PlanRecord /\ q \in DOMAIN plans
      BY PlanFacts DEF PlanIds
    <3>2. \/ plans'[q] = plans[q]
          \/ plans'[q] = [plans[q] EXCEPT !.resolved = Cardinality(Disrupted(p))]
      BY <1>6, <3>1
    <3> QED BY <3>1, <3>2 DEF PlanRecord
  <2>5. SameNumbers /\ PlansMade
    BY <1>6, <2>4 DEF SameNumbers, PlansMade
  <2> QED BY <1>1, <2>3, <2>5, Unchanged DEF Plain
<1> HIDE DEF rest
<1> QED BY <1>3, <1>4, <1>5, <1>6

(* A plan is posted or proposed.                                           *)
LEMMA PlainSubmit ==
  ASSUME IInv, NEW th \in Threads, NEW name \in Names, Submit(th, name)
  PROVE  Plain(th)
<1> DEFINE g == NewFile(name, NoPlan)
           p == Target(name)
           call == IF th = Server /\ Shape[name].kind = "recovery"
                   THEN Advance(p) ELSE Execute(p)
<1>1. /\ Free(th) /\ name # Remediation /\ SaveAnd(th, call) /\ Create(name, NoPlan)
      /\ UNCHANGED <<lock, titles, tasks, env>>
  <2>1. name # Remediation
    BY PlannerAssumption DEF Submit
  <2> QED BY <2>1 DEF Submit, board
<1>2. DOMAIN g \in SUBSET Nat /\ p \in DOMAIN g
  BY <1>1, CreatedFits
<1> HIDE DEF g, p
<1>3. Calm(call)
  BY <1>2, ExecuteGood, AdvanceGood, FreshCalm
<1> HIDE DEF call
<1>4. /\ \E l : Calm(l) /\ todo' = [todo EXCEPT ![th] = l]
      /\ disturbed => disturbed'
  BY <1>1, <1>3, SaveCalm
<1>5. SameNumbers /\ PlansMade
  BY <1>1, CreateMade
<1> QED BY <1>1, <1>4, <1>5, Unchanged DEF Plain

(* A call begins.                                                          *)
LEMMA PlainBegin ==
  ASSUME IInv, NEW th \in Threads, NEW list, Fresh(list),
         todo' = [todo EXCEPT ![th] = list],
         UNCHANGED <<plans, tasks, titles, disturbed, env>>
  PROVE  Plain(th)
BY FreshCalm, Unchanged DEF Plain

(* A task is compensated by hand.                                          *)
LEMMA PlainByHand ==
  ASSUME IInv, NEW t \in TaskIds, CompensateByHand(t)
  PROVE  Plain(Server)
<1>1. /\ Idle(Server) /\ disturbed' = TRUE
      /\ tasks' = [tasks EXCEPT ![t].undone = TRUE]
      /\ UNCHANGED <<plans, todo, titles, env>>
  BY DEF CompensateByHand
<1>2. Calm(<< >>) /\ todo' = [todo EXCEPT ![Server] = << >>]
  BY <1>1, Types DEF Calm, First, Idle
<1>3. NoNewTask
  <2>1. \A u \in DOMAIN tasks :
          tasks'[u] = tasks[u] \/ tasks'[u] = [tasks[u] EXCEPT !.undone = TRUE]
    BY <1>1
  <2>2. \A u \in DOMAIN tasks : tasks[u] \in TaskRecord
    BY Types, LenProperties, ElementOfSeq
  <2>3. \A u \in DOMAIN tasks : tasks'[u].status = tasks[u].status
    BY <2>1, <2>2 DEF TaskRecord
  <2> QED BY <1>1, <2>3 DEF NoNewTask
<1> QED BY <1>1, <1>2, <1>3, Unchanged DEF Plain

(* A task is reported.                                                     *)
LEMMA PlainReport ==
  ASSUME IInv, NEW t \in TaskIds, NEW success \in BOOLEAN, Report(t, success)
  PROVE  Plain(Server)
<1> DEFINE p == tasks[t].plan
           status == IF success THEN "done" ELSE "failed"
<1>1. /\ Idle(Server) /\ tasks[t].status = "active"
      /\ tasks' = [tasks EXCEPT ![t].status = status, ![t].undone = FALSE]
      /\ todo' = [todo EXCEPT ![Server] = AfterReport(tasks[t])]
      /\ UNCHANGED <<plans, titles, disturbed, env>>
  BY DEF Report
<1>2. NoNewTask
  <2>1. \A u \in DOMAIN tasks : u # t => tasks'[u] = tasks[u]
    BY <1>1
  <2> QED BY <1>1, <2>1 DEF NoNewTask
<1>3. p \in PlanIds
  BY Types DEF TasksFit, TaskFits, TaskIds, PlanIds
<1> HIDE DEF p
<1>4. GoodList(Execute(p), PlanIds) /\ Fresh(Execute(p)) /\ Execute(p) # << >>
  BY <1>3, PlanFacts, ExecuteGood
<1>5. Fresh(Advance(p))
  BY <1>3, PlanFacts, AdvanceGood
<1>6. ASSUME NEW one PROVE Fresh(Execute(p) \o <<one>>)
  <2>1. Execute(p) \in Seq(Instruction) /\ Len(Execute(p)) \in Nat /\ Len(Execute(p)) >= 1
    BY <1>4, LenProperties, EmptySeq DEF GoodList
  <2>2. (Execute(p) \o <<one>>)[1] = Execute(p)[1]
    BY <2>1
  <2> QED BY <1>4, <2>2 DEF Fresh
<1>7. Fresh(AfterReport(tasks[t]))
  BY <1>4, <1>5, <1>6 DEF AfterReport, p
<1>8. Calm(AfterReport(tasks[t]))
  BY <1>7, FreshCalm
<1> QED BY <1>1, <1>2, <1>8, Unchanged DEF Plain

(* All steps but a kill.                                                   *)
LEMMA StepKinds ==
  ASSUME IInv, [Next]_vars
  PROVE  \/ \E th \in Threads : Plain(th) \/ ReadTitles(th) \/ Queue(th) \/ Post(th)
         \/ Crash \/ UNCHANGED vars
<1>1. Server \in Threads /\ Loop \in Threads
  BY DEF Threads
<1>2. ASSUME NEW th \in Threads, Step(th)
      PROVE  Plain(th) \/ ReadTitles(th) \/ Queue(th) \/ Post(th)
  BY <1>2, PlainMoves, PlainApply, PlainCompensate, PlainActivate, PlainProgress DEF Step
<1>3. ASSUME NEW what, NEW list, Fresh(list), Request(what, list) PROVE Plain(Server)
  BY <1>1, <1>3, PlainBegin DEF Request, NoSave, board
<1>4. ASSUME Learn PROVE Plain(Loop)
  BY <1>1, <1>4, SyncGood, PlainBegin DEF Learn, NoSave, board
<1>5. ASSUME NEW p \in PlanIds \cup {NoPlan} PROVE Fresh(Execute(p))
  BY <1>5, PlanFacts, ExecuteGood
<1>6. ASSUME NEW p \in Recoveries PROVE Fresh(Advance(p))
  BY <1>6, PlanFacts, AdvanceGood DEF Recoveries
<1>7. Fresh(Sync)
  BY SyncGood
<1>8. CASE Request("status", Sync)
  BY <1>1, <1>3, <1>7, <1>8
<1>9. CASE \E p \in PlanIds \cup {NoPlan} : Request("run", Execute(p))
  BY <1>1, <1>3, <1>5, <1>9
<1>10. CASE \E p \in Recoveries : Request("advance", Advance(p))
  BY <1>1, <1>3, <1>6, <1>10
<1> QED BY <1>1, <1>2, <1>4, <1>8, <1>9, <1>10, PlainSubmit, PlainByHand, PlainReport
        DEF Next
---------------------------------------------------------------------------
(* Reading titles, queueing and posting.                                   *)

(* What is left of a call after its titles are read, or a plan is queued.  *)
LEMMA ReadTitlesMoves ==
  ASSUME IInv, NEW th \in Threads, ReadTitles(th)
  PROVE  /\ todo' = [todo EXCEPT ![th] = Tail(todo[th])]
         /\ ~ First(Tail(todo[th]), {"post"})
         /\ titles' = [titles EXCEPT ![th] =
              {Title(tasks[t].plan, tasks[t].step) :
                 t \in {u \in TaskIds : tasks[u].status = "active"}}]
         /\ UNCHANGED <<plans, tasks, env, disturbed>>
<1>1. ~Idle(th) /\ Head(todo[th]).do = "titles" /\ Continue(th)
        /\ titles' = [titles EXCEPT ![th] =
              {Title(tasks[t].plan, tasks[t].step) :
                 t \in {u \in TaskIds : tasks[u].status = "active"}}]
        /\ UNCHANGED <<plans, tasks, env, disturbed>>
  BY DEF ReadTitles, At, NoSave, board
<1>2. ~ First(Tail(todo[th]), {"post"})
  BY <1>1, Rest DEF First, Follows
<1> QED BY <1>1, <1>2 DEF Continue

(* A plan that queueing does not pass over.                                *)
WithinBudget(p) ==
  /\ ~Closed(p)
  /\ Kind(p) = "recovery" => \E budget \in Budgets(p) : ~Blocking(p, budget)

(* Queueing keeps the tasks of steps; what it gives a thread to post are   *)
(* steps of a plan that the gate lets pass, chosen of those planned.       *)
LEMMA QueueMoves ==
  ASSUME IInv, NEW th \in Threads, Queue(th)
  PROVE  /\ First(todo[th], {"queue"}) /\ Free(th)
         /\ UNCHANGED <<tasks, titles, env, disturbed>>
         /\ DOMAIN plans' = DOMAIN plans /\ SameNumbers
         /\ First(todo'[th], {"post"}) =>
              /\ plans' = plans /\ todo'[th][1].plan \in PlanIds
              /\ WithinBudget(todo'[th][1].plan)
              /\ \E mode \in Modes :
                   /\ Allowed(Kind(todo'[th][1].plan), mode)
                   /\ todo'[th][1].steps = Chosen(todo'[th][1].plan, mode)
<1> DEFINE p == Head(todo[th]).plan
           rest == Tail(todo[th])
           Goal == /\ DOMAIN plans' = DOMAIN plans /\ SameNumbers
                   /\ First(todo'[th], {"post"}) =>
                        /\ plans' = plans /\ todo'[th][1].plan \in PlanIds
                        /\ WithinBudget(todo'[th][1].plan)
                        /\ \E mode \in Modes :
                             /\ Allowed(Kind(todo'[th][1].plan), mode)
                             /\ todo'[th][1].steps = Chosen(todo'[th][1].plan, mode)
<1>1. ~Idle(th) /\ Head(todo[th]).do = "queue" /\ Free(th)
        /\ UNCHANGED <<tasks, titles, env, disturbed>>
  BY DEF Queue, At, NoSave, board
<1>2. /\ GoodList(rest, PlanIds) /\ p \in PlanIds \cup {NoPlan}
      /\ ~ First(rest, {"post"}) /\ First(todo[th], {"queue"})
  BY <1>1, Rest DEF Proper, First, Follows
<1>9. ASSUME NEW list, todo' = [todo EXCEPT ![th] = list], ~ First(list, {"post"}),
             DOMAIN plans' = DOMAIN plans, SameNumbers
      PROVE  Goal
  <2>1. todo'[th] = list
    BY <1>9, Types
  <2> QED BY <1>9, <2>1
<1>10. plans' = plans => SameNumbers /\ DOMAIN plans' = DOMAIN plans
  BY Unchanged
<1>3. ASSUME p = NoPlan, UNCHANGED plans,
             ContinueWith(th, [i \in PlanIds |-> Do("queue", Len(plans) + 1 - i)])
      PROVE  Goal
  <2> DEFINE all == [i \in PlanIds |-> Do("queue", Len(plans) + 1 - i)]
  <2>1. \A i \in PlanIds : Len(plans) + 1 - i \in PlanIds
    BY PlanFacts
  <2>2. all \in [1 .. Len(plans) -> Instruction]
    BY <2>1, PlanFacts DEF Do, Instruction, NoPlan
  <2>3. \A i \in PlanIds : all[i].do = "queue"
    BY DEF Do
  <2>4. todo' = [todo EXCEPT ![th] = all \o rest]
    BY <1>3 DEF ContinueWith
  <2> HIDE DEF all
  <2>5. all \in Seq(Instruction) /\ Len(all) = Len(plans)
    BY <2>2, PlanFacts, MakeSeq
  <2>6. ~ First(all \o rest, {"post"})
    <3>1. CASE all = << >>
      <4>1. all \o rest = rest
        BY <1>2, <3>1, ConcatEmptySeq DEF GoodList
      <4> QED BY <1>2, <4>1
    <3>2. CASE all # << >>
      <4>1. Len(all) \in Nat /\ Len(all) >= 1 /\ 1 \in PlanIds
        BY <2>5, <3>2, EmptySeq, PlanFacts
      <4>2. (all \o rest)[1] = all[1]
        BY <1>2, <2>5, <4>1 DEF GoodList
      <4> QED BY <2>3, <4>1, <4>2 DEF First
    <3> QED BY <3>1, <3>2
  <2> HIDE DEF Goal
  <2> QED BY <1>3, <1>9, <1>10, <2>4, <2>6
<1>4. ASSUME Continue(th), UNCHANGED plans PROVE Goal
  <2> HIDE DEF Goal
  <2> QED BY <1>2, <1>4, <1>9, <1>10 DEF Continue
<1>5. ASSUME NEW mode \in Modes, p # NoPlan, WithinBudget(p), UNCHANGED plans,
             Allowed(Kind(p), mode),
             ContinueWith(th, <<[Do("post", p) EXCEPT !.steps = Chosen(p, mode)]>>)
      PROVE  Goal
  <2> DEFINE post == [Do("post", p) EXCEPT !.steps = Chosen(p, mode)]
             list == <<post>> \o rest
  <2>1. p \in PlanIds
    BY <1>2, <1>5
  <2>2. Chosen(p, mode) \in SUBSET Nat
    BY <2>1, PlanFacts DEF Chosen, Unqueued
  <2>3. post \in Instruction /\ post.plan = p /\ post.steps = Chosen(p, mode)
    BY <2>1, <2>2, PlanFacts DEF Do, Instruction, NoPlan
  <2>4. todo' = [todo EXCEPT ![th] = list]
    BY <1>5 DEF ContinueWith
  <2> HIDE DEF post
  <2>5. list[1] = post
    BY <1>2, <2>3 DEF GoodList
  <2> HIDE DEF list, p
  <2>6. todo'[th] = list
    BY <2>4, Types
  <2> QED BY <1>5, <2>1, <2>3, <2>5, <2>6, Unchanged
<1>6. ASSUME Continue(th), p # NoPlan,
             plans' = [plans EXCEPT ![p].steps = [s \in Steps(p) |->
                         IF s \in Unqueued(p, {"planned", "blocked"})
                         THEN [plans[p].steps[s] EXCEPT !.status = "blocked"]
                         ELSE plans[p].steps[s]]]
      PROVE  Goal
  <2> DEFINE new == [s \in Steps(p) |->
                       IF s \in Unqueued(p, {"planned", "blocked"})
                       THEN [plans[p].steps[s] EXCEPT !.status = "blocked"]
                       ELSE plans[p].steps[s]]
  <2>1. plans' = [plans EXCEPT ![p].steps = new]
    BY <1>6
  <2>2. p \in PlanIds /\ plans[p] \in PlanRecord
          /\ \A s \in Steps(p) : plans[p].steps[s] \in StepRecord
    BY <1>2, <1>6, PlanFacts
  <2>3. ASSUME NEW s \in Steps(p) PROVE new[s].task = plans[p].steps[s].task
    <3>1. \/ new[s] = plans[p].steps[s]
          \/ new[s] = [plans[p].steps[s] EXCEPT !.status = "blocked"]
      OBVIOUS
    <3> HIDE DEF new
    <3> QED BY <2>2, <3>1 DEF StepRecord
  <2> HIDE DEF new, p
  <2>4. plans'[p].steps = new /\ \A q \in PlanIds \ {p} : plans'[q] = plans[q]
    BY <2>1, <2>2 DEF PlanRecord, PlanIds
  <2>5. SameNumbers
    BY <2>3, <2>4 DEF SameNumbers
  <2> HIDE DEF rest
  <2>6. DOMAIN plans' = DOMAIN plans
    BY <2>1
  <2> HIDE DEF Goal
  <2> QED BY <1>2, <1>6, <1>9, <2>5, <2>6 DEF Continue, rest
<1>7. \/ p = NoPlan /\ UNCHANGED plans
            /\ ContinueWith(th, [i \in PlanIds |-> Do("queue", Len(plans) + 1 - i)])
      \/ Continue(th) /\ UNCHANGED plans
      \/ \E mode \in Modes :
           /\ p # NoPlan /\ WithinBudget(p)
           /\ UNCHANGED plans /\ Allowed(Kind(p), mode)
           /\ ContinueWith(th, <<[Do("post", p) EXCEPT !.steps = Chosen(p, mode)]>>)
      \/ /\ p # NoPlan /\ Continue(th)
         /\ plans' = [plans EXCEPT ![p].steps = [s \in Steps(p) |->
                        IF s \in Unqueued(p, {"planned", "blocked"})
                        THEN [plans[p].steps[s] EXCEPT !.status = "blocked"]
                        ELSE plans[p].steps[s]]]
  BY DEF Queue, WithinBudget
<1>8. Goal
  <2>1. CASE \E mode \in Modes :
               /\ p # NoPlan /\ WithinBudget(p)
               /\ UNCHANGED plans /\ Allowed(Kind(p), mode)
               /\ ContinueWith(th, <<[Do("post", p) EXCEPT !.steps = Chosen(p, mode)]>>)
    <3> HIDE DEF p, Goal
    <3> QED BY <1>5, <2>1
  <2>2. CASE /\ p # NoPlan /\ Continue(th)
             /\ plans' = [plans EXCEPT ![p].steps = [s \in Steps(p) |->
                            IF s \in Unqueued(p, {"planned", "blocked"})
                            THEN [plans[p].steps[s] EXCEPT !.status = "blocked"]
                            ELSE plans[p].steps[s]]]
    <3> HIDE DEF p, Goal
    <3> QED BY <1>6, <2>2
  <2> HIDE DEF p, Goal
  <2> QED BY <1>3, <1>4, <1>7, <2>1, <2>2
<1> QED BY <1>1, <1>2, <1>8

(* A post takes the first of the steps it was given: its task is queued,   *)
(* unless one with its title was active when the titles were read.         *)
LEMMA PostMoves ==
  ASSUME IInv, NEW th \in Threads, Post(th)
  PROVE  LET i == todo[th][1]
             p == i.plan
             s == Least(i.steps)
         IN  /\ First(todo[th], {"post"}) /\ lock = th /\ p \in PlanIds /\ s \in i.steps
             /\ i.steps \subseteq Steps(p) /\ \A r \in i.steps : Postable(plans, p, r)
             /\ First(todo'[th], {"post"}) =>
                  todo'[th][1].plan = p /\ todo'[th][1].steps = i.steps \ {s}
             /\ DOMAIN plans' = DOMAIN plans /\ env' = env
             /\ disturbed => disturbed'
             /\ \A u \in Threads \ {th} : titles'[u] = titles[u]
             /\ tasks' = tasks \/ tasks' = Append(tasks, NewTask(p, s))
             /\ \/ tasks' = tasks /\ SameNumbers /\ titles' = titles
                \/ "fault" \in env
                \/ /\ Title(p, s) \notin titles[th]
                   /\ tasks' = Append(tasks, NewTask(p, s))
                   /\ titles' = [titles EXCEPT ![th] = @ \cup {Title(p, s)}]
                   /\ \A q \in PlanIds : \A r \in Steps(q) :
                        plans'[q].steps[r].task =
                          IF q = p /\ r = s THEN Len(tasks) + 1
                          ELSE plans[q].steps[r].task
<1> DEFINE i == todo[th][1]
           p == i.plan
           s == Least(i.steps)
           rest == Tail(todo[th])
           list == IF i.steps = {s} THEN rest
                   ELSE <<[i EXCEPT !.steps = @ \ {s}]>> \o rest
<1>1. /\ ~Idle(th) /\ i.do = "post" /\ lock = th /\ env' = env
      /\ todo' = [todo EXCEPT ![th] = list] /\ Head(todo[th]) = i
      /\ First(todo[th], {"post"})
  <2>1. ~Idle(th) /\ Head(todo[th]).do = "post"
    BY DEF Post, At
  <2>2. Head(todo[th]) = i /\ todo[th] # << >>
    BY <2>1, Rest
  <2> QED BY <2>1, <2>2 DEF Post, First
<1>2. /\ GoodList(rest, PlanIds) /\ p \in PlanIds /\ i \in Instruction
      /\ ~ First(rest, {"post"})
  BY <1>1, Rest DEF Proper, First, Follows
<1>3. i.steps # {} /\ \A r \in i.steps : Postable(plans, p, r)
  BY <1>1, Rest DEF HeadFits
<1>4. i.steps \in SUBSET Nat /\ i.steps \subseteq Steps(p)
  BY <1>2, <1>3 DEF Instruction, Postable, Steps
<1>5. s \in i.steps
  <2> HIDE DEF i
  <2> QED BY <1>3, <1>4, LeastIn
<1>6. First(list, {"post"}) => list[1].plan = p /\ list[1].steps = i.steps \ {s}
  <2> DEFINE next == [i EXCEPT !.steps = @ \ {s}]
  <2>1. next \in Instruction /\ next.plan = p /\ next.steps = i.steps \ {s}
    <3> HIDE DEF i, s
    <3> QED BY <1>2, <1>4 DEF Instruction
  <2>2. list = IF i.steps = {s} THEN rest ELSE <<next>> \o rest
    OBVIOUS
  <2> HIDE DEF next, list
  <2>3. (<<next>> \o rest)[1] = next
    BY <1>2, <2>1 DEF GoodList
  <2> HIDE DEF rest
  <2> QED BY <1>2, <2>1, <2>2, <2>3
<1> HIDE DEF list
<1>7. \/ UNCHANGED <<plans, tasks, titles, disturbed>>
      \/ /\ Title(p, s) \notin titles[th]
         /\ tasks' = Append(tasks, NewTask(p, s))
         /\ plans' = [plans EXCEPT ![p].steps[s] =
                        [@ EXCEPT !.task = Len(tasks) + 1, !.status = "active"]]
         /\ titles' = [titles EXCEPT ![th] = @ \cup {Title(p, s)}]
         /\ UNCHANGED disturbed
      \/ /\ tasks' = tasks \/ tasks' = Append(tasks, NewTask(p, s))
         /\ plans' = [plans EXCEPT ![p].steps[s].status = "blocked"]
         /\ "fault" \in env /\ disturbed' = TRUE /\ titles' = titles
  BY <1>1 DEF Post
<1>8. p \in PlanIds /\ s \in Steps(p) /\ plans[p] \in PlanRecord
        /\ \A q \in PlanIds : \A r \in Steps(q) : plans[q].steps[r] \in StepRecord
  BY <1>2, <1>4, <1>5, PlanFacts
<1>9. ASSUME plans' = [plans EXCEPT ![p].steps[s] =
                         [@ EXCEPT !.task = Len(tasks) + 1, !.status = "active"]]
      PROVE  \A q \in PlanIds : \A r \in Steps(q) :
               plans'[q].steps[r].task = IF q = p /\ r = s THEN Len(tasks) + 1
                                         ELSE plans[q].steps[r].task
  <2> DEFINE old == plans[p].steps[s]
             num == Len(tasks) + 1
             step == [old EXCEPT !.task = num, !.status = "active"]
  <2> HIDE DEF i, p, s
  <2>1. step.task = num
    <3>1. old \in StepRecord
      BY <1>8
    <3> HIDE DEF old, num
    <3> QED BY <3>1 DEF StepRecord
  <2>2. plans' = [plans EXCEPT ![p].steps[s] = step]
    BY <1>9
  <2> HIDE DEF step, num
  <2>3. plans'[p].steps = [plans[p].steps EXCEPT ![s] = step]
          /\ \A q \in PlanIds \ {p} : plans'[q] = plans[q]
    BY <1>8, <2>2 DEF PlanRecord, PlanIds
  <2>4. plans'[p].steps[s] = step
          /\ \A r \in Steps(p) \ {s} : plans'[p].steps[r] = plans[p].steps[r]
    BY <1>8, <2>3 DEF Steps
  <2> QED BY <2>1, <2>3, <2>4 DEF num
<1> HIDE DEF i, p, s
<1>11. \A u \in Threads \ {th} : titles'[u] = titles[u]
  BY <1>7, Types
<1>12. todo'[th] = list
  BY <1>1, Types
<1>10. DOMAIN plans' = DOMAIN plans /\ (disturbed => disturbed')
  BY <1>7
<1> QED BY <1>1, <1>2, <1>3, <1>4, <1>5, <1>6, <1>7, <1>9, <1>10, <1>11,
       <1>12, Unchanged DEF i, p, s

(* Neither queueing nor posting disturbs the other thread's call.          *)
LEMMA OthersKeep ==
  ASSUME IInv, NEW u \in Threads, Queue(u) \/ Post(u), NEW th \in Threads, u # th
  PROVE  todo'[th] = todo[th] /\ titles'[th] = titles[th]
<1>1. todo \in [Threads -> Seq(Instruction)]
        /\ titles \in [Threads -> SUBSET AllTitles]
  BY Types
<1>2. CASE Queue(u)
  <2>1. titles' = titles
    BY <1>2 DEF Queue
  <2>2. \/ \E list : ContinueWith(u, list)
        \/ Continue(u)
    BY <1>2 DEF Queue
  <2>3. \E list : todo' = [todo EXCEPT ![u] = list]
    BY <2>2 DEF ContinueWith, Continue
  <2> QED BY <1>1, <2>1, <2>3
<1>3. CASE Post(u)
  <2>1. \E list : todo' = [todo EXCEPT ![u] = list]
    BY <1>3 DEF Post
  <2>2. titles' = titles \/ \E new : titles' = [titles EXCEPT ![u] = new]
    BY <1>3 DEF Post
  <2> QED BY <1>1, <2>1, <2>2
<1> QED BY <1>2, <1>3

(* A plan is made only where none like it is open.                         *)
LEMMA PlansGrow ==
  ASSUME IInv, [Next]_vars
  PROVE  PlansMade
<1>1. ASSUME NEW th \in Threads, Plain(th) PROVE PlansMade
  BY <1>1 DEF Plain
<1>2. ASSUME NEW th \in Threads, ReadTitles(th) PROVE PlansMade
  BY <1>2, ReadTitlesMoves DEF PlansMade
<1>3. ASSUME NEW th \in Threads, Queue(th) PROVE PlansMade
  BY <1>3, QueueMoves DEF PlansMade
<1>4. ASSUME NEW th \in Threads, Post(th) PROVE PlansMade
  BY <1>4, PostMoves DEF PlansMade
<1>5. CASE Crash
  BY <1>5 DEF Crash, IInv, FileInv, SameShapes, PlansMade
<1>6. CASE UNCHANGED vars
  BY <1>6 DEF vars, PlansMade
<1> QED BY <1>1, <1>2, <1>3, <1>4, <1>5, <1>6, StepKinds

(* While a thread posts, no other changes the plans; and it comes to post  *)
(* only by queueing a plan.                                                *)
LEMMA PostHeads ==
  ASSUME IInv, [Next]_vars, NEW th \in Threads, First(todo'[th], {"post"})
  PROVE  \/ todo'[th] = todo[th] /\ plans' = plans /\ NoNewTask
         \/ Queue(th) \/ Post(th)
<1>1. todo \in [Threads -> Seq(Instruction)] /\ Nobody \notin Threads
  BY Types, PlannerAssumption
<1>2. First(todo[th], {"post"}) => lock = th
  BY DEF IInv, HeadInv, HeadFits, First, Locked
<1>3. ASSUME NEW u \in Threads, Plain(u)
      PROVE  todo'[th] = todo[th] /\ plans' = plans /\ NoNewTask
  <2>1. PICK list : Calm(list) /\ todo' = [todo EXCEPT ![u] = list]
    BY <1>3 DEF Plain
  <2>2. u # th
    BY <1>1, <2>1 DEF Calm, First
  <2>3. todo'[th] = todo[th]
    BY <1>1, <2>1, <2>2
  <2>4. ~ Free(u)
    BY <1>1, <1>2, <2>2, <2>3 DEF Free
  <2> QED BY <1>3, <2>3, <2>4 DEF Plain
<1>4. ASSUME NEW u \in Threads, ReadTitles(u)
      PROVE  todo'[th] = todo[th] /\ plans' = plans /\ NoNewTask
  BY <1>1, <1>4, ReadTitlesMoves, Unchanged
<1>5. ASSUME NEW u \in Threads, Queue(u) PROVE u = th
  <2> SUFFICES ASSUME u # th PROVE FALSE
    OBVIOUS
  <2>1. todo'[th] = todo[th]
    BY <1>5, OthersKeep
  <2>2. Free(u)
    BY <1>5, QueueMoves
  <2> QED BY <1>1, <1>2, <2>1, <2>2 DEF Free
<1>6. ASSUME NEW u \in Threads, Post(u) PROVE u = th
  <2> SUFFICES ASSUME u # th PROVE FALSE
    OBVIOUS
  <2>1. todo'[th] = todo[th]
    BY <1>6, OthersKeep
  <2>2. lock = u
    BY <1>6, PostMoves
  <2> QED BY <1>2, <2>1, <2>2
<1>7. CASE Crash
  BY <1>7 DEF Crash, First
<1>8. CASE UNCHANGED vars
  BY <1>8, Unchanged DEF vars
<1> QED BY <1>3, <1>4, <1>5, <1>6, <1>7, <1>8, StepKinds

(* A thread queues with the titles it has just read, and its own.          *)
LEMMA TitleHeads ==
  ASSUME IInv, [Next]_vars, NEW th \in Threads, First(todo'[th], {"queue", "post"})
  PROVE  \/ First(todo[th], {"queue", "post"}) /\ titles'[th] = titles[th]
         \/ ReadTitles(th) \/ Post(th)
<1>1. todo \in [Threads -> Seq(Instruction)]
        /\ titles \in [Threads -> SUBSET AllTitles]
  BY Types
<1>2. ASSUME NEW u \in Threads, Plain(u)
      PROVE  First(todo[th], {"queue", "post"}) /\ titles'[th] = titles[th]
  <2>1. PICK list : Calm(list) /\ todo' = [todo EXCEPT ![u] = list]
    BY <1>2 DEF Plain
  <2>2. u # th
    BY <1>1, <2>1 DEF Calm
  <2>3. todo'[th] = todo[th]
    BY <1>1, <2>1, <2>2
  <2>4. titles'[th] = titles[th]
    BY <1>1, <1>2, <2>2 DEF Plain
  <2> QED BY <2>3, <2>4
<1>3. ASSUME NEW u \in Threads, ReadTitles(u), u # th
      PROVE  First(todo[th], {"queue", "post"}) /\ titles'[th] = titles[th]
  BY <1>1, <1>3, ReadTitlesMoves
<1>4. ASSUME NEW u \in Threads, Queue(u)
      PROVE  First(todo[th], {"queue", "post"}) /\ titles'[th] = titles[th]
  <2>1. First(todo[u], {"queue"}) /\ titles' = titles
    BY <1>4, QueueMoves
  <2>2. CASE u = th
    BY <2>1, <2>2 DEF First
  <2>3. CASE u # th
    BY <1>4, <2>3, OthersKeep
  <2> QED BY <2>2, <2>3
<1>5. ASSUME NEW u \in Threads, Post(u), u # th
      PROVE  First(todo[th], {"queue", "post"}) /\ titles'[th] = titles[th]
  BY <1>5, OthersKeep
<1>6. CASE Crash
  BY <1>6 DEF Crash, First
<1>7. CASE UNCHANGED vars
  BY <1>7 DEF vars
<1> QED BY <1>2, <1>3, <1>4, <1>5, <1>6, <1>7, StepKinds
---------------------------------------------------------------------------
(* Remediations.                                                           *)

(* A plan that is done, or failed, as the task list tells.                 *)
FinishedBy(ts, f, p) == \A s \in DOMAIN f[p].steps : IsSettled(ts, f, p, s)
OverBy(ts, f, p) ==
  \/ FinishedBy(ts, f, p)
  \/ \E s \in DOMAIN f[p].steps : \E t \in StepTasks(ts, p, s) :
       ts[t].status = "failed" /\ ~ SettledBy(ts, f, t)

(* A remediation is made only when all before it are over.                 *)
RemediesInv ==
  \A c, d \in PlanIds :
    plans[c].shape = Remediation /\ plans[d].shape = Remediation /\ c < d
      => OverBy(tasks, plans, c)

(* The words of the module and those of its proofs.                        *)
LEMMA Wording ==
  ASSUME NEW p \in PlanIds
  PROVE  /\ Finished(p) <=> FinishedBy(tasks, plans, p)
         /\ Over(p) <=> OverBy(tasks, plans, p)
<1>1. \A s : TasksOf(p, s) = StepTasks(tasks, p, s)
  BY DEF TasksOf, StepTasks, TaskIds
<1>2. \A t : Settles(t) <=> SettledBy(tasks, plans, t)
  BY DEF Settles, SettledBy, Kind
<1>3. \A s : Settled(p, s) <=> IsSettled(tasks, plans, p, s)
  BY <1>1, <1>2 DEF Settled, IsSettled
<1> QED BY <1>1, <1>2, <1>3 DEF Finished, Over, FinishedBy, OverBy, Steps

(* A plan that is finished stays so.                                       *)
LEMMA FinishedStays ==
  ASSUME IInv, Kept, NEW p \in PlanIds, FinishedBy(tasks, plans, p)
  PROVE  FinishedBy(tasks', plans', p)
<1>1. DOMAIN plans'[p].steps = DOMAIN plans[p].steps
  <2>1. plans'[p].shape = plans[p].shape /\ p \in DOMAIN plans'
    BY DEF Kept, GrowPlans, PlanIds
  <2>2. DOMAIN plans'[p].steps = StepsOf(plans'[p].shape)
    BY <2>1 DEF Kept, IInv, TypeOK, WellShaped
  <2>3. DOMAIN plans[p].steps = StepsOf(plans[p].shape)
    BY DEF IInv, TypeOK, WellShaped, PlanIds
  <2> QED BY <2>1, <2>2, <2>3
<1>2. \A s : IsSettled(tasks, plans, p, s) => IsSettled(tasks', plans', p, s)
  BY Types, SettledStays DEF Kept
<1> QED BY <1>1, <1>2 DEF FinishedBy

(* A remediation that is over stays so: it cannot be compensated away.     *)
LEMMA OverStays ==
  ASSUME IInv, Kept, NEW p \in PlanIds, plans[p].shape = Remediation,
         OverBy(tasks, plans, p)
  PROVE  OverBy(tasks', plans', p)
<1>1. CASE FinishedBy(tasks, plans, p)
  BY <1>1, FinishedStays DEF OverBy
<1>2. ASSUME NEW s \in DOMAIN plans[p].steps, NEW t \in StepTasks(tasks, p, s),
             tasks[t].status = "failed"
      PROVE  OverBy(tasks', plans', p)
  <2>1. plans'[p].shape = Remediation /\ p \in DOMAIN plans'
          /\ GrowTasks(tasks, tasks')
    BY DEF Kept, GrowPlans, PlanIds
  <2>2. t \in StepTasks(tasks', p, s) /\ tasks'[t].status = "failed"
          /\ tasks'[t].plan = p
    BY <1>2, <2>1 DEF StepTasks, GrowTasks
  <2>3. DOMAIN plans'[p].steps = StepsOf(Remediation)
          /\ DOMAIN plans[p].steps = StepsOf(Remediation)
    BY <2>1 DEF Kept, IInv, TypeOK, WellShaped, PlanIds
  <2>4. Shape[Remediation].kind = "remediation"
    BY PlannerAssumption
  <2>5. ~ SettledBy(tasks', plans', t)
    BY <2>1, <2>2, <2>4 DEF SettledBy
  <2> QED BY <1>2, <2>2, <2>3, <2>5 DEF OverBy
<1> QED BY <1>1, <1>2 DEF OverBy

(* A remediation whose plan is closed is over.                             *)
LEMMA ClosedIsOver ==
  ASSUME IInv, NEW p \in PlanIds, Closed(p)
  PROVE  /\ PlanStatus(p) = "completed" => FinishedBy(tasks, plans, p)
         /\ plans[p].shape = Remediation => OverBy(tasks, plans, p)
<1>1. \A s \in Steps(p) :
        StepFits(tasks, plans, plans[p].shape, p, s, plans[p].steps[s])
  BY Types DEF FileFits, PlanIds, Steps
<1>2. ASSUME \A s \in Steps(p) : StepStatus(p, s) = "completed"
      PROVE  FinishedBy(tasks, plans, p)
  BY <1>1, <1>2 DEF StepFits, FinishedBy, Steps, StepStatus
<1>3. ASSUME NEW s \in Steps(p), StepStatus(p, s) = "failed",
             plans[p].shape = Remediation
      PROVE  OverBy(tasks, plans, p)
  <2>1. PICK t \in StepTasks(tasks, p, s) : tasks[t].status = "failed"
    BY <1>1, <1>3 DEF StepFits, StepStatus
  <2>2. Shape[Remediation].kind = "remediation" /\ tasks[t].plan = p
    BY PlannerAssumption DEF StepTasks
  <2>3. ~ SettledBy(tasks, plans, t)
    BY <1>3, <2>1, <2>2 DEF SettledBy
  <2> QED BY <2>1, <2>3 DEF OverBy, Steps
<1>4. /\ PlanStatus(p) = "completed" => \A s \in Steps(p) : StepStatus(p, s) = "completed"
      /\ \/ \E s \in Steps(p) : StepStatus(p, s) = "failed"
         \/ \A s \in Steps(p) : StepStatus(p, s) = "completed"
  BY DEF Closed, PlanStatus
<1> QED BY <1>2, <1>3, <1>4 DEF OverBy

(* Every step keeps it.                                                    *)
LEMMA RemediesStay ==
  ASSUME IInv, RemediesInv, [Next]_vars
  PROVE  RemediesInv'
<1>1. Kept
  BY Inductive
<1>2. \A p \in PlanIds : plans'[p].shape = plans[p].shape
  BY <1>1 DEF Kept, GrowPlans, PlanIds
<1>3. ASSUME NEW c \in PlanIds, plans[c].shape = Remediation,
             OverBy(tasks, plans, c)
      PROVE  OverBy(tasks', plans', c)
  BY <1>1, <1>3, OverStays
<1>4. CASE DOMAIN plans' = DOMAIN plans
  BY <1>2, <1>3, <1>4 DEF RemediesInv, PlanIds
<1>5. ASSUME NEW name \in Names, NEW parent, OpenWith(name) = {},
             plans' = Append(plans, NewPlan(name, parent))
      PROVE  RemediesInv'
  <2>1. plans \in Seq(PlanRecord) /\ Len(plans) \in Nat
          /\ DOMAIN plans = 1 .. Len(plans)
    BY Types, LenProperties DEF WellShaped
  <2>2. DOMAIN plans' = 1 .. Len(plans) + 1 /\ plans'[Len(plans) + 1].shape = name
    BY <1>5, <2>1 DEF NewPlan
  <2>3. ASSUME NEW c \in DOMAIN plans', NEW d \in DOMAIN plans',
               plans'[c].shape = Remediation, plans'[d].shape = Remediation, c < d
        PROVE  OverBy(tasks', plans', c)
    <3>1. c \in PlanIds /\ plans[c].shape = Remediation
      BY <1>2, <2>1, <2>2, <2>3 DEF PlanIds
    <3>2. CASE d \in PlanIds
      BY <1>2, <1>3, <2>3, <3>1, <3>2 DEF RemediesInv
    <3>3. CASE d = Len(plans) + 1
      <4>1. Closed(c)
        BY <1>5, <2>2, <2>3, <3>1, <3>3 DEF OpenWith
      <4> QED BY <1>3, <3>1, <4>1, ClosedIsOver
    <3> QED BY <2>1, <2>2, <3>2, <3>3 DEF PlanIds
  <2> QED BY <2>3 DEF RemediesInv, PlanIds
<1> QED BY <1>4, <1>5, PlansGrow DEF PlansMade

(* However many calls advance a recovery at a time, and however late the   *)
(* reports are applied: it never has two remediations still to be done.    *)
THEOREM RemediesOneByOne == Spec => []OneRemediation
<1>1. ASSUME IInv, RemediesInv PROVE OneRemediation
  <2> SUFFICES ASSUME NEW p \in Recoveries, NEW c \in Children(p), NEW d \in Children(p),
                      c # d
               PROVE  Over(c) \/ Over(d)
    BY DEF OneRemediation
  <2>1. c \in PlanIds /\ d \in PlanIds /\ c \in Nat /\ d \in Nat
    BY <1>1, PlanFacts DEF Children
  <2>2. plans[c].shape = Remediation /\ plans[d].shape = Remediation
    <3>1. plans[c].shape \in Names /\ plans[d].shape \in Names
      BY <1>1, <2>1, PlanFacts
    <3> QED BY <3>1, PlannerAssumption DEF Children, Kind
  <2>3. c < d \/ d < c
    BY <2>1
  <2>4. OverBy(tasks, plans, c) \/ OverBy(tasks, plans, d)
    BY <1>1, <2>1, <2>2, <2>3 DEF RemediesInv
  <2> QED BY <2>1, <2>4, Wording
<1>2. Init => RemediesInv
  BY DEF Init, RemediesInv, PlanIds
<1>3. IInv /\ RemediesInv /\ [Next]_vars => RemediesInv'
  BY RemediesStay
<1> QED BY <1>1, <1>2, <1>3, Invariance, PTL DEF Spec
---------------------------------------------------------------------------
(* The gate.                                                               *)

KindIn(f, p) == Shape[f[p].shape].kind
RecoveriesOf(f) == {p \in DOMAIN f : KindIn(f, p) = "recovery"}
RecoveryDone(ts, f) ==
  RecoveriesOf(f) = {} \/ FinishedBy(ts, f, Newest(RecoveriesOf(f)))

(* A thread posts steps of an operational plan only while the latest       *)
(* recovery is finished.                                                   *)
OperationalInv ==
  \A th \in Threads :
    First(todo[th], {"post"}) /\ KindIn(plans, todo[th][1].plan) = "operational"
      => RecoveryDone(tasks, plans)

(* The plans that are recoveries.                                          *)
LEMMA RecoveryFacts ==
  ASSUME IInv
  PROVE  /\ Recoveries = RecoveriesOf(plans) /\ Recoveries \subseteq PlanIds
         /\ \A S \in SUBSET Recoveries : S # {} => Newest(S) \in S /\ Newest(S) # NoPlan
<1>1. Recoveries = RecoveriesOf(plans) /\ Recoveries \subseteq PlanIds
  BY DEF Recoveries, RecoveriesOf, Kind, KindIn, PlanIds
<1>2. ASSUME NEW S \in SUBSET Recoveries, S # {}
      PROVE  Newest(S) \in S /\ Newest(S) # NoPlan
  <2>1. S \in SUBSET (1 .. Len(plans)) /\ Len(plans) \in Nat
    BY <1>1, PlanFacts
  <2>2. Newest(S) \in S
    BY <1>2, <2>1, NewestIn
  <2> QED BY <2>1, <2>2 DEF NoPlan
<1> QED BY <1>1, <1>2

(* The gate lets operational plans pass only when there is no recovery, or *)
(* the one selected is completed, which is then the newest.                *)
LEMMA GateOpen ==
  ASSUME IInv, NEW mode \in Modes, Allowed("operational", mode)
  PROVE  RecoveryDone(tasks, plans)
<1> DEFINE r == SelectedRecovery
           open == {p \in Recoveries : ~Closed(p)}
<1>1. mode # "restricted"
  BY DEF Allowed
<1>2. /\ open # {} => r = Newest(open)
      /\ open = {} /\ Recoveries # {} => r = Newest(Recoveries)
  BY DEF SelectedRecovery
<1>3. open # {} => r \in open /\ r # NoPlan
  BY <1>2, RecoveryFacts
<1>4. CASE r = NoPlan
  <2>1. open = {}
    BY <1>3, <1>4
  <2>2. Recoveries = {}
    BY <1>2, <1>4, <2>1, RecoveryFacts
  <2> QED BY <2>2, RecoveryFacts DEF RecoveryDone
<1>5. CASE r # NoPlan
  <2>1. PlanStatus(r) = "completed"
    BY <1>1, <1>5 DEF Modes
  <2>2. r \notin open
    BY <2>1 DEF Closed
  <2>3. Recoveries # {}
    BY <1>3, <1>5, <2>2 DEF SelectedRecovery
  <2>4. r = Newest(Recoveries) /\ r \in PlanIds
    BY <1>2, <1>3, <2>2, <2>3, RecoveryFacts
  <2>5. FinishedBy(tasks, plans, r)
    <3> HIDE DEF r
    <3> QED BY <2>1, <2>4, ClosedIsOver DEF Closed
  <2> QED BY <2>4, <2>5, RecoveryFacts DEF RecoveryDone
<1> QED BY <1>4, <1>5

(* A recovery that is done stays so, unless another is made.               *)
LEMMA DoneStays ==
  ASSUME IInv, Kept, DOMAIN plans' = DOMAIN plans, RecoveryDone(tasks, plans)
  PROVE  RecoveryDone(tasks', plans')
<1>1. RecoveriesOf(plans') = RecoveriesOf(plans)
  BY DEF RecoveriesOf, KindIn, Kept, GrowPlans
<1>2. CASE RecoveriesOf(plans) = {}
  BY <1>1, <1>2 DEF RecoveryDone
<1>3. CASE RecoveriesOf(plans) # {}
  <2> DEFINE r == Newest(RecoveriesOf(plans))
  <2>1. r \in PlanIds /\ FinishedBy(tasks, plans, r)
    BY <1>3, RecoveryFacts DEF RecoveryDone
  <2> HIDE DEF r
  <2>2. FinishedBy(tasks', plans', r)
    BY <2>1, FinishedStays
  <2> QED BY <1>1, <2>2 DEF RecoveryDone, r
<1> QED BY <1>2, <1>3

(* Every step keeps it: while a thread posts, it has the lock, so nobody   *)
(* makes a recovery.                                                       *)
LEMMA OperationalStays ==
  ASSUME IInv, OperationalInv, [Next]_vars
  PROVE  OperationalInv'
<1>1. Kept
  BY Inductive
<1>2. ASSUME NEW th \in Threads, First(todo'[th], {"post"}),
             KindIn(plans', todo'[th][1].plan) = "operational"
      PROVE  RecoveryDone(tasks', plans')
  <2>1. todo \in [Threads -> Seq(Instruction)]
    BY Types
  <2>2. CASE todo'[th] = todo[th] /\ plans' = plans
    <3>1. RecoveryDone(tasks, plans)
      BY <1>2, <2>2 DEF OperationalInv
    <3> QED BY <1>1, <2>2, <3>1, DoneStays
  <2>3. CASE Queue(th)
    <3>1. /\ plans' = plans
          /\ \E mode \in Modes : Allowed(Kind(todo'[th][1].plan), mode)
      BY <1>2, <2>3, QueueMoves
    <3>2. Kind(todo'[th][1].plan) = "operational"
      BY <1>2, <3>1 DEF Kind, KindIn
    <3>3. \E mode \in Modes : Allowed("operational", mode)
      BY <3>1, <3>2
    <3>4. RecoveryDone(tasks, plans)
      BY <3>3, GateOpen
    <3> QED BY <1>1, <3>1, <3>4, DoneStays
  <2>4. CASE Post(th)
    <3>1. /\ First(todo[th], {"post"}) /\ todo[th][1].plan \in PlanIds
          /\ DOMAIN plans' = DOMAIN plans
      BY <2>4, PostMoves
    <3>2. todo'[th][1].plan = todo[th][1].plan
      BY <1>2, <2>4, PostMoves
    <3>3. plans'[todo[th][1].plan].shape = plans[todo[th][1].plan].shape
      BY <1>1, <3>1 DEF Kept, GrowPlans, PlanIds
    <3>4. KindIn(plans, todo[th][1].plan) = "operational"
      BY <1>2, <3>2, <3>3 DEF KindIn
    <3>5. RecoveryDone(tasks, plans)
      BY <3>1, <3>4 DEF OperationalInv
    <3> QED BY <1>1, <3>1, <3>5, DoneStays
  <2> QED BY <1>2, <2>2, <2>3, <2>4, PostHeads
<1> QED BY <1>2 DEF OperationalInv

(* Whoever calls, and however a recovery is advanced: no operational step  *)
(* is queued on the branch while its latest recovery is still to be done.  *)
THEOREM OperationalWork == Spec => OperationalWaits
<1> DEFINE Waits ==
      \A t \in 1 .. MaxTasks :
        Queues(t) /\ Kind(tasks'[t].plan) = "operational"
          => Recoveries = {} \/ Over(Newest(Recoveries))
<1>1. ASSUME IInv, OperationalInv, [Next]_vars PROVE [Waits]_vars
  <2>1. ASSUME NEW t \in 1 .. MaxTasks, Queues(t),
               Kind(tasks'[t].plan) = "operational"
        PROVE  Recoveries = {} \/ Over(Newest(Recoveries))
    <3>1. t = Len(tasks) + 1 /\ t \in DOMAIN tasks'
      BY <2>1 DEF Queues
    <3>2. tasks \in Seq(TaskRecord) /\ Len(tasks) \in Nat
            /\ DOMAIN tasks = 1 .. Len(tasks)
      BY <1>1, Types, LenProperties
    <3>3. DOMAIN tasks' # DOMAIN tasks
      BY <3>1, <3>2
    <3>4. ASSUME NEW th \in Threads, Plain(th) PROVE FALSE
      BY <3>3, <3>4 DEF Plain, NoNewTask
    <3>5. ASSUME NEW th \in Threads, ReadTitles(th) \/ Queue(th) PROVE FALSE
      BY <1>1, <3>3, <3>5, ReadTitlesMoves, QueueMoves
    <3>6. ~ Crash /\ ~ UNCHANGED vars
      BY <3>3 DEF Crash, vars
    <3>7. PICK th \in Threads : Post(th)
      BY <1>1, <3>4, <3>5, <3>6, StepKinds
    <3> DEFINE p == todo[th][1].plan
               s == Least(todo[th][1].steps)
    <3>8. First(todo[th], {"post"}) /\ tasks' = Append(tasks, NewTask(p, s))
      BY <1>1, <3>3, <3>7, PostMoves
    <3>9. tasks'[t].plan = p
      BY <3>1, <3>2, <3>8 DEF NewTask
    <3> HIDE DEF p, s
    <3>10. RecoveryDone(tasks, plans)
      BY <1>1, <2>1, <3>8, <3>9 DEF OperationalInv, KindIn, Kind, p
    <3>11. Recoveries = {} \/ /\ FinishedBy(tasks, plans, Newest(Recoveries))
                              /\ Newest(Recoveries) \in PlanIds
      BY <1>1, <3>10, RecoveryFacts DEF RecoveryDone
    <3> QED BY <3>11, Wording DEF OverBy
  <2> QED BY <2>1
<1>2. Init => OperationalInv
  <2> SUFFICES ASSUME Init PROVE OperationalInv
    OBVIOUS
  <2>1. \A th \in Threads : todo[th] = << >>
    BY DEF Init
  <2> QED BY <2>1 DEF OperationalInv, First
<1>3. IInv /\ OperationalInv /\ [Next]_vars => OperationalInv'
  BY OperationalStays
<1>4. Spec => [][Waits]_vars
  BY <1>1, <1>2, <1>3, Invariance, PTL DEF Spec
<1> QED BY <1>4 DEF OperationalWaits
---------------------------------------------------------------------------
(* A step once at a time.                                                  *)

(* The task of a step of which its plan knows.                             *)
KnownBy(f, ts, t) == f[ts[t].plan].steps[ts[t].step].task = t

(* Without faults, tasks are unknown only after a kill; and a thread that  *)
(* is about to queue or post has read the titles of those still active.    *)
TasksKnown ==
  "fault" \notin env /\ (~disturbed \/ "crash" \notin env)
    => \A t \in TaskIds : KnownBy(plans, tasks, t)
Covered(f, ts, t, read) ==
  ts[t].status = "active" =>
    \/ KnownBy(f, ts, t)
    \/ Shape[f[ts[t].plan].shape].titles[ts[t].step] \in read
TitlesRead ==
  "fault" \notin env =>
    \A th \in Threads : First(todo[th], {"queue", "post"}) =>
      \A t \in TaskIds : Covered(plans, tasks, t, titles[th])
WorkInv == TasksKnown /\ TitlesRead /\ OneLiveTask

(* The task list, before and after.                                        *)
LEMMA TaskFacts ==
  ASSUME IInv
  PROVE  /\ TaskIds = 1 .. Len(tasks) /\ Len(tasks) \in Nat
         /\ \A t \in TaskIds :
              /\ tasks[t] \in TaskRecord /\ tasks[t].plan \in PlanIds
              /\ tasks[t].step \in Steps(tasks[t].plan)
<1>1. tasks \in Seq(TaskRecord) /\ TaskIds = 1 .. Len(tasks) /\ Len(tasks) \in Nat
  BY Types, LenProperties DEF TaskIds
<1>2. \A t \in TaskIds : tasks[t] \in TaskRecord
  BY <1>1, ElementOfSeq
<1> QED BY <1>1, <1>2, Types DEF TasksFit, TaskFits, TaskIds, PlanIds, Steps

(* What a post adds to the list.                                           *)
LEMMA Appended ==
  ASSUME IInv, NEW task, tasks' = Append(tasks, task)
  PROVE  /\ DOMAIN tasks' = DOMAIN tasks \cup {Len(tasks) + 1}
         /\ Len(tasks) + 1 \notin DOMAIN tasks
         /\ tasks'[Len(tasks) + 1] = task
         /\ \A t \in DOMAIN tasks : tasks'[t] = tasks[t]
BY TaskFacts, Types DEF TaskIds

(* Where steps keep their tasks, what is known stays known.                *)
LEMMA KnownStays ==
  ASSUME IInv, Kept, SameNumbers, NoNewTask, NEW t \in TaskIds
  PROVE  /\ KnownBy(plans', tasks', t) <=> KnownBy(plans, tasks, t)
         /\ \A read : Covered(plans, tasks, t, read) => Covered(plans', tasks', t, read)
<1>1. tasks'[t].plan = tasks[t].plan /\ tasks'[t].step = tasks[t].step
        /\ (tasks'[t].status = "active" => tasks[t].status = "active")
  BY DEF Kept, GrowTasks, NoNewTask, TaskIds
<1>2. tasks[t].plan \in PlanIds /\ tasks[t].step \in Steps(tasks[t].plan)
  BY TaskFacts
<1>3. plans'[tasks[t].plan].shape = plans[tasks[t].plan].shape
  BY <1>2 DEF Kept, GrowPlans, PlanIds
<1>4. plans'[tasks[t].plan].steps[tasks[t].step].task
        = plans[tasks[t].plan].steps[tasks[t].step].task
  BY <1>2 DEF SameNumbers
<1> QED BY <1>1, <1>3, <1>4 DEF KnownBy, Covered

(* What a post that adds a task does to all tasks.                         *)
PostsTask(th) ==
  LET p == todo[th][1].plan
      s == Least(todo[th][1].steps)
  IN  /\ tasks' = Append(tasks, NewTask(p, s))
      /\ titles' = [titles EXCEPT ![th] = @ \cup {Title(p, s)}]
      /\ Title(p, s) \notin titles[th]
      /\ \A q \in PlanIds : \A r \in Steps(q) :
           plans'[q].steps[r].task = IF q = p /\ r = s THEN Len(tasks) + 1
                                     ELSE plans[q].steps[r].task

(* The new task is known, and no other is forgotten.                       *)
LEMMA PostKnown ==
  ASSUME IInv, Kept, NEW th \in Threads, Post(th), PostsTask(th)
  PROVE  /\ DOMAIN tasks' = DOMAIN tasks \cup {Len(tasks) + 1}
         /\ KnownBy(plans', tasks', Len(tasks) + 1)
         /\ \A t \in TaskIds :
              /\ KnownBy(plans, tasks, t) => KnownBy(plans', tasks', t)
              /\ \A read : Covered(plans, tasks, t, read)
                             => Covered(plans', tasks', t, read)
<1> DEFINE p == todo[th][1].plan
           s == Least(todo[th][1].steps)
           n == Len(tasks) + 1
<1>1. /\ p \in PlanIds /\ s \in Steps(p)
      /\ plans[p].steps[s].task = NoTask
  <2>1. p \in PlanIds /\ Postable(plans, p, s)
    BY PostMoves
  <2> HIDE DEF p, s
  <2> QED BY <2>1 DEF Postable, Steps
<1>2. /\ tasks' = Append(tasks, NewTask(p, s))
      /\ \A q \in PlanIds : \A r \in Steps(q) :
           plans'[q].steps[r].task = IF q = p /\ r = s THEN n
                                     ELSE plans[q].steps[r].task
  BY DEF PostsTask
<1>3. NewTask(p, s).plan = p /\ NewTask(p, s).step = s
  BY DEF NewTask
<1> HIDE DEF p, s
<1>4. /\ DOMAIN tasks' = DOMAIN tasks \cup {n}
      /\ tasks'[n] = NewTask(p, s)
      /\ \A t \in DOMAIN tasks : tasks'[t] = tasks[t]
  BY <1>2, Appended
<1> HIDE DEF n
<1>5. KnownBy(plans', tasks', n)
  BY <1>1, <1>2, <1>3, <1>4 DEF KnownBy
<1>6. ASSUME NEW t \in TaskIds
      PROVE  /\ KnownBy(plans, tasks, t) => KnownBy(plans', tasks', t)
             /\ \A read : Covered(plans, tasks, t, read)
                            => Covered(plans', tasks', t, read)
  <2>1. /\ tasks[t].plan \in PlanIds /\ tasks[t].step \in Steps(tasks[t].plan)
        /\ t # NoTask /\ tasks'[t] = tasks[t]
    BY <1>4, TaskFacts DEF NoTask, TaskIds
  <2>2. KnownBy(plans, tasks, t) => KnownBy(plans', tasks', t)
    BY <1>1, <1>2, <2>1 DEF KnownBy
  <2>3. plans'[tasks[t].plan].shape = plans[tasks[t].plan].shape
    BY <2>1 DEF Kept, GrowPlans, PlanIds
  <2> QED BY <2>1, <2>2, <2>3 DEF Covered
<1> QED BY <1>4, <1>5, <1>6 DEF n

(* Every step but a kill keeps steps' tasks, or posts one.                 *)
LEMMA WorkKinds ==
  ASSUME IInv, [Next]_vars
  PROVE  /\ env' = env /\ (disturbed => disturbed')
         /\ \/ SameNumbers /\ NoNewTask
            \/ \E th \in Threads : Post(th) /\ PostsTask(th)
            \/ "fault" \in env
            \/ Crash
<1>1. ASSUME NEW th \in Threads, Plain(th)
      PROVE  /\ env' = env /\ (disturbed => disturbed') /\ SameNumbers /\ NoNewTask
  BY <1>1 DEF Plain
<1>2. ASSUME NEW th \in Threads, ReadTitles(th) \/ Queue(th)
      PROVE  /\ env' = env /\ (disturbed => disturbed') /\ SameNumbers /\ NoNewTask
  BY <1>2, ReadTitlesMoves, QueueMoves, Unchanged
<1>3. ASSUME NEW th \in Threads, Post(th)
      PROVE  /\ env' = env /\ (disturbed => disturbed')
             /\ (SameNumbers /\ NoNewTask) \/ PostsTask(th) \/ "fault" \in env
  BY <1>3, PostMoves, Unchanged DEF PostsTask
<1>4. CASE Crash
  BY <1>4 DEF Crash
<1>5. CASE UNCHANGED vars
  BY <1>5, Unchanged DEF vars
<1> QED BY <1>1, <1>2, <1>3, <1>4, <1>5, StepKinds

(* Tasks are known, after every step.                                      *)
LEMMA KnownAfter ==
  ASSUME IInv, TasksKnown, [Next]_vars
  PROVE  TasksKnown'
<1>1. Kept
  BY Inductive
<1>2. env' = env /\ (disturbed => disturbed')
  BY WorkKinds
<1> SUFFICES ASSUME "fault" \notin env, ~disturbed' \/ "crash" \notin env
             PROVE  \A t \in DOMAIN tasks' : KnownBy(plans', tasks', t)
  BY <1>2 DEF TasksKnown, TaskIds
<1>3. \A t \in TaskIds : KnownBy(plans, tasks, t)
  BY <1>2 DEF TasksKnown
<1>4. CASE SameNumbers /\ NoNewTask
  BY <1>1, <1>3, <1>4, KnownStays DEF NoNewTask, TaskIds
<1>5. ASSUME NEW th \in Threads, Post(th), PostsTask(th)
      PROVE  \A t \in DOMAIN tasks' : KnownBy(plans', tasks', t)
  BY <1>1, <1>3, <1>5, PostKnown DEF TaskIds
<1>6. ~ Crash
  BY DEF Crash
<1> QED BY <1>4, <1>5, <1>6, WorkKinds

(* Titles are those of the active tasks that are not known.                *)
LEMMA TitlesAfter ==
  ASSUME IInv, TitlesRead, [Next]_vars
  PROVE  TitlesRead'
<1>1. Kept
  BY Inductive
<1>2. env' = env
  BY WorkKinds
<1>8. titles \in [Threads -> SUBSET AllTitles]
  BY Types
<1> SUFFICES ASSUME "fault" \notin env, NEW th \in Threads,
                    First(todo'[th], {"queue", "post"})
             PROVE  \A t \in DOMAIN tasks' : Covered(plans', tasks', t, titles'[th])
  BY <1>2 DEF TitlesRead, TaskIds
<1>3. CASE First(todo[th], {"queue", "post"}) /\ titles'[th] = titles[th]
  <2>1. \A t \in TaskIds : Covered(plans, tasks, t, titles'[th])
    BY <1>3 DEF TitlesRead
  <2>2. CASE SameNumbers /\ NoNewTask
    BY <1>1, <2>1, <2>2, KnownStays DEF NoNewTask, TaskIds
  <2>3. ASSUME NEW u \in Threads, Post(u), PostsTask(u)
        PROVE  \A t \in DOMAIN tasks' : Covered(plans', tasks', t, titles'[th])
    BY <1>1, <2>1, <2>3, PostKnown DEF TaskIds, Covered
  <2>4. ~ Crash
    BY DEF Crash, First
  <2> QED BY <2>2, <2>3, <2>4, WorkKinds
<1>4. CASE ReadTitles(th)
  <2>1. /\ titles'[th] = {Title(tasks[t].plan, tasks[t].step) :
                            t \in {u \in TaskIds : tasks[u].status = "active"}}
        /\ tasks' = tasks /\ plans' = plans
    BY <1>4, <1>8, ReadTitlesMoves
  <2> QED BY <2>1 DEF Covered, Title, TaskIds
<1>5. CASE Post(th)
  <2>1. \A t \in TaskIds : Covered(plans, tasks, t, titles[th])
    BY <1>5, PostMoves DEF TitlesRead, First
  <2>2. CASE PostsTask(th)
    <3>1. titles[th] \subseteq titles'[th]
      BY <1>8, <2>2 DEF PostsTask
    <3>2. \A t \in TaskIds : Covered(plans, tasks, t, titles'[th])
      BY <2>1, <3>1 DEF Covered
    <3> QED BY <1>1, <1>5, <2>2, <3>2, PostKnown DEF TaskIds, Covered
  <2>3. CASE tasks' = tasks /\ SameNumbers /\ titles' = titles
    BY <1>1, <2>1, <2>3, KnownStays, Unchanged DEF TaskIds
  <2>4. PostsTask(th) \/ (tasks' = tasks /\ SameNumbers /\ titles' = titles)
    BY <1>5, PostMoves DEF PostsTask
  <2> QED BY <2>2, <2>3, <2>4
<1> QED BY <1>3, <1>4, <1>5, TitleHeads

(* No step has a second task beside an active one.                         *)
LEMMA OneLiveAfter ==
  ASSUME IInv, WorkInv, [Next]_vars
  PROVE  OneLiveTask'
<1> DEFINE Apart(ts, t, u) ==
      ts[t].plan = ts[u].plan /\ ts[t].step = ts[u].step /\ t < u
        => "crash" \in env /\ ts[t].status # "active"
<1>1. Kept
  BY Inductive
<1>2. env' = env
  BY WorkKinds
<1> SUFFICES ASSUME "fault" \notin env
             PROVE  \A t, u \in DOMAIN tasks' : Apart(tasks', t, u)
  BY <1>2 DEF OneLiveTask, TaskIds
<1>3. \A t, u \in TaskIds : Apart(tasks, t, u)
  BY DEF WorkInv, OneLiveTask
<1>4. CASE NoNewTask
  <2>1. \A t \in TaskIds :
          /\ tasks'[t].plan = tasks[t].plan /\ tasks'[t].step = tasks[t].step
          /\ tasks'[t].status = "active" => tasks[t].status = "active"
    BY <1>1, <1>4 DEF Kept, GrowTasks, NoNewTask, TaskIds
  <2> QED BY <1>3, <1>4, <2>1 DEF NoNewTask, TaskIds
<1>5. ASSUME NEW th \in Threads, Post(th), PostsTask(th)
      PROVE  \A t, u \in DOMAIN tasks' : Apart(tasks', t, u)
  <2> DEFINE p == todo[th][1].plan
             s == Least(todo[th][1].steps)
             n == Len(tasks) + 1
  <2>1. /\ First(todo[th], {"queue", "post"})
        /\ p \in PlanIds /\ s \in Steps(p) /\ plans[p].steps[s].task = NoTask
    <3>1. First(todo[th], {"post"}) /\ p \in PlanIds /\ Postable(plans, p, s)
      BY <1>5, PostMoves
    <3> HIDE DEF p, s
    <3> QED BY <3>1 DEF Postable, Steps, First
  <2>2. tasks' = Append(tasks, NewTask(p, s)) /\ Title(p, s) \notin titles[th]
    BY <1>5 DEF PostsTask
  <2>3. NewTask(p, s).plan = p /\ NewTask(p, s).step = s
    BY DEF NewTask
  <2>4. \A t \in TaskIds : Covered(plans, tasks, t, titles[th])
    BY <2>1 DEF WorkInv, TitlesRead
  <2> HIDE DEF p, s
  <2>5. /\ DOMAIN tasks' = TaskIds \cup {n} /\ n \notin TaskIds
        /\ tasks'[n] = NewTask(p, s)
        /\ \A t \in TaskIds : tasks'[t] = tasks[t]
    BY <2>2, Appended DEF TaskIds
  <2>6. ASSUME NEW t \in TaskIds, tasks[t].plan = p, tasks[t].step = s
        PROVE  "crash" \in env /\ tasks[t].status # "active"
    <3>1. ~ KnownBy(plans, tasks, t)
      BY <2>1, <2>6, TaskFacts DEF KnownBy, NoTask
    <3>2. "crash" \in env
      BY <3>1 DEF WorkInv, TasksKnown
    <3>3. tasks[t].status # "active"
      BY <2>2, <2>4, <2>6, <3>1 DEF Covered, Title
    <3> QED BY <3>2, <3>3
  <2>7. \A t \in TaskIds : t \in Nat /\ t < n
    BY TaskFacts
  <2> SUFFICES ASSUME NEW t \in TaskIds \cup {n}, NEW u \in TaskIds \cup {n}
               PROVE  Apart(tasks', t, u)
    BY <2>5
  <2>8. n \in Nat
    BY TaskFacts
  <2> HIDE DEF n
  <2>9. CASE u \in TaskIds /\ t \in TaskIds
    BY <1>3, <2>5, <2>9
  <2>10. CASE u \in TaskIds /\ t = n
    <3>1. ~ (t < u)
      BY <2>7, <2>8, <2>10
    <3> QED BY <3>1
  <2>11. CASE u = n /\ t = n
    BY <2>8, <2>11
  <2>12. CASE u = n /\ t \in TaskIds
    BY <2>3, <2>5, <2>6, <2>12
  <2> QED BY <2>9, <2>10, <2>11, <2>12
<1>6. CASE Crash
  BY <1>3, <1>6 DEF Crash, TaskIds
<1> HIDE DEF Apart
<1> QED BY <1>4, <1>5, <1>6, WorkKinds

(* What is given to agents is watched throughout.                          *)
LEMMA WorkHolds == Spec => []WorkInv
<1>1. Init => WorkInv
  <2> SUFFICES ASSUME Init PROVE WorkInv
    OBVIOUS
  <2>1. TaskIds = {} /\ \A th \in Threads : todo[th] = << >>
    BY DEF Init, TaskIds
  <2> QED BY <2>1 DEF WorkInv, TasksKnown, TitlesRead, OneLiveTask, First
<1>2. IInv /\ WorkInv /\ [Next]_vars => WorkInv'
  BY KnownAfter, TitlesAfter, OneLiveAfter DEF WorkInv
<1> QED BY <1>1, <1>2, Invariance, PTL DEF Spec

(* "do not queue again what is active": whatever calls overlap and         *)
(* whenever the process is killed, no step has two active tasks.           *)
THEOREM OneTaskAtATime == Spec => []OneLiveTask
<1>1. WorkInv => OneLiveTask
  BY DEF WorkInv
<1> QED BY <1>1, WorkHolds, PTL
---------------------------------------------------------------------------
(* No more steps of a plan at a time than its limit.                       *)

(* The tasks of a plan that are active, and the steps it takes for active. *)
LiveIn(ts, p) == {t \in DOMAIN ts : ts[t].plan = p /\ ts[t].status = "active"}
ActiveSteps(p) == {s \in Steps(p) : StepStatus(p, s) = "active"}
Sound == env \cap {"crash", "fault"} = {}

(* What a thread is about to post is within the limit, beside what is      *)
(* active already.                                                         *)
PostsFit ==
  Sound => \A th \in Threads : First(todo[th], {"post"}) =>
    LET p == todo[th][1].plan IN
    Cardinality(LiveIn(tasks, p)) + Cardinality(todo[th][1].steps)
      <= Shape[plans[p].shape].parallel
LimitInv == PostsFit /\ LimitHolds

(* As long as ranks are below k, there are no more than k of them.         *)
LEMMA FirstFew ==
  ASSUME NEW S \in SUBSET Nat, IsFiniteSet(S), NEW k \in Int,
         {s \in S : Cardinality({r \in S : r < s}) < k} # {}
  PROVE  /\ IsFiniteSet({s \in S : Cardinality({r \in S : r < s}) < k})
         /\ Cardinality({s \in S : Cardinality({r \in S : r < s}) < k}) <= k
<1> DEFINE below(s) == {r \in S : r < s}
           first == {s \in S : Cardinality(below(s)) < k}
           rank == [s \in first |-> Cardinality(below(s))]
<1>1. \A s \in S : IsFiniteSet(below(s)) /\ Cardinality(below(s)) \in Nat
  BY FS_Subset, FS_CardinalityType
<1>2. ASSUME NEW s \in S, NEW u \in S, s < u
      PROVE  Cardinality(below(s)) < Cardinality(below(u))
  <2>1. below(s) \cup {s} \in SUBSET below(u) /\ s \notin below(s)
    <3>1. s \in Nat /\ u \in Nat /\ \A r \in S : r \in Nat
      OBVIOUS
    <3>2. \A r \in S : r < s => r < u
      BY <1>2, <3>1
    <3>3. ~ (s < s)
      BY <3>1
    <3> QED BY <1>2, <3>2, <3>3
  <2> HIDE DEF below
  <2>2. Cardinality(below(s) \cup {s}) = Cardinality(below(s)) + 1
    BY <1>1, <2>1, FS_AddElement
  <2>3. Cardinality(below(s) \cup {s}) <= Cardinality(below(u))
    BY <1>1, <2>1, FS_Subset
  <2> QED BY <1>1, <2>2, <2>3
<1> HIDE DEF below
<1>3. \A s \in first : s \in S /\ s \in Nat /\ Cardinality(below(s)) \in 0 .. k - 1
  BY <1>1
<1>4. \A s, u \in first : rank[s] = rank[u] => s = u
  <2> SUFFICES ASSUME NEW s \in first, NEW u \in first, rank[s] = rank[u]
               PROVE  s = u
    OBVIOUS
  <2>1. Cardinality(below(s)) = Cardinality(below(u))
    OBVIOUS
  <2>2. s \in Nat /\ u \in Nat /\ s \in S /\ u \in S
    BY <1>3
  <2>3. Cardinality(below(s)) \in Nat /\ Cardinality(below(u)) \in Nat
    BY <1>1, <2>2
  <2> QED BY <1>2, <2>1, <2>2, <2>3
<1>5. rank \in Injection(first, 0 .. k - 1)
  <2>1. rank \in [first -> 0 .. k - 1]
    BY <1>3
  <2> HIDE DEF first, rank
  <2> QED BY <1>4, <2>1 DEF Injection, IsInjective
<1>6. k >= 1
  <2>1. PICK s \in S : Cardinality(below(s)) < k
    BY DEF below
  <2> QED BY <1>1, <2>1
<1> HIDE DEF first, rank
<1>7. /\ IsFiniteSet(0 .. k - 1) /\ Cardinality(0 .. k - 1) = k
  BY <1>6, FS_Interval
<1>8. IsFiniteSet(first) /\ Cardinality(first) <= k
  BY <1>5, <1>7, FS_Injection
<1> QED BY <1>8 DEF first, below

(* The active tasks of a plan are finitely many.                           *)
LEMMA LiveFinite ==
  ASSUME IInv, NEW p
  PROVE  /\ IsFiniteSet(LiveIn(tasks, p)) /\ Cardinality(LiveIn(tasks, p)) \in Nat
         /\ \A T \in SUBSET LiveIn(tasks, p) :
              IsFiniteSet(T) /\ Cardinality(T) \in Nat
                /\ Cardinality(T) <= Cardinality(LiveIn(tasks, p))
<1>1. IsFiniteSet(DOMAIN tasks)
  BY TaskFacts, FS_Interval DEF TaskIds
<1>2. IsFiniteSet(LiveIn(tasks, p))
  <2>1. LiveIn(tasks, p) \in SUBSET DOMAIN tasks
    BY DEF LiveIn
  <2> QED BY <1>1, <2>1, FS_Subset
<1> QED BY <1>2, FS_Subset, FS_CardinalityType

(* Where all tasks are known, the step of an active one is active.         *)
LEMMA LiveActive ==
  ASSUME IInv, TasksKnown, OneLiveTask, Sound, ~disturbed \/ "crash" \notin env,
         NEW p \in PlanIds
  PROVE  /\ IsFiniteSet(ActiveSteps(p)) /\ Cardinality(ActiveSteps(p)) \in Nat
         /\ Cardinality(LiveIn(tasks, p)) <= Cardinality(ActiveSteps(p))
<1> DEFINE step == [t \in LiveIn(tasks, p) |-> tasks[t].step]
<1>1. \A t \in TaskIds : KnownBy(plans, tasks, t)
  BY DEF TasksKnown, Sound
<1>2. Steps(p) = 1 .. Len(Needs(p)) /\ Len(Needs(p)) \in Nat
        /\ \A s \in Steps(p) : plans[p].steps[s] \in StepRecord
  BY PlanFacts
<1>3. IsFiniteSet(ActiveSteps(p)) /\ Cardinality(ActiveSteps(p)) \in Nat
  <2>1. IsFiniteSet(Steps(p)) /\ ActiveSteps(p) \in SUBSET Steps(p)
    BY <1>2, FS_Interval DEF ActiveSteps
  <2> QED BY <2>1, FS_Subset, FS_CardinalityType
<1>4. ASSUME NEW t \in LiveIn(tasks, p)
      PROVE  tasks[t].step \in ActiveSteps(p)
               /\ plans[p].steps[tasks[t].step].task = t
  <2> DEFINE s == tasks[t].step
  <2>1. t \in TaskIds /\ tasks[t].plan = p /\ tasks[t].status = "active"
    BY DEF LiveIn, TaskIds
  <2>2. s \in Steps(p) /\ plans[p].steps[s].task = t /\ t # NoTask
    BY <1>1, <2>1, TaskFacts DEF KnownBy, NoTask
  <2>3. StepFits(tasks, plans, plans[p].shape, p, s, plans[p].steps[s])
    BY <2>2, Types DEF FileFits, PlanIds, Steps
  <2> HIDE DEF s
  <2>4. \A u \in StepTasks(tasks, p, s) : u = t
    BY <1>1, <2>2 DEF StepTasks, KnownBy, TaskIds
  <2>5. ~ IsSettled(tasks, plans, p, s)
    BY <2>1, <2>4 DEF IsSettled, SettledBy
  <2>6. plans[p].steps[s].status = "active"
    BY <1>2, <2>1, <2>2, <2>3, <2>4, <2>5 DEF StepFits, StepRecord
  <2>7. s \in ActiveSteps(p)
    BY <2>2, <2>6 DEF ActiveSteps, StepStatus
  <2> QED BY <2>2, <2>7 DEF s
<1>5. step \in Injection(LiveIn(tasks, p), ActiveSteps(p))
  <2>1. step \in [LiveIn(tasks, p) -> ActiveSteps(p)]
    BY <1>4
  <2>2. \A t, u \in LiveIn(tasks, p) : step[t] = step[u] => t = u
    BY <1>4
  <2> HIDE DEF step
  <2> QED BY <2>1, <2>2 DEF Injection, IsInjective
<1> HIDE DEF step
<1>6. Cardinality(LiveIn(tasks, p)) <= Cardinality(ActiveSteps(p))
  BY <1>3, <1>5, FS_Injection
<1> QED BY <1>3, <1>6

(* What is chosen of a plan fits beside its active steps.                  *)
LEMMA ChosenFits ==
  ASSUME IInv, NEW p \in PlanIds, NEW mode, Chosen(p, mode) # {},
         Cardinality(ActiveSteps(p)) \in Nat
  PROVE  /\ IsFiniteSet(Chosen(p, mode)) /\ Cardinality(Chosen(p, mode)) \in Nat
         /\ Cardinality(ActiveSteps(p)) + Cardinality(Chosen(p, mode))
              <= Shape[plans[p].shape].parallel
<1> DEFINE planned == Unqueued(p, {"planned"})
           k == Slots(p, mode)
           limit == Shape[plans[p].shape].parallel
           busy == Cardinality(ActiveSteps(p))
<1>1. Steps(p) = 1 .. Len(Needs(p)) /\ Len(Needs(p)) \in Nat
        /\ plans[p].shape \in Names
  BY PlanFacts
<1>2. limit \in Nat
  BY <1>1, PlannerAssumption
<1>3. k \in Int /\ k <= limit - busy
  <2>1. k = IF mode # "open" /\ limit - busy > 1 THEN 1 ELSE limit - busy
    BY DEF Slots, ActiveSteps
  <2> HIDE DEF limit, busy, k
  <2>2. busy \in Nat
    BY DEF busy
  <2> QED BY <1>2, <2>1, <2>2
<1>4. planned \in SUBSET Nat /\ IsFiniteSet(planned)
  <2>1. planned \in SUBSET Steps(p)
    BY DEF Unqueued
  <2>2. IsFiniteSet(Steps(p)) /\ Steps(p) \in SUBSET Nat
    BY <1>1, FS_Interval
  <2> HIDE DEF planned
  <2> QED BY <2>1, <2>2, FS_Subset
<1>5. Chosen(p, mode)
        = {s \in planned : Cardinality({r \in planned : r < s}) < k}
  BY DEF Chosen
<1> HIDE DEF planned, k
<1>6. IsFiniteSet(Chosen(p, mode)) /\ Cardinality(Chosen(p, mode)) <= k
  BY <1>3, <1>4, <1>5, FirstFew
<1>7. Cardinality(Chosen(p, mode)) \in Nat
  BY <1>6, FS_CardinalityType
<1> HIDE DEF limit
<1>8. busy + Cardinality(Chosen(p, mode)) <= limit
  <2>1. busy \in Nat
    OBVIOUS
  <2> HIDE DEF busy
  <2> QED BY <1>2, <1>3, <1>6, <1>7, <2>1
<1> QED BY <1>6, <1>7, <1>8 DEF limit

(* No step adds an active task but a post, which adds one.                 *)
LEMMA LiveAfter ==
  ASSUME IInv, Kept, NEW p
  PROVE  /\ NoNewTask => LiveIn(tasks', p) \subseteq LiveIn(tasks, p)
         /\ NoNewTask /\ p \notin PlanIds => LiveIn(tasks', p) = {}
         /\ \A task : tasks' = Append(tasks, task) =>
              LiveIn(tasks', p) \subseteq IF task.plan = p
                                          THEN LiveIn(tasks, p) \cup {Len(tasks) + 1}
                                          ELSE LiveIn(tasks, p)
<1>1. ASSUME NoNewTask
      PROVE  LiveIn(tasks', p) \subseteq LiveIn(tasks, p)
  BY <1>1 DEF NoNewTask, Kept, GrowTasks, LiveIn
<1>2. p \notin PlanIds => LiveIn(tasks, p) = {}
  BY TaskFacts DEF LiveIn, TaskIds
<1>3. ASSUME NEW task, tasks' = Append(tasks, task)
      PROVE  LiveIn(tasks', p) \subseteq IF task.plan = p
                                         THEN LiveIn(tasks, p) \cup {Len(tasks) + 1}
                                         ELSE LiveIn(tasks, p)
  BY <1>3, Appended DEF LiveIn
<1> QED BY <1>1, <1>2, <1>3

(* What a thread is about to post: some steps of a plan there is.          *)
LEMMA HeadPosts ==
  ASSUME IInv, NEW th \in Threads, First(todo[th], {"post"})
  PROVE  /\ todo[th][1].plan \in PlanIds /\ todo[th][1].steps # {}
         /\ IsFiniteSet(todo[th][1].steps)
         /\ Cardinality(todo[th][1].steps) \in Nat
<1> DEFINE p == todo[th][1].plan
           posts == todo[th][1].steps
<1>1. posts # {} /\ \A s \in posts : Postable(plans, p, s)
  BY DEF IInv, HeadInv, HeadFits, First
<1>2. p \in PlanIds
  <2>1. GoodList(todo[th], PlanIds) /\ todo[th] # << >> /\ todo[th][1].do = "post"
    BY DEF IInv, ListInv, First
  <2>2. todo[th] \in Seq(Instruction) /\ Len(todo[th]) \in Nat
    BY <2>1, LenProperties DEF GoodList
  <2>3. Len(todo[th]) >= 1
    BY <2>1, <2>2, EmptySeq
  <2> QED BY <2>1, <2>2, <2>3 DEF GoodList, Proper
<1> HIDE DEF p, posts
<1>3. posts \in SUBSET Steps(p)
  BY <1>1 DEF Postable, Steps
<1>4. IsFiniteSet(Steps(p))
  BY <1>2, PlanFacts, FS_Interval
<1>5. IsFiniteSet(posts)
  BY <1>3, <1>4, FS_Subset
<1>6. Cardinality(posts) \in Nat
  BY <1>5, FS_CardinalityType
<1> QED BY <1>1, <1>2, <1>5, <1>6 DEF p, posts

(* One element more at most is one more at most.                           *)
LEMMA OneMore ==
  ASSUME NEW S, NEW x, NEW T \in SUBSET (S \cup {x}), IsFiniteSet(S)
  PROVE  /\ IsFiniteSet(T) /\ Cardinality(T) \in Nat /\ Cardinality(S) \in Nat
         /\ Cardinality(T) <= Cardinality(S) + 1
<1>1. /\ IsFiniteSet(S \cup {x})
      /\ Cardinality(S \cup {x}) = IF x \in S THEN Cardinality(S)
                                   ELSE Cardinality(S) + 1
  BY FS_AddElement
<1>2. IsFiniteSet(T) /\ Cardinality(T) <= Cardinality(S \cup {x})
  BY <1>1, FS_Subset
<1>3. Cardinality(T) \in Nat /\ Cardinality(S) \in Nat
  BY <1>2, FS_CardinalityType
<1> QED BY <1>1, <1>2, <1>3

(* One more task, one less to post: what was within the limit stays so.    *)
LEMMA StillFits ==
  ASSUME NEW a \in Nat, NEW b \in Nat, NEW c \in Nat, NEW d \in Nat,
         NEW limit \in Nat, a + b <= limit, c <= a + 1, d <= b - 1
  PROVE  c + d <= limit
OBVIOUS

(* What a thread posts within the limit, after every step.                 *)
LEMMA PostsFitAfter ==
  ASSUME IInv, WorkInv, PostsFit, [Next]_vars, Sound,
         ~disturbed \/ "crash" \notin env,
         NEW th \in Threads, First(todo'[th], {"post"})
  PROVE  LET p == todo'[th][1].plan IN
         Cardinality(LiveIn(tasks', p)) + Cardinality(todo'[th][1].steps)
           <= Shape[plans'[p].shape].parallel
<1>1. Kept
  BY Inductive
<1> DEFINE p == todo'[th][1].plan
           posts == todo'[th][1].steps
<1> SUFFICES Cardinality(LiveIn(tasks', p)) + Cardinality(posts)
               <= Shape[plans'[p].shape].parallel
  OBVIOUS
<1>2. ASSUME p \in PlanIds
      PROVE  plans'[p].shape = plans[p].shape /\ Shape[plans[p].shape].parallel \in Nat
  <2>1. plans[p].shape \in Names
    BY <1>2, PlanFacts
  <2> HIDE DEF p
  <2>2. plans'[p].shape = plans[p].shape
    BY <1>1, <1>2 DEF Kept, GrowPlans, PlanIds
  <2> QED BY <2>1, <2>2, PlannerAssumption
<1>3. CASE todo'[th] = todo[th] /\ plans' = plans /\ NoNewTask
  <2>1. p \in PlanIds /\ IsFiniteSet(posts) /\ Cardinality(posts) \in Nat
    BY <1>3, HeadPosts
  <2>2. Cardinality(LiveIn(tasks, p)) + Cardinality(posts)
          <= Shape[plans[p].shape].parallel
    BY <1>3 DEF PostsFit
  <2> HIDE DEF p, posts
  <2>3. LiveIn(tasks', p) \in SUBSET LiveIn(tasks, p)
    BY <1>1, <1>3, LiveAfter
  <2>4. /\ Cardinality(LiveIn(tasks', p)) <= Cardinality(LiveIn(tasks, p))
        /\ Cardinality(LiveIn(tasks', p)) \in Nat
        /\ Cardinality(LiveIn(tasks, p)) \in Nat
    BY <2>3, LiveFinite
  <2> QED BY <1>2, <1>3, <2>1, <2>2, <2>4
<1>4. CASE Queue(th)
  <2>1. plans' = plans /\ p \in PlanIds /\ tasks' = tasks
    BY <1>4, QueueMoves
  <2>2. PICK mode \in Modes : posts = Chosen(p, mode)
    BY <1>4, QueueMoves
  <2>3. posts # {}
    BY <1>1 DEF Kept, IInv, HeadInv, HeadFits, First
  <2> HIDE DEF p, posts
  <2>4. /\ Cardinality(ActiveSteps(p)) \in Nat
        /\ Cardinality(LiveIn(tasks, p)) <= Cardinality(ActiveSteps(p))
    BY <2>1, LiveActive DEF WorkInv
  <2>5. /\ Cardinality(posts) \in Nat
        /\ Cardinality(ActiveSteps(p)) + Cardinality(posts)
             <= Shape[plans[p].shape].parallel
    BY <2>1, <2>2, <2>3, <2>4, ChosenFits
  <2>6. Cardinality(LiveIn(tasks, p)) \in Nat
    BY LiveFinite
  <2> QED BY <1>2, <2>1, <2>4, <2>5, <2>6
<1>5. CASE Post(th)
  <2> DEFINE old == todo[th][1].steps
             s == Least(old)
  <2>1. /\ First(todo[th], {"post"}) /\ p = todo[th][1].plan
        /\ posts = old \ {s} /\ s \in old
        /\ tasks' = tasks \/ tasks' = Append(tasks, NewTask(p, s))
    BY <1>5, PostMoves
  <2>2. p \in PlanIds /\ IsFiniteSet(old) /\ Cardinality(old) \in Nat
    BY <2>1, HeadPosts
  <2>3. Cardinality(LiveIn(tasks, p)) + Cardinality(old)
          <= Shape[plans[p].shape].parallel
    BY <2>1 DEF PostsFit
  <2> HIDE DEF p, posts, old, s
  <2>4. Cardinality(posts) = Cardinality(old) - 1 /\ Cardinality(posts) \in Nat
    BY <2>1, <2>2, FS_RemoveElement, FS_CardinalityType
  <2>5. LiveIn(tasks', p) \in SUBSET (LiveIn(tasks, p) \cup {Len(tasks) + 1})
    <3>1. CASE tasks' = tasks
      BY <3>1
    <3>2. CASE tasks' = Append(tasks, NewTask(p, s))
      BY <1>1, <3>2, LiveAfter
    <3> QED BY <2>1, <3>1, <3>2
  <2>6. /\ Cardinality(LiveIn(tasks', p)) <= Cardinality(LiveIn(tasks, p)) + 1
        /\ Cardinality(LiveIn(tasks', p)) \in Nat
        /\ Cardinality(LiveIn(tasks, p)) \in Nat
    BY <2>5, LiveFinite, OneMore
  <2> QED BY <1>2, <2>2, <2>3, <2>4, <2>6, StillFits
<1> HIDE DEF p, posts
<1> QED BY <1>3, <1>4, <1>5, PostHeads

(* A plan that is just made has no tasks.                                  *)
LEMMA NewPlanIdle ==
  ASSUME IInv, [Next]_vars, Sound, NEW p, p \notin PlanIds
  PROVE  LiveIn(tasks', p) = {}
<1>1. Kept
  BY Inductive
<1>2. CASE NoNewTask
  BY <1>1, <1>2, LiveAfter
<1>3. ASSUME NEW th \in Threads, Post(th), PostsTask(th)
      PROVE  LiveIn(tasks', p) = {}
  <2> DEFINE q == todo[th][1].plan
             s == Least(todo[th][1].steps)
  <2>1. q \in PlanIds
    BY <1>3, PostMoves
  <2>2. tasks' = Append(tasks, NewTask(q, s))
    BY <1>3 DEF PostsTask
  <2> HIDE DEF q, s
  <2>3. NewTask(q, s).plan = q
    BY DEF NewTask
  <2>4. LiveIn(tasks, p) = {}
    BY TaskFacts DEF LiveIn, TaskIds
  <2>5. LiveIn(tasks', p) \subseteq LiveIn(tasks, p)
    BY <1>1, <2>1, <2>2, <2>3, LiveAfter
  <2> QED BY <2>4, <2>5
<1>4. ~ Crash /\ "fault" \notin env
  BY DEF Crash, Sound
<1> QED BY <1>2, <1>3, <1>4, WorkKinds

(* The active tasks of a plan become more only when one is posted.         *)
LEMMA LiveKinds ==
  ASSUME IInv, [Next]_vars, Sound, NEW p
  PROVE  \/ LiveIn(tasks', p) \subseteq LiveIn(tasks, p)
         \/ \E th \in Threads :
              /\ Post(th) /\ p = todo[th][1].plan
              /\ LiveIn(tasks', p) \subseteq LiveIn(tasks, p) \cup {Len(tasks) + 1}
<1>1. Kept
  BY Inductive
<1>2. CASE NoNewTask
  BY <1>1, <1>2, LiveAfter
<1>3. ASSUME NEW th \in Threads, Post(th), PostsTask(th)
      PROVE  \/ LiveIn(tasks', p) \subseteq LiveIn(tasks, p)
             \/ /\ p = todo[th][1].plan
                /\ LiveIn(tasks', p) \subseteq LiveIn(tasks, p) \cup {Len(tasks) + 1}
  <2> DEFINE q == todo[th][1].plan
             s == Least(todo[th][1].steps)
  <2>1. tasks' = Append(tasks, NewTask(q, s))
    BY <1>3 DEF PostsTask
  <2>2. NewTask(q, s).plan = q
    BY DEF NewTask
  <2> SUFFICES \/ LiveIn(tasks', p) \subseteq LiveIn(tasks, p)
               \/ /\ p = q
                  /\ LiveIn(tasks', p) \subseteq LiveIn(tasks, p) \cup {Len(tasks) + 1}
    OBVIOUS
  <2> HIDE DEF q, s
  <2>3. LiveIn(tasks', p) \subseteq IF q = p THEN LiveIn(tasks, p) \cup {Len(tasks) + 1}
                                    ELSE LiveIn(tasks, p)
    BY <1>1, <2>1, <2>2, LiveAfter
  <2> QED BY <2>3
<1>4. ~ Crash /\ "fault" \notin env
  BY DEF Crash, Sound
<1> QED BY <1>2, <1>3, <1>4, WorkKinds

(* The limits, after every step: a post adds one task, to a plan that has  *)
(* room for it.                                                            *)
LEMMA LimitAfter ==
  ASSUME IInv, WorkInv, LimitInv, [Next]_vars
  PROVE  LimitInv'
<1>1. Kept /\ env' = env /\ (disturbed => disturbed')
  BY Inductive, WorkKinds
<1>2. PostsFit'
  <2>1. ASSUME Sound, NEW th \in Threads, First(todo'[th], {"post"})
        PROVE  LET p == todo'[th][1].plan IN
               Cardinality(LiveIn(tasks', p)) + Cardinality(todo'[th][1].steps)
                 <= Shape[plans'[p].shape].parallel
    <3>1. "crash" \notin env
      BY <2>1 DEF Sound
    <3> QED BY <2>1, <3>1, PostsFitAfter DEF LimitInv
  <2>2. Sound' => Sound
    BY <1>1 DEF Sound
  <2> QED BY <2>1, <2>2 DEF PostsFit
<1>3. LimitHolds'
  <2>1. ASSUME Sound, NEW p \in DOMAIN plans'
        PROVE  Cardinality(LiveIn(tasks', p)) <= Shape[plans'[p].shape].parallel
    <3>1. Shape[plans'[p].shape].parallel \in Nat
      <4>1. plans' \in Seq(PlanRecord)
        BY <1>1 DEF Kept, IInv, TypeOK, WellShaped
      <4>2. plans'[p] \in PlanRecord
        BY <2>1, <4>1, LenProperties, ElementOfSeq
      <4>3. plans'[p].shape \in Names
        BY <4>2 DEF PlanRecord
      <4> QED BY <4>3, PlannerAssumption
    <3>2. CASE p \notin PlanIds
      <4>1. LiveIn(tasks', p) = {}
        BY <1>1, <2>1, <3>2, NewPlanIdle
      <4> QED BY <3>1, <4>1, FS_EmptySet
    <3>3. CASE p \in PlanIds
      <4>1. plans'[p].shape = plans[p].shape
              /\ Cardinality(LiveIn(tasks, p)) <= Shape[plans[p].shape].parallel
        BY <1>1, <2>1, <3>3
           DEF LimitInv, LimitHolds, LiveIn, Sound, Kept, GrowPlans, PlanIds, TaskIds
      <4>2. CASE LiveIn(tasks', p) \subseteq LiveIn(tasks, p)
        <5>1. /\ Cardinality(LiveIn(tasks', p)) <= Cardinality(LiveIn(tasks, p))
              /\ Cardinality(LiveIn(tasks', p)) \in Nat
              /\ Cardinality(LiveIn(tasks, p)) \in Nat
          BY <4>2, LiveFinite
        <5> QED BY <3>1, <4>1, <5>1
      <4>3. ASSUME NEW th \in Threads, Post(th), p = todo[th][1].plan,
                   LiveIn(tasks', p) \subseteq LiveIn(tasks, p) \cup {Len(tasks) + 1}
            PROVE  Cardinality(LiveIn(tasks', p)) <= Shape[plans'[p].shape].parallel
        <5> DEFINE posts == todo[th][1].steps
        <5>1. First(todo[th], {"post"})
          BY <4>3, PostMoves
        <5>2. Cardinality(LiveIn(tasks, p)) + Cardinality(posts)
                <= Shape[plans[p].shape].parallel
          BY <2>1, <4>3, <5>1 DEF LimitInv, PostsFit
        <5>3. posts # {} /\ IsFiniteSet(posts) /\ Cardinality(posts) \in Nat
          BY <5>1, HeadPosts
        <5> HIDE DEF posts
        <5>4. Cardinality(posts) >= 1
          BY <5>3, FS_EmptySet
        <5>5. /\ Cardinality(LiveIn(tasks', p)) <= Cardinality(LiveIn(tasks, p)) + 1
              /\ Cardinality(LiveIn(tasks', p)) \in Nat
              /\ Cardinality(LiveIn(tasks, p)) \in Nat
          <6>1. LiveIn(tasks', p) \in SUBSET (LiveIn(tasks, p) \cup {Len(tasks) + 1})
            BY <4>3
          <6> QED BY <6>1, LiveFinite, OneMore
        <5> QED BY <3>1, <4>1, <5>2, <5>3, <5>4, <5>5
      <4>4. \/ LiveIn(tasks', p) \subseteq LiveIn(tasks, p)
            \/ \E th \in Threads :
                 /\ Post(th) /\ p = todo[th][1].plan
                 /\ LiveIn(tasks', p) \subseteq LiveIn(tasks, p) \cup {Len(tasks) + 1}
        BY <1>1, <2>1, LiveKinds
      <4> QED BY <4>2, <4>3, <4>4
    <3> QED BY <3>2, <3>3
  <2>2. Sound' => Sound
    BY <1>1 DEF Sound
  <2> QED BY <2>1, <2>2 DEF LimitHolds, LiveIn, Sound, PlanIds, TaskIds
<1> QED BY <1>2, <1>3 DEF LimitInv

(* max_parallel_steps bounds the tasks that are active at a time, also     *)
(* when calls overlap and late copies of the task list are applied, as     *)
(* long as the process is not killed and no call raises.                   *)
THEOREM ParallelismIsBounded == Spec => []LimitHolds
<1>1. Init => LimitInv
  <2> SUFFICES ASSUME Init PROVE LimitInv
    OBVIOUS
  <2>1. PlanIds = {} /\ \A th \in Threads : todo[th] = << >>
    BY DEF Init, PlanIds
  <2> QED BY <2>1 DEF LimitInv, PostsFit, LimitHolds, First
<1>2. IInv /\ WorkInv /\ LimitInv /\ [Next]_vars => LimitInv'
  BY LimitAfter
<1>3. LimitInv => LimitHolds
  BY DEF LimitInv
<1> QED BY <1>1, <1>2, <1>3, Invariance, WorkHolds, PTL DEF Spec
---------------------------------------------------------------------------
(* What a recovery's plan tells of its steps.                              *)

(* A step that has a task has its newest, and is completed only by that,   *)
(* a failed one with the mark that it was compensated.                     *)
OwnTask(ts, p, s, step) ==
  /\ step.task # NoTask => \A t \in StepTasks(ts, p, s) : t <= step.task
  /\ step.status = "completed" =>
       /\ step.task # NoTask /\ ts[step.task].status # "active"
       /\ ts[step.task].status = "failed" => step.undone
Owned(file, ts) ==
  \A p \in DOMAIN file : \A s \in DOMAIN file[p].steps :
    OwnTask(ts, p, s, file[p].steps[s])

(* A file knows the tasks of all steps before one that was queued, or that *)
(* plans, which may be newer, take for planned.                            *)
Led(file, p, s) ==
  \A d \in Shape[file[p].shape].needs[s] : file[p].steps[d].task # NoTask
AllLed(file, ts) == \A t \in DOMAIN ts : Led(file, ts[t].plan, ts[t].step)
PlannedLed(file, f) ==
  \A p \in DOMAIN f : \A s \in DOMAIN f[p].steps :
    f[p].steps[s].status = "planned" => Led(file, p, s)

(* The file lags behind the plans in memory.                               *)
Lags(file, f) ==
  \A p \in DOMAIN f : \A s \in DOMAIN f[p].steps :
    f[p].steps[s].task = NoTask => file[p].steps[s].task = NoTask

(* It is so in memory, and on file where a kill may make it all there is.  *)
Traced(file, ts, f) ==
  /\ Owned(file, ts) /\ AllLed(file, ts) /\ Lags(file, f)
  /\ PlannedLed(file, file) /\ PlannedLed(file, f)
TraceInv ==
  /\ Traced(plans, tasks, plans)
  /\ "crash" \in env => Traced(saved, tasks, plans)

(* A remediation that is done.                                             *)
Mended(ts, f) ==
  \E c \in DOMAIN f : f[c].shape = Remediation /\ FinishedBy(ts, f, c)

(* What is made of a step or a plan by what neither applies a copy, posts  *)
(* nor kills.                                                              *)
MildStep(new, old) ==
  new = old \/ (new.task = old.task /\ new.status = "blocked")
Mild ==
  \A p \in DOMAIN plans' :
    \/ /\ p \in PlanIds /\ plans'[p].shape = plans[p].shape
       /\ plans'[p].resolved = plans[p].resolved \/ Mended(tasks, plans)
       /\ \A s \in Steps(p) : MildStep(plans'[p].steps[s], plans[p].steps[s])
    \/ p \notin PlanIds /\ \E name \in Names : \E parent : plans'[p] = NewPlan(name, parent)

(* What is on file covers the task list.                                   *)
LEMMA FileTasks ==
  ASSUME IInv, NEW file, FileFits(file, tasks, plans)
  PROVE  \A p \in DOMAIN file : \A s \in DOMAIN file[p].steps :
           LET step == file[p].steps[s] IN
           /\ file[p].shape \in Names /\ DOMAIN file[p].steps = StepsOf(file[p].shape)
           /\ step \in StepRecord
           /\ step.task # NoTask =>
                step.task \in StepTasks(tasks, p, s) /\ step.task \in DOMAIN tasks
           /\ step.status \in {"planned", "blocked"} => step.task = NoTask
<1>1. WellShaped(file)
  BY DEF FileFits
<1>2. ASSUME NEW p \in DOMAIN file, NEW s \in DOMAIN file[p].steps
      PROVE  /\ file[p].shape \in Names /\ DOMAIN file[p].steps = StepsOf(file[p].shape)
             /\ file[p].steps[s] \in StepRecord
  <2>1. file \in Seq(PlanRecord) /\ DOMAIN file = 1 .. Len(file)
    BY <1>1, LenProperties DEF WellShaped
  <2>2. file[p] \in PlanRecord
    BY <2>1, ElementOfSeq
  <2>3. file[p].steps \in Seq(StepRecord) /\ file[p].shape \in Names
    BY <2>2 DEF PlanRecord
  <2>4. file[p].steps[s] \in StepRecord
    BY <2>3, LenProperties, ElementOfSeq
  <2> QED BY <1>1, <2>3, <2>4 DEF WellShaped
<1>3. \A p \in DOMAIN file : \A s \in DOMAIN file[p].steps :
        StepFits(tasks, plans, file[p].shape, p, s, file[p].steps[s])
  BY DEF FileFits
<1> QED BY <1>2, <1>3 DEF StepFits, StepTasks

(* The tasks of a step, where none is added.                               *)
LEMMA SameStepTasks ==
  ASSUME IInv, Kept, DOMAIN tasks' = DOMAIN tasks, NEW p, NEW s
  PROVE  StepTasks(tasks', p, s) = StepTasks(tasks, p, s)
BY DEF Kept, GrowTasks, StepTasks

(* What is known of a step stays so while no task is added.                *)
LEMMA OwnedStays ==
  ASSUME IInv, Kept, DOMAIN tasks' = DOMAIN tasks, NEW p, NEW s, NEW step,
         step.task # NoTask => step.task \in DOMAIN tasks,
         OwnTask(tasks, p, s, step)
  PROVE  OwnTask(tasks', p, s, step)
<1>1. StepTasks(tasks', p, s) = StepTasks(tasks, p, s)
  BY SameStepTasks
<1>2. step.task # NoTask /\ tasks[step.task].status # "active" =>
        tasks'[step.task].status = tasks[step.task].status
  BY DEF Kept, GrowTasks
<1> QED BY <1>1, <1>2 DEF OwnTask

(* The tasks there are know their plans and steps.                         *)
LEMMA AllLedStays ==
  ASSUME IInv, Kept, DOMAIN tasks' = DOMAIN tasks, NEW file, AllLed(file, tasks)
  PROVE  AllLed(file, tasks')
BY DEF Kept, GrowTasks, AllLed

(* The plans there are, before and after a mild step.                      *)
LEMMA MildFacts ==
  ASSUME IInv, Kept, Mild
  PROVE  /\ PlanIds \subseteq DOMAIN plans'
         /\ \A p \in PlanIds :
              /\ plans'[p].shape = plans[p].shape
              /\ DOMAIN plans'[p].steps = Steps(p)
              /\ \A s \in Steps(p) :
                   MildStep(plans'[p].steps[s], plans[p].steps[s])
         /\ \A p \in DOMAIN plans' \ PlanIds : \A s \in DOMAIN plans'[p].steps :
              /\ plans'[p].steps[s].task = NoTask
              /\ plans'[p].steps[s].status \in {"planned", "blocked"}
              /\ plans'[p].steps[s].status = "planned" =>
                   Shape[plans'[p].shape].needs[s] = {}
<1>1. PlanIds \subseteq DOMAIN plans'
  BY DEF Kept, GrowPlans, PlanIds
<1>2. ASSUME NEW p \in PlanIds
      PROVE  /\ plans'[p].shape = plans[p].shape
             /\ DOMAIN plans'[p].steps = Steps(p)
             /\ \A s \in Steps(p) : MildStep(plans'[p].steps[s], plans[p].steps[s])
  <2>1. p \in DOMAIN plans'
    BY <1>1
  <2>2. plans'[p].shape = plans[p].shape
          /\ \A s \in Steps(p) : MildStep(plans'[p].steps[s], plans[p].steps[s])
    BY <2>1 DEF Mild
  <2>3. DOMAIN plans'[p].steps = StepsOf(plans'[p].shape)
    BY <2>1 DEF Kept, IInv, TypeOK, WellShaped
  <2>4. Steps(p) = StepsOf(plans[p].shape)
    BY PlanFacts
  <2> QED BY <2>2, <2>3, <2>4
<1>3. ASSUME NEW p \in DOMAIN plans' \ PlanIds, NEW s \in DOMAIN plans'[p].steps
      PROVE  /\ plans'[p].steps[s].task = NoTask
             /\ plans'[p].steps[s].status \in {"planned", "blocked"}
             /\ plans'[p].steps[s].status = "planned" =>
                  Shape[plans'[p].shape].needs[s] = {}
  <2>1. PICK name \in Names : \E parent : plans'[p] = NewPlan(name, parent)
    BY <1>3 DEF Mild
  <2>2. plans'[p].shape = name /\ s \in StepsOf(name)
          /\ plans'[p].steps[s] =
               [status |-> IF Shape[name].needs[s] = {} THEN "planned" ELSE "blocked",
                task |-> NoTask, undone |-> FALSE]
    BY <2>1 DEF NewPlan
  <2> QED BY <2>2
<1> QED BY <1>1, <1>2, <1>3

(* The plans in memory are traced after a mild step.                       *)
LEMMA MildTraced ==
  ASSUME IInv, Kept, TraceInv, Mild, DOMAIN tasks' = DOMAIN tasks
  PROVE  Traced(plans', tasks', plans')
<1>1. Traced(plans, tasks, plans) /\ FileFits(plans, tasks, plans)
  BY Types DEF TraceInv
<1>2. ASSUME NEW p \in PlanIds, NEW s \in Steps(p), Led(plans, p, s)
      PROVE  Led(plans', p, s)
  <2>1. plans'[p].shape = plans[p].shape /\ plans[p].shape \in Names
          /\ Steps(p) = StepsOf(plans[p].shape)
    BY MildFacts, PlanFacts
  <2>2. ASSUME NEW d \in Shape[plans[p].shape].needs[s]
        PROVE  plans'[p].steps[d].task # NoTask
    <3>1. d \in Steps(p)
      BY <2>1, Shapes
    <3>2. plans[p].steps[d].task # NoTask
      BY <1>2 DEF Led
    <3> QED BY <3>1, <3>2, MildFacts DEF MildStep
  <2> QED BY <2>1, <2>2 DEF Led
<1>3. Owned(plans', tasks')
  <2> SUFFICES ASSUME NEW p \in DOMAIN plans', NEW s \in DOMAIN plans'[p].steps
               PROVE  OwnTask(tasks', p, s, plans'[p].steps[s])
    BY DEF Owned
  <2>1. CASE p \notin PlanIds
    BY <2>1, MildFacts DEF OwnTask
  <2>2. CASE p \in PlanIds
    <3> DEFINE old == plans[p].steps[s]
               new == plans'[p].steps[s]
    <3>1. s \in Steps(p) /\ MildStep(new, old)
      BY <2>2, MildFacts
    <3>2. OwnTask(tasks, p, s, old) /\ (old.task # NoTask => old.task \in DOMAIN tasks)
      BY <1>1, <2>2, <3>1, FileTasks DEF Traced, Owned, PlanIds, Steps
    <3>3. OwnTask(tasks', p, s, old)
      BY <3>2, OwnedStays
    <3> HIDE DEF old, new
    <3>4. OwnTask(tasks', p, s, new)
      BY <3>1, <3>3 DEF MildStep, OwnTask
    <3> QED BY <3>4 DEF new
  <2> QED BY <2>1, <2>2
<1>4. AllLed(plans', tasks')
  <2> SUFFICES ASSUME NEW t \in DOMAIN tasks'
               PROVE  Led(plans', tasks'[t].plan, tasks'[t].step)
    BY DEF AllLed
  <2>1. tasks'[t].plan = tasks[t].plan /\ tasks'[t].step = tasks[t].step
    BY DEF Kept, GrowTasks
  <2>2. tasks[t].plan \in PlanIds /\ tasks[t].step \in Steps(tasks[t].plan)
    BY TaskFacts DEF TaskIds
  <2>3. Led(plans, tasks[t].plan, tasks[t].step)
    BY <1>1 DEF Traced, AllLed
  <2> QED BY <1>2, <2>1, <2>2, <2>3
<1>5. PlannedLed(plans', plans')
  <2> SUFFICES ASSUME NEW p \in DOMAIN plans', NEW s \in DOMAIN plans'[p].steps,
                      plans'[p].steps[s].status = "planned"
               PROVE  Led(plans', p, s)
    BY DEF PlannedLed
  <2>1. CASE p \notin PlanIds
    BY <2>1, MildFacts DEF Led
  <2>2. CASE p \in PlanIds
    <3>1. s \in Steps(p) /\ MildStep(plans'[p].steps[s], plans[p].steps[s])
      BY <2>2, MildFacts
    <3>2. plans[p].steps[s].status = "planned"
      BY <3>1 DEF MildStep
    <3>3. Led(plans, p, s)
      BY <1>1, <2>2, <3>1, <3>2 DEF Traced, PlannedLed, PlanIds, Steps
    <3> QED BY <1>2, <2>2, <3>1, <3>3
  <2> QED BY <2>1, <2>2
<1> QED BY <1>3, <1>4, <1>5 DEF Traced, Lags

(* Nor does a file that is not written lose what it knows.                 *)
LEMMA SavedTraced ==
  ASSUME IInv, Kept, TraceInv, "crash" \in env, env' = env, saved' = saved,
         DOMAIN tasks' = DOMAIN tasks,
         \A p \in PlanIds : \A s \in Steps(p) :
           /\ plans'[p].steps[s].task = plans[p].steps[s].task
           /\ plans'[p].steps[s].status = "planned" =>
                plans[p].steps[s].status = "planned"
  PROVE  Traced(saved, tasks', plans')
<1>1. Traced(saved, tasks, plans) /\ FileFits(saved, tasks, plans)
        /\ SameShapes(saved, plans)
  BY DEF TraceInv, IInv, FileInv
<1>2. SameShapes(saved, plans') /\ WellShaped(plans')
  BY DEF Kept, IInv, FileInv, TypeOK
<1>3. DOMAIN plans' = PlanIds /\ \A p \in PlanIds : DOMAIN plans'[p].steps = Steps(p)
  <2>1. DOMAIN plans' = PlanIds /\ \A p \in PlanIds : plans'[p].shape = plans[p].shape
    BY <1>1, <1>2 DEF SameShapes, PlanIds
  <2>2. \A p \in PlanIds : DOMAIN plans'[p].steps = StepsOf(plans'[p].shape)
    BY <1>2, <2>1 DEF WellShaped
  <2> QED BY <2>1, <2>2, PlanFacts
<1>4. Owned(saved, tasks')
  <2> SUFFICES ASSUME NEW p \in DOMAIN saved, NEW s \in DOMAIN saved[p].steps
               PROVE  OwnTask(tasks', p, s, saved[p].steps[s])
    BY DEF Owned
  <2>1. OwnTask(tasks, p, s, saved[p].steps[s])
    BY <1>1 DEF Traced, Owned
  <2>2. saved[p].steps[s].task # NoTask => saved[p].steps[s].task \in DOMAIN tasks
    BY <1>1, FileTasks
  <2> QED BY <2>1, <2>2, OwnedStays
<1>5. AllLed(saved, tasks')
  BY <1>1, AllLedStays DEF Traced
<1>6. Lags(saved, plans')
  BY <1>1, <1>3 DEF Traced, Lags, PlanIds, Steps
<1>7. PlannedLed(saved, saved) /\ PlannedLed(saved, plans')
  BY <1>1, <1>3 DEF Traced, PlannedLed, PlanIds, Steps
<1> QED BY <1>4, <1>5, <1>6, <1>7 DEF Traced

(* So both are traced after a mild step.                                   *)
LEMMA MildStays ==
  ASSUME IInv, Kept, TraceInv, Mild, NoNewTask, env' = env,
         saved' = saved \/ saved' = plans'
  PROVE  TraceInv'
<1>0. DOMAIN tasks' = DOMAIN tasks
  BY DEF NoNewTask
<1>1. Traced(plans', tasks', plans')
  BY <1>0, MildTraced
<1>2. ASSUME "crash" \in env, saved' = saved PROVE Traced(saved, tasks', plans')
  <2>1. ASSUME NEW p \in PlanIds, NEW s \in Steps(p)
        PROVE  /\ plans'[p].steps[s].task = plans[p].steps[s].task
               /\ plans'[p].steps[s].status = "planned" =>
                    plans[p].steps[s].status = "planned"
    BY MildFacts DEF MildStep
  <2> QED BY <1>0, <1>2, <2>1, SavedTraced
<1> QED BY <1>1, <1>2 DEF TraceInv

(* What a sync makes of a step.                                            *)
LEMMA SyncedFacts ==
  ASSUME IInv, NEW copy, CopyFits(copy, tasks), NEW p \in PlanIds, NEW s \in Steps(p)
  PROVE  LET old == plans[p].steps[s]
             new == SyncedStep(copy, p, s)
         IN  /\ Synced(copy)[p].shape = plans[p].shape
             /\ Synced(copy)[p].resolved = plans[p].resolved
             /\ Synced(copy)[p].steps = [r \in Steps(p) |-> SyncedStep(copy, p, r)]
             /\ new.task = old.task
             /\ new.status = "planned" => old.task = NoTask /\ Ready(copy, p, s)
             /\ new.status = "completed" => old.task # NoTask
                                              /\ Reported(copy, p, s) = "completed"
             /\ old.task # NoTask =>
                  new.undone = IF old.task \in DOMAIN copy THEN copy[old.task].undone
                               ELSE old.undone
<1> DEFINE old == plans[p].steps[s]
           new == SyncedStep(copy, p, s)
<1>1. plans[p] \in PlanRecord /\ old \in StepRecord
  BY PlanFacts
<1>2. Synced(copy)[p] = [plans[p] EXCEPT !.steps =
                           [r \in Steps(p) |-> SyncedStep(copy, p, r)]]
  BY DEF Synced
<1>3. /\ Synced(copy)[p].shape = plans[p].shape
      /\ Synced(copy)[p].resolved = plans[p].resolved
      /\ Synced(copy)[p].steps = [r \in Steps(p) |-> SyncedStep(copy, p, r)]
  BY <1>1, <1>2 DEF PlanRecord
<1>4. CASE old.task = NoTask
  <2>1. new = [old EXCEPT !.status = IF Ready(copy, p, s) THEN "planned" ELSE "blocked"]
    BY <1>4 DEF SyncedStep
  <2> HIDE DEF new, old
  <2>2. /\ new.task = NoTask /\ new.status \in {"planned", "blocked"}
        /\ new.status = "planned" => Ready(copy, p, s)
    BY <1>1, <1>4, <2>1 DEF StepRecord
  <2> QED BY <1>3, <1>4, <2>2 DEF new, old
<1>5. CASE old.task # NoTask
  <2> DEFINE undone == IF old.task \in DOMAIN copy THEN copy[old.task].undone
                       ELSE old.undone
             told == Reported(copy, p, s)
  <2>1. new = [old EXCEPT !.status = told, !.undone = undone]
    BY <1>5 DEF SyncedStep
  <2>2. told \in {"active", "completed", "failed"}
    BY <1>5, ReportedTrue
  <2> HIDE DEF new, old, undone, told
  <2>3. new.task = old.task /\ new.status = told /\ new.undone = undone
    BY <1>1, <2>1 DEF StepRecord
  <2> QED BY <1>3, <1>5, <2>2, <2>3 DEF new, old, undone, told
<1> QED BY <1>4, <1>5

(* A step that is reported as completed has a task that is settled, and,   *)
(* if that failed, the mark that it was compensated.                       *)
LEMMA ReportedOwn ==
  ASSUME IInv, TraceInv, NEW copy, CopyFits(copy, tasks),
         NEW p \in PlanIds, NEW s \in Steps(p), Reported(copy, p, s) = "completed"
  PROVE  LET old == plans[p].steps[s] IN
         /\ old.task # NoTask /\ tasks[old.task].status # "active"
         /\ tasks[old.task].status = "failed" =>
              IF old.task \in DOMAIN copy THEN copy[old.task].undone ELSE old.undone
<1> DEFINE old == plans[p].steps[s]
           t == old.task
<1>1. OwnTask(tasks, p, s, old)
  BY DEF TraceInv, Traced, Owned, PlanIds, Steps
<1>2. CASE t \in DOMAIN copy
  <2>1. copy \in Seq(TaskRecord) /\ t \in 1 .. Len(copy)
    BY <1>2, LenProperties DEF CopyFits
  <2>2. copy[t].status \in {"active", "done", "failed"} /\ t # NoTask
    <3>1. copy[t] \in TaskRecord
      BY <2>1, ElementOfSeq
    <3>2. t # NoTask
      <4> HIDE DEF t
      <4> QED BY <2>1 DEF NoTask
    <3> QED BY <3>1, <3>2 DEF TaskRecord
  <2>3. copy[t].status # "active" => copy[t].status = tasks[t].status
    BY <1>2 DEF CopyFits
  <2>4. FromTask(Kind(p), copy[t]) = "completed"
    BY <1>2 DEF Reported
  <2> HIDE DEF t
  <2>5. copy[t].status = "done" \/ (copy[t].status = "failed" /\ copy[t].undone)
    BY <2>2, <2>4 DEF FromTask
  <2>6. t # NoTask /\ tasks[t].status # "active"
          /\ (tasks[t].status = "failed" => copy[t].undone)
    BY <2>2, <2>3, <2>5
  <2> QED BY <1>2, <2>6 DEF t
<1>3. CASE t \notin DOMAIN copy
  <2>1. old.status = "completed"
    BY <1>3 DEF Reported, StepStatus
  <2> QED BY <1>1, <1>3, <2>1 DEF OwnTask
<1> QED BY <1>2, <1>3

(* A copy, however late, keeps what is known.                              *)
LEMMA ApplyTraced ==
  ASSUME IInv, Kept, TraceInv, NEW th \in Threads, Apply(th)
  PROVE  TraceInv'
<1> DEFINE copy == seen[th]
<1>1. /\ plans' = Synced(copy) /\ tasks' = tasks /\ env' = env
      /\ \/ SaveAnd(th, Tail(todo[th]))
         \/ /\ saved' = saved
            /\ \A p \in PlanIds : \A s \in Steps(p) :
                 plans'[p].steps[s].status = StepStatus(p, s)
  <2>1. \/ SaveAnd(th, Tail(todo[th]))
        \/ /\ saved' = saved
           /\ ~ \E p \in PlanIds : \E s \in Steps(p) :
                   plans'[p].steps[s].status # StepStatus(p, s)
    BY DEF Apply, NoSave
  <2> QED BY <2>1 DEF Apply, board
<1>2. CopyFits(copy, tasks)
  BY DEF IInv, CopyInv
<1> HIDE DEF copy
<1>3. DOMAIN plans' = PlanIds
  BY <1>1 DEF Synced
<1>4. ASSUME NEW p \in PlanIds
      PROVE  plans'[p].shape = plans[p].shape /\ DOMAIN plans'[p].steps = Steps(p)
  <2>1. plans'[p] = [plans[p] EXCEPT !.steps = [r \in Steps(p) |-> SyncedStep(copy, p, r)]]
    BY <1>1 DEF Synced
  <2>2. plans[p] \in PlanRecord
    BY PlanFacts
  <2> QED BY <2>1, <2>2 DEF PlanRecord
<1>5. ASSUME NEW p \in PlanIds, NEW s \in Steps(p)
      PROVE  LET old == plans[p].steps[s]
                 new == plans'[p].steps[s]
             IN  /\ new.task = old.task
                 /\ new.status = "planned" => old.task = NoTask /\ Ready(copy, p, s)
                 /\ new.status = "completed" =>
                      old.task # NoTask /\ Reported(copy, p, s) = "completed"
                 /\ old.task # NoTask =>
                      new.undone = IF old.task \in DOMAIN copy
                                   THEN copy[old.task].undone ELSE old.undone
  <2> DEFINE old == plans[p].steps[s]
             synced == SyncedStep(copy, p, s)
  <2>1. /\ Synced(copy)[p].steps = [r \in Steps(p) |-> SyncedStep(copy, p, r)]
        /\ synced.task = old.task
        /\ synced.status = "planned" => old.task = NoTask /\ Ready(copy, p, s)
        /\ synced.status = "completed" =>
             old.task # NoTask /\ Reported(copy, p, s) = "completed"
        /\ old.task # NoTask =>
             synced.undone = IF old.task \in DOMAIN copy THEN copy[old.task].undone
                             ELSE old.undone
    BY <1>2, SyncedFacts
  <2>2. plans'[p].steps[s] = synced
    BY <1>1, <2>1
  <2> HIDE DEF synced
  <2> QED BY <2>1, <2>2
<1>6. ASSUME NEW p \in PlanIds, NEW s \in Steps(p)
      PROVE  OwnTask(tasks, p, s, plans'[p].steps[s])
  <2> DEFINE old == plans[p].steps[s]
             new == plans'[p].steps[s]
  <2>1. OwnTask(tasks, p, s, old)
    BY DEF TraceInv, Traced, Owned, PlanIds, Steps
  <2>2. new.task # NoTask => \A t \in StepTasks(tasks, p, s) : t <= new.task
    BY <1>5, <2>1 DEF OwnTask
  <2>3. new.status = "completed" =>
          /\ new.task # NoTask /\ tasks[new.task].status # "active"
          /\ tasks[new.task].status = "failed" => new.undone
    <3> SUFFICES ASSUME new.status = "completed"
                 PROVE  /\ new.task # NoTask /\ tasks[new.task].status # "active"
                        /\ tasks[new.task].status = "failed" => new.undone
      OBVIOUS
    <3>1. Reported(copy, p, s) = "completed"
      BY <1>5
    <3>2. /\ old.task # NoTask /\ tasks[old.task].status # "active"
          /\ tasks[old.task].status = "failed" =>
               IF old.task \in DOMAIN copy THEN copy[old.task].undone ELSE old.undone
      BY <1>2, <3>1, ReportedOwn
    <3> QED BY <1>5, <3>2
  <2> QED BY <2>2, <2>3 DEF OwnTask
<1>7. ASSUME NEW p \in PlanIds, NEW s \in Steps(p), Led(plans, p, s)
      PROVE  Led(plans', p, s)
  <2>1. \A d \in Shape[plans[p].shape].needs[s] : d \in Steps(p)
    BY PlanFacts, Shapes
  <2> QED BY <1>4, <1>5, <1>7, <2>1 DEF Led
<1>8. ASSUME NEW p \in PlanIds, NEW s \in Steps(p), plans'[p].steps[s].status = "planned"
      PROVE  Led(plans, p, s)
  <2>1. Ready(copy, p, s)
    BY <1>5, <1>8
  <2> SUFFICES ASSUME NEW d \in Shape[plans[p].shape].needs[s]
               PROVE  plans[p].steps[d].task # NoTask
    BY DEF Led
  <2>2. d \in Steps(p) /\ d \in Needs(p)[s]
    BY PlanFacts, Shapes
  <2>3. Reported(copy, p, d) = "completed" \/ StepStatus(p, d) = "completed"
    BY <2>1, <2>2 DEF Ready
  <2>4. OwnTask(tasks, p, d, plans[p].steps[d])
    BY <2>2 DEF TraceInv, Traced, Owned, PlanIds, Steps
  <2> QED BY <1>2, <2>2, <2>3, <2>4, ReportedOwn DEF OwnTask, StepStatus
<1>9. Traced(plans', tasks', plans')
  <2>1. Owned(plans', tasks')
    BY <1>1, <1>3, <1>4, <1>6 DEF Owned
  <2>2. AllLed(plans', tasks')
    <3> SUFFICES ASSUME NEW t \in DOMAIN tasks
                 PROVE  Led(plans', tasks[t].plan, tasks[t].step)
      BY <1>1 DEF AllLed
    <3>1. tasks[t].plan \in PlanIds /\ tasks[t].step \in Steps(tasks[t].plan)
      BY TaskFacts DEF TaskIds
    <3>2. Led(plans, tasks[t].plan, tasks[t].step)
      BY DEF TraceInv, Traced, AllLed
    <3> QED BY <1>7, <3>1, <3>2
  <2>3. PlannedLed(plans', plans')
    BY <1>3, <1>4, <1>7, <1>8 DEF PlannedLed
  <2> QED BY <2>1, <2>2, <2>3 DEF Traced, Lags
<1>10. ASSUME "crash" \in env, saved' # plans' PROVE Traced(saved', tasks', plans')
  <2>1. /\ saved' = saved
        /\ \A p \in PlanIds : \A s \in Steps(p) :
             plans'[p].steps[s].status = StepStatus(p, s)
    BY <1>1, <1>10, SaveFacts
  <2>2. Traced(saved, tasks', plans')
    BY <1>1, <1>5, <1>10, <2>1, SavedTraced DEF StepStatus
  <2> QED BY <2>1, <2>2
<1> QED BY <1>1, <1>9, <1>10 DEF TraceInv

(* What a post writes: the step has the task that was added, is blocked    *)
(* where the call raised, or has a title that is active.                   *)
LEMMA PostWrites ==
  ASSUME IInv, NEW th \in Threads, Post(th)
  PROVE  LET p == todo[th][1].plan
             s == Least(todo[th][1].steps)
         IN  /\ p \in PlanIds /\ s \in todo[th][1].steps /\ s \in Steps(p)
             /\ Postable(plans, p, s)
             /\ saved' = saved /\ env' = env /\ DOMAIN plans' = PlanIds
             /\ \A q \in PlanIds :
                  /\ plans'[q].shape = plans[q].shape
                  /\ plans'[q].resolved = plans[q].resolved
                  /\ DOMAIN plans'[q].steps = Steps(q)
                  /\ \A r \in Steps(q) :
                       q # p \/ r # s => plans'[q].steps[r] = plans[q].steps[r]
             /\ \/ tasks' = tasks /\ plans'[p].steps[s] = plans[p].steps[s]
                \/ /\ tasks' = Append(tasks, NewTask(p, s))
                   /\ plans'[p].steps[s].task = Len(tasks) + 1
                   /\ plans'[p].steps[s].status = "active"
                \/ /\ "fault" \in env
                   /\ tasks' = tasks \/ tasks' = Append(tasks, NewTask(p, s))
                   /\ plans'[p].steps[s].task = NoTask
                   /\ plans'[p].steps[s].status = "blocked"
<1> DEFINE p == todo[th][1].plan
           s == Least(todo[th][1].steps)
           old == plans[p].steps[s]
           num == Len(tasks) + 1
<1>1. /\ p \in PlanIds /\ s \in todo[th][1].steps
      /\ todo[th][1].steps \subseteq Steps(p)
      /\ \A r \in todo[th][1].steps : Postable(plans, p, r)
  BY PostMoves
<1>2. Head(todo[th]) = todo[th][1]
  BY Rest DEF Post, At
<1>3. \/ UNCHANGED <<plans, tasks>>
      \/ /\ tasks' = Append(tasks, NewTask(p, s))
         /\ plans' = [plans EXCEPT ![p].steps[s] =
                        [@ EXCEPT !.task = num, !.status = "active"]]
      \/ /\ "fault" \in env
         /\ tasks' = tasks \/ tasks' = Append(tasks, NewTask(p, s))
         /\ plans' = [plans EXCEPT ![p].steps[s].status = "blocked"]
  BY <1>2 DEF Post
<1>4. saved' = saved /\ env' = env
  BY DEF Post
<1>5. s \in Steps(p) /\ Postable(plans, p, s) /\ old \in StepRecord /\ old.task = NoTask
  BY <1>1, PlanFacts DEF Postable
<1> HIDE DEF p, s
<1>6. ASSUME NEW step, plans' = [plans EXCEPT ![p].steps[s] = step]
      PROVE  /\ DOMAIN plans' = PlanIds /\ plans'[p].steps[s] = step
             /\ \A q \in PlanIds :
                  /\ plans'[q].shape = plans[q].shape
                  /\ plans'[q].resolved = plans[q].resolved
                  /\ DOMAIN plans'[q].steps = Steps(q)
                  /\ \A r \in Steps(q) :
                       q # p \/ r # s => plans'[q].steps[r] = plans[q].steps[r]
  <2> DEFINE new == [plans[p].steps EXCEPT ![s] = step]
  <2>1. DOMAIN plans' = PlanIds /\ \A q \in PlanIds \ {p} : plans'[q] = plans[q]
    BY <1>6 DEF PlanIds
  <2>2. plans[p] \in PlanRecord /\ p \in DOMAIN plans
    BY <1>1, PlanFacts DEF PlanIds
  <2>3. plans'[p] = [plans[p] EXCEPT !.steps = new]
    BY <1>6, <2>2
  <2>4. DOMAIN new = Steps(p) /\ new[s] = step
          /\ \A r \in Steps(p) \ {s} : new[r] = plans[p].steps[r]
    BY <1>5 DEF Steps
  <2> HIDE DEF new
  <2>5. plans'[p].steps = new /\ plans'[p].shape = plans[p].shape
          /\ plans'[p].resolved = plans[p].resolved
    BY <2>2, <2>3 DEF PlanRecord
  <2>6. \A q \in PlanIds \ {p} : DOMAIN plans'[q].steps = Steps(q)
    BY <2>1 DEF Steps
  <2> QED BY <2>1, <2>4, <2>5, <2>6
<1>7. CASE UNCHANGED <<plans, tasks>>
  BY <1>1, <1>4, <1>5, <1>7 DEF p, s, PlanIds, Steps
<1>8. CASE /\ tasks' = Append(tasks, NewTask(p, s))
           /\ plans' = [plans EXCEPT ![p].steps[s] =
                          [@ EXCEPT !.task = num, !.status = "active"]]
  <2> DEFINE step == [old EXCEPT !.task = num, !.status = "active"]
  <2>1. plans' = [plans EXCEPT ![p].steps[s] = step]
    BY <1>8
  <2> HIDE DEF old, num
  <2>2. step.task = num /\ step.status = "active"
    BY <1>5 DEF StepRecord
  <2> HIDE DEF step
  <2>3. /\ DOMAIN plans' = PlanIds /\ plans'[p].steps[s] = step
        /\ \A q \in PlanIds :
             /\ plans'[q].shape = plans[q].shape
             /\ plans'[q].resolved = plans[q].resolved
             /\ DOMAIN plans'[q].steps = Steps(q)
             /\ \A r \in Steps(q) :
                  q # p \/ r # s => plans'[q].steps[r] = plans[q].steps[r]
    BY <1>6, <2>1
  <2> QED BY <1>1, <1>4, <1>5, <1>8, <2>2, <2>3 DEF p, s, num
<1>9. CASE /\ "fault" \in env
           /\ tasks' = tasks \/ tasks' = Append(tasks, NewTask(p, s))
           /\ plans' = [plans EXCEPT ![p].steps[s].status = "blocked"]
  <2> DEFINE step == [old EXCEPT !.status = "blocked"]
  <2>1. plans' = [plans EXCEPT ![p].steps[s] = step]
    BY <1>9
  <2> HIDE DEF old
  <2>2. step.task = NoTask /\ step.status = "blocked"
    BY <1>5 DEF StepRecord
  <2> HIDE DEF step
  <2>3. /\ DOMAIN plans' = PlanIds /\ plans'[p].steps[s] = step
        /\ \A q \in PlanIds :
             /\ plans'[q].shape = plans[q].shape
             /\ plans'[q].resolved = plans[q].resolved
             /\ DOMAIN plans'[q].steps = Steps(q)
             /\ \A r \in Steps(q) :
                  q # p \/ r # s => plans'[q].steps[r] = plans[q].steps[r]
    BY <1>6, <2>1
  <2> QED BY <1>1, <1>4, <1>5, <1>9, <2>2, <2>3 DEF p, s
<1> QED BY <1>3, <1>7, <1>8, <1>9

(* What is known of a step stays so when another one is posted, or when it *)
(* has no task.                                                            *)
LEMMA OwnedAfterPost ==
  ASSUME IInv, NEW p, NEW s, NEW us,
         us = tasks \/ us = Append(tasks, NewTask(p, s)),
         NEW q, NEW r, NEW step, OwnTask(tasks, q, r, step),
         step.task # NoTask => step.task \in DOMAIN tasks,
         q # p \/ r # s \/ step.task = NoTask
  PROVE  OwnTask(us, q, r, step)
<1>1. CASE us = tasks
  BY <1>1
<1>2. CASE us = Append(tasks, NewTask(p, s))
  <2>1. tasks \in Seq(TaskRecord) /\ DOMAIN tasks = 1 .. Len(tasks) /\ Len(tasks) \in Nat
    BY Types, LenProperties
  <2>2. /\ DOMAIN us = DOMAIN tasks \cup {Len(tasks) + 1}
        /\ us[Len(tasks) + 1] = NewTask(p, s)
        /\ \A t \in DOMAIN tasks : us[t] = tasks[t]
    BY <1>2, <2>1
  <2>3. q # p \/ r # s => StepTasks(us, q, r) \subseteq StepTasks(tasks, q, r)
    BY <2>2 DEF StepTasks, NewTask
  <2> QED BY <2>2, <2>3 DEF OwnTask
<1> QED BY <1>1, <1>2

(* The tasks of what is queued, where their steps keep their tasks.        *)
LEMMA LedAfterPost ==
  ASSUME IInv, NEW p \in PlanIds, NEW s \in Steps(p), NEW us,
         us = tasks \/ us = Append(tasks, NewTask(p, s)),
         NEW file, AllLed(file, tasks), Led(file, p, s)
  PROVE  AllLed(file, us)
<1>1. CASE us = tasks
  BY <1>1
<1>2. CASE us = Append(tasks, NewTask(p, s))
  <2>1. tasks \in Seq(TaskRecord) /\ DOMAIN tasks = 1 .. Len(tasks) /\ Len(tasks) \in Nat
    BY Types, LenProperties
  <2>2. /\ DOMAIN us = DOMAIN tasks \cup {Len(tasks) + 1}
        /\ us[Len(tasks) + 1] = NewTask(p, s)
        /\ \A t \in DOMAIN tasks : us[t] = tasks[t]
    BY <1>2, <2>1
  <2> QED BY <2>2 DEF AllLed, NewTask
<1> QED BY <1>1, <1>2

(* A step that is posted has all tasks before it, in memory and on file.   *)
LEMMA PostTraced ==
  ASSUME IInv, Kept, TraceInv, NEW th \in Threads, Post(th)
  PROVE  TraceInv'
<1> DEFINE p == todo[th][1].plan
           s == Least(todo[th][1].steps)
           new == plans'[p].steps[s]
<1>1. /\ p \in PlanIds /\ s \in Steps(p) /\ Postable(plans, p, s)
      /\ saved' = saved /\ env' = env /\ DOMAIN plans' = PlanIds
      /\ \A q \in PlanIds :
           /\ plans'[q].shape = plans[q].shape /\ DOMAIN plans'[q].steps = Steps(q)
           /\ \A r \in Steps(q) :
                q # p \/ r # s => plans'[q].steps[r] = plans[q].steps[r]
      /\ tasks' = tasks \/ tasks' = Append(tasks, NewTask(p, s))
      /\ \/ tasks' = tasks /\ new = plans[p].steps[s]
         \/ /\ tasks' = Append(tasks, NewTask(p, s))
            /\ new.task = Len(tasks) + 1 /\ new.status = "active"
         \/ "fault" \in env /\ new.task = NoTask /\ new.status = "blocked"
  BY PostWrites
<1> HIDE DEF p, s, new
<1>2. plans[p].steps[s].task = NoTask /\ plans[p].steps[s].status = "planned"
  BY <1>1 DEF Postable
<1>3. Traced(plans, tasks, plans) /\ FileFits(plans, tasks, plans)
  BY Types DEF TraceInv
<1>4. ASSUME NEW q \in PlanIds, NEW r \in Steps(q), Led(plans, q, r)
      PROVE  Led(plans', q, r)
  <2>1. \A d \in Shape[plans[q].shape].needs[r] : d \in Steps(q)
    BY PlanFacts, Shapes
  <2>2. ASSUME NEW d \in Steps(q), plans[q].steps[d].task # NoTask
        PROVE  plans'[q].steps[d].task # NoTask
    BY <1>1, <1>2, <2>2
  <2> QED BY <1>1, <1>4, <2>1, <2>2 DEF Led
<1>5. Led(plans, p, s)
  BY <1>1, <1>2, <1>3 DEF Traced, PlannedLed, PlanIds, Steps
<1>6. Owned(plans', tasks')
  <2> SUFFICES ASSUME NEW q \in PlanIds, NEW r \in Steps(q)
               PROVE  OwnTask(tasks', q, r, plans'[q].steps[r])
    BY <1>1 DEF Owned
  <2>1. /\ OwnTask(tasks, q, r, plans[q].steps[r])
        /\ plans[q].steps[r].task # NoTask => plans[q].steps[r].task \in DOMAIN tasks
    BY <1>3, FileTasks DEF Traced, Owned, PlanIds, Steps
  <2>2. CASE q # p \/ r # s
    <3>1. plans'[q].steps[r] = plans[q].steps[r]
      BY <1>1, <2>2
    <3> QED BY <1>1, <2>1, <2>2, <3>1, OwnedAfterPost
  <2>3. CASE q = p /\ r = s
    <3>1. CASE tasks' = tasks /\ new = plans[p].steps[s]
      BY <2>1, <2>3, <3>1 DEF new
    <3>2. CASE /\ tasks' = Append(tasks, NewTask(p, s))
               /\ new.task = Len(tasks) + 1 /\ new.status = "active"
      <4>1. tasks \in Seq(TaskRecord) /\ DOMAIN tasks = 1 .. Len(tasks)
              /\ Len(tasks) \in Nat
        BY Types, LenProperties
      <4>2. DOMAIN tasks' = 1 .. Len(tasks) + 1
        BY <3>2, <4>1
      <4>3. \A t \in DOMAIN tasks' : t <= Len(tasks) + 1
        BY <4>1, <4>2
      <4> QED BY <2>3, <3>2, <4>3 DEF OwnTask, StepTasks, new
    <3>3. CASE new.task = NoTask /\ new.status = "blocked"
      BY <2>3, <3>3 DEF OwnTask, new
    <3> QED BY <1>1, <3>1, <3>2, <3>3
  <2> QED BY <2>2, <2>3
<1>7. AllLed(plans', tasks')
  <2>1. AllLed(plans', tasks)
    <3> SUFFICES ASSUME NEW t \in DOMAIN tasks
                 PROVE  Led(plans', tasks[t].plan, tasks[t].step)
      BY DEF AllLed
    <3>1. tasks[t].plan \in PlanIds /\ tasks[t].step \in Steps(tasks[t].plan)
      BY TaskFacts DEF TaskIds
    <3>2. Led(plans, tasks[t].plan, tasks[t].step)
      BY <1>3 DEF Traced, AllLed
    <3> QED BY <1>4, <3>1, <3>2
  <2> QED BY <1>1, <1>4, <1>5, <2>1, LedAfterPost
<1>8. ASSUME NEW q \in PlanIds, NEW r \in Steps(q), plans'[q].steps[r].status = "planned"
      PROVE  plans[q].steps[r].status = "planned"
  BY <1>1, <1>2, <1>8 DEF new
<1>9. PlannedLed(plans', plans')
  <2> SUFFICES ASSUME NEW q \in PlanIds, NEW r \in Steps(q),
                      plans'[q].steps[r].status = "planned"
               PROVE  Led(plans', q, r)
    BY <1>1 DEF PlannedLed
  <2>1. Led(plans, q, r)
    BY <1>3, <1>8 DEF Traced, PlannedLed, PlanIds, Steps
  <2> QED BY <1>4, <2>1
<1>10. ASSUME "crash" \in env PROVE Traced(saved, tasks', plans')
  <2>1. Traced(saved, tasks, plans) /\ FileFits(saved, tasks, plans)
          /\ SameShapes(saved, plans)
    BY <1>10 DEF TraceInv, IInv, FileInv
  <2>2. "fault" \notin env
    BY <1>10, Types, NotBoth
  <2>3. Led(saved, p, s) /\ saved[p].steps[s].task = NoTask
    BY <1>1, <1>2, <2>1 DEF Traced, PlannedLed, Lags, PlanIds, Steps
  <2>4. Owned(saved, tasks')
    <3> SUFFICES ASSUME NEW q \in DOMAIN saved, NEW r \in DOMAIN saved[q].steps
                 PROVE  OwnTask(tasks', q, r, saved[q].steps[r])
      BY DEF Owned
    <3>1. /\ OwnTask(tasks, q, r, saved[q].steps[r])
          /\ saved[q].steps[r].task # NoTask => saved[q].steps[r].task \in DOMAIN tasks
      BY <2>1, FileTasks DEF Traced, Owned
    <3>2. q # p \/ r # s \/ saved[q].steps[r].task = NoTask
      BY <2>3
    <3> QED BY <1>1, <3>1, <3>2, OwnedAfterPost
  <2>5. AllLed(saved, tasks')
    BY <1>1, <2>1, <2>3, LedAfterPost DEF Traced
  <2>6. Lags(saved, plans')
    <3> SUFFICES ASSUME NEW q \in PlanIds, NEW r \in Steps(q),
                        plans'[q].steps[r].task = NoTask
                 PROVE  saved[q].steps[r].task = NoTask
      BY <1>1 DEF Lags
    <3>1. plans[q].steps[r].task = NoTask
      BY <1>1, <1>2
    <3> QED BY <2>1, <3>1 DEF Traced, Lags, PlanIds, Steps
  <2>7. PlannedLed(saved, plans')
    BY <1>1, <1>8, <2>1 DEF Traced, PlannedLed, PlanIds, Steps
  <2> QED BY <2>1, <2>4, <2>5, <2>6, <2>7 DEF Traced
<1> QED BY <1>1, <1>6, <1>7, <1>9, <1>10 DEF Traced, Lags, TraceInv
---------------------------------------------------------------------------
(* Remediations that are noted.                                            *)

(* Only remediations are noted in a recovery.                              *)
Noted(list, f) ==
  \A k \in 1 .. Len(list) : list[k].do = "progress" =>
    list[k].plan \in DOMAIN f /\ f[list[k].plan].shape = Remediation
NotesInv == \A th \in Threads : Noted(todo[th], plans)

(* Parts of a call that note nothing.                                      *)
Noteless(list) ==
  list \in Seq(Instruction) /\ \A k \in 1 .. Len(list) : list[k].do # "progress"

(* Two of them, one after the other.                                       *)
LEMMA NotelessConcat ==
  ASSUME NEW a, NEW b, Noteless(a), Noteless(b)
  PROVE  Noteless(a \o b)
<1>1. /\ a \in Seq(Instruction) /\ Len(a) \in Nat /\ b \in Seq(Instruction)
      /\ Len(b) \in Nat
  BY LenProperties DEF Noteless
<1> DEFINE c == a \o b
<1>2. /\ c \in Seq(Instruction) /\ Len(c) = Len(a) + Len(b)
      /\ \A i \in 1 .. Len(a) + Len(b) : c[i] = IF i <= Len(a) THEN a[i] ELSE b[i - Len(a)]
  BY <1>1, ConcatProperties
<1> HIDE DEF c
<1>3. ASSUME NEW k \in 1 .. Len(c) PROVE c[k].do # "progress"
  <2>1. CASE k <= Len(a)
    <3>1. k \in 1 .. Len(a) /\ c[k] = a[k]
      BY <1>1, <1>2, <2>1
    <3> QED BY <3>1 DEF Noteless
  <2>2. CASE ~ (k <= Len(a))
    <3>1. k - Len(a) \in 1 .. Len(b) /\ c[k] = b[k - Len(a)]
      BY <1>1, <1>2, <2>2
    <3> QED BY <3>1 DEF Noteless
  <2> QED BY <2>1, <2>2
<1> QED BY <1>2, <1>3 DEF Noteless, c

(* A sync, execute_ready_steps and advance_recovery_workflow note nothing. *)
LEMMA NotelessCalls ==
  ASSUME NEW p \in Nat
  PROVE  Noteless(Sync) /\ Noteless(Execute(p)) /\ Noteless(Advance(p))
           /\ Noteless(<< >>)
<1>1. Noteless(Sync)
  <2>1. Sync \in Seq(Instruction) /\ Len(Sync) = 2
    BY DEF Sync, Do, Instruction, NoPlan
  <2>2. Sync[1].do = "read" /\ Sync[2].do = "apply"
    BY DEF Sync, Do
  <2>3. \A k \in 1 .. 2 : k = 1 \/ k = 2
    OBVIOUS
  <2> QED BY <2>1, <2>2, <2>3 DEF Noteless
<1>2. Noteless(<<Do("titles", NoPlan), Do("queue", p), Do("save", NoPlan),
                 Do("unlock", NoPlan)>>)
  <2> DEFINE mid == <<Do("titles", NoPlan), Do("queue", p), Do("save", NoPlan),
                      Do("unlock", NoPlan)>>
  <2>1. mid \in Seq(Instruction) /\ Len(mid) = 4
    BY DEF Do, Instruction, NoPlan
  <2>2. mid[1].do = "titles" /\ mid[2].do = "queue" /\ mid[3].do = "save"
          /\ mid[4].do = "unlock"
    BY DEF Do
  <2> HIDE DEF mid
  <2>3. \A k \in 1 .. 4 : k = 1 \/ k = 2 \/ k = 3 \/ k = 4
    OBVIOUS
  <2>4. Noteless(mid)
    BY <2>1, <2>2, <2>3 DEF Noteless
  <2> QED BY <2>4 DEF mid
<1>3. Noteless(<<Do("compensate", p), Do("activate", p)>>)
  <2> DEFINE two == <<Do("compensate", p), Do("activate", p)>>
  <2>1. two \in Seq(Instruction) /\ Len(two) = 2
    BY DEF Do, Instruction, NoPlan
  <2>2. two[1].do = "compensate" /\ two[2].do = "activate"
    BY DEF Do
  <2> HIDE DEF two
  <2>3. \A k \in 1 .. 2 : k = 1 \/ k = 2
    OBVIOUS
  <2>4. Noteless(two)
    BY <2>1, <2>2, <2>3 DEF Noteless
  <2> QED BY <2>4 DEF two
<1>4. Noteless(Execute(p))
  <2> DEFINE mid == <<Do("titles", NoPlan), Do("queue", p), Do("save", NoPlan),
                      Do("unlock", NoPlan)>>
  <2>1. Execute(p) = (Sync \o mid) \o Sync
    BY DEF Execute
  <2>2. Noteless(mid)
    BY <1>2
  <2> HIDE DEF mid
  <2>3. Noteless(Sync \o mid)
    BY <1>1, <2>2, NotelessConcat
  <2> QED BY <1>1, <2>1, <2>3, NotelessConcat
<1>5. Noteless(Advance(p))
  BY <1>1, <1>3, NotelessConcat DEF Advance
<1>6. Noteless(<< >>)
  BY DEF Noteless
<1> QED BY <1>1, <1>4, <1>5, <1>6

(* What is left of a call notes what the call did.                         *)
LEMMA NotedTail ==
  ASSUME NEW list \in Seq(Instruction), list # << >>, NEW f, Noted(list, f)
  PROVE  Tail(list) \in Seq(Instruction) /\ Noted(Tail(list), f)
<1>1. Len(list) \in Nat /\ Len(list) >= 1
  BY LenProperties, EmptySeq
<1>2. /\ Tail(list) \in Seq(Instruction) /\ Len(Tail(list)) = Len(list) - 1
      /\ \A i \in 1 .. Len(Tail(list)) : Tail(list)[i] = list[i + 1]
  BY <1>1, HeadTailProperties
<1>3. \A k \in 1 .. Len(Tail(list)) : k + 1 \in 1 .. Len(list)
  BY <1>1, <1>2
<1> QED BY <1>2, <1>3 DEF Noted

(* So does a list before which others are put that note nothing.           *)
LEMMA NotedConcat ==
  ASSUME NEW a, NEW b \in Seq(Instruction), NEW f, Noteless(a), Noted(b, f)
  PROVE  Noted(a \o b, f)
<1>1. a \in Seq(Instruction) /\ Len(a) \in Nat /\ Len(b) \in Nat
  BY LenProperties DEF Noteless
<1> DEFINE c == a \o b
<1>2. /\ Len(c) = Len(a) + Len(b)
      /\ \A i \in 1 .. Len(a) + Len(b) : c[i] = IF i <= Len(a) THEN a[i] ELSE b[i - Len(a)]
  BY <1>1, ConcatProperties
<1> HIDE DEF c
<1>3. ASSUME NEW k \in 1 .. Len(c), c[k].do = "progress"
      PROVE  c[k].plan \in DOMAIN f /\ f[c[k].plan].shape = Remediation
  <2>1. CASE k <= Len(a)
    <3>1. k \in 1 .. Len(a) /\ c[k] = a[k]
      BY <1>1, <1>2, <2>1
    <3> QED BY <1>3, <3>1 DEF Noteless
  <2>2. CASE ~ (k <= Len(a))
    <3>1. k - Len(a) \in 1 .. Len(b) /\ c[k] = b[k - Len(a)]
      BY <1>1, <1>2, <2>2
    <3> QED BY <1>3, <3>1 DEF Noted
  <2> QED BY <2>1, <2>2
<1> QED BY <1>3 DEF Noted, c

(* A step of a thread that puts nothing to note before what is left.       *)
LEMMA NotesMove ==
  ASSUME IInv, Kept, NotesInv, NEW th \in Threads, NEW a, Noteless(a), NEW list,
         \/ list = a
         \/ ~Idle(th) /\ (list = a \o Tail(todo[th]) \/ list = Tail(todo[th])),
         todo' = [todo EXCEPT ![th] = list]
  PROVE  NotesInv'
<1>1. todo \in [Threads -> Seq(Instruction)]
  BY Types
<1>2. Noted(list, plans)
  <2>1. CASE list = a
    BY <2>1 DEF Noteless, Noted
  <2>2. CASE ~Idle(th) /\ (list = a \o Tail(todo[th]) \/ list = Tail(todo[th]))
    <3>1. Tail(todo[th]) \in Seq(Instruction) /\ Noted(Tail(todo[th]), plans)
      BY <1>1, <2>2, NotedTail DEF NotesInv, Idle
    <3> QED BY <2>2, <3>1, NotedConcat
  <2> QED BY <2>1, <2>2
<1>3. \A l : Noted(l, plans) => Noted(l, plans')
  BY DEF Kept, GrowPlans, Noted
<1>4. \A u \in Threads : todo'[u] = IF u = th THEN list ELSE todo[u]
  BY <1>1
<1>5. \A u \in Threads : Noted(todo'[u], plans)
  BY <1>2, <1>4 DEF NotesInv
<1> QED BY <1>3, <1>5 DEF NotesInv

(* The same for a call that may be dropped by a save that raises.          *)
LEMMA NotesSave ==
  ASSUME IInv, Kept, NotesInv, NEW th \in Threads, NEW a, Noteless(a), NEW list,
         \/ list = a
         \/ ~Idle(th) /\ (list = a \o Tail(todo[th]) \/ list = Tail(todo[th])),
         SaveAnd(th, list)
  PROVE  NotesInv'
<1>1. todo' = [todo EXCEPT ![th] = list] \/ todo' = [todo EXCEPT ![th] = << >>]
  BY DEF SaveAnd
<1>2. Noteless(<< >>)
  BY DEF Noteless
<1> QED BY <1>1, <1>2, NotesMove

(* Every step leaves what is to be noted a remediation.                    *)
LEMMA NotesStay ==
  ASSUME IInv, NotesInv, [Next]_vars
  PROVE  NotesInv'
<1>1. Kept
  BY Inductive
<1>2. Server \in Threads /\ Loop \in Threads /\ PlanIds \in SUBSET Nat
  BY PlanFacts DEF Threads
<1>3. \A p \in PlanIds \cup {NoPlan} :
        Noteless(Sync) /\ Noteless(Execute(p)) /\ Noteless(Advance(p)) /\ Noteless(<< >>)
  BY <1>2, NotelessCalls DEF NoPlan
<1>4. Noteless(Sync) /\ Noteless(<< >>)
  BY <1>3
<1>5. ASSUME NEW th \in Threads, ~Idle(th), Continue(th) PROVE NotesInv'
  BY <1>1, <1>4, <1>5, NotesMove DEF Continue
<1>6. ASSUME NEW th \in Threads, Step(th) PROVE NotesInv'
  <2>1. CASE Read(th) \/ ReadTitles(th) \/ Unlock(th)
    BY <1>5, <2>1 DEF Read, ReadTitles, Unlock, At
  <2>2. CASE Apply(th)
    <3>1. ~Idle(th) /\ (SaveAnd(th, Tail(todo[th])) \/ Continue(th))
      BY <2>2 DEF Apply, At
    <3> QED BY <1>1, <1>4, <1>5, <3>1, NotesSave
  <2>3. CASE Save(th)
    <3>1. ~Idle(th) /\ SaveAnd(th, Tail(todo[th]))
      BY <2>3 DEF Save, At
    <3> QED BY <1>1, <1>4, <3>1, NotesSave
  <2>4. CASE Compensate(th)
    <3>1. ~Idle(th) /\ (SaveAnd(th, Sync \o Tail(todo[th])) \/ Continue(th))
      BY <2>4 DEF Compensate, At
    <3> QED BY <1>1, <1>4, <1>5, <3>1, NotesSave
  <2>5. CASE Queue(th)
    <3> DEFINE p == Head(todo[th]).plan
               all == [i \in PlanIds |-> Do("queue", Len(plans) + 1 - i)]
    <3>1. ~Idle(th) /\ p \in PlanIds \cup {NoPlan}
      BY <2>5, Rest DEF Queue, At, Proper
    <3>2. \/ p = NoPlan /\ ContinueWith(th, all)
          \/ Continue(th)
          \/ \E mode \in Modes :
               /\ p # NoPlan
               /\ ContinueWith(th, <<[Do("post", p) EXCEPT !.steps = Chosen(p, mode)]>>)
      BY <2>5 DEF Queue
    <3>3. CASE p = NoPlan /\ ContinueWith(th, all)
      <4>1. \A i \in PlanIds : Len(plans) + 1 - i \in PlanIds
        BY PlanFacts
      <4>2. all \in [1 .. Len(plans) -> Instruction]
        BY <4>1, PlanFacts DEF Do, Instruction, NoPlan
      <4>3. \A i \in PlanIds : all[i].do # "progress"
        BY DEF Do
      <4>4. todo' = [todo EXCEPT ![th] = all \o Tail(todo[th])]
        BY <3>3 DEF ContinueWith
      <4> HIDE DEF all
      <4>5. all \in Seq(Instruction) /\ Len(all) = Len(plans)
        BY <4>2, PlanFacts, MakeSeq
      <4>6. Noteless(all)
        BY <4>3, <4>5, PlanFacts DEF Noteless
      <4> QED BY <1>1, <3>1, <4>4, <4>6, NotesMove
    <3>4. ASSUME NEW mode \in Modes, p # NoPlan,
                 ContinueWith(th, <<[Do("post", p) EXCEPT !.steps = Chosen(p, mode)]>>)
          PROVE  NotesInv'
      <4> DEFINE post == [Do("post", p) EXCEPT !.steps = Chosen(p, mode)]
                 one == <<post>>
      <4>1. Chosen(p, mode) \in SUBSET Nat /\ p \in Nat
        BY <3>1, <3>4, PlanFacts DEF Chosen, Unqueued
      <4>2. post \in Instruction /\ post.do = "post"
        BY <4>1 DEF Do, Instruction, NoPlan
      <4>3. todo' = [todo EXCEPT ![th] = one \o Tail(todo[th])]
        BY <3>4 DEF ContinueWith
      <4> HIDE DEF post, p
      <4>4. one \in Seq(Instruction) /\ Len(one) = 1 /\ one[1] = post
        BY <4>2
      <4> HIDE DEF one
      <4>5. \A k \in 1 .. 1 : k = 1
        OBVIOUS
      <4>6. Noteless(one)
        BY <4>2, <4>4, <4>5 DEF Noteless
      <4> QED BY <1>1, <3>1, <4>3, <4>6, NotesMove
    <3> HIDE DEF p, all
    <3> QED BY <1>5, <3>1, <3>2, <3>3, <3>4
  <2>6. CASE Post(th)
    <3> DEFINE i == Head(todo[th])
               s == Least(i.steps)
               next == [i EXCEPT !.steps = @ \ {s}]
               one == <<next>>
    <3>1. ~Idle(th) /\ i.do = "post" /\ i \in Instruction
      BY <2>6, Rest DEF Post, At
    <3>2. \/ todo' = [todo EXCEPT ![th] = Tail(todo[th])]
          \/ todo' = [todo EXCEPT ![th] = one \o Tail(todo[th])]
      BY <2>6 DEF Post
    <3>3. next \in Instruction /\ next.do = "post"
      <4> HIDE DEF i, s
      <4> QED BY <3>1 DEF Instruction
    <3> HIDE DEF next
    <3>4. one \in Seq(Instruction) /\ Len(one) = 1 /\ one[1] = next
      BY <3>3
    <3> HIDE DEF one
    <3>5. \A k \in 1 .. 1 : k = 1
      OBVIOUS
    <3>6. Noteless(one)
      BY <3>3, <3>4, <3>5 DEF Noteless
    <3> QED BY <1>1, <1>4, <3>1, <3>2, <3>6, NotesMove
  <2>7. CASE Activate(th)
    <3> DEFINE p == Head(todo[th]).plan
               c == Target(Remediation)
    <3>1. ~Idle(th) /\ p \in PlanIds
      BY <2>7, Rest DEF Activate, At, Proper
    <3>2. \/ \E d \in OpenChildren(p) : ContinueWith(th, Execute(d))
          \/ ContinueWith(th, Execute(p))
          \/ SaveAnd(th, Execute(c) \o Tail(todo[th]))
      BY <2>7 DEF Activate
    <3>3. OpenChildren(p) \subseteq PlanIds
      BY DEF OpenChildren, Children
    <3>4. c \in Nat
      <4>1. Remediation \in Names
        BY PlannerAssumption
      <4>2. LET g == NewFile(Remediation, p) IN DOMAIN g \in SUBSET Nat /\ c \in DOMAIN g
        BY <3>1, <4>1, CreatedFits
      <4> QED BY <4>2
    <3> HIDE DEF p, c
    <3>5. Noteless(Execute(c))
      BY <3>4, NotelessCalls
    <3>6. ASSUME NEW d \in PlanIds, ContinueWith(th, Execute(d)) PROVE NotesInv'
      BY <1>1, <1>3, <3>1, <3>6, NotesMove DEF ContinueWith
    <3>7. ASSUME SaveAnd(th, Execute(c) \o Tail(todo[th])) PROVE NotesInv'
      BY <1>1, <3>1, <3>5, <3>7, NotesSave
    <3> QED BY <3>1, <3>2, <3>3, <3>6, <3>7
  <2>8. CASE Progress(th)
    <3> DEFINE p == Head(todo[th]).parent
    <3>1. ~Idle(th) /\ p \in PlanIds
      BY <2>8, Rest DEF Progress, At, Proper
    <3>2. \/ SaveAnd(th, Tail(todo[th])) \/ Continue(th)
          \/ SaveAnd(th, Advance(p) \o Tail(todo[th]))
      <4> DEFINE status == PlanStatus(Head(todo[th]).plan)
      <4>1. CASE status = "completed"
        BY <2>8, <4>1 DEF Progress
      <4>2. CASE status = "failed"
        BY <2>8, <4>2 DEF Progress
      <4>3. CASE status # "completed" /\ status # "failed"
        BY <2>8, <4>3 DEF Progress
      <4> QED BY <4>1, <4>2, <4>3
    <3> HIDE DEF p
    <3> QED BY <1>1, <1>3, <1>4, <1>5, <3>1, <3>2, NotesSave
  <2> QED BY <1>6, <2>1, <2>2, <2>3, <2>4, <2>5, <2>6, <2>7, <2>8 DEF Step
<1>7. ASSUME NEW th \in Threads, NEW list, Noteless(list),
             todo' = [todo EXCEPT ![th] = list]
      PROVE  NotesInv'
  BY <1>1, <1>7, NotesMove
<1>8. ASSUME NEW th \in Threads, NEW name \in Names, Submit(th, name) PROVE NotesInv'
  <2> DEFINE p == Target(name)
             call == IF th = Server /\ Shape[name].kind = "recovery"
                     THEN Advance(p) ELSE Execute(p)
  <2>1. SaveAnd(th, call) /\ name # Remediation
    BY <1>8, PlannerAssumption DEF Submit
  <2>2. p \in Nat
    <3>1. LET g == NewFile(name, NoPlan) IN DOMAIN g \in SUBSET Nat /\ p \in DOMAIN g
      BY <2>1, CreatedFits
    <3> QED BY <3>1
  <2> HIDE DEF p
  <2>3. Noteless(call)
    BY <2>2, NotelessCalls
  <2> HIDE DEF call
  <2> QED BY <1>1, <2>1, <2>3, NotesSave
<1>9. ASSUME NEW t \in TaskIds, NEW success \in BOOLEAN, Report(t, success)
      PROVE  NotesInv'
  <2> DEFINE p == tasks[t].plan
             note == [Do("progress", p) EXCEPT !.parent = tasks[t].parent]
             one == <<note>>
             list == AfterReport(tasks[t])
  <2>1. p \in PlanIds /\ tasks[t] \in TaskRecord
    BY TaskFacts
  <2>2. todo' = [todo EXCEPT ![Server] = list]
    BY <1>9 DEF Report
  <2>3. \/ list = Advance(p) \/ list = Execute(p)
        \/ Kind(p) = "remediation" /\ list = Execute(p) \o one
    BY DEF AfterReport
  <2>4. note \in Instruction /\ note.plan = p
    <3>1. p \in Nat /\ tasks[t].parent \in Nat
      BY <1>2, <2>1 DEF TaskRecord
    <3> HIDE DEF p
    <3> QED BY <3>1 DEF Do, Instruction
  <2> HIDE DEF note, list, p
  <2>5. one \in Seq(Instruction) /\ Len(one) = 1 /\ one[1] = note
    BY <2>4
  <2> HIDE DEF one
  <2>6. ASSUME Kind(p) = "remediation" PROVE Noted(one, plans)
    <3>1. plans[p].shape = Remediation /\ p \in DOMAIN plans
      BY <2>1, <2>6, PlanFacts, PlannerAssumption DEF Kind, PlanIds
    <3>2. \A k \in 1 .. 1 : k = 1
      OBVIOUS
    <3> QED BY <2>4, <2>5, <3>1, <3>2 DEF Noted
  <2>7. Noted(list, plans)
    <3>1. \A l : Noteless(l) => Noted(l, plans)
      BY DEF Noteless, Noted
    <3> QED BY <1>3, <2>1, <2>3, <2>5, <2>6, <3>1, NotedConcat
  <2>8. \A l : Noted(l, plans) => Noted(l, plans')
    BY <1>1 DEF Kept, GrowPlans, Noted
  <2>9. \A u \in Threads : todo'[u] = IF u = Server THEN list ELSE todo[u]
    BY <2>2, Types
  <2>10. \A u \in Threads : Noted(todo'[u], plans)
    BY <2>7, <2>9 DEF NotesInv
  <2> QED BY <2>8, <2>10 DEF NotesInv
<1>10. ASSUME NEW t \in TaskIds, CompensateByHand(t) PROVE NotesInv'
  BY <1>10 DEF CompensateByHand, NotesInv
<1>11. CASE Crash
  BY <1>11 DEF Crash, NotesInv, Noted
<1>12. CASE UNCHANGED vars
  BY <1>12 DEF vars, NotesInv
<1>13. ASSUME Learn PROVE NotesInv'
  BY <1>2, <1>4, <1>7, <1>13 DEF Learn
<1>14. CASE Request("status", Sync)
  BY <1>2, <1>4, <1>7, <1>14 DEF Request
<1>15. CASE \E p \in PlanIds \cup {NoPlan} : Request("run", Execute(p))
  BY <1>2, <1>3, <1>7, <1>15 DEF Request
<1>16. CASE \E p \in Recoveries : Request("advance", Advance(p))
  <2>1. Recoveries \subseteq PlanIds
    BY DEF Recoveries
  <2> QED BY <1>2, <1>3, <1>7, <1>16, <2>1 DEF Request
<1> QED BY <1>6, <1>8, <1>9, <1>10, <1>11, <1>12, <1>13, <1>14, <1>15, <1>16 DEF Next
---------------------------------------------------------------------------
(* The invariant of pauses.                                                *)

(* Plans as they were, taken over or made.                                 *)
LEMMA MildMoves ==
  ASSUME IInv
  PROVE  /\ plans' = plans => Mild
         /\ \A name \in Names : \A parent : Create(name, parent) => Mild
<1>1. ASSUME plans' = plans PROVE Mild
  BY <1>1 DEF Mild, MildStep, PlanIds
<1>2. ASSUME NEW name \in Names, NEW parent, Create(name, parent) PROVE Mild
  <2>1. plans \in Seq(PlanRecord) /\ PlanIds = DOMAIN plans
          /\ PlanIds = 1 .. Len(plans) /\ Len(plans) \in Nat
    BY PlanFacts, Types DEF WellShaped, PlanIds
  <2>2. CASE OpenWith(name) # {}
    <3>1. plans' = [plans EXCEPT ![Target(name)].parent = parent]
      BY <1>2, <2>2 DEF Create
    <3>2. DOMAIN plans' = PlanIds
      BY <2>1, <3>1
    <3>3. ASSUME NEW p \in PlanIds
          PROVE  /\ plans'[p].steps = plans[p].steps /\ plans'[p].shape = plans[p].shape
                 /\ plans'[p].resolved = plans[p].resolved
      <4>1. plans[p] \in PlanRecord
        BY PlanFacts
      <4>2. plans'[p] = plans[p] \/ plans'[p] = [plans[p] EXCEPT !.parent = parent]
        BY <2>1, <3>1
      <4> QED BY <4>1, <4>2 DEF PlanRecord
    <3> QED BY <3>2, <3>3 DEF Mild, MildStep
  <2>3. CASE OpenWith(name) = {}
    <3>1. plans' = Append(plans, NewPlan(name, parent))
      BY <1>2, <2>3 DEF Create
    <3>2. /\ DOMAIN plans' = PlanIds \cup {Len(plans) + 1}
          /\ \A p \in PlanIds : plans'[p] = plans[p]
          /\ plans'[Len(plans) + 1] = NewPlan(name, parent)
          /\ Len(plans) + 1 \notin PlanIds
      BY <2>1, <3>1
    <3> QED BY <3>2 DEF Mild, MildStep
  <2> QED BY <2>2, <2>3
<1> QED BY <1>1, <1>2

(* What all steps do that neither apply a copy, post nor kill.             *)
Steady ==
  Mild /\ NoNewTask /\ env' = env /\ (saved' = saved \/ saved' = plans')

(* Each of them, in turn.                                                  *)
LEMMA SteadySteps ==
  ASSUME IInv, NotesInv, NEW th \in Threads, Step(th)
  PROVE  Steady \/ Apply(th) \/ Post(th)
<1>1. \A list : SaveAnd(th, list) => saved' = saved \/ saved' = plans'
  BY DEF SaveAnd
<1>2. CASE Read(th) \/ Save(th) \/ Unlock(th)
  <2>1. plans' = plans /\ (saved' = saved \/ saved' = plans')
    BY <1>1, <1>2 DEF Read, Save, Unlock, NoSave
  <2> QED BY <1>2, <2>1, MildMoves, PlainMoves DEF Plain, Steady
<1>3. CASE ReadTitles(th)
  <2>1. saved' = saved
    BY <1>3 DEF ReadTitles, NoSave
  <2> QED BY <1>3, <2>1, MildMoves, ReadTitlesMoves, Unchanged DEF Steady
<1>4. CASE Compensate(th)
  <2>1. plans' = plans /\ (saved' = saved \/ saved' = plans')
    BY <1>1, <1>4 DEF Compensate, NoSave
  <2> QED BY <1>4, <2>1, MildMoves, PlainCompensate DEF Plain, Steady
<1>5. CASE Activate(th)
  <2>1. saved' = saved \/ saved' = plans'
    BY <1>1, <1>5 DEF Activate, NoSave
  <2>2. plans' = plans \/ \E parent : Create(Remediation, parent)
    BY <1>5 DEF Activate
  <2>3. Remediation \in Names
    BY PlannerAssumption
  <2> QED BY <1>5, <2>1, <2>2, <2>3, MildMoves, PlainActivate DEF Plain, Steady
<1>6. CASE Progress(th)
  <2> DEFINE r == Head(todo[th]).plan
             p == Head(todo[th]).parent
             count == Cardinality(Disrupted(p))
  <2>1. ~Idle(th) /\ Head(todo[th]).do = "progress"
    BY <1>6 DEF Progress, At
  <2>2. \/ plans' = plans
        \/ PlanStatus(r) = "completed" /\ plans' = [plans EXCEPT ![p].resolved = count]
    <3>1. CASE PlanStatus(r) = "completed"
      BY <1>6, <3>1 DEF Progress
    <3>2. CASE PlanStatus(r) = "failed"
      BY <1>6, <3>2 DEF Progress
    <3>3. CASE PlanStatus(r) # "completed" /\ PlanStatus(r) # "failed"
      BY <1>6, <3>3 DEF Progress
    <3> QED BY <3>1, <3>2, <3>3
  <2>3. saved' = saved \/ saved' = plans'
    <3>1. CASE PlanStatus(r) = "completed"
      BY <1>1, <1>6, <3>1 DEF Progress
    <3>2. CASE PlanStatus(r) = "failed"
      BY <1>1, <1>6, <3>2 DEF Progress
    <3>3. CASE PlanStatus(r) # "completed" /\ PlanStatus(r) # "failed"
      BY <1>6, <3>3 DEF Progress, NoSave
    <3> QED BY <3>1, <3>2, <3>3
  <2>4. r \in PlanIds /\ plans[r].shape = Remediation
    <3>1. todo[th] # << >> /\ Head(todo[th]) = todo[th][1] /\ todo[th] \in Seq(Instruction)
      BY <2>1, Rest, Types
    <3>2. 1 \in 1 .. Len(todo[th])
      BY <3>1, LenProperties, EmptySeq
    <3> QED BY <2>1, <3>1, <3>2 DEF NotesInv, Noted, PlanIds
  <2>5. ASSUME PlanStatus(r) = "completed", plans' = [plans EXCEPT ![p].resolved = count]
        PROVE  Mild
    <3>1. FinishedBy(tasks, plans, r)
      BY <2>4, <2>5, ClosedIsOver DEF Closed
    <3>2. Mended(tasks, plans)
      BY <2>4, <3>1 DEF Mended, PlanIds
    <3> HIDE DEF p, count
    <3>3. DOMAIN plans' = PlanIds
      BY <2>5 DEF PlanIds
    <3>4. ASSUME NEW q \in PlanIds
          PROVE  plans'[q].steps = plans[q].steps /\ plans'[q].shape = plans[q].shape
      <4>1. plans[q] \in PlanRecord /\ q \in DOMAIN plans
        BY PlanFacts DEF PlanIds
      <4>2. plans'[q] = plans[q] \/ plans'[q] = [plans[q] EXCEPT !.resolved = count]
        BY <2>5, <4>1
      <4> QED BY <4>1, <4>2 DEF PlanRecord
    <3> QED BY <3>2, <3>3, <3>4 DEF Mild, MildStep
  <2>6. Mild
    <3> HIDE DEF p, r, count
    <3> QED BY <2>2, <2>5, MildMoves
  <2> QED BY <1>6, <2>3, <2>6, PlainProgress DEF Plain, Steady
<1>7. CASE Queue(th)
  <2> DEFINE p == Head(todo[th]).plan
             gone == Unqueued(p, {"planned", "blocked"})
             new == [s \in Steps(p) |->
                       IF s \in gone THEN [plans[p].steps[s] EXCEPT !.status = "blocked"]
                       ELSE plans[p].steps[s]]
  <2>1. saved' = saved /\ tasks' = tasks /\ env' = env
    BY <1>7 DEF Queue, NoSave, board
  <2>2. plans' = plans \/ (p # NoPlan /\ plans' = [plans EXCEPT ![p].steps = new])
    BY <1>7 DEF Queue
  <2>3. p \in PlanIds \cup {NoPlan}
    BY <1>7, Rest DEF Queue, At, Proper
  <2>4. ASSUME p # NoPlan, plans' = [plans EXCEPT ![p].steps = new] PROVE Mild
    <3>1. p \in PlanIds /\ plans[p] \in PlanRecord /\ p \in DOMAIN plans
      BY <2>3, <2>4, PlanFacts DEF PlanIds
    <3>2. ASSUME NEW s \in Steps(p) PROVE MildStep(new[s], plans[p].steps[s])
      <4>1. plans[p].steps[s] \in StepRecord
        BY <3>1, PlanFacts
      <4>2. \/ new[s] = plans[p].steps[s]
            \/ new[s] = [plans[p].steps[s] EXCEPT !.status = "blocked"]
        OBVIOUS
      <4> HIDE DEF new
      <4> QED BY <4>1, <4>2 DEF MildStep, StepRecord
    <3> HIDE DEF new, gone, p
    <3>3. DOMAIN plans' = PlanIds /\ \A q \in PlanIds \ {p} : plans'[q] = plans[q]
      BY <2>4 DEF PlanIds
    <3>4. plans'[p].steps = new /\ plans'[p].shape = plans[p].shape
            /\ plans'[p].resolved = plans[p].resolved
      BY <2>4, <3>1 DEF PlanRecord
    <3> QED BY <3>2, <3>3, <3>4 DEF Mild, MildStep
  <2> HIDE DEF new, gone, p
  <2> QED BY <2>1, <2>2, <2>4, MildMoves, Unchanged DEF Steady
<1> QED BY <1>2, <1>3, <1>4, <1>5, <1>6, <1>7 DEF Step

(* All steps.                                                              *)
LEMMA SteadyKinds ==
  ASSUME IInv, NotesInv, [Next]_vars
  PROVE  Steady \/ Crash \/ \E th \in Threads : Apply(th) \/ Post(th)
<1>1. Server \in Threads /\ Loop \in Threads
  BY DEF Threads
<1>2. ASSUME plans' = plans, saved' = saved, tasks' = tasks, env' = env PROVE Steady
  BY <1>2, MildMoves, Unchanged DEF Steady
<1>3. ASSUME NEW th \in Threads, NEW name \in Names, Submit(th, name) PROVE Steady
  <2>1. Create(name, NoPlan) /\ (saved' = saved \/ saved' = plans')
    BY <1>3 DEF Submit, SaveAnd
  <2> QED BY <1>3, <2>1, MildMoves, PlainSubmit DEF Plain, Steady
<1>4. ASSUME NEW what, NEW list, Request(what, list) PROVE Steady
  BY <1>2, <1>4 DEF Request, NoSave, board
<1>5. ASSUME Learn PROVE Steady
  BY <1>2, <1>5 DEF Learn, NoSave, board
<1>6. ASSUME NEW t \in TaskIds, NEW success \in BOOLEAN, Report(t, success) PROVE Steady
  <2>1. plans' = plans /\ saved' = saved
    BY <1>6 DEF Report
  <2> QED BY <1>6, <2>1, MildMoves, PlainReport DEF Plain, Steady
<1>7. ASSUME NEW t \in TaskIds, CompensateByHand(t) PROVE Steady
  <2>1. plans' = plans /\ saved' = saved
    BY <1>7 DEF CompensateByHand
  <2> QED BY <1>7, <2>1, MildMoves, PlainByHand DEF Plain, Steady
<1>8. CASE UNCHANGED vars
  BY <1>2, <1>8 DEF vars
<1>9. CASE \/ Request("status", Sync)
           \/ \E p \in PlanIds \cup {NoPlan} : Request("run", Execute(p))
           \/ \E p \in Recoveries : Request("advance", Advance(p))
  BY <1>4, <1>9
<1> QED BY <1>3, <1>5, <1>6, <1>7, <1>8, <1>9, SteadySteps DEF Next

(* A kill leaves what the file tells.                                      *)
LEMMA CrashTraced ==
  ASSUME IInv, TraceInv, Crash
  PROVE  TraceInv'
<1>1. plans' = saved /\ saved' = saved /\ tasks' = tasks /\ Traced(saved, tasks, plans)
  BY DEF Crash, TraceInv
<1>2. Traced(saved, tasks, saved)
  BY <1>1 DEF Traced, Lags
<1> QED BY <1>1, <1>2 DEF TraceInv

(* Every step keeps what plans and file tell.                              *)
LEMMA TraceStays ==
  ASSUME IInv, NotesInv, TraceInv, [Next]_vars
  PROVE  TraceInv'
BY Inductive, SteadyKinds, MildStays, ApplyTraced, PostTraced, CrashTraced DEF Steady

(* Disruptions count as resolved only when a remediation is done.          *)
MendedIn(file, ts, f) ==
  \A p \in DOMAIN file : file[p].resolved > 0 => Mended(ts, f)
MendInv ==
  /\ MendedIn(plans, tasks, plans)
  /\ "crash" \in env => MendedIn(saved, tasks, plans)

(* What is done stays so.                                                  *)
LEMMA MendedStays ==
  ASSUME IInv, Kept, Mended(tasks, plans)
  PROVE  Mended(tasks', plans')
<1>1. PICK c \in DOMAIN plans : plans[c].shape = Remediation /\ FinishedBy(tasks, plans, c)
  BY DEF Mended
<1>2. c \in DOMAIN plans' /\ plans'[c].shape = Remediation
  BY <1>1 DEF Kept, GrowPlans
<1>3. FinishedBy(tasks', plans', c)
  BY <1>1, FinishedStays DEF PlanIds
<1> QED BY <1>2, <1>3 DEF Mended

(* Every step keeps it.                                                    *)
LEMMA MendStays ==
  ASSUME IInv, NotesInv, MendInv, [Next]_vars
  PROVE  MendInv'
<1>1. Kept
  BY Inductive
<1>2. Mended(tasks, plans) => Mended(tasks', plans')
  BY <1>1, MendedStays
<1>3. ASSUME \A p \in DOMAIN plans' :
               \/ p \in PlanIds /\ (plans'[p].resolved = plans[p].resolved
                                      \/ Mended(tasks, plans))
               \/ plans'[p].resolved = 0,
             saved' = saved \/ saved' = plans', env' = env
      PROVE  MendInv'
  <2>1. MendedIn(plans', tasks', plans')
    BY <1>2, <1>3 DEF MendInv, MendedIn, PlanIds
  <2>2. "crash" \in env => MendedIn(saved, tasks', plans')
    BY <1>2 DEF MendInv, MendedIn
  <2> QED BY <1>3, <2>1, <2>2 DEF MendInv
<1>4. CASE Steady
  <2>1. ASSUME NEW p \in DOMAIN plans'
        PROVE  \/ p \in PlanIds /\ (plans'[p].resolved = plans[p].resolved
                                      \/ Mended(tasks, plans))
               \/ plans'[p].resolved = 0
    <3>1. \A name, parent : NewPlan(name, parent).resolved = 0
      BY DEF NewPlan
    <3> QED BY <1>4, <3>1 DEF Steady, Mild
  <2> QED BY <1>3, <1>4, <2>1 DEF Steady
<1>5. ASSUME NEW th \in Threads, Apply(th) PROVE MendInv'
  <2>1. plans' = Synced(seen[th]) /\ env' = env /\ (saved' = saved \/ saved' = plans')
    BY <1>5 DEF Apply, SaveAnd, NoSave, board
  <2>2. ASSUME NEW p \in DOMAIN plans'
        PROVE  p \in PlanIds /\ plans'[p].resolved = plans[p].resolved
    <3>1. p \in PlanIds
      BY <2>1 DEF Synced
    <3>2. plans[p] \in PlanRecord
      BY <3>1, PlanFacts
    <3>3. plans'[p] = [plans[p] EXCEPT !.steps =
                         [s \in Steps(p) |-> SyncedStep(seen[th], p, s)]]
      BY <2>1, <3>1 DEF Synced
    <3> QED BY <3>1, <3>2, <3>3 DEF PlanRecord
  <2> QED BY <1>3, <2>1, <2>2
<1>6. ASSUME NEW th \in Threads, Post(th) PROVE MendInv'
  <2>1. saved' = saved /\ env' = env /\ DOMAIN plans' = PlanIds
          /\ \A q \in PlanIds : plans'[q].resolved = plans[q].resolved
    BY <1>6, PostWrites
  <2> QED BY <1>3, <2>1
<1>7. CASE Crash
  <2>1. plans' = saved /\ saved' = saved /\ tasks' = tasks /\ "crash" \in env
    BY <1>7 DEF Crash
  <2>2. MendedIn(saved, tasks', plans')
    BY <1>2, <2>1 DEF MendInv, MendedIn
  <2> QED BY <2>1, <2>2 DEF MendInv
<1> QED BY <1>4, <1>5, <1>6, <1>7, SteadyKinds
---------------------------------------------------------------------------
(* Recoveries pause.                                                       *)

(* A step that is planned, or has a task, comes after steps with tasks.    *)
LEMMA EarlierTasked ==
  ASSUME RecoveriesInTurn, IInv, TraceInv, NEW p \in PlanIds, Kind(p) = "recovery",
         NEW s \in Steps(p),
         StepStatus(p, s) = "planned" \/ StepTasks(tasks, p, s) # {}
  PROVE  \A r \in Steps(p) : r < s => plans[p].steps[r].task # NoTask
<1> DEFINE none == {r \in Steps(p) : r < s /\ plans[p].steps[r].task = NoTask}
<1> SUFFICES ASSUME none # {} PROVE FALSE
  OBVIOUS
<1>1. /\ Steps(p) = 1 .. Len(Needs(p)) /\ Len(Needs(p)) \in Nat
      /\ plans[p].shape \in Names /\ Steps(p) = StepsOf(plans[p].shape)
      /\ Needs(p) = Shape[plans[p].shape].needs
  BY PlanFacts
<1>2. Newest(none) \in none /\ \A r \in none : r <= Newest(none)
  <2>1. none \in SUBSET (1 .. Len(Needs(p)))
    BY <1>1
  <2> HIDE DEF none
  <2> QED BY <1>1, <2>1, NewestIn
<1>3. PICK v \in none : \A r \in none : r <= v
  BY <1>2
<1> DEFINE w == v + 1
<1>4. v \in Steps(p) /\ v < s /\ plans[p].steps[v].task = NoTask
  OBVIOUS
<1>5. w \in Steps(p) \ {1} /\ w - 1 = v /\ w \notin none /\ (w < s \/ w = s)
  <2>1. v \in 1 .. Len(Needs(p)) /\ s \in 1 .. Len(Needs(p))
    BY <1>1, <1>4
  <2> HIDE DEF none
  <2>2. w \in 1 .. Len(Needs(p)) /\ w # 1 /\ w - 1 = v /\ (w < s \/ w = s) /\ ~ (w <= v)
    BY <1>1, <1>4, <2>1
  <2> QED BY <1>1, <1>3, <2>2
<1>6. v \in Needs(p)[w]
  BY <1>1, <1>5 DEF RecoveriesInTurn, Kind
<1>7. PlannedLed(plans, plans) /\ AllLed(plans, tasks)
  BY DEF TraceInv, Traced
<1>8. StepStatus(p, w) = "planned" \/ StepTasks(tasks, p, w) # {}
  <2>1. CASE w = s
    BY <2>1
  <2>2. CASE w # s
    <3>1. plans[p].steps[w].task # NoTask
      BY <1>5, <2>2
    <3>2. plans[p].steps[w].task \in StepTasks(tasks, p, w)
      BY <1>5, <3>1, FileTasks, Types DEF PlanIds, Steps
    <3> QED BY <3>2
  <2> QED BY <2>1, <2>2
<1> HIDE DEF w
<1>9. Led(plans, p, w)
  <2>1. CASE StepStatus(p, w) = "planned"
    BY <1>5, <1>7, <2>1 DEF PlannedLed, StepStatus, PlanIds, Steps
  <2>2. ASSUME NEW t \in StepTasks(tasks, p, w) PROVE Led(plans, p, w)
    BY <1>7 DEF AllLed, StepTasks
  <2> QED BY <1>8, <2>1, <2>2
<1> QED BY <1>1, <1>4, <1>6, <1>9 DEF Led

(* The disrupted replays of a plan are finitely many.                      *)
LEMMA DisruptedFinite ==
  ASSUME IInv, NEW p \in PlanIds
  PROVE  IsFiniteSet(Disrupted(p)) /\ Cardinality(Disrupted(p)) \in Nat
           /\ Shape[plans[p].shape].replay \subseteq Steps(p)
<1>1. /\ Steps(p) = 1 .. Len(Needs(p)) /\ Len(Needs(p)) \in Nat
      /\ plans[p].shape \in Names /\ Steps(p) = StepsOf(plans[p].shape)
  BY PlanFacts
<1>2. Shape[plans[p].shape].replay \subseteq Steps(p)
  BY <1>1, PlannerAssumption
<1>3. Disrupted(p) \in SUBSET Steps(p) /\ IsFiniteSet(Steps(p))
  BY <1>1, <1>2, FS_Interval DEF Disrupted
<1>4. IsFiniteSet(Disrupted(p))
  BY <1>3, FS_Subset
<1> QED BY <1>2, <1>4, FS_CardinalityType

(* A recovery is passed over once its budget is spent, unless one of its   *)
(* remediations is done.                                                   *)
LEMMA BudgetKept ==
  ASSUME IInv, MendInv, NEW p \in PlanIds, NEW budget \in Budgets(p),
         ~Blocking(p, budget)
  PROVE  Cardinality(Disrupted(p)) < Threshold \/ Mended(tasks, plans)
<1>1. budget \in Nat /\ Threshold \in Nat /\ budget <= Threshold
  <2>1. Threshold \in Nat
    BY PlannerAssumption
  <2>2. budget = Threshold \/ (Threshold > 1 /\ budget = Threshold - 1)
    BY DEF Budgets
  <2> QED BY <2>1, <2>2
<1>2. Cardinality(Disrupted(p)) \in Nat
  BY DisruptedFinite
<1>3. plans[p].resolved \in Nat
  BY PlanFacts DEF PlanRecord
<1>4. CASE ~Required(p, budget)
  <2>1. Cardinality(Disrupted(p)) - plans[p].resolved < budget
    BY <1>1, <1>2, <1>3, <1>4 DEF Required
  <2>2. CASE plans[p].resolved > 0
    BY <2>2 DEF MendInv, MendedIn, PlanIds
  <2>3. CASE ~ (plans[p].resolved > 0)
    <3>1. plans[p].resolved = 0
      BY <1>3, <2>3
    <3> QED BY <1>1, <1>2, <2>1, <3>1
  <2> QED BY <2>2, <2>3
<1>5. CASE Required(p, budget)
  <2> DEFINE c == Least(Children(p))
  <2>1. Children(p) # {} /\ OpenChildren(p) = {} /\ PlanStatus(c) # "failed"
    BY <1>5 DEF Blocking, LastChildFailed
  <2>2. c \in Children(p)
    <3>1. Children(p) \in SUBSET Nat
      BY PlanFacts DEF Children
    <3> QED BY <2>1, <3>1, LeastIn
  <2> HIDE DEF c
  <2>3. c \in PlanIds /\ Kind(c) = "remediation" /\ Closed(c)
    BY <2>1, <2>2 DEF OpenChildren, Children
  <2>4. PlanStatus(c) = "completed"
    BY <2>1, <2>3 DEF Closed, PlanStatus
  <2>5. FinishedBy(tasks, plans, c)
    BY <2>3, <2>4, ClosedIsOver
  <2>6. plans[c].shape = Remediation
    BY <2>3, PlanFacts, PlannerAssumption DEF Kind
  <2> QED BY <2>3, <2>5, <2>6 DEF Mended, PlanIds
<1> QED BY <1>4, <1>5

(* What a thread posts of a recovery: the one step whose turn it is, after *)
(* a remediation if the budget is spent.                                   *)
InTurn(p, s) == \A r \in Steps(p) : r < s => StepStatus(p, r) = "completed"
MayPost(p, steps) ==
  /\ \E s : steps = {s} /\ InTurn(p, s)
  /\ Cardinality(Disrupted(p)) < Threshold \/ Mended(tasks, plans)
PausedInv ==
  \A th \in Threads : \A p, steps :
    /\ First(todo[th], {"post"}) /\ Kind(p) = "recovery"
    /\ todo[th][1].plan = p /\ todo[th][1].steps = steps
    => MayPost(p, steps)

(* So it is when it has queued the plan.                                   *)
LEMMA ChosenInTurn ==
  ASSUME RecoveriesInTurn, IInv, TraceInv, MendInv, NEW p \in PlanIds,
         Kind(p) = "recovery", WithinBudget(p), NEW mode, Chosen(p, mode) # {}
  PROVE  MayPost(p, Chosen(p, mode))
<1>1. /\ Steps(p) = 1 .. Len(Needs(p)) /\ Len(Needs(p)) \in Nat
      /\ plans[p].shape \in Names
      /\ \A s \in Steps(p) : plans[p].steps[s] \in StepRecord
  BY PlanFacts
<1>2. Shape[plans[p].shape].parallel = 1
  BY <1>1 DEF RecoveriesInTurn, Kind
<1>3. IsFiniteSet(ActiveSteps(p)) /\ Cardinality(ActiveSteps(p)) \in Nat
  <2>1. IsFiniteSet(Steps(p)) /\ ActiveSteps(p) \in SUBSET Steps(p)
    BY <1>1, FS_Interval DEF ActiveSteps
  <2> QED BY <2>1, FS_Subset, FS_CardinalityType
<1>4. /\ IsFiniteSet(Chosen(p, mode)) /\ Cardinality(Chosen(p, mode)) \in Nat
      /\ Cardinality(ActiveSteps(p)) + Cardinality(Chosen(p, mode)) <= 1
  BY <1>2, <1>3, ChosenFits
<1>5. Cardinality(Chosen(p, mode)) # 0
  BY <1>4, FS_EmptySet
<1>6. Cardinality(Chosen(p, mode)) = 1 /\ Cardinality(ActiveSteps(p)) = 0
  BY <1>3, <1>4, <1>5
<1>7. ActiveSteps(p) = {}
  BY <1>3, <1>6, FS_EmptySet
<1>8. PICK s : Chosen(p, mode) = {s}
  BY <1>4, <1>6, FS_Singleton
<1>9. s \in Steps(p) /\ StepStatus(p, s) = "planned"
  BY <1>8 DEF Chosen, Unqueued
<1>10. ASSUME NEW r \in Steps(p), r < s PROVE StepStatus(p, r) = "completed"
  <2>1. plans[p].steps[r].task # NoTask
    BY <1>9, <1>10, EarlierTasked
  <2>2. StepStatus(p, r) \notin {"planned", "blocked"}
    BY <2>1, FileTasks, Types DEF PlanIds, Steps, StepStatus
  <2>3. StepStatus(p, r) # "failed"
    BY DEF WithinBudget, Closed, PlanStatus
  <2>4. StepStatus(p, r) # "active"
    BY <1>7 DEF ActiveSteps
  <2> QED BY <1>1, <2>2, <2>3, <2>4 DEF StepStatus, StepRecord
<1>11. \E budget \in Budgets(p) : ~Blocking(p, budget)
  BY DEF WithinBudget
<1>12. Cardinality(Disrupted(p)) < Threshold \/ Mended(tasks, plans)
  BY <1>11, BudgetKept
<1> QED BY <1>8, <1>10, <1>12 DEF MayPost, InTurn

(* It stays so until it has posted.                                        *)
LEMMA PausedStays ==
  ASSUME RecoveriesInTurn, IInv, NotesInv, TraceInv, MendInv, PausedInv, [Next]_vars
  PROVE  PausedInv'
<1>1. Kept
  BY Inductive
<1>2. Mended(tasks, plans) => Mended(tasks', plans')
  BY <1>1, MendedStays
<1>3. ASSUME NEW p, NEW steps, plans' = plans, MayPost(p, steps)
      PROVE  MayPost(p, steps)'
  <2>1. Disrupted(p)' = Disrupted(p) /\ \A s : InTurn(p, s)' <=> InTurn(p, s)
    BY <1>3 DEF Disrupted, InTurn, StepStatus, Steps
  <2> QED BY <1>2, <1>3, <2>1 DEF MayPost
<1>4. ASSUME NEW th \in Threads, NEW p, NEW steps, First(todo'[th], {"post"}),
             Kind(p)' = "recovery", todo'[th][1].plan = p, todo'[th][1].steps = steps
      PROVE  MayPost(p, steps)'
  <2>1. CASE todo'[th] = todo[th] /\ plans' = plans
    <3>1. Kind(p) = "recovery"
      BY <1>4, <2>1 DEF Kind
    <3>2. MayPost(p, steps)
      BY <1>4, <2>1, <3>1 DEF PausedInv
    <3> QED BY <1>3, <2>1, <3>2
  <2>2. CASE Queue(th)
    <3>1. plans' = plans /\ p \in PlanIds /\ WithinBudget(p)
            /\ \E mode \in Modes : steps = Chosen(p, mode)
      BY <1>4, <2>2, QueueMoves
    <3>2. Kind(p) = "recovery"
      BY <1>4, <3>1 DEF Kind
    <3>3. steps # {}
      BY <1>1, <1>4 DEF Kept, IInv, HeadInv, HeadFits, First
    <3>4. MayPost(p, steps)
      BY <3>1, <3>2, <3>3, ChosenInTurn
    <3> QED BY <1>3, <3>1, <3>4
  <2>3. CASE Post(th)
    <3> DEFINE old == todo[th][1].steps
               s == Least(old)
    <3>1. /\ First(todo[th], {"post"}) /\ todo[th][1].plan = p
          /\ steps = old \ {s} /\ s \in old /\ p \in PlanIds
      BY <1>4, <2>3, PostMoves
    <3>2. Kind(p) = "recovery"
      BY <1>1, <1>4, <3>1 DEF Kind, Kept, GrowPlans, PlanIds
    <3>3. \E x : old = {x}
      BY <3>1, <3>2 DEF PausedInv, MayPost
    <3>4. steps = {}
      BY <3>1, <3>3
    <3>5. steps # {}
      BY <1>1, <1>4 DEF Kept, IInv, HeadInv, HeadFits, First
    <3> QED BY <3>4, <3>5
  <2> QED BY <1>4, <2>1, <2>2, <2>3, PostHeads
<1> QED BY <1>4 DEF PausedInv

(* The replays whose last task failed are disrupted as far as the plan     *)
(* knows, when all steps before the one that is due are completed.         *)
LEMMA DisruptionsKnown ==
  ASSUME RecoveriesInTurn, IInv, TraceInv, NEW p \in PlanIds, Kind(p) = "recovery",
         NEW s \in Steps(p), plans[p].steps[s].task = NoTask, InTurn(p, s)
  PROVE  Disruptions(p, s) \subseteq Disrupted(p)
<1> SUFFICES ASSUME NEW r \in Disruptions(p, s) PROVE r \in Disrupted(p)
  OBVIOUS
<1>1. /\ r \in Shape[plans[p].shape].replay /\ r # s /\ r \in Steps(p)
      /\ StepTasks(tasks, p, r) # {}
      /\ tasks[Newest(StepTasks(tasks, p, r))].status = "failed"
  <2>1. TasksOf(p, r) = StepTasks(tasks, p, r)
    BY DEF TasksOf, StepTasks, TaskIds
  <2> QED BY <2>1, DisruptedFinite DEF Disruptions
<1>2. s \in Nat /\ r \in Nat /\ s \in Steps(p)
  BY <1>1, PlanFacts
<1>3. ~ (s < r)
  BY <1>1, EarlierTasked
<1>4. StepStatus(p, r) = "completed"
  BY <1>1, <1>2, <1>3 DEF InTurn
<1> DEFINE t == plans[p].steps[r].task
<1>5. /\ t # NoTask /\ \A u \in StepTasks(tasks, p, r) : u <= t
      /\ tasks[t].status = "failed" => plans[p].steps[r].undone
  BY <1>1, <1>4 DEF TraceInv, Traced, Owned, OwnTask, StepStatus, PlanIds, Steps
<1>6. t \in StepTasks(tasks, p, r)
  BY <1>1, <1>5, FileTasks, Types DEF PlanIds, Steps
<1> HIDE DEF t
<1>7. Newest(StepTasks(tasks, p, r)) = t
  <2> DEFINE own == StepTasks(tasks, p, r)
  <2>1. own \in SUBSET (1 .. Len(tasks)) /\ Len(tasks) \in Nat
    BY Types, LenProperties DEF StepTasks
  <2>2. own # {} /\ t \in own /\ \A u \in own : u <= t
    BY <1>1, <1>5, <1>6 DEF t
  <2> HIDE DEF own
  <2>3. Newest(own) \in own /\ \A u \in own : u <= Newest(own)
    BY <2>1, <2>2, NewestIn
  <2> DEFINE last == Newest(own)
  <2>4. last <= t /\ t <= last
    BY <2>2, <2>3
  <2>5. last \in 1 .. Len(tasks) /\ t \in 1 .. Len(tasks)
    BY <2>1, <2>2, <2>3
  <2> HIDE DEF last
  <2>6. last = t
    BY <2>1, <2>4, <2>5
  <2> QED BY <2>6 DEF own, last
<1>8. plans[p].steps[r].undone
  BY <1>1, <1>5, <1>7 DEF t
<1> QED BY <1>1, <1>8 DEF Disrupted

(* Whatever copies are applied late and whatever a kill loses, in a        *)
(* recovery whose replays follow one another: a step is queued beyond the  *)
(* failure budget only after a remediation was finished.                   *)
THEOREM RecoveryIsPaused ==
  ASSUME RecoveriesInTurn
  PROVE  Spec => RecoveryPauses
<1> DEFINE Pauses ==
      \A t \in 1 .. MaxTasks :
        LET task == tasks'[t] IN
        Queues(t) /\ Kind(task.plan) = "recovery"
          /\ Cardinality(Disruptions(task.plan, task.step)) >= Threshold
        => Repairs # {}
           All == NotesInv /\ TraceInv /\ MendInv /\ PausedInv
<1>1. ASSUME IInv, All, [Next]_vars PROVE [Pauses]_vars
  <2>1. ASSUME NEW t \in 1 .. MaxTasks, Queues(t), Kind(tasks'[t].plan) = "recovery",
               Cardinality(Disruptions(tasks'[t].plan, tasks'[t].step)) >= Threshold
        PROVE  Repairs # {}
    <3>1. t = Len(tasks) + 1 /\ t \in DOMAIN tasks'
      BY <2>1 DEF Queues
    <3>2. tasks \in Seq(TaskRecord) /\ Len(tasks) \in Nat
            /\ DOMAIN tasks = 1 .. Len(tasks)
      BY <1>1, Types, LenProperties
    <3>3. DOMAIN tasks' # DOMAIN tasks
      BY <3>1, <3>2
    <3>4. PICK th \in Threads : Post(th)
      <4>1. ~Steady /\ ~Crash
        BY <3>3 DEF Steady, NoNewTask, Crash
      <4>2. \A th \in Threads : ~Apply(th)
        BY <3>3 DEF Apply, board
      <4>3. NotesInv
        BY <1>1
      <4> QED BY <1>1, <4>1, <4>2, <4>3, SteadyKinds
    <3> DEFINE p == todo[th][1].plan
               steps == todo[th][1].steps
               s == Least(steps)
    <3>5. /\ First(todo[th], {"post"}) /\ tasks' = Append(tasks, NewTask(p, s))
          /\ p \in PlanIds /\ s \in steps /\ s \in Steps(p)
          /\ Postable(plans, p, s)
      BY <1>1, <3>3, <3>4, PostMoves
    <3>6. tasks'[t].plan = p /\ tasks'[t].step = s
      BY <3>1, <3>2, <3>5 DEF NewTask
    <3>7. Kind(p) = "recovery" /\ Cardinality(Disruptions(p, s)) >= Threshold
      BY <2>1, <3>6
    <3>8. MayPost(p, steps)
      BY <1>1, <3>5, <3>7 DEF All, PausedInv
    <3> HIDE DEF p, steps, s
    <3>9. InTurn(p, s)
      BY <3>5, <3>8 DEF MayPost
    <3>10. Disruptions(p, s) \subseteq Disrupted(p)
      BY <1>1, <3>5, <3>7, <3>9, DisruptionsKnown DEF All, Postable
    <3>11. /\ Cardinality(Disruptions(p, s)) <= Cardinality(Disrupted(p))
           /\ Cardinality(Disruptions(p, s)) \in Nat
           /\ Cardinality(Disrupted(p)) \in Nat
      BY <1>1, <3>5, <3>10, DisruptedFinite, FS_Subset, FS_CardinalityType
    <3>12. Threshold \in Nat
      BY PlannerAssumption
    <3>13. Mended(tasks, plans)
      BY <3>7, <3>8, <3>11, <3>12 DEF MayPost
    <3>14. PICK c \in PlanIds : plans[c].shape = Remediation /\ FinishedBy(tasks, plans, c)
      BY <3>13 DEF Mended, PlanIds
    <3>15. Kind(c) = "remediation" /\ Finished(c)
      BY <3>14, Wording, PlannerAssumption DEF Kind
    <3> QED BY <3>15 DEF Repairs
  <2> QED BY <2>1
<1>2. Init => All
  <2> SUFFICES ASSUME Init PROVE All
    OBVIOUS
  <2>1. /\ plans = << >> /\ saved = << >> /\ tasks = << >>
        /\ \A th \in Threads : todo[th] = << >>
    BY DEF Init
  <2>2. DOMAIN plans = {} /\ DOMAIN saved = {} /\ DOMAIN tasks = {}
    BY <2>1
  <2>3. NotesInv
    BY <2>1 DEF NotesInv, Noted
  <2>4. TraceInv
    BY <2>2 DEF TraceInv, Traced, Owned, AllLed, Lags, PlannedLed
  <2>5. MendInv
    BY <2>2 DEF MendInv, MendedIn
  <2>6. PausedInv
    BY <2>1 DEF PausedInv, First
  <2> QED BY <2>3, <2>4, <2>5, <2>6
<1>3. IInv /\ All /\ [Next]_vars => All'
  <2> SUFFICES ASSUME IInv, All, [Next]_vars PROVE All'
    OBVIOUS
  <2>1. NotesInv'
    BY NotesStay
  <2>2. TraceInv'
    BY TraceStays
  <2>3. MendInv'
    BY MendStays
  <2>4. PausedInv'
    BY PausedStays
  <2> QED BY <2>1, <2>2, <2>3, <2>4
<1>4. Spec => [][Pauses]_vars
  <2> HIDE DEF Pauses, All
  <2> QED BY <1>1, <1>2, <1>3, Invariance, PTL DEF Spec
<1> QED BY <1>4 DEF RecoveryPauses
=============================================================================
