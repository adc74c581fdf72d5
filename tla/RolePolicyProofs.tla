-------------------------- MODULE RolePolicyProofs --------------------------
(***************************************************************************)
(* RolePolicy: what a dispatch plans is what it claims, it leaves nothing  *)
(* that could be claimed, and it keeps priorities, for any agents, tasks,  *)
(* scores, caps and limits.                                                *)
(***************************************************************************)
EXTENDS RolePolicy, FiniteSetTheorems, WellFoundedInduction, TLAPS

Statuses == {"absent", "queued", "in_progress", "done", "failed"}
Assignment == [task : Tasks, agent : Agents]
Record == [claimed : Nat, completed : Nat, failed : Nat,
           last : {Work[t].branch : t \in Tasks} \cup {None}]

Round == [filter : Filters \cup {None}, window : SUBSET Tasks,
          considered : SUBSET Agents, given : SUBSET Tasks, missed : BOOLEAN]

(* Type invariant.                                                         *)
TypeOK ==
  /\ status \in [Tasks -> Statuses]
  /\ holder \in [Tasks -> Agents \cup {None}]
  /\ history \in [Agents -> Record]
  /\ available \in SUBSET Agents
  /\ pending \in Seq(Assignment)
  /\ round \in Round

---------------------------------------------------------------------------
(* Numbers and sets.                                                       *)

(* A set of numbers that is not empty has a least one.                     *)
LEMMA FirstIn ==
  ASSUME NEW S \in SUBSET Nat, S # {}
  PROVE  \E n \in S : \A m \in S : n <= m
<1> DEFINE below == {ss \in Nat \X Nat : ss[1] < ss[2]}
<1>1. IsWellFoundedOn(below, Nat)
  BY NatLessThanWellFounded, Zenon DEF OpToRel
<1>2. PICK n \in S : \A m \in S : ~ (<<m, n>> \in below)
  BY <1>1, WFMin
<1>3. ASSUME NEW m \in S PROVE n <= m
  <2>1. m \in Nat /\ n \in Nat
    BY S \in SUBSET Nat, n \in S, m \in S
  <2>2. ~ (m < n)
    <3> SUFFICES ASSUME m < n PROVE <<m, n>> \in below
      BY <1>2
    <3> QED BY <2>1
  <2> QED BY <2>1, <2>2
<1> QED BY <1>3

LEMMA Smaller ==
  ASSUME NEW x \in Int, NEW y \in Int
  PROVE  Min({x, y}) = IF x <= y THEN x ELSE y
<1> DEFINE S == {x, y}
           m == IF x <= y THEN x ELSE y
<1>1. m \in S /\ \A k \in S : m <= k
  OBVIOUS
<1>2. \A k \in S : (\A j \in S : k <= j) => k = m
  OBVIOUS
<1> HIDE DEF S, m
<1>3. Min(S) = m
  BY <1>1, <1>2 DEF Min
<1> QED BY <1>3 DEF S, m

LEMMA Larger ==
  ASSUME NEW x \in Int, NEW y \in Int
  PROVE  Max({x, y}) = IF x >= y THEN x ELSE y
<1> DEFINE S == {x, y}
           m == IF x >= y THEN x ELSE y
<1>1. m \in S /\ \A k \in S : m >= k
  OBVIOUS
<1>2. \A k \in S : (\A j \in S : k >= j) => k = m
  OBVIOUS
<1> HIDE DEF S, m
<1>3. Max(S) = m
  BY <1>1, <1>2 DEF Max
<1> QED BY <1>3 DEF S, m

(* Tasks are numbered, and there are finitely many.                        *)
LEMMA TasksAre ==
  /\ Len(Work) \in Nat /\ Tasks = 1 .. Len(Work) /\ IsFiniteSet(Tasks)
  /\ \A t \in Tasks : t \in Nat
<1> DEFINE n == Len(Work)
<1>1. n \in Nat /\ Tasks = 1 .. n
  BY PolicyAssumption DEF Tasks
<1> HIDE DEF n
<1>2. IsFiniteSet(1 .. n)
  BY <1>1, FS_Interval
<1> QED BY <1>1, <1>2 DEF n

(* How many tasks of a set are on a branch.                                *)
LEMMA BranchCount ==
  ASSUME NEW S \in SUBSET Tasks, NEW b
  PROVE  /\ Cardinality(OnBranch(S, b)) \in Nat
         /\ \A T \in SUBSET S :
              /\ Cardinality(OnBranch(T, b)) \in Nat
              /\ Cardinality(OnBranch(T, b)) <= Cardinality(OnBranch(S, b))
<1>1. OnBranch(S, b) \in SUBSET Tasks
  BY DEF OnBranch
<1>2. IsFiniteSet(OnBranch(S, b))
  BY <1>1, TasksAre, FS_Subset
<1>3. ASSUME NEW T \in SUBSET S PROVE OnBranch(T, b) \in SUBSET OnBranch(S, b)
  BY DEF OnBranch
<1> QED BY <1>2, <1>3, FS_Subset, FS_CardinalityType

(* A branch that is full stays so when there is more on it.                *)
LEMMA FullStays ==
  ASSUME NEW S \in SUBSET Tasks, NEW T \in SUBSET S, NEW t \in Tasks,
         ~Dispatchable(t, Cardinality(OnBranch(T, Work[t].branch)))
  PROVE  ~Dispatchable(t, Cardinality(OnBranch(S, Work[t].branch)))
<1> DEFINE x == Cardinality(OnBranch(T, Work[t].branch))
           y == Cardinality(OnBranch(S, Work[t].branch))
           cap == BranchCap(Work[t])
<1>1. x \in Nat /\ y \in Nat /\ x <= y
  BY BranchCount
<1>2. cap \in Nat
  <2>1. Work[t].cap \in 0 .. 8 \cup {None}
    BY PolicyAssumption
  <2> QED BY <2>1 DEF BranchCap, Unlimited
<1>3. ~(Allowed(Work[t]) /\ x < cap)
  BY DEF Dispatchable
<1> HIDE DEF x, y, cap
<1>4. ~(Allowed(Work[t]) /\ y < cap)
  BY <1>1, <1>2, <1>3
<1> QED BY <1>4 DEF Dispatchable, y, cap

---------------------------------------------------------------------------
(* Priorities are an order of the tasks.                                   *)

Role(t) == IF Work[t].role = "manager" THEN 0 ELSE 1
Rank(t) == KindRank[Work[t].kind]

LEMMA Ranks ==
  ASSUME NEW t \in Tasks
  PROVE  Rank(t) \in Nat /\ Role(t) \in Nat /\ t \in Nat
<1>1. Work[t].kind \in Kinds
  BY PolicyAssumption
<1> QED BY <1>1, TasksAre DEF Rank, Role, KindRank, Kinds

LEMMA PrecedesBy ==
  ASSUME NEW t, NEW u
  PROVE  Precedes(t, u) <=>
           \/ Rank(t) < Rank(u)
           \/ Rank(t) = Rank(u) /\ Role(t) < Role(u)
           \/ Rank(t) = Rank(u) /\ Role(t) = Role(u) /\ t <= u
BY DEF Precedes, Rank, Role

LEMMA PrecedesOrders ==
  /\ \A t \in Tasks : Precedes(t, t)
  /\ \A t, u \in Tasks : Precedes(t, u) \/ Precedes(u, t)
  /\ \A t, u \in Tasks : Precedes(t, u) /\ Precedes(u, t) => t = u
  /\ \A t, u, v \in Tasks : Precedes(t, u) /\ Precedes(u, v) => Precedes(t, v)
BY Ranks, PrecedesBy

(* What precedes a task in a set.                                          *)
Before(S, t) == {u \in S : Precedes(u, t)}

LEMMA BeforeGrows ==
  ASSUME NEW S \in SUBSET Tasks, NEW t \in S, NEW u \in S, t # u, Precedes(t, u)
  PROVE  Cardinality(Before(S, t)) < Cardinality(Before(S, u))
<1>1. Before(S, t) \in SUBSET Tasks /\ Before(S, u) \in SUBSET Tasks
  BY DEF Before
<1>2. IsFiniteSet(Before(S, t)) /\ IsFiniteSet(Before(S, u))
  BY <1>1, TasksAre, FS_Subset
<1>3. Before(S, t) \cup {u} \in SUBSET Before(S, u) /\ u \notin Before(S, t)
  BY PrecedesOrders DEF Before
<1>4. Cardinality(Before(S, t) \cup {u}) = Cardinality(Before(S, t)) + 1
  BY <1>2, <1>3, FS_AddElement
<1>5. Cardinality(Before(S, t) \cup {u}) <= Cardinality(Before(S, u))
  BY <1>2, <1>3, FS_Subset
<1>6. Cardinality(Before(S, t)) \in Nat /\ Cardinality(Before(S, u)) \in Nat
  BY <1>2, FS_CardinalityType
<1> QED BY <1>4, <1>5, <1>6

(* Each place up to the number of tasks is that of one of them.            *)
LEMMA PlaceTaken ==
  ASSUME NEW S \in SUBSET Tasks, NEW i \in 1 .. Cardinality(S)
  PROVE  \E t \in S : Cardinality(Before(S, t)) = i
<1> DEFINE n == Cardinality(S)
           place == [t \in S |-> Cardinality(Before(S, t))]
<1>1. IsFiniteSet(S) /\ n \in Nat
  BY TasksAre, FS_Subset, FS_CardinalityType
<1>2. ASSUME NEW t \in S PROVE place[t] \in 1 .. n
  <2>1. Before(S, t) \in SUBSET S /\ t \in Before(S, t)
    BY PrecedesOrders DEF Before
  <2>2. IsFiniteSet(Before(S, t)) /\ Cardinality(Before(S, t)) <= n
    BY <1>1, <2>1, FS_Subset
  <2>3. Cardinality(Before(S, t)) \in Nat /\ Cardinality(Before(S, t)) # 0
    BY <2>1, <2>2, FS_CardinalityType, FS_EmptySet
  <2> HIDE DEF n
  <2> QED BY <1>1, <2>2, <2>3
<1>3. ASSUME NEW t \in S, NEW u \in S, place[t] = place[u]
      PROVE  t = u
  <2> SUFFICES ASSUME t # u PROVE FALSE
    OBVIOUS
  <2>1. place[t] \in Nat /\ place[u] \in Nat
    BY <1>2
  <2>2. place[t] < place[u] \/ place[u] < place[t]
    <3>1. Precedes(t, u) \/ Precedes(u, t)
      BY PrecedesOrders
    <3> QED BY <3>1, BeforeGrows
  <2> HIDE DEF place
  <2> QED BY <1>3, <2>1, <2>2
<1>4. place \in Injection(S, 1 .. n)
  <2>1. place \in [S -> 1 .. n]
    BY <1>2
  <2> HIDE DEF place, n
  <2> QED BY <1>3, <2>1 DEF Injection, IsInjective
<1>5. IsFiniteSet(1 .. n) /\ Cardinality(1 .. n) = n
  <2> HIDE DEF n
  <2> QED BY <1>1, FS_Interval
<1>6. place \in Surjection(S, 1 .. n)
  <2> HIDE DEF place
  <2>1. Cardinality(S) = Cardinality(1 .. n)
    BY <1>5
  <2> HIDE DEF n
  <2> QED BY <1>4, <1>5, <2>1, FS_Injection
<1>7. \E t \in S : place[t] = i
  <2> HIDE DEF place
  <2> QED BY <1>6 DEF Surjection
<1> QED BY <1>7

(* The window: the first of the queued tasks, in order.                    *)
LEMMA WindowFits ==
  ASSUME TypeOK, NEW limit \in Int, NEW filter
  PROVE  LET w == Window(limit, filter) IN
         /\ w \in Seq(Queued(filter))
         /\ \A i, j \in DOMAIN w : i < j => w[i] # w[j] /\ Precedes(w[i], w[j])
<1> DEFINE S == Queued(filter)
           n == Cardinality(S)
           k == Bounded(limit)
           w == Window(limit, filter)
<1>1. S \in SUBSET Tasks
  BY DEF Queued, Matching
<1>2. n \in Nat
  BY <1>1, TasksAre, FS_Subset, FS_CardinalityType
<1>3. k \in Nat
  <2>1. MaxWindow \in Int
    BY PolicyAssumption
  <2> DEFINE x == Min({limit, MaxWindow})
  <2>2. x \in Int
    <3>1. x = IF limit <= MaxWindow THEN limit ELSE MaxWindow
      BY <2>1, Smaller
    <3> HIDE DEF x
    <3> QED BY <2>1, <3>1
  <2>3. k = Max({1, x})
    BY DEF Bounded
  <2> HIDE DEF x, k
  <2>4. k = IF 1 >= x THEN 1 ELSE x
    BY <2>2, <2>3, Larger
  <2> QED BY <2>2, <2>4
<1> DEFINE m == Min({k, n})
<1>4. m \in Nat /\ m <= n
  <2>1. k \in Int /\ n \in Int
    BY <1>2, <1>3
  <2> HIDE DEF k, n
  <2>2. m = IF k <= n THEN k ELSE n
    BY <2>1, Smaller
  <2> HIDE DEF m
  <2> QED BY <1>2, <1>3, <2>2
<1>5. w = [i \in 1 .. m |-> CHOOSE t \in S : Cardinality(Before(S, t)) = i]
  BY DEF Window, FirstOf, Before
<1> HIDE DEF k, w, m
<1>6. ASSUME NEW i \in 1 .. m
      PROVE  w[i] \in S /\ Cardinality(Before(S, w[i])) = i
  <2>1. i \in 1 .. n
    <3> HIDE DEF n
    <3> QED BY <1>2, <1>4
  <2>2. \E t \in S : Cardinality(Before(S, t)) = i
    BY <1>1, <2>1, PlaceTaken
  <2>3. w[i] = CHOOSE t \in S : Cardinality(Before(S, t)) = i
    BY <1>5
  <2> HIDE DEF S
  <2> QED BY <2>2, <2>3
<1>7. w \in Seq(S) /\ DOMAIN w = 1 .. m
  <2> HIDE DEF S
  <2> QED BY <1>4, <1>5, <1>6
<1>8. ASSUME NEW i \in 1 .. m, NEW j \in 1 .. m, i < j
      PROVE  w[i] # w[j] /\ Precedes(w[i], w[j])
  <2>1. w[i] \in S /\ w[j] \in S /\ Cardinality(Before(S, w[i])) = i
        /\ Cardinality(Before(S, w[j])) = j
    BY <1>6
  <2>2. i \in Nat /\ j \in Nat /\ ~(i = j) /\ ~(j < i)
    BY <1>4, <1>8
  <2>3. w[i] # w[j]
    BY <2>1, <2>2
  <2>4. ~Precedes(w[j], w[i])
    BY <1>1, <2>1, <2>2, <2>3, BeforeGrows
  <2>5. w[i] \in Tasks /\ w[j] \in Tasks
    BY <1>1, <2>1
  <2> QED BY <2>3, <2>4, <2>5, PrecedesOrders
<1> QED BY <1>7, <1>8 DEF w

---------------------------------------------------------------------------
(* Rankings.                                                               *)

(* A ranking of finitely many, in which any two can be compared, has a     *)
(* best: one that is at least as good as as many as any other.             *)
LEMMA BestOf ==
  ASSUME NEW S, IsFiniteSet(S), S # {}, NEW R,
         \A x, y \in S : <<x, y>> \in R \/ <<y, x>> \in R,
         \A x, y, z \in S : <<x, y>> \in R /\ <<y, z>> \in R => <<x, z>> \in R
  PROVE  \E x \in S : \A y \in S : <<x, y>> \in R
<1> DEFINE below(x) == {y \in S : <<x, y>> \in R}
           n == Cardinality(S)
           missing == {m \in Nat : \E x \in S : m = n - Cardinality(below(x))}
<1>1. n \in Nat
  BY FS_CardinalityType
<1>2. ASSUME NEW x \in S
      PROVE  /\ IsFiniteSet(below(x)) /\ Cardinality(below(x)) \in Nat
             /\ Cardinality(below(x)) <= n
  <2>1. below(x) \in SUBSET S
    OBVIOUS
  <2> HIDE DEF below
  <2> QED BY <2>1, FS_Subset, FS_CardinalityType
<1>3. missing \in SUBSET Nat /\ missing # {}
  <2> HIDE DEF below, n
  <2> QED BY <1>1, <1>2
<1>4. PICK least \in missing : \A m \in missing : least <= m
  <2> HIDE DEF missing
  <2> QED BY <1>3, FirstIn
<1>5. PICK x \in S : least = n - Cardinality(below(x))
  <2> HIDE DEF below, n
  <2> QED BY <1>4
<1>6. ASSUME NEW y \in S PROVE <<x, y>> \in R
  <2> SUFFICES ASSUME <<x, y>> \notin R PROVE FALSE
    OBVIOUS
  <2>1. <<y, x>> \in R /\ <<y, y>> \in R
    OBVIOUS
  <2>2. below(x) \cup {y} \in SUBSET below(y) /\ y \notin below(x)
    BY <2>1
  <2>3. Cardinality(below(x) \cup {y}) = Cardinality(below(x)) + 1
    <3>1. y \notin below(x)
      BY <2>2
    <3> HIDE DEF below
    <3> QED BY <1>2, <3>1, FS_AddElement
  <2>4. Cardinality(below(x) \cup {y}) <= Cardinality(below(y))
    <3> HIDE DEF below
    <3> QED BY <1>2, <2>2, FS_Subset
  <2>5. least <= n - Cardinality(below(y))
    <3> HIDE DEF below, n
    <3> QED BY <1>1, <1>2, <1>4
  <2> HIDE DEF below, n, missing
  <2> QED BY <1>1, <1>2, <1>5, <2>3, <2>4, <2>5
<1> QED BY <1>6

(* What an agent is worth for a task is a number.                          *)
LEMMA SuitIsNumber ==
  ASSUME NEW t \in Tasks, NEW a \in Agents
  PROVE  Suit[t][a] \in Int
<1> DEFINE w == Work[t]
           required == Required(w)
           shared == required \cap Profile[a].capabilities
<1>1. w.kind \in Kinds
  BY PolicyAssumption
<1>2. Cardinality(shared) \in Nat
  <2>1. IsFiniteSet(Profile[a].capabilities)
    BY PolicyAssumption
  <2>2. shared \in SUBSET Profile[a].capabilities
    OBVIOUS
  <2> HIDE DEF shared
  <2> QED BY <2>1, <2>2, FS_Subset, FS_CardinalityType
<1>3. \A condition, points : points \in Int => Points(condition, points) \in Int
  BY DEF Points
<1>4. Overlap(w, a, required) \in Int
  <2>1. Points(required # {} /\ w.owner # a, 12) \in Int
    BY <1>3
  <2> DEFINE x == Points(required # {} /\ w.owner # a, 12)
             y == Cardinality(shared)
  <2>2. Overlap(w, a, required) = IF shared # {} THEN 18 * y ELSE -x
    BY DEF Overlap
  <2>3. 18 * y \in Int /\ -x \in Int
    <3>1. x \in Int /\ y \in Int
      BY <1>2, <2>1
    <3> HIDE DEF x, y
    <3> QED BY <3>1
  <2> HIDE DEF x, y, shared
  <2> QED BY <2>2, <2>3
<1>5. OwnerMatch(w, a) \in Int
  BY DEF OwnerMatch, Points
<1>6. KindAffinity(w, Profile[a].words) \in Int
  BY <1>1 DEF KindAffinity, Kinds, Points
<1>7. Affinity(w, required, Profile[a].words) \in Int
  <2> HIDE DEF w, required
  <2> QED BY <1>6 DEF Affinity, Points
<1>8. Points(w.role # None, 40) \in Int /\ Points(w.wanted = a, 140) \in Int
  BY <1>3
<1>9. SuitOf(w, a, required) \in Int
  <2> HIDE DEF w, required
  <2> QED BY <1>4, <1>5, <1>7, <1>8 DEF SuitOf
<1> QED BY <1>9 DEF Suit

LEMMA ScoreIsNumber ==
  ASSUME TypeOK, NEW t \in Tasks, NEW a \in Agents
  PROVE  Score(t, a) \in Int
<1> DEFINE h == history[a]
<1>1. h.claimed \in Nat /\ h.completed \in Nat /\ h.failed \in Nat
  BY DEF TypeOK, Record
<1> HIDE DEF h
<1> DEFINE x == h.completed
           y == 6 * h.failed
           z == h.claimed \div 3
           p == Points(h.last = Work[t].branch, 10)
<1>2. x \in Int /\ y \in Int /\ z \in Int
  BY <1>1
<1>3. p \in Int
  BY DEF Points
<1>4. Experience(Work[t], h) = p + Min({x, 10}) - Min({y, 30}) - Min({z, 10})
  BY DEF Experience
<1> HIDE DEF x, y, z, p
<1>5. Min({x, 10}) \in Int /\ Min({y, 30}) \in Int /\ Min({z, 10}) \in Int
  <2>1. Min({x, 10}) = IF x <= 10 THEN x ELSE 10
    BY <1>2, Smaller
  <2>2. Min({y, 30}) = IF y <= 30 THEN y ELSE 30
    BY <1>2, Smaller
  <2>3. Min({z, 10}) = IF z <= 10 THEN z ELSE 10
    BY <1>2, Smaller
  <2> QED BY <1>2, <2>1, <2>2, <2>3
<1>6. Experience(Work[t], h) \in Int
  BY <1>3, <1>4, <1>5
<1>7. Suit[t][a] \in Int
  BY SuitIsNumber
<1>8. Score(t, a) = Suit[t][a] + Experience(Work[t], h)
  BY DEF Score, h
<1> QED BY <1>6, <1>7, <1>8

LEMMA Names ==
  /\ IsFiniteSet(Agents) /\ None \notin Agents
  /\ \A a \in Agents : NameOrder(a) \in Nat
<1>1. Roster \in Seq(Agents) /\ None \notin Agents
  BY PolicyAssumption
<1>2. Len(Roster) \in Nat /\ DOMAIN Roster = 1 .. Len(Roster)
  BY <1>1
<1>3. Agents = {Roster[i] : i \in DOMAIN Roster}
  BY DEF Agents, ToSet
<1>4. IsFiniteSet(Agents)
  <2> DEFINE n == Len(Roster)
  <2>1. IsFiniteSet(1 .. n)
    <3> HIDE DEF n
    <3> QED BY <1>2, FS_Interval DEF n
  <2>2. Roster \in Surjection(1 .. n, Agents)
    <3>1. Roster \in [1 .. n -> Agents]
      BY <1>1, <1>2
    <3> QED BY <1>2, <1>3, <3>1 DEF Surjection
  <2> HIDE DEF n
  <2> QED BY <2>1, <2>2, FS_Surjection
<1>5. ASSUME NEW a \in Agents PROVE NameOrder(a) \in Nat
  <2>1. \E i \in DOMAIN Roster : Roster[i] = a
    BY <1>3
  <2>2. NameOrder(a) \in DOMAIN Roster
    BY <2>1 DEF NameOrder
  <2> QED BY <1>2, <2>2
<1> QED BY <1>1, <1>4, <1>5

(* The agent ranked first is a free one of the right role, and there is    *)
(* one when such an agent is free.                                         *)
LEMMA BestAgentFits ==
  ASSUME TypeOK, NEW t \in Tasks, NEW free \in SUBSET Agents
  PROVE  IF \A a \in free : ~RoleFits(t, a) THEN BestAgent(t, free) = None
         ELSE BestAgent(t, free) \in free /\ RoleFits(t, BestAgent(t, free))
<1> DEFINE fit == {a \in free : RoleFits(t, a)}
           score == [a \in fit |-> Score(t, a)]
           better(a, b) == \/ score[a] > score[b]
                           \/ score[a] = score[b] /\ NameOrder(a) <= NameOrder(b)
           R == {p \in fit \X fit : better(p[1], p[2])}
<1>1. ASSUME fit # {} PROVE \E a \in fit : \A b \in fit : better(a, b)
  <2>1. fit \in SUBSET Agents
    OBVIOUS
  <2>2. \A a \in fit : score[a] \in Int /\ NameOrder(a) \in Nat
    <3> HIDE DEF fit
    <3> QED BY <2>1, ScoreIsNumber, Names
  <2>3. IsFiniteSet(fit)
    <3> HIDE DEF fit
    <3> QED BY <2>1, Names, FS_Subset
  <2> HIDE DEF fit, score
  <2>4. \A a, b \in fit : <<a, b>> \in R <=> better(a, b)
    OBVIOUS
  <2>5. \A a, b \in fit : better(a, b) \/ better(b, a)
    BY <2>2
  <2>6. \A a, b, c \in fit : better(a, b) /\ better(b, c) => better(a, c)
    BY <2>2
  <2> HIDE DEF better, R
  <2>7. \E a \in fit : \A b \in fit : <<a, b>> \in R
    BY <1>1, <2>3, <2>4, <2>5, <2>6, BestOf
  <2> QED BY <2>4, <2>7
<1>2. BestAgent(t, free) = IF fit = {} THEN None
                           ELSE CHOOSE a \in fit : \A b \in fit : better(a, b)
  BY DEF BestAgent
<1>3. fit # {} => BestAgent(t, free) \in fit
  <2> HIDE DEF fit, better
  <2> QED BY <1>1, <1>2
<1> QED BY <1>2, <1>3

(* And the task ranked first for an agent is one of them.                  *)
LEMMA BestTaskFits ==
  ASSUME TypeOK, NEW a \in Agents, NEW able \in SUBSET Tasks, BestTask(a, able) # None
  PROVE  BestTask(a, able) \in able
<1> DEFINE fit == {t \in able : RoleFits(t, a)}
           score == [t \in fit |-> Score(t, a)]
           better(t, u) == \/ score[t] > score[u]
                           \/ score[t] = score[u] /\ Precedes(t, u)
           R == {p \in fit \X fit : better(p[1], p[2])}
<1>1. BestTask(a, able) = IF fit = {} THEN None
                          ELSE CHOOSE t \in fit : \A u \in fit : better(t, u)
  BY DEF BestTask
<1>2. ASSUME fit # {} PROVE \E t \in fit : \A u \in fit : better(t, u)
  <2>1. fit \in SUBSET Tasks
    OBVIOUS
  <2>2. \A t \in fit : score[t] \in Int
    <3> HIDE DEF fit
    <3> QED BY <2>1, ScoreIsNumber
  <2>3. IsFiniteSet(fit)
    <3> HIDE DEF fit
    <3> QED BY <2>1, TasksAre, FS_Subset
  <2> HIDE DEF fit, score
  <2>4. \A t, u \in fit : <<t, u>> \in R <=> better(t, u)
    OBVIOUS
  <2>5. \A t, u \in fit : better(t, u) \/ better(u, t)
    BY <2>1, <2>2, PrecedesOrders
  <2>6. \A t, u, v \in fit : better(t, u) /\ better(u, v) => better(t, v)
    BY <2>1, <2>2, PrecedesOrders
  <2> HIDE DEF better, R
  <2>7. \E t \in fit : \A u \in fit : <<t, u>> \in R
    BY <1>2, <2>3, <2>4, <2>5, <2>6, BestOf
  <2> QED BY <2>4, <2>7
<1>3. fit # {} => BestTask(a, able) \in fit
  <2> HIDE DEF fit, better
  <2> QED BY <1>1, <1>2
<1> QED BY <1>1, <1>3

---------------------------------------------------------------------------
(* A plan.  What is in progress (A), who holds it (h) and the agents that  *)
(* are looked at (E) stand still while a plan P is made.                   *)

FreeIn(A, h) == {a \in Agents : \A t \in A : h[t] # a}
TasksOf(P) == {P[k].task : k \in DOMAIN P}
AgentsOf(P) == {P[k].agent : k \in DOMAIN P}
Earlier(P, k) == {P[j].task : j \in {i \in DOMAIN P : i < k}}

(* Its assignments can be claimed one after the other.                     *)
InTurn(A, h, P) ==
  /\ \A k, l \in DOMAIN P : k # l => P[k].task # P[l].task /\ P[k].agent # P[l].agent
  /\ \A k \in DOMAIN P :
       /\ P[k].task \notin A /\ P[k].agent \in FreeIn(A, h)
       /\ RoleFits(P[k].task, P[k].agent)
       /\ Dispatchable(P[k].task,
            Cardinality(OnBranch(A \cup Earlier(P, k), Work[P[k].task].branch)))

(* What a task t that got no agent finds before it, when G are those that  *)
(* got one.                                                                *)
Ahead(A, P, G, t) == {v \in A \cup TasksOf(P) : v \in G => Precedes(v, t)}
Has(A, h, P, v, a) ==
  \/ v \in A /\ h[v] = a
  \/ \E k \in DOMAIN P : P[k].task = v /\ P[k].agent = a

(* Either its branch is full with that, or every agent looked at that it   *)
(* suits is busy with some of it.                                          *)
PassedOver(A, h, E, P, G, t) ==
  \/ ~Dispatchable(t, Cardinality(OnBranch(Ahead(A, P, G, t), Work[t].branch)))
  \/ \A a \in E : RoleFits(t, a) => \E v \in Ahead(A, P, G, t) : Has(A, h, P, v, a)

Settled(A, h, E, P, G, W) ==
  /\ TasksOf(P) \subseteq G /\ G \subseteq A \cup TasksOf(P)
  /\ \A v \in G : \A a : Has(A, h, P, v, a) => a \in E
  /\ \A t \in W \ G : PassedOver(A, h, E, P, G, t)

(* The loop of build_dispatch_plan over the tasks of a window.             *)
Loop(f, w, filter, last) ==
  f = [n \in 0 .. last |-> IF n = 0 THEN NothingMade(filter) ELSE Placed(f[n - 1], w[n])]

LEMMA LoopEnds ==
  ASSUME NEW w, NEW filter, NEW last \in Nat
  PROVE  \E f : Loop(f, w, filter, last)
<1> DEFINE S == {m \in Nat : ~ \E f : Loop(f, w, filter, m)}
<1>1. SUFFICES ASSUME S # {} PROVE FALSE
  OBVIOUS
<1>2. PICK m \in S : \A k \in S : m <= k
  <2> HIDE DEF S
  <2>1. S \in SUBSET Nat
    BY DEF S
  <2> QED BY <1>1, <2>1, FirstIn
<1>3. CASE m = 0
  <2> DEFINE g == [n \in 0 .. 0 |-> NothingMade(filter)]
  <2>1. Loop(g, w, filter, 0)
    BY DEF Loop
  <2> QED BY <1>2, <1>3, <2>1
<1>4. CASE m # 0
  <2>1. m \in Nat /\ m - 1 \in Nat /\ m - 1 \notin S
    BY <1>2, <1>4
  <2>2. PICK f : Loop(f, w, filter, m - 1)
    BY <2>1
  <2> DEFINE g == [n \in 0 .. m |-> IF n = m THEN Placed(f[m - 1], w[m]) ELSE f[n]]
             h == [n \in 0 .. m |-> IF n = 0 THEN NothingMade(filter)
                                    ELSE Placed(g[n - 1], w[n])]
  <2>3. ASSUME NEW n \in 0 .. m PROVE g[n] = h[n]
    <3>1. CASE n = m
      <4>1. g[m - 1] = f[m - 1]
        BY <2>1
      <4> QED BY <1>4, <2>1, <3>1, <4>1
    <3>2. CASE n # m
      <4>1. n \in 0 .. m - 1 /\ (n # 0 => g[n - 1] = f[n - 1])
        BY <2>1, <3>2
      <4>2. f[n] = IF n = 0 THEN NothingMade(filter) ELSE Placed(f[n - 1], w[n])
        BY <2>2, <4>1 DEF Loop
      <4> QED BY <3>2, <4>1, <4>2
    <3> QED BY <3>1, <3>2
  <2>4. g = h
    BY <2>3
  <2>5. Loop(g, w, filter, m)
    BY <2>4 DEF Loop
  <2> QED BY <1>2, <2>5
<1> QED BY <1>3, <1>4

LEMMA PlanLoop ==
  ASSUME NEW w \in Seq(Tasks), NEW filter
  PROVE  \E f : /\ PlanFor(w, filter) = f[Len(w)].made
                /\ f[0] = NothingMade(filter)
                /\ \A n \in 1 .. Len(w) : f[n] = Placed(f[n - 1], w[n])
<1> DEFINE f == CHOOSE g : Loop(g, w, filter, Len(w))
           c == CHOOSE g : g = [n \in 0 .. Len(w) |->
                  IF n = 0 THEN NothingMade(filter) ELSE Placed(g[n - 1], w[n])]
<1>1. Len(w) \in Nat
  OBVIOUS
<1>2. Loop(f, w, filter, Len(w))
  BY <1>1, LoopEnds
<1>3. c = f
  BY DEF Loop
<1>4. PlanFor(w, filter) = f[Len(w)].made
  BY <1>3 DEF PlanFor
<1> HIDE DEF f, c
<1>5. 0 \in 0 .. Len(w) /\ \A n \in 1 .. Len(w) : n \in 0 .. Len(w) /\ n # 0
  BY <1>1
<1>6. \A n \in 0 .. Len(w) :
        f[n] = IF n = 0 THEN NothingMade(filter) ELSE Placed(f[n - 1], w[n])
  BY <1>2 DEF Loop
<1> QED BY <1>4, <1>5, <1>6

(* What holds of the plan before a task of the window, and then of the     *)
(* plan after it, holds of the plan at the end.                            *)
LEMMA LoopKeeps ==
  ASSUME NEW w \in Seq(Tasks), NEW Good,
         Good \subseteq 0 .. Len(w), 0 \in Good,
         \A n \in 1 .. Len(w) : n - 1 \in Good => n \in Good
  PROVE  Len(w) \in Good
<1> DEFINE S == (0 .. Len(w)) \ Good
<1>1. Len(w) \in Nat
  OBVIOUS
<1>2. SUFFICES ASSUME S # {} PROVE FALSE
  BY <1>1
<1>3. PICK m \in S : \A k \in S : m <= k
  <2>1. S \in SUBSET Nat
    BY <1>1
  <2> HIDE DEF S
  <2> QED BY <1>2, <2>1, FirstIn
<1>4. m # 0 /\ m \in 1 .. Len(w) /\ m - 1 \in 0 .. Len(w)
  BY <1>1, <1>3
<1>5. m - 1 \in Good
  BY <1>1, <1>3, <1>4
<1> QED BY <1>3, <1>4, <1>5

(* The shape of a plan, whatever its filter.                               *)
PlanShape(p) ==
  p.made \in Seq(Assignment) /\ p.free \in SUBSET Agents

LEMMA PlacedShape ==
  ASSUME TypeOK, NEW p, PlanShape(p), NEW t \in Tasks
  PROVE  PlanShape(Placed(p, t))
<1> DEFINE a == BestAgent(t, p.free)
<1>1. a = None \/ a \in Agents
  BY BestAgentFits DEF PlanShape
<1>2. \/ Placed(p, t) = p
      \/ /\ a # None
         /\ Placed(p, t).made = Append(p.made, [task |-> t, agent |-> a])
         /\ Placed(p, t).free = p.free \ {a}
  BY DEF Placed, Assigned
<1> HIDE DEF a
<1>3. CASE Placed(p, t) = p
  BY <1>3
<1>4. CASE a # None /\ Placed(p, t).made = Append(p.made, [task |-> t, agent |-> a])
           /\ Placed(p, t).free = p.free \ {a}
  <2>1. [task |-> t, agent |-> a] \in Assignment
    BY <1>1, <1>4 DEF Assignment
  <2> QED BY <1>4, <2>1 DEF PlanShape
<1> QED BY <1>2, <1>3, <1>4

LEMMA PlanFits ==
  ASSUME TypeOK, NEW w \in Seq(Tasks), NEW filter
  PROVE  PlanFor(w, filter) \in Seq(Assignment)
<1>1. PICK f : /\ PlanFor(w, filter) = f[Len(w)].made
               /\ f[0] = NothingMade(filter)
               /\ \A n \in 1 .. Len(w) : f[n] = Placed(f[n - 1], w[n])
  BY PlanLoop
<1> DEFINE Good == {n \in 0 .. Len(w) : PlanShape(f[n])}
<1>2. 0 \in Good
  <2>1. 0 \in 0 .. Len(w)
    OBVIOUS
  <2>2. PlanShape(NothingMade(filter))
    BY DEF NothingMade, PlanShape, Idle, Free
  <2> QED BY <1>1, <2>1, <2>2
<1>3. ASSUME NEW n \in 1 .. Len(w), n - 1 \in Good PROVE n \in Good
  <2>1. n \in 0 .. Len(w) /\ w[n] \in Tasks
    OBVIOUS
  <2> QED BY <1>1, <1>3, <2>1, PlacedShape
<1>4. Good \subseteq 0 .. Len(w)
  OBVIOUS
<1>5. Len(w) \in Good
  <2> HIDE DEF Good
  <2> QED BY <1>2, <1>3, <1>4, LoopKeeps
<1> QED BY <1>1, <1>5 DEF PlanShape

(* The plan p for a window w, after n of its tasks: what is in progress    *)
(* and what was assigned count, and only they.                             *)
Seen(w, n) == {w[i] : i \in 1 .. n}

Planned(p, w, n) ==
  /\ PlanShape(p)
  /\ p.active = InProgress \cup TasksOf(p.made)
  /\ p.free = Idle \ AgentsOf(p.made) /\ AgentsOf(p.made) \subseteq Idle
  /\ InTurn(InProgress, holder, p.made)
  /\ TasksOf(p.made) \subseteq Seen(w, n)
  /\ \A t \in Seen(w, n) \ TasksOf(p.made) :
       PassedOver(InProgress, holder, Idle, p.made, TasksOf(p.made), t)

LEMMA NothingPlanned ==
  ASSUME NEW w
  PROVE  Planned(NothingMade(None), w, 0)
<1> DEFINE p == NothingMade(None)
<1>1. p.made = << >> /\ p.active = InProgress /\ p.free = Idle
  BY DEF NothingMade, Matching, InProgress
<1>2. TasksOf(<< >>) = {} /\ AgentsOf(<< >>) = {} /\ Seen(w, 0) = {}
  BY DEF TasksOf, AgentsOf, Seen
<1>3. {} \subseteq Idle
  OBVIOUS
<1>4. InTurn(InProgress, holder, << >>)
  BY DEF InTurn
<1>5. PlanShape(p)
  BY <1>1 DEF PlanShape, Idle, Free
<1> HIDE DEF p
<1>6. p.active = InProgress \cup TasksOf(p.made)
      /\ p.free = Idle \ AgentsOf(p.made) /\ AgentsOf(p.made) \subseteq Idle
  BY <1>1, <1>2, <1>3
<1>7. InTurn(InProgress, holder, p.made)
  BY <1>1, <1>4
<1>8. TasksOf(p.made) \subseteq Seen(w, 0) /\ Seen(w, 0) \ TasksOf(p.made) = {}
  BY <1>1, <1>2
<1> QED BY <1>5, <1>6, <1>7, <1>8 DEF Planned, p

(* One more assignment.                                                    *)
LEMMA Appended ==
  ASSUME NEW P \in Seq(Assignment), NEW t \in Tasks, NEW a \in Agents
  PROVE  LET Q == Append(P, [task |-> t, agent |-> a]) IN
         /\ Q \in Seq(Assignment) /\ Len(P) \in Nat
         /\ DOMAIN P = 1 .. Len(P) /\ DOMAIN Q = 1 .. Len(P) + 1
         /\ \A k \in DOMAIN P : Q[k] = P[k] /\ k # Len(P) + 1 /\ k \in DOMAIN Q
         /\ Q[Len(P) + 1].task = t /\ Q[Len(P) + 1].agent = a
         /\ \A k \in DOMAIN Q : k \in DOMAIN P \/ k = Len(P) + 1
         /\ TasksOf(Q) = TasksOf(P) \cup {t} /\ AgentsOf(Q) = AgentsOf(P) \cup {a}
         /\ \A k \in DOMAIN P : Earlier(Q, k) = Earlier(P, k)
         /\ Earlier(Q, Len(P) + 1) = TasksOf(P)
<1> DEFINE r == [task |-> t, agent |-> a]
           Q == Append(P, r)
           n == Len(P)
<1>1. r \in Assignment /\ r.task = t /\ r.agent = a
  BY DEF Assignment
<1>2. n \in Nat /\ DOMAIN P = 1 .. n
  OBVIOUS
<1> HIDE DEF r
<1>3. Q \in Seq(Assignment) /\ DOMAIN Q = 1 .. n + 1
  BY <1>1
<1>4. \A k \in DOMAIN P : Q[k] = P[k] /\ k # n + 1 /\ k \in DOMAIN Q
  BY <1>1, <1>2, <1>3
<1>5. Q[n + 1] = r /\ n + 1 \in DOMAIN Q
  BY <1>1, <1>2, <1>3
<1>6. \A k \in DOMAIN Q : k \in DOMAIN P \/ k = n + 1
  BY <1>2, <1>3
<1> HIDE DEF Q, n
<1>7. TasksOf(Q) = TasksOf(P) \cup {t} /\ AgentsOf(Q) = AgentsOf(P) \cup {a}
  BY <1>1, <1>4, <1>5, <1>6 DEF TasksOf, AgentsOf
<1>8. ASSUME NEW k \in DOMAIN P PROVE Earlier(Q, k) = Earlier(P, k)
  <2>1. {i \in DOMAIN Q : i < k} = {i \in DOMAIN P : i < k}
    BY <1>2, <1>3
  <2> QED BY <1>4, <2>1 DEF Earlier
<1>9. Earlier(Q, n + 1) = TasksOf(P)
  <2>1. {i \in DOMAIN Q : i < n + 1} = DOMAIN P
    BY <1>2, <1>3
  <2> QED BY <1>4, <2>1 DEF Earlier, TasksOf
<1> QED BY <1>1, <1>2, <1>3, <1>4, <1>5, <1>6, <1>7, <1>8, <1>9 DEF Q, n, r

LEMMA PlacedFits ==
  ASSUME TypeOK, NEW w \in Seq(Tasks), NEW n \in 1 .. Len(w), NEW p,
         \A i \in 1 .. Len(w) : w[i] \notin InProgress,
         \A i, j \in 1 .. Len(w) : i < j => w[i] # w[j] /\ Precedes(w[i], w[j]),
         Planned(p, w, n - 1)
  PROVE  Planned(Placed(p, w[n]), w, n)
<1> DEFINE t == w[n]
           A == InProgress
           h == holder
           E == Idle
           P == p.made
           G == TasksOf(P)
           a == BestAgent(t, p.free)
<1>1. /\ t \in Tasks /\ t \notin A /\ A \in SUBSET Tasks /\ n \in Nat
      /\ Seen(w, n) = Seen(w, n - 1) \cup {t} /\ Seen(w, n) \in SUBSET Tasks
  <2>1. 1 .. n = 1 .. (n - 1) \cup {n} /\ \A i \in 1 .. n : i \in DOMAIN w
    OBVIOUS
  <2>2. Seen(w, n) = Seen(w, n - 1) \cup {t}
    BY <2>1 DEF Seen
  <2>3. Seen(w, n) \in SUBSET Tasks
    BY <2>1 DEF Seen
  <2> QED BY <2>2, <2>3 DEF InProgress
<1>2. \A u \in Seen(w, n - 1) : u # t /\ Precedes(u, t) /\ u \notin A
  BY DEF Seen
<1>3. /\ P \in Seq(Assignment) /\ p.active = A \cup G
      /\ p.free = E \ AgentsOf(P) /\ AgentsOf(P) \subseteq E /\ InTurn(A, h, P)
      /\ G \subseteq Seen(w, n - 1)
      /\ \A u \in Seen(w, n - 1) \ G : PassedOver(A, h, E, P, G, u)
  BY DEF Planned, PlanShape
<1>10. E \subseteq FreeIn(A, h) /\ E \in SUBSET Agents
  BY DEF Idle, Free, FreeIn
<1>4. IF \A b \in p.free : ~RoleFits(t, b) THEN a = None
      ELSE a \in p.free /\ RoleFits(t, a)
  <2>1. p.free \in SUBSET Agents
    BY <1>3, <1>10
  <2> QED BY <1>1, <2>1, BestAgentFits
<1>5. Ahead(A, P, G, t) = A \cup G
  BY <1>2, <1>3 DEF Ahead
<1> DEFINE full == ~Dispatchable(t, Cardinality(OnBranch(A \cup G, Work[t].branch)))
           Q == Append(P, [task |-> t, agent |-> a])
<1>6. Placed(p, t) = IF a = None \/ full THEN p
                     ELSE [made |-> Q, active |-> p.active \cup {t}, free |-> p.free \ {a}]
  BY <1>3 DEF Placed, Assigned
<1>7. t \notin G
  BY <1>2, <1>3
<1> HIDE DEF t, A, h, E, P, G, a, full, Q
<1>8. CASE a = None \/ full
  <2>1. PassedOver(A, h, E, P, G, t)
    <3>1. CASE full
      BY <1>5, <3>1 DEF PassedOver, full
    <3>2. CASE a = None /\ ~full
      <4>1. ASSUME NEW b \in E, RoleFits(t, b)
            PROVE  \E v \in Ahead(A, P, G, t) : Has(A, h, P, v, b)
        <5>1. a \notin p.free
          BY <1>3, <1>10, <3>2, Names
        <5>2. b \in AgentsOf(P)
          BY <1>3, <1>4, <4>1, <5>1
        <5>3. PICK k \in DOMAIN P : P[k].agent = b
          BY <5>2 DEF AgentsOf
        <5>4. P[k].task \in G
          BY DEF TasksOf, G
        <5> QED BY <1>5, <5>3, <5>4 DEF Has
      <4> QED BY <4>1 DEF PassedOver
    <3> QED BY <1>8, <3>1, <3>2
  <2>2. Placed(p, t) = p
    BY <1>6, <1>8
  <2>3. \A u \in Seen(w, n) \ G : PassedOver(A, h, E, P, G, u)
    BY <1>1, <1>3, <2>1
  <2>4. PlanShape(p)
    BY DEF Planned
  <2>5. Planned(p, w, n)
    <3>1. G \subseteq Seen(w, n)
      BY <1>1, <1>3
    <3> QED BY <1>3, <2>3, <2>4, <3>1 DEF Planned, A, h, E, P, G
  <2> QED BY <2>2, <2>5 DEF t
<1>9. CASE ~(a = None \/ full)
  <2>1. a \in p.free /\ RoleFits(t, a) /\ a \in Agents /\ a \in E
        /\ a \in FreeIn(A, h) /\ a \notin AgentsOf(P)
    <3>1. a \in p.free /\ RoleFits(t, a)
      BY <1>4, <1>9
    <3> QED BY <1>3, <1>10, <3>1
  <2>2. /\ Q \in Seq(Assignment) /\ Len(P) \in Nat
        /\ DOMAIN P = 1 .. Len(P) /\ DOMAIN Q = 1 .. Len(P) + 1
        /\ \A k \in DOMAIN P : Q[k] = P[k] /\ k # Len(P) + 1 /\ k \in DOMAIN Q
        /\ Q[Len(P) + 1].task = t /\ Q[Len(P) + 1].agent = a
        /\ \A k \in DOMAIN Q : k \in DOMAIN P \/ k = Len(P) + 1
        /\ TasksOf(Q) = G \cup {t} /\ AgentsOf(Q) = AgentsOf(P) \cup {a}
        /\ \A k \in DOMAIN P : Earlier(Q, k) = Earlier(P, k)
        /\ Earlier(Q, Len(P) + 1) = G
    BY <1>1, <1>3, <2>1, Appended DEF Q, G
  <2> DEFINE last == Len(P) + 1
             q == Placed(p, t)
  <2>3. /\ q.made = Q /\ q.active = A \cup TasksOf(Q)
        /\ q.free = E \ AgentsOf(Q) /\ AgentsOf(Q) \subseteq E
    <3>1. q = [made |-> Q, active |-> p.active \cup {t}, free |-> p.free \ {a}]
      BY <1>6, <1>9
    <3> HIDE DEF q
    <3>2. q.made = Q /\ q.active = p.active \cup {t} /\ q.free = p.free \ {a}
      BY <3>1
    <3> QED BY <1>3, <2>1, <2>2, <3>2
  <2> HIDE DEF q, last
  <2>4. \A k \in DOMAIN P : P[k].task # t /\ P[k].agent # a
    BY <1>7, <2>1 DEF TasksOf, AgentsOf, G
  <2>5. InTurn(A, h, Q)
    <3>1. ASSUME NEW k \in DOMAIN Q, NEW l \in DOMAIN Q, k # l
          PROVE  Q[k].task # Q[l].task /\ Q[k].agent # Q[l].agent
      <4>1. (k \in DOMAIN P \/ k = last) /\ (l \in DOMAIN P \/ l = last)
        BY <2>2 DEF last
      <4>2. CASE k \in DOMAIN P /\ l \in DOMAIN P
        BY <1>3, <2>2, <3>1, <4>2 DEF InTurn
      <4>3. CASE k = last /\ l \in DOMAIN P
        BY <2>2, <2>4, <4>3 DEF last
      <4>4. CASE k \in DOMAIN P /\ l = last
        BY <2>2, <2>4, <4>4 DEF last
      <4> QED BY <3>1, <4>1, <4>2, <4>3, <4>4
    <3>2. ASSUME NEW k \in DOMAIN Q
          PROVE  /\ Q[k].task \notin A /\ Q[k].agent \in FreeIn(A, h)
                 /\ RoleFits(Q[k].task, Q[k].agent)
                 /\ Dispatchable(Q[k].task, Cardinality(
                      OnBranch(A \cup Earlier(Q, k), Work[Q[k].task].branch)))
      <4>1. CASE k \in DOMAIN P
        <5>1. Q[k] = P[k] /\ Earlier(Q, k) = Earlier(P, k)
          BY <2>2, <4>1
        <5> QED BY <1>3, <4>1, <5>1 DEF InTurn
      <4>2. CASE k = last
        <5>1. Q[k].task = t /\ Q[k].agent = a /\ Earlier(Q, k) = G
          BY <2>2, <4>2 DEF last
        <5>2. Dispatchable(t, Cardinality(OnBranch(A \cup G, Work[t].branch)))
          BY <1>9 DEF full
        <5>3. t \notin A
          BY <1>1
        <5> QED BY <2>1, <5>1, <5>2, <5>3
      <4>3. k \in DOMAIN P \/ k = last
        BY <2>2 DEF last
      <4> QED BY <4>1, <4>2, <4>3
    <3> QED BY <3>1, <3>2 DEF InTurn
  <2>6. ASSUME NEW u \in Seen(w, n) \ TasksOf(Q)
        PROVE  PassedOver(A, h, E, Q, TasksOf(Q), u)
    <3>1. u \in Seen(w, n - 1) \ G /\ u # t /\ Precedes(u, t) /\ u \in Tasks
      BY <1>1, <1>2, <2>2
    <3>2. PassedOver(A, h, E, P, G, u)
      BY <1>3, <3>1
    <3>3. ~Precedes(t, u)
      BY <1>1, <3>1, PrecedesOrders
    <3>4. TasksOf(P) = G
      BY DEF G
    <3>5. Ahead(A, Q, TasksOf(Q), u) = Ahead(A, P, G, u)
      BY <1>1, <2>2, <3>3, <3>4 DEF Ahead
    <3>6. \A v, b : Has(A, h, P, v, b) => Has(A, h, Q, v, b)
      BY <2>2 DEF Has
    <3> QED BY <3>2, <3>5, <3>6 DEF PassedOver
  <2>7. TasksOf(Q) \subseteq Seen(w, n)
    BY <1>1, <1>3, <2>2
  <2>8. PlanShape(q)
    BY <1>10, <2>2, <2>3 DEF PlanShape
  <2>9. Planned(q, w, n)
    <3>1. q.active = InProgress \cup TasksOf(q.made)
          /\ q.free = Idle \ AgentsOf(q.made) /\ AgentsOf(q.made) \subseteq Idle
      BY <2>3 DEF A, E
    <3> QED BY <2>3, <2>5, <2>6, <2>7, <2>8, <3>1 DEF Planned, A, h, E
  <2> QED BY <2>9 DEF q, t
<1> QED BY <1>8, <1>9

(* So the plan for a whole queue can be claimed as it stands, and all its  *)
(* window is settled by it.                                                *)
LEMMA PlanSettles ==
  ASSUME TypeOK, NEW w \in Seq(Tasks),
         \A i \in 1 .. Len(w) : w[i] \notin InProgress,
         \A i, j \in 1 .. Len(w) : i < j => w[i] # w[j] /\ Precedes(w[i], w[j])
  PROVE  LET P == PlanFor(w, None) IN
         /\ InTurn(InProgress, holder, P) /\ TasksOf(P) \subseteq ToSet(w)
         /\ Settled(InProgress, holder, Idle, P, TasksOf(P), ToSet(w))
<1>1. PICK f : /\ PlanFor(w, None) = f[Len(w)].made
               /\ f[0] = NothingMade(None)
               /\ \A n \in 1 .. Len(w) : f[n] = Placed(f[n - 1], w[n])
  BY PlanLoop
<1> DEFINE Good == {n \in 0 .. Len(w) : Planned(f[n], w, n)}
<1>2. 0 \in Good
  BY <1>1, NothingPlanned
<1>3. ASSUME NEW n \in 1 .. Len(w), n - 1 \in Good PROVE n \in Good
  <2>1. n \in 0 .. Len(w) /\ Planned(f[n - 1], w, n - 1)
    BY <1>3
  <2>2. Planned(Placed(f[n - 1], w[n]), w, n)
    BY <2>1, PlacedFits
  <2> QED BY <1>1, <2>1, <2>2
<1>4. Good \subseteq 0 .. Len(w)
  OBVIOUS
<1>5. Len(w) \in Good
  <2> HIDE DEF Good
  <2> QED BY <1>2, <1>3, <1>4, LoopKeeps
<1>6. Seen(w, Len(w)) = ToSet(w)
  BY DEF Seen, ToSet
<1>7. Planned(f[Len(w)], w, Len(w))
  BY <1>5
<1> DEFINE P == f[Len(w)].made
<1>8. /\ InTurn(InProgress, holder, P) /\ AgentsOf(P) \subseteq Idle
      /\ TasksOf(P) \subseteq ToSet(w)
      /\ \A t \in ToSet(w) \ TasksOf(P) :
           PassedOver(InProgress, holder, Idle, P, TasksOf(P), t)
  BY <1>6, <1>7 DEF Planned
<1> HIDE DEF P
<1>9. ASSUME NEW v \in TasksOf(P), NEW a, Has(InProgress, holder, P, v, a)
      PROVE  a \in Idle
  <2>1. v \notin InProgress
    BY <1>8 DEF TasksOf, InTurn
  <2>2. a \in AgentsOf(P)
    BY <1>9, <2>1 DEF Has, AgentsOf
  <2> QED BY <1>8, <2>2
<1>10. Settled(InProgress, holder, Idle, P, TasksOf(P), ToSet(w))
  BY <1>8, <1>9 DEF Settled
<1> QED BY <1>1, <1>8, <1>10 DEF P

---------------------------------------------------------------------------
(* A claim.                                                                *)

(* The first assignment of a plan can be claimed, and when it is, the rest *)
(* can be claimed in turn and settles what the plan settled.               *)
LEMMA FirstIsClaimable ==
  ASSUME NEW A, NEW h, NEW P \in Seq(Assignment), P # << >>, InTurn(A, h, P)
  PROVE  /\ Head(P).task \in Tasks \ A /\ Head(P).agent \in FreeIn(A, h)
         /\ RoleFits(Head(P).task, Head(P).agent)
         /\ Dispatchable(Head(P).task,
              Cardinality(OnBranch(A, Work[Head(P).task].branch)))
<1>1. 1 \in DOMAIN P /\ Head(P) = P[1] /\ P[1] \in Assignment /\ DOMAIN P = 1 .. Len(P)
      /\ Len(P) \in Nat
  OBVIOUS
<1>2. Earlier(P, 1) = {}
  BY <1>1 DEF Earlier
<1>3. A \cup Earlier(P, 1) = A
  BY <1>2
<1> QED BY <1>1, <1>3 DEF InTurn, Assignment

(* The plan without its first assignment.                                  *)
LEMMA Remaining ==
  ASSUME NEW P \in Seq(Assignment), P # << >>
  PROVE  /\ Tail(P) \in Seq(Assignment)
         /\ 1 \in DOMAIN P /\ P[1] = Head(P) /\ P[1] \in Assignment
         /\ \A k \in DOMAIN Tail(P) : k + 1 \in DOMAIN P /\ Tail(P)[k] = P[k + 1]
                                      /\ k + 1 # 1 /\ k \in Nat
         /\ \A l \in DOMAIN P : l = 1 \/ \E k \in DOMAIN Tail(P) : l = k + 1
         /\ TasksOf(P) = {Head(P).task} \cup TasksOf(Tail(P))
         /\ \A k \in DOMAIN Tail(P) :
              {Head(P).task} \cup Earlier(Tail(P), k) = Earlier(P, k + 1)
<1> DEFINE n == Len(P)
           Q == Tail(P)
<1>1. /\ n \in Nat /\ n >= 1 /\ DOMAIN P = 1 .. n /\ P[1] = Head(P)
      /\ P[1] \in Assignment
  OBVIOUS
<1>2. Q \in Seq(Assignment) /\ DOMAIN Q = 1 .. n - 1
      /\ \A k \in 1 .. n - 1 : Q[k] = P[k + 1]
  OBVIOUS
<1> HIDE DEF n, Q
<1>3. \A k \in DOMAIN Q : k + 1 \in DOMAIN P /\ Q[k] = P[k + 1] /\ k + 1 # 1 /\ k \in Nat
  BY <1>1, <1>2
<1>4. ASSUME NEW l \in DOMAIN P PROVE l = 1 \/ \E k \in DOMAIN Q : l = k + 1
  <2>1. CASE l # 1
    <3>1. l - 1 \in DOMAIN Q /\ l = (l - 1) + 1
      BY <1>1, <1>2, <2>1
    <3> QED BY <3>1
  <2> QED BY <2>1
<1>5. TasksOf(P) = {Head(P).task} \cup TasksOf(Q)
  <2>1. 1 \in DOMAIN P
    BY <1>1
  <2> QED BY <1>1, <1>3, <1>4, <2>1 DEF TasksOf
<1>6. ASSUME NEW k \in DOMAIN Q
      PROVE  {Head(P).task} \cup Earlier(Q, k) = Earlier(P, k + 1)
  <2>1. ASSUME NEW l \in DOMAIN P, l < k + 1
        PROVE  l = 1 \/ \E i \in {j \in DOMAIN Q : j < k} : l = i + 1
    <3>1. CASE l # 1
      <4>1. PICK i \in DOMAIN Q : l = i + 1
        BY <1>4, <3>1
      <4>2. i < k
        BY <1>3, <2>1, <4>1
      <4> QED BY <4>1, <4>2
    <3> QED BY <3>1
  <2>2. \A i \in DOMAIN Q : i < k => i + 1 \in DOMAIN P /\ i + 1 < k + 1 /\ Q[i] = P[i + 1]
    BY <1>3
  <2>3. 1 \in DOMAIN P /\ 1 < k + 1
    BY <1>1, <1>2
  <2>4. Earlier(P, k + 1) \subseteq {Head(P).task} \cup Earlier(Q, k)
    BY <1>1, <1>3, <2>1 DEF Earlier
  <2>5. {Head(P).task} \cup Earlier(Q, k) \subseteq Earlier(P, k + 1)
    BY <1>1, <2>2, <2>3 DEF Earlier
  <2> QED BY <2>4, <2>5
<1>7. 1 \in DOMAIN P
  BY <1>1
<1> QED BY <1>1, <1>2, <1>3, <1>4, <1>5, <1>6, <1>7 DEF Q

LEMMA ClaimKeeps ==
  ASSUME NEW A \in SUBSET Tasks, NEW h \in [Tasks -> Agents \cup {None}],
         NEW P \in Seq(Assignment), P # << >>, InTurn(A, h, P), NEW E, NEW G, NEW W,
         Settled(A, h, E, P, G, W)
  PROVE  LET t == Head(P).task
             a == Head(P).agent
             g == [h EXCEPT ![t] = a]
         IN /\ InTurn(A \cup {t}, g, Tail(P))
            /\ Settled(A \cup {t}, g, E, Tail(P), G, W)
<1> DEFINE t == Head(P).task
           a == Head(P).agent
           g == [h EXCEPT ![t] = a]
           B == A \cup {t}
           Q == Tail(P)
<1>1. /\ Q \in Seq(Assignment)
      /\ 1 \in DOMAIN P /\ P[1] = Head(P) /\ P[1] \in Assignment
      /\ \A k \in DOMAIN Q : k + 1 \in DOMAIN P /\ Q[k] = P[k + 1]
                             /\ k + 1 # 1 /\ k \in Nat
      /\ \A l \in DOMAIN P : l = 1 \/ \E k \in DOMAIN Q : l = k + 1
      /\ TasksOf(P) = {t} \cup TasksOf(Q)
      /\ \A k \in DOMAIN Q : {t} \cup Earlier(Q, k) = Earlier(P, k + 1)
  BY Remaining
<1>2. t \in Tasks \ A /\ a \in FreeIn(A, h)
  BY FirstIsClaimable
<1>3. g[t] = a /\ \A v \in A : g[v] = h[v]
  BY <1>2
<1>4. P[1].task = t /\ P[1].agent = a
  BY <1>1
<1> HIDE DEF t, a, g, Q
<1>5. \A k \in DOMAIN Q : Q[k].task # t /\ Q[k].agent # a
  BY <1>1, <1>4 DEF InTurn
<1>6. FreeIn(B, g) = FreeIn(A, h) \ {a}
  BY <1>3 DEF FreeIn
<1>7. InTurn(B, g, Q)
  <2>1. ASSUME NEW k \in DOMAIN Q, NEW l \in DOMAIN Q, k # l
        PROVE  Q[k].task # Q[l].task /\ Q[k].agent # Q[l].agent
    <3>1. k + 1 \in DOMAIN P /\ l + 1 \in DOMAIN P /\ k + 1 # l + 1
          /\ Q[k] = P[k + 1] /\ Q[l] = P[l + 1]
      BY <1>1, <2>1
    <3> QED BY <3>1 DEF InTurn
  <2>2. ASSUME NEW k \in DOMAIN Q
        PROVE  /\ Q[k].task \notin B /\ Q[k].agent \in FreeIn(B, g)
               /\ RoleFits(Q[k].task, Q[k].agent)
               /\ Dispatchable(Q[k].task, Cardinality(
                    OnBranch(B \cup Earlier(Q, k), Work[Q[k].task].branch)))
    <3>1. k + 1 \in DOMAIN P /\ Q[k] = P[k + 1]
      BY <1>1
    <3>2. B \cup Earlier(Q, k) = A \cup Earlier(P, k + 1)
      BY <1>1
    <3>3. /\ Q[k].task \notin A /\ Q[k].agent \in FreeIn(A, h)
          /\ RoleFits(Q[k].task, Q[k].agent)
          /\ Dispatchable(Q[k].task, Cardinality(
               OnBranch(A \cup Earlier(P, k + 1), Work[Q[k].task].branch)))
      BY <3>1 DEF InTurn
    <3>4. Q[k].task \notin B /\ Q[k].agent \in FreeIn(B, g)
      BY <1>5, <1>6, <3>3
    <3> HIDE DEF B
    <3> QED BY <3>2, <3>3, <3>4
  <2> QED BY <2>1, <2>2 DEF InTurn
<1>8. Settled(B, g, E, Q, G, W)
  <2>1. B \cup TasksOf(Q) = A \cup TasksOf(P)
    BY <1>1
  <2>2. TasksOf(Q) \subseteq G /\ G \subseteq B \cup TasksOf(Q)
    BY <1>1, <2>1 DEF Settled
  <2>3. ASSUME NEW v, NEW b, Has(A, h, P, v, b)
        PROVE  Has(B, g, Q, v, b)
    <3>1. CASE v \in A /\ h[v] = b
      BY <1>3, <3>1 DEF Has
    <3>2. CASE \E l \in DOMAIN P : P[l].task = v /\ P[l].agent = b
      <4>1. PICK l \in DOMAIN P : P[l].task = v /\ P[l].agent = b
        BY <3>2
      <4>2. CASE l = 1
        <5>1. v = t /\ b = a
          BY <1>4, <4>1, <4>2
        <5> QED BY <1>3, <5>1 DEF Has
      <4>3. CASE l # 1
        <5>1. PICK k \in DOMAIN Q : l = k + 1
          BY <1>1, <4>3
        <5>2. Q[k] = P[l]
          BY <1>1, <5>1
        <5> QED BY <4>1, <5>2 DEF Has
      <4> QED BY <4>2, <4>3
    <3> QED BY <2>3, <3>1, <3>2 DEF Has
  <2>4. ASSUME NEW u \in W \ G PROVE PassedOver(B, g, E, Q, G, u)
    <3>1. PassedOver(A, h, E, P, G, u)
      BY DEF Settled
    <3>2. Ahead(B, Q, G, u) = Ahead(A, P, G, u)
      BY <2>1 DEF Ahead
    <3> HIDE DEF B
    <3> QED BY <2>3, <3>1, <3>2 DEF PassedOver
  <2>5. ASSUME NEW v \in G, NEW b, Has(B, g, Q, v, b) PROVE b \in E
    <3>1. Has(A, h, P, v, b)
      <4>1. CASE v = t /\ g[v] = b
        BY <1>1, <1>3, <1>4, <4>1 DEF Has
      <4>2. CASE v \in A /\ g[v] = b
        BY <1>3, <4>2 DEF Has
      <4>3. CASE \E k \in DOMAIN Q : Q[k].task = v /\ Q[k].agent = b
        BY <1>1, <4>3 DEF Has
      <4> QED BY <2>5, <4>1, <4>2, <4>3 DEF Has
    <3> QED BY <3>1 DEF Settled
  <2> QED BY <2>2, <2>4, <2>5 DEF Settled
<1> QED BY <1>7, <1>8 DEF t, a, g, Q

---------------------------------------------------------------------------
(* The invariant.                                                          *)

(* An agent holds at most one task.                                        *)
OneTaskEach ==
  /\ \A t \in InProgress : holder[t] \in Agents
  /\ \A t, u \in InProgress : holder[t] = holder[u] => t = u

(* What is left of a plan.                                                 *)
Promise ==
  /\ \A t \in TasksOf(pending) : status[t] = "queued"
  /\ InTurn(InProgress, holder, pending)
  /\ Settled(InProgress, holder, round.considered, pending, round.given, round.window)

Sound ==
  /\ TypeOK /\ OneTaskEach /\ PlanIsClaimed
  /\ pending # << >> /\ round.filter = None => Promise

LEMMA SoundInit == Init => Sound
<1> SUFFICES ASSUME Init PROVE Sound
  OBVIOUS
<1>1. InProgress = {}
  BY DEF Init, InProgress
<1>2. TypeOK
  BY <1>1 DEF Init, TypeOK, Round, Statuses, Record
<1> QED BY <1>1, <1>2 DEF Init, Sound, OneTaskEach, PlanIsClaimed

LEMMA TasksFit ==
  ASSUME NEW P \in Seq(Assignment)
  PROVE  TasksOf(P) \in SUBSET Tasks
<1>1. \A k \in DOMAIN P : P[k] \in Assignment
  OBVIOUS
<1>2. \A k \in DOMAIN P : P[k].task \in Tasks
  BY <1>1 DEF Assignment
<1> QED BY <1>2 DEF TasksOf

LEMMA QueueTaskSound ==
  ASSUME Sound, NEW t \in Tasks, QueueTask(t)
  PROVE  Sound'
<1>1. TypeOK /\ TypeOK'
  BY DEF Sound, QueueTask, TypeOK, Statuses
<1>2. InProgress' = InProgress
  BY <1>1 DEF QueueTask, InProgress, TypeOK
<1>3. \A u \in Tasks : status[u] = "queued" => status'[u] = "queued"
  BY <1>1 DEF QueueTask, TypeOK
<1>4. holder' = holder /\ pending' = pending /\ round' = round
  BY DEF QueueTask
<1>5. OneTaskEach' /\ PlanIsClaimed'
  BY <1>2, <1>4 DEF Sound, OneTaskEach, PlanIsClaimed
<1>6. ASSUME pending # << >>, round.filter = None PROVE Promise'
  <2>1. Promise
    BY <1>6 DEF Sound
  <2>2. TasksOf(pending) \in SUBSET Tasks
    BY <1>1, TasksFit DEF TypeOK
  <2>3. \A u \in TasksOf(pending) : status'[u] = "queued"
    BY <1>3, <2>1, <2>2 DEF Promise
  <2> QED BY <1>2, <1>4, <2>1, <2>3 DEF Promise
<1> QED BY <1>1, <1>4, <1>5, <1>6 DEF Sound

LEMMA DispatchTypeOK ==
  ASSUME TypeOK, NEW limit \in Windows, NEW filter \in Filters, Dispatch(limit, filter)
  PROVE  /\ TypeOK' /\ Window(limit, filter) \in Seq(Tasks)
         /\ round' = [filter |-> filter, window |-> ToSet(Window(limit, filter)),
                      considered |-> Idle, given |-> TasksOf(pending'),
                      missed |-> FALSE]
<1> DEFINE w == Window(limit, filter)
<1>1. limit \in Int
  BY PolicyAssumption
<1>2. w \in Seq(Queued(filter))
  BY <1>1, WindowFits
<1>3. w \in Seq(Tasks)
  <2> HIDE DEF w
  <2> QED BY <1>2 DEF Queued, Matching
<1> HIDE DEF w
<1>4. pending' = PlanFor(w, filter)
  BY DEF Dispatch, Begins, Begun, w
<1>5. pending' \in Seq(Assignment)
  BY <1>3, <1>4, PlanFits
<1>6. {ass.task : ass \in ToSet(pending')} = TasksOf(pending')
  BY DEF TasksOf, ToSet
<1>7. round' = [filter |-> filter, window |-> ToSet(w), considered |-> Idle,
                given |-> TasksOf(pending'), missed |-> FALSE]
  BY <1>6 DEF Dispatch, Begins, Begun, w
<1>8. ToSet(w) \in SUBSET Tasks /\ TasksOf(pending') \in SUBSET Tasks
  BY <1>3, <1>5, TasksFit DEF ToSet
<1>9. status' = status /\ holder' = holder /\ history' = history
      /\ available' = available
  BY DEF Dispatch
<1>10. round' \in Round
  <2>1. Idle \in SUBSET Agents
    BY DEF Idle, Free
  <2> QED BY <1>7, <1>8, <2>1 DEF Round
<1> QED BY <1>3, <1>5, <1>7, <1>9, <1>10 DEF TypeOK, w

(* A dispatch of the whole queue plans what can be claimed.                *)
LEMMA DispatchPromises ==
  ASSUME TypeOK, NEW limit \in Windows, NEW filter \in Filters,
         Dispatch(limit, filter), filter = None
  PROVE  Promise'
<1> DEFINE w == Window(limit, None)
<1>1. limit \in Int
  BY PolicyAssumption
<1>2. /\ w \in Seq(Queued(None))
      /\ \A i, j \in DOMAIN w : i < j => w[i] # w[j] /\ Precedes(w[i], w[j])
  BY <1>1, WindowFits
<1>3. w \in Seq(Tasks)
  BY DispatchTypeOK
<1> HIDE DEF w
<1>4. \A i \in DOMAIN w : w[i] \in Tasks /\ status[w[i]] = "queued"
  BY <1>2 DEF Queued, Matching
<1>5. DOMAIN w = 1 .. Len(w) /\ \A i \in 1 .. Len(w) : w[i] \notin InProgress
  BY <1>3, <1>4 DEF InProgress
<1>6. pending' = PlanFor(w, None)
  BY DEF Dispatch, Begins, Begun, w
<1>7. /\ InTurn(InProgress, holder, pending') /\ TasksOf(pending') \subseteq ToSet(w)
      /\ Settled(InProgress, holder, Idle, pending', TasksOf(pending'), ToSet(w))
  BY <1>2, <1>3, <1>5, <1>6, PlanSettles
<1>8. status' = status /\ holder' = holder /\ InProgress' = InProgress
  BY DEF Dispatch, InProgress
<1>9. /\ round'.given = TasksOf(pending') /\ round'.window = ToSet(w)
      /\ round'.considered = Idle
  BY DispatchTypeOK DEF w
<1>10. \A t \in TasksOf(pending') : status'[t] = "queued"
  BY <1>4, <1>7, <1>8 DEF ToSet
<1> QED BY <1>7, <1>8, <1>9, <1>10 DEF Promise

LEMMA GrownIsNumber ==
  ASSUME NEW n \in Nat
  PROVE  Grown(n) \in Nat
<1>1. MaxCount \in Nat
  BY PolicyAssumption
<1>2. Grown(n) = IF n + 1 <= MaxCount THEN n + 1 ELSE MaxCount
  BY <1>1, Smaller DEF Grown
<1> QED BY <1>1, <1>2

(* A claim by an agent without a task.                                     *)
LEMMA ClaimedFits ==
  ASSUME TypeOK, OneTaskEach, NEW t \in Tasks, NEW a \in Free, Claimed(t, a)
  PROVE  /\ status' \in [Tasks -> Statuses]
         /\ holder' \in [Tasks -> Agents \cup {None}]
         /\ history' \in [Agents -> Record] /\ available' \in SUBSET Agents
         /\ InProgress' = InProgress \cup {t}
         /\ OneTaskEach'
<1>1. a \in Agents /\ available' \in SUBSET Agents
  BY DEF Free, Claimed, TypeOK
<1>2. status' \in [Tasks -> Statuses] /\ holder' \in [Tasks -> Agents \cup {None}]
  BY <1>1 DEF Claimed, TypeOK, Statuses
<1>3. history' \in [Agents -> Record]
  <2>1. history[a] \in Record /\ history \in [Agents -> Record]
    BY <1>1 DEF TypeOK
  <2>2. Grown(history[a].claimed) \in Nat
    BY <2>1, GrownIsNumber DEF Record
  <2>3. Work[t].branch \in {Work[u].branch : u \in Tasks}
    OBVIOUS
  <2>4. [history[a] EXCEPT !.claimed = Grown(history[a].claimed),
                           !.last = Work[t].branch] \in Record
    BY <2>1, <2>2, <2>3 DEF Record
  <2>5. history' = [history EXCEPT ![a] =
          [history[a] EXCEPT !.claimed = Grown(history[a].claimed),
                             !.last = Work[t].branch]]
    BY <1>1, <2>1 DEF Claimed
  <2> QED BY <2>1, <2>4, <2>5
<1>4. InProgress' = InProgress \cup {t}
  BY DEF Claimed, TypeOK, InProgress
<1>5. holder'[t] = a /\ \A u \in Tasks : u # t => holder'[u] = holder[u]
  BY DEF Claimed, TypeOK
<1>6. OneTaskEach'
  <2>1. \A u \in InProgress : holder[u] # a /\ u \in Tasks
    BY DEF Free, InProgress
  <2>2. ASSUME NEW u \in InProgress', u # t
        PROVE  u \in InProgress /\ holder'[u] = holder[u]
    <3>1. u \in InProgress
      BY <1>4, <2>2
    <3> QED BY <1>5, <2>1, <2>2, <3>1
  <2>3. ASSUME NEW u \in InProgress' PROVE holder'[u] \in Agents
    BY <1>1, <1>5, <2>2 DEF OneTaskEach
  <2>4. ASSUME NEW u \in InProgress', NEW v \in InProgress', holder'[u] = holder'[v]
        PROVE  u = v
    <3>1. CASE u = t
      BY <1>5, <2>1, <2>2, <2>4, <3>1
    <3>2. CASE v = t
      BY <1>5, <2>1, <2>2, <2>4, <3>2
    <3>3. CASE u # t /\ v # t
      BY <2>2, <2>4, <3>3 DEF OneTaskEach
    <3> QED BY <3>1, <3>2, <3>3
  <2> QED BY <2>3, <2>4 DEF OneTaskEach
<1> QED BY <1>1, <1>2, <1>3, <1>4, <1>6

(* A claim of the plan for a whole queue is never refused, and keeps what  *)
(* the plan promises.                                                      *)
LEMMA ClaimPromises ==
  ASSUME Sound, ClaimAssigned, round.filter = None
  PROVE  /\ Claimable(Head(pending).task, Head(pending).agent)
         /\ Promise' /\ round' = round
<1> DEFINE t == Head(pending).task
           a == Head(pending).agent
<1>1. pending # << >> /\ pending' = Tail(pending) /\ pending \in Seq(Assignment)
  BY DEF ClaimAssigned, Sound, TypeOK
<1>2. Promise
  BY <1>1 DEF Sound
<1>3. /\ t \in Tasks \ InProgress /\ a \in FreeIn(InProgress, holder)
      /\ RoleFits(t, a)
      /\ Dispatchable(t, Cardinality(OnBranch(InProgress, Work[t].branch)))
  BY <1>1, <1>2, FirstIsClaimable DEF Promise
<1>4. /\ 1 \in DOMAIN pending /\ pending[1] = Head(pending)
      /\ TasksOf(pending) = {t} \cup TasksOf(Tail(pending))
      /\ \A k \in DOMAIN Tail(pending) : k + 1 \in DOMAIN pending
           /\ Tail(pending)[k] = pending[k + 1] /\ k + 1 # 1
  BY <1>1, Remaining
<1>5. status[t] = "queued"
  BY <1>2, <1>4 DEF Promise
<1>6. Claimable(t, a)
  BY <1>3, <1>5 DEF Claimable, FreeIn, Free
<1>7. Claimed(t, a) /\ round' = round
  BY <1>6 DEF ClaimAssigned
<1>8. InProgress' = InProgress \cup {t} /\ holder' = [holder EXCEPT ![t] = a]
  <2>1. TypeOK /\ OneTaskEach /\ a \in Free
    BY <1>6 DEF Sound, Claimable
  <2>2. t \in Tasks
    BY <1>3
  <2>3. InProgress' = InProgress \cup {t}
    BY <1>7, <2>1, <2>2, ClaimedFits
  <2> QED BY <1>7, <2>3 DEF Claimed
<1>9. /\ InTurn(InProgress', holder', pending')
      /\ Settled(InProgress', holder', round.considered, pending', round.given,
                 round.window)
  <2>1. InProgress \in SUBSET Tasks /\ holder \in [Tasks -> Agents \cup {None}]
    BY DEF Sound, TypeOK, InProgress
  <2>2. InTurn(InProgress, holder, pending)
        /\ Settled(InProgress, holder, round.considered, pending, round.given,
                   round.window)
    BY <1>2 DEF Promise
  <2>3. /\ InTurn(InProgress \cup {t}, [holder EXCEPT ![t] = a], Tail(pending))
        /\ Settled(InProgress \cup {t}, [holder EXCEPT ![t] = a], round.considered,
                   Tail(pending), round.given, round.window)
    BY <1>1, <2>1, <2>2, ClaimKeeps
  <2> QED BY <1>1, <1>8, <2>3
<1>10. ASSUME NEW u \in TasksOf(pending') PROVE status'[u] = "queued"
  <2>1. u \in TasksOf(pending) /\ status[u] = "queued"
    BY <1>1, <1>2, <1>4 DEF Promise
  <2>2. u # t
    <3>1. PICK k \in DOMAIN Tail(pending) : u = Tail(pending)[k].task
      BY <1>1 DEF TasksOf
    <3>2. k + 1 \in DOMAIN pending /\ u = pending[k + 1].task /\ k + 1 # 1
      BY <1>4, <3>1
    <3> QED BY <1>2, <1>4, <3>2 DEF Promise, InTurn
  <2>3. status' = [status EXCEPT ![t] = "in_progress"] /\ status \in [Tasks -> Statuses]
    BY <1>7 DEF Claimed, Sound, TypeOK
  <2> QED BY <2>1, <2>2, <2>3
<1> QED BY <1>6, <1>7, <1>9, <1>10 DEF Promise

(* And any other claim of a plan that comes to nothing changes no task.    *)
LEMMA ClaimAssignedSound ==
  ASSUME Sound, ClaimAssigned
  PROVE  Sound'
<1> DEFINE t == Head(pending).task
           a == Head(pending).agent
<1>1. /\ TypeOK /\ OneTaskEach /\ PlanIsClaimed /\ pending # << >>
      /\ pending' = Tail(pending) /\ pending \in Seq(Assignment)
  BY DEF ClaimAssigned, Sound, TypeOK
<1>2. Head(pending) \in Assignment /\ pending' \in Seq(Assignment)
  BY <1>1
<1>3. t \in Tasks /\ a \in Agents
  BY <1>2 DEF Assignment
<1> HIDE DEF t, a
<1>4. CASE Claimable(t, a)
  <2>1. Claimed(t, a) /\ round' = round /\ a \in Free
    BY <1>4 DEF ClaimAssigned, Claimable, t, a
  <2>2. /\ status' \in [Tasks -> Statuses]
        /\ holder' \in [Tasks -> Agents \cup {None}]
        /\ history' \in [Agents -> Record] /\ available' \in SUBSET Agents
        /\ OneTaskEach'
    BY <1>1, <1>3, <2>1, ClaimedFits
  <2>3. TypeOK'
    BY <1>1, <1>2, <2>1, <2>2 DEF TypeOK
  <2>4. PlanIsClaimed'
    BY <1>1, <2>1 DEF PlanIsClaimed
  <2>5. round.filter = None => Promise'
    BY ClaimPromises
  <2> QED BY <2>1, <2>2, <2>3, <2>4, <2>5 DEF Sound
<1>5. CASE ~Claimable(t, a)
  <2>1. round' = [round EXCEPT !.missed = TRUE]
        /\ status' = status /\ holder' = holder /\ history' = history
        /\ available' = available
    BY <1>5 DEF ClaimAssigned, t, a
  <2>2. round.filter # None
    BY <1>5, ClaimPromises DEF t, a
  <2>3. round \in Round
    BY <1>1 DEF TypeOK
  <2>4. round' \in Round /\ round'.filter = round.filter
    BY <2>1, <2>3 DEF Round
  <2>5. TypeOK'
    BY <1>1, <1>2, <2>1, <2>4 DEF TypeOK
  <2>6. OneTaskEach'
    BY <1>1, <2>1 DEF OneTaskEach, InProgress
  <2> QED BY <2>2, <2>4, <2>5, <2>6 DEF Sound, PlanIsClaimed
<1> QED BY <1>4, <1>5

LEMMA ClaimNextSound ==
  ASSUME Sound, NEW a \in Agents, ClaimNext(a)
  PROVE  Sound'
<1> DEFINE t == BestTask(a, Able)
<1>1. TypeOK /\ OneTaskEach /\ PlanIsClaimed /\ a \in Free
  BY DEF Sound, ClaimNext
<1>2. t \in Tasks
  <2>1. Able \in SUBSET Tasks
    BY DEF Able
  <2>2. t \in Able
    BY <1>1, <2>1, BestTaskFits DEF ClaimNext
  <2> QED BY <2>1, <2>2
<1>3. Claimed(t, a) /\ pending' = pending /\ round' = round /\ pending = << >>
  BY DEF ClaimNext
<1> HIDE DEF t
<1>4. /\ status' \in [Tasks -> Statuses]
      /\ holder' \in [Tasks -> Agents \cup {None}]
      /\ history' \in [Agents -> Record] /\ available' \in SUBSET Agents
      /\ OneTaskEach'
  BY <1>1, <1>2, <1>3, ClaimedFits
<1>5. TypeOK'
  BY <1>1, <1>3, <1>4 DEF TypeOK
<1> QED BY <1>1, <1>3, <1>4, <1>5 DEF Sound, PlanIsClaimed

LEMMA CompleteTaskSound ==
  ASSUME Sound, NEW t \in Tasks, NEW success \in BOOLEAN, CompleteTask(t, success)
  PROVE  Sound'
<1> DEFINE a == holder[t]
           h == history[a]
           failed == IF success THEN h.failed ELSE Grown(h.failed)
           next == [h EXCEPT !.completed = Grown(h.completed), !.failed = failed,
                             !.last = Work[t].branch]
<1>1. /\ TypeOK /\ OneTaskEach /\ PlanIsClaimed /\ pending = << >> /\ t \in InProgress
      /\ pending' = pending /\ round' = round /\ holder' = holder
      /\ status' = [status EXCEPT ![t] = IF success THEN "done" ELSE "failed"]
  BY DEF Sound, CompleteTask, InProgress
<1>2. a \in Agents /\ history \in [Agents -> Record] /\ h \in Record
  BY <1>1 DEF OneTaskEach, TypeOK
<1>3. history' = [history EXCEPT ![a] = next]
  BY <1>2 DEF CompleteTask
<1>4. history' \in [Agents -> Record]
  <2>1. Grown(h.completed) \in Nat /\ failed \in Nat
    BY <1>2, GrownIsNumber DEF Record
  <2>2. Work[t].branch \in {Work[u].branch : u \in Tasks}
    OBVIOUS
  <2> HIDE DEF a, h, failed
  <2>3. next \in Record
    BY <1>2, <2>1, <2>2 DEF Record
  <2> HIDE DEF next
  <2> QED BY <1>2, <1>3, <2>3
<1>5. TypeOK'
  <2>1. status' \in [Tasks -> Statuses]
    BY <1>1 DEF TypeOK, Statuses
  <2>2. available' \in SUBSET Agents
    BY <1>1, <1>2 DEF CompleteTask, TypeOK
  <2> QED BY <1>1, <1>4, <2>1, <2>2 DEF TypeOK
<1>6. OneTaskEach'
  <2>1. InProgress' \in SUBSET InProgress
    BY <1>1 DEF InProgress, TypeOK
  <2> QED BY <1>1, <2>1 DEF OneTaskEach
<1> QED BY <1>1, <1>5, <1>6 DEF Sound, PlanIsClaimed

LEMMA HeartbeatSound ==
  ASSUME Sound, NEW a \in Agents, NEW idle \in BOOLEAN, Heartbeat(a, idle)
  PROVE  Sound'
<1>1. UNCHANGED <<status, holder, history, pending, round>>
  BY DEF Heartbeat
<1>2. TypeOK'
  BY <1>1 DEF Heartbeat, Sound, TypeOK
<1> QED BY <1>1, <1>2 DEF Sound, OneTaskEach, PlanIsClaimed, Promise, InProgress

LEMMA DispatchSound ==
  ASSUME Sound, NEW limit \in Windows, NEW filter \in Filters, Dispatch(limit, filter)
  PROVE  Sound'
<1>1. TypeOK /\ OneTaskEach
  BY DEF Sound
<1>2. TypeOK' /\ round'.filter = filter /\ round'.missed = FALSE
  BY <1>1, DispatchTypeOK
<1>3. OneTaskEach'
  BY <1>1 DEF Dispatch, OneTaskEach, InProgress
<1>4. filter = None => Promise'
  BY <1>1, DispatchPromises
<1> QED BY <1>2, <1>3, <1>4 DEF Sound, PlanIsClaimed

LEMMA SoundStep == Sound /\ [Next]_vars => Sound'
<1> SUFFICES ASSUME Sound, [Next]_vars PROVE Sound'
  OBVIOUS
<1>1. CASE UNCHANGED vars
  BY <1>1 DEF vars, Sound, TypeOK, OneTaskEach, PlanIsClaimed, Promise, InProgress
<1>2. ASSUME NEW t \in Tasks, QueueTask(t) PROVE Sound'
  BY <1>2, QueueTaskSound
<1>3. ASSUME NEW t \in Tasks, NEW success \in BOOLEAN, CompleteTask(t, success)
      PROVE  Sound'
  BY <1>3, CompleteTaskSound
<1>4. ASSUME NEW limit \in Windows, NEW filter \in Filters, Dispatch(limit, filter)
      PROVE  Sound'
  BY <1>4, DispatchSound
<1>5. CASE ClaimAssigned
  BY <1>5, ClaimAssignedSound
<1>6. ASSUME NEW a \in Agents, ClaimNext(a) PROVE Sound'
  BY <1>6, ClaimNextSound
<1>7. ASSUME NEW a \in Agents, NEW idle \in BOOLEAN, Heartbeat(a, idle) PROVE Sound'
  BY <1>7, HeartbeatSound
<1> QED BY <1>1, <1>2, <1>3, <1>4, <1>5, <1>6, <1>7 DEF Next

(* Tasks, agents and plans keep their types.                               *)
THEOREM TypeCorrect == Spec => []TypeOK
<1>1. Sound => TypeOK
  BY DEF Sound
<1> QED BY <1>1, SoundInit, SoundStep, PTL DEF Spec

(* claim_task refuses no assignment of a plan for the whole queue,         *)
(* whatever is queued while the plan is carried out: it asks of the tasks, *)
(* agents and branches what build_dispatch_plan found.                     *)
THEOREM PlansAreClaimed == Spec => []PlanIsClaimed
<1>1. Sound => PlanIsClaimed
  BY DEF Sound
<1> QED BY <1>1, SoundInit, SoundStep, PTL DEF Spec

---------------------------------------------------------------------------
(* The end of a dispatch.                                                  *)

(* A plan that is carried out has settled its window.                      *)
LEMMA RoundSettles ==
  ASSUME Sound, [Next]_vars, RoundEnds, round'.filter = None
  PROVE  Settled(InProgress', holder', round'.considered, << >>, round'.given,
                 round'.window)
<1>1. pending' = << >> /\ (pending # << >> \/ round' # round)
  BY DEF RoundEnds
<1>2. Promise'
  <2>1. ASSUME NEW limit \in Windows, NEW filter \in Filters, Dispatch(limit, filter)
        PROVE  Promise'
    <3>1. round'.filter = filter /\ TypeOK
      BY <2>1, DispatchTypeOK DEF Sound
    <3> QED BY <2>1, <3>1, DispatchPromises
  <2>2. CASE ClaimAssigned
    <3>1. round'.filter = round.filter
      BY <2>2 DEF ClaimAssigned, Sound, TypeOK, Round
    <3> QED BY <2>2, <3>1, ClaimPromises
  <2>3. ASSUME NEW t \in Tasks, QueueTask(t) PROVE FALSE
    BY <1>1, <2>3 DEF QueueTask
  <2>4. ASSUME NEW t \in Tasks, NEW success \in BOOLEAN, CompleteTask(t, success)
        PROVE  FALSE
    BY <1>1, <2>4 DEF CompleteTask
  <2>5. ASSUME NEW a \in Agents, ClaimNext(a) PROVE FALSE
    BY <1>1, <2>5 DEF ClaimNext
  <2>6. ASSUME NEW a \in Agents, NEW idle \in BOOLEAN, Heartbeat(a, idle) PROVE FALSE
    BY <1>1, <2>6 DEF Heartbeat
  <2>7. ~UNCHANGED vars
    BY <1>1 DEF vars
  <2> QED BY <2>1, <2>2, <2>3, <2>4, <2>5, <2>6, <2>7 DEF Next
<1> QED BY <1>1, <1>2 DEF Promise

(* What a task t finds before it when all is claimed.                      *)
Served(A, G, t) == {v \in A : v \in G => Precedes(v, t)}

(* What a settled window W says then of the tasks A in progress.           *)
Closed(A, h, E, G, W) ==
  /\ G \subseteq A /\ \A v \in G : h[v] \in E
  /\ \A t \in W \ G :
       \/ ~Dispatchable(t, Cardinality(OnBranch(Served(A, G, t), Work[t].branch)))
       \/ \A a \in E : RoleFits(t, a) => \E v \in Served(A, G, t) : h[v] = a

(* When nothing is left to claim, what stands before a task is what is     *)
(* served before it.                                                       *)
LEMMA SettledEnd ==
  ASSUME NEW A \in SUBSET Tasks, NEW h, NEW E, NEW G, NEW W \in SUBSET Tasks,
         Settled(A, h, E, << >>, G, W)
  PROVE  Closed(A, h, E, G, W)
<1>1. TasksOf(<< >>) = {}
  BY DEF TasksOf
<1>2. \A v, a : Has(A, h, << >>, v, a) <=> v \in A /\ h[v] = a
  BY DEF Has
<1>3. ASSUME NEW t PROVE Ahead(A, << >>, G, t) = Served(A, G, t)
  BY <1>1 DEF Ahead, Served
<1> QED BY <1>1, <1>2, <1>3 DEF Settled, PassedOver, Closed

(* A dispatch that has been carried out.                                   *)
LEMMA RoundLeaves ==
  ASSUME Sound, [Next]_vars, RoundEnds, round'.filter = None
  PROVE  /\ InProgress' \in SUBSET Tasks /\ round'.window \in SUBSET Tasks
         /\ Closed(InProgress', holder', round'.considered, round'.given,
                   round'.window)
<1> DEFINE A == InProgress'
           G == round'.given
           E == round'.considered
           W == round'.window
           h == holder'
<1>1. Settled(A, h, E, << >>, G, W)
  BY RoundSettles
<1>2. A \in SUBSET Tasks /\ W \in SUBSET Tasks
  <2>1. TypeOK'
    BY SoundStep DEF Sound
  <2> QED BY <2>1 DEF TypeOK, Round, InProgress
<1> HIDE DEF A, G, E, W, h
<1>3. Closed(A, h, E, G, W)
  BY <1>1, <1>2, SettledEnd
<1> QED BY <1>2, <1>3 DEF A, G, E, W, h

(* A dispatch of the whole queue leaves no task of its window that an      *)
(* agent it looked at could claim.                                         *)
LEMMA NothingLeft ==
  ASSUME Sound, [Next]_vars, RoundEnds, round'.filter = None,
         NEW t \in round'.window, NEW a \in round'.considered
  PROVE  ~Claimable(t, a)'
<1> DEFINE A == InProgress'
           G == round'.given
           E == round'.considered
           F == Served(A, G, t)
<1>1. /\ A \in SUBSET Tasks /\ round'.window \in SUBSET Tasks /\ G \subseteq A
      /\ t \notin G =>
           \/ ~Dispatchable(t, Cardinality(OnBranch(F, Work[t].branch)))
           \/ \A b \in E : RoleFits(t, b) => \E v \in F : holder'[v] = b
  BY RoundLeaves DEF Closed
<1>2. t \in Tasks
  BY <1>1
<1>3. CASE t \in G
  <2>1. t \in A
    BY <1>1, <1>3
  <2> QED BY <2>1 DEF Claimable, InProgress
<1>4. CASE t \notin G
  <2>1. \/ ~Dispatchable(t, Cardinality(OnBranch(F, Work[t].branch)))
        \/ \A b \in E : RoleFits(t, b) => \E v \in F : holder'[v] = b
    BY <1>1, <1>4
  <2>2. CASE ~Dispatchable(t, Cardinality(OnBranch(F, Work[t].branch)))
    <3>1. F \in SUBSET A
      BY DEF Served
    <3> HIDE DEF F
    <3>2. ~Dispatchable(t, Cardinality(OnBranch(A, Work[t].branch)))
      BY <1>1, <1>2, <2>2, <3>1, FullStays
    <3> QED BY <3>2 DEF Claimable
  <2>3. CASE RoleFits(t, a) /\ \A b \in E : RoleFits(t, b) =>
                                 \E v \in F : holder'[v] = b
    <3>1. PICK v \in A : holder'[v] = a
      BY <2>3 DEF Served
    <3> HIDE DEF A
    <3>2. a \notin Free'
      BY <3>1 DEF Free, A
    <3> QED BY <3>2 DEF Claimable
  <2>4. CASE ~RoleFits(t, a)
    BY <2>4 DEF Claimable
  <2> QED BY <2>1, <2>2, <2>3, <2>4
<1> QED BY <1>3, <1>4

(* Nor was a task served before one of higher priority that its agent      *)
(* suited, unless what came before filled the branch of that one.          *)
LEMMA PriorityKept ==
  ASSUME Sound, [Next]_vars, RoundEnds, round'.filter = None,
         NEW u \in round'.given, NEW t \in round'.window \ round'.given,
         Precedes(t, u), RoleFits(t, holder'[u])
  PROVE  ~Dispatchable(t, Cardinality(
            {v \in OnBranch(InProgress', Work[t].branch) :
               v \in round'.given => Precedes(v, t)}))
<1> DEFINE A == InProgress'
           G == round'.given
           E == round'.considered
           F == Served(A, G, t)
<1>1. /\ A \in SUBSET Tasks /\ round'.window \in SUBSET Tasks /\ G \subseteq A
      /\ \A v \in G : holder'[v] \in E
      /\ \/ ~Dispatchable(t, Cardinality(OnBranch(F, Work[t].branch)))
         \/ \A b \in E : RoleFits(t, b) => \E v \in F : holder'[v] = b
  BY RoundLeaves DEF Closed
<1>2. TypeOK' /\ OneTaskEach'
  BY SoundStep DEF Sound
<1>3. u \in Tasks /\ t \in Tasks
  BY <1>1
<1>4. u \in A /\ u # t /\ holder'[u] \in E
  BY <1>1
<1>5. holder'[u] \in Agents /\ \A v \in A : holder'[v] = holder'[u] => v = u
  BY <1>2, <1>4 DEF OneTaskEach
<1>6. u \notin F
  <2>1. ~Precedes(u, t)
    BY <1>3, <1>4, PrecedesOrders
  <2> QED BY <2>1 DEF Served
<1>7. ~Dispatchable(t, Cardinality(OnBranch(F, Work[t].branch)))
  <2> SUFFICES ASSUME \A b \in E : RoleFits(t, b) => \E v \in F : holder'[v] = b
               PROVE  FALSE
    BY <1>1
  <2>1. PICK v \in F : holder'[v] = holder'[u]
    BY <1>4
  <2>2. v \in A
    BY <2>1 DEF Served
  <2> HIDE DEF F, A
  <2> QED BY <1>5, <1>6, <2>1, <2>2
<1>8. OnBranch(F, Work[t].branch) =
        {v \in OnBranch(A, Work[t].branch) : v \in G => Precedes(v, t)}
  BY DEF OnBranch, Served
<1> HIDE DEF F
<1> QED BY <1>7, <1>8 DEF A, G

(* A dispatch of the whole queue wastes none of the agents it looks at.    *)
THEOREM NothingIsWasted == Spec => NothingLeftWaiting
<1>1. Sound /\ [Next]_vars =>
        [RoundEnds /\ round'.filter = None =>
           \A t \in round'.window, a \in round'.considered : ~Claimable(t, a)']_vars
  BY NothingLeft
<1> QED BY <1>1, SoundInit, SoundStep, PTL DEF Spec, NothingLeftWaiting

(* Dispatching the whole queue serves tasks by priority.                   *)
THEOREM PrioritiesAreKept == Spec => PriorityIsKept
<1>1. Sound /\ [Next]_vars =>
        [RoundEnds /\ round'.filter = None =>
           \A u \in round'.given, t \in round'.window \ round'.given :
             Precedes(t, u) /\ RoleFits(t, holder'[u])
               => ~Dispatchable(t, Cardinality(
                     {v \in OnBranch(InProgress', Work[t].branch) :
                        v \in round'.given => Precedes(v, t)}))]_vars
  BY PriorityKept
<1> QED BY <1>1, SoundInit, SoundStep, PTL DEF Spec, PriorityIsKept
=============================================================================
