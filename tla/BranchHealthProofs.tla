------------------------- MODULE BranchHealthProofs -------------------------
(***************************************************************************)
(* BranchHealth: what a call may make of the plans, that the gate it       *)
(* leaves is the one PlannerRuntime assumes, and that the repair of a      *)
(* branch goes on by itself, for plans with any steps, any budget of       *)
(* disruptions and any window of the history.                              *)
(***************************************************************************)
EXTENDS BranchHealth, FiniteSetTheorems, SequenceTheorems,
        WellFoundedInduction, TLAPS

States == {"planned", "queued", "in_progress", "failed"}
PlanRecord ==
  [kind : Kinds, parent : Nat, step : Nat, state : States,
   disrupted : Nat, resolved : Nat]

(* A plan is at one of its steps, or past the last one and at rest, and a  *)
(* remediation belongs to a recovery made before it.                       *)
PlanFits(ps, i) ==
  /\ ps[i].step \in 1 .. Len(Steps[ps[i].kind]) + 1
  /\ ps[i].state # "planned" => ps[i].step <= Len(Steps[ps[i].kind])
  /\ ps[i].kind = "remediation" =>
       ps[i].parent \in 1 .. i - 1 /\ ps[ps[i].parent].kind = "recovery"
Files == {ps \in Seq(PlanRecord) : \A i \in DOMAIN ps : PlanFits(ps, i)}

HealthStates ==
  {"blocked", "degraded", "verifying", "recovering", "healthy", "observe"}
Observation ==
  [status : HealthStates, quality : Nat, confidence : Nat,
   gate : {"open", "guarded", "restricted", "blocked", "unknown"}]

(* The signature of a recovery's record has its health as third element.   *)
IsHistory(h) ==
  /\ h \in [window : Seq(Observation), last : {h.last},
            coverage : {"missing", "stale", "fresh"}]
  /\ Len(h.last) = 6 =>
       h.window # << >> /\ h.last[3].status = h.window[Len(h.window)].status

(* Type invariant.                                                         *)
TypeOK == plans \in Files /\ IsHistory(health) /\ env \in Envs

(* A branch as a call passes it on, and a later one of the same call.  A   *)
(* remediation that failed is given up.                                    *)
IsBranch(b) == b \in [plans : Files, health : {b.health}] /\ IsHistory(b.health)
Keeps(b, c) ==
  /\ IsBranch(c) /\ DOMAIN b.plans \subseteq DOMAIN c.plans
  /\ \A i \in DOMAIN b.plans :
       /\ c.plans[i].kind = b.plans[i].kind
       /\ c.plans[i].parent = b.plans[i].parent
       /\ b.plans[i].kind = "remediation" /\ b.plans[i].state = "failed" =>
            c.plans[i].state = "failed"

---------------------------------------------------------------------------
(* What a call is made of.                                                 *)

(* Every kind of plan has steps.                                           *)
LEMMA StepsFit ==
  ASSUME NEW kind \in Kinds
  PROVE  Len(Steps[kind]) \in Nat \ {0} /\ DOMAIN Steps[kind] = 1 .. Len(Steps[kind])
<1>1. Steps[kind] \in Seq(STRING) /\ Steps[kind] # << >>
  BY BranchHealthAssumption
<1> QED BY <1>1

(* A set of numbers that is not empty has a least one, and one that is     *)
(* bounded has a newest one.                                               *)
LEMMA LeastIn ==
  ASSUME NEW S \in SUBSET Nat, S # {}
  PROVE  Least(S) \in S /\ \A y \in S : Least(S) <= y
<1> DEFINE below == {ss \in Nat \X Nat : ss[1] < ss[2]}
<1>1. IsWellFoundedOn(below, Nat)
  BY NatLessThanWellFounded, Zenon DEF OpToRel
<1>2. PICK n \in S : \A m \in S : ~ (<<m, n>> \in below)
  BY <1>1, WFMin
<1>3. ASSUME NEW m \in S PROVE n <= m
  <2>1. m \in Nat /\ n \in Nat
    BY S \in SUBSET Nat, n \in S, m \in S
  <2>2. ~ (m < n)
    <3> SUFFICES ASSUME m < n PROVE <<m, n>> \in below
      BY <1>2
    <3> QED BY <2>1
  <2> QED BY <2>1, <2>2
<1> QED BY <1>3 DEF Least

LEMMA NewestIn ==
  ASSUME NEW n \in Nat, NEW S \in SUBSET (1 .. n), S # {}
  PROVE  Newest(S) \in S /\ \A y \in S : y <= Newest(S)
<1> DEFINE T == {n - x : x \in S}
<1>1. T \in SUBSET Nat /\ T # {}
  <2>1. \A x \in S : n - x \in Nat
    OBVIOUS
  <2> QED BY <2>1
<1>2. Least(T) \in T /\ \A k \in T : Least(T) <= k
  <2> HIDE DEF T
  <2> QED BY <1>1, LeastIn
<1>3. PICK x \in S : Least(T) = n - x
  BY <1>2
<1>4. \A y \in S : n - x <= n - y
  BY <1>2, <1>3
<1>5. \A y \in S : y <= x
  BY <1>4
<1> QED BY <1>5 DEF Newest

(* What holds at first and from each number on to the next.                *)
LEMMA CountsOn ==
  ASSUME NEW m \in Nat, NEW S, 0 \in S, \A n \in 1 .. m : n - 1 \in S => n \in S
  PROVE  m \in S
<1> DEFINE wrong == {n \in 0 .. m : n \notin S}
<1>1. wrong = {}
  <2> SUFFICES ASSUME wrong # {} PROVE FALSE
    OBVIOUS
  <2>1. wrong \in SUBSET Nat
    OBVIOUS
  <2> DEFINE k == Least(wrong)
  <2>2. k \in wrong /\ \A y \in wrong : k <= y
    <3> HIDE DEF wrong
    <3> QED BY <2>1, LeastIn
  <2> HIDE DEF k
  <2>3. k \in 1 .. m
    BY <2>2
  <2>4. k - 1 \in 0 .. m /\ ~ (k - 1 \in wrong)
    <3> HIDE DEF wrong
    <3> QED BY <2>1, <2>2, <2>3
  <2> QED BY <2>2, <2>3, <2>4
<1> QED BY <1>1

(* The plans of a file, by number.                                         *)
LEMMA FileFacts ==
  ASSUME NEW ps \in Files
  PROVE  /\ ps \in Seq(PlanRecord) /\ Len(ps) \in Nat /\ DOMAIN ps = 1 .. Len(ps)
         /\ \A i \in DOMAIN ps : ps[i] \in PlanRecord /\ PlanFits(ps, i)
BY DEF Files

---------------------------------------------------------------------------
(* What is recorded.                                                       *)

(* The end of a sequence.                                                  *)
LEMMA SuffixFits ==
  ASSUME NEW T, NEW w \in Seq(T), NEW n \in Nat
  PROVE  /\ Suffix(w, n) \in Seq(T)
         /\ Len(Suffix(w, n)) = IF Len(w) <= n THEN Len(w) ELSE n
         /\ \A i \in 1 .. Len(Suffix(w, n)) :
              Suffix(w, n)[i] = w[i + (Len(w) - Len(Suffix(w, n)))]
<1>1. CASE Len(w) <= n
  <2>1. Suffix(w, n) = w
    BY <1>1 DEF Suffix
  <2> QED BY <1>1, <2>1
<1>2. CASE ~ (Len(w) <= n)
  <2> DEFINE m == Len(w) - n + 1
             s == SubSeq(w, m, Len(w))
  <2>1. Suffix(w, n) = s
    BY <1>2 DEF Suffix
  <2>2. Len(w) \in Nat /\ m \in 1 .. Len(w) + 1
    BY <1>2
  <2>3. /\ s \in Seq(T)
        /\ Len(s) = IF m <= Len(w) THEN Len(w) - m + 1 ELSE 0
        /\ \A i \in 1 .. Len(w) - m + 1 : s[i] = w[m + i - 1]
    <3> HIDE DEF s, m
    <3>1. \A i \in m .. Len(w) : w[i] \in T
      BY <2>2
    <3> QED BY <2>2, <3>1, SubSeqProperties DEF s
  <2>4. Len(s) = n
    BY <1>2, <2>2, <2>3
  <2>5. ASSUME NEW i \in 1 .. n PROVE s[i] = w[i + (Len(w) - n)]
    <3>1. i \in 1 .. Len(w) - m + 1 /\ m + i - 1 = i + (Len(w) - n)
      BY <2>2
    <3> QED BY <2>3, <3>1
  <2> HIDE DEF s
  <2> QED BY <1>2, <2>1, <2>3, <2>4, <2>5
<1> QED BY <1>1, <1>2

(* The records that the pressure of a branch is read from.                 *)
LastSix(w) == Suffix(Suffix(w, DriftWindow), 6)

LEMMA LastSixFits ==
  ASSUME NEW w \in Seq(Observation)
  PROVE  /\ LastSix(w) \in Seq(Observation)
         /\ Len(w) \in Nat /\ DOMAIN w = 1 .. Len(w)
         /\ Len(LastSix(w)) \in Nat /\ DOMAIN LastSix(w) = 1 .. Len(LastSix(w))
         /\ Len(LastSix(w)) <= Len(w) /\ Len(LastSix(w)) <= 6
         /\ Len(LastSix(w)) <= DriftWindow
         /\ Len(LastSix(w)) \in {Len(w), 6, DriftWindow}
         /\ \A i \in 1 .. Len(LastSix(w)) :
              LastSix(w)[i] = w[i + (Len(w) - Len(LastSix(w)))]
<1> DEFINE horizon == Suffix(w, DriftWindow)
           last6 == LastSix(w)
<1>1. DriftWindow \in Nat \ {0} /\ Len(w) \in Nat /\ DOMAIN w = 1 .. Len(w)
  BY BranchHealthAssumption
<1>2. /\ horizon \in Seq(Observation)
      /\ Len(horizon) = IF Len(w) <= DriftWindow THEN Len(w) ELSE DriftWindow
      /\ \A i \in 1 .. Len(horizon) :
           horizon[i] = w[i + (Len(w) - Len(horizon))]
  BY <1>1, SuffixFits
<1>3. last6 = Suffix(horizon, 6)
  BY DEF LastSix
<1> HIDE DEF horizon, last6
<1>4. /\ last6 \in Seq(Observation)
      /\ Len(last6) = IF Len(horizon) <= 6 THEN Len(horizon) ELSE 6
      /\ \A i \in 1 .. Len(last6) :
           last6[i] = horizon[i + (Len(horizon) - Len(last6))]
  <2>1. horizon \in Seq(Observation) /\ 6 \in Nat
    BY <1>2
  <2> QED BY <1>3, <2>1, SuffixFits
<1>5. Len(horizon) \in Nat /\ Len(last6) \in Nat /\ DOMAIN last6 = 1 .. Len(last6)
  <2>1. horizon \in Seq(Observation) /\ last6 \in Seq(Observation)
    BY <1>2, <1>4
  <2> QED BY <2>1
<1>6. \A i \in 1 .. Len(last6) : last6[i] = w[i + (Len(w) - Len(last6))]
  <2> SUFFICES ASSUME NEW i \in 1 .. Len(last6)
               PROVE  last6[i] = w[i + (Len(w) - Len(last6))]
    OBVIOUS
  <2> DEFINE j == i + (Len(horizon) - Len(last6))
  <2>1. j \in 1 .. Len(horizon)
    BY <1>4, <1>5
  <2>2. last6[i] = horizon[j]
    BY <1>4
  <2>3. horizon[j] = w[j + (Len(w) - Len(horizon))]
    <3> HIDE DEF j
    <3> QED BY <1>2, <2>1
  <2>4. j + (Len(w) - Len(horizon)) = i + (Len(w) - Len(last6))
    BY <1>1, <1>5
  <2> QED BY <2>2, <2>3, <2>4
<1>7. /\ Len(last6) <= Len(w) /\ Len(last6) <= 6 /\ Len(last6) <= DriftWindow
      /\ Len(last6) \in {Len(w), 6, DriftWindow}
  BY <1>1, <1>2, <1>4, <1>5
<1> QED BY <1>1, <1>4, <1>5, <1>6, <1>7 DEF last6

(* The pressure is critical while a record of a blocked gate is among the  *)
(* last six of the window.                                                 *)
Alarm(w) ==
  \E i \in DOMAIN w :
    i > Len(w) - 6 /\ i > Len(w) - DriftWindow /\ w[i].gate = "blocked"

LEMMA AlarmRings ==
  ASSUME NEW w \in Seq(Observation)
  PROVE  Pressure(w) = "critical" <=> Alarm(w)
<1> DEFINE horizon == Suffix(w, DriftWindow)
           last6 == LastSix(w)
           blocked == {i \in DOMAIN last6 : last6[i].gate = "blocked"}
<1>1. DriftWindow \in Nat \ {0} /\ Len(w) \in Nat /\ DOMAIN w = 1 .. Len(w)
  BY BranchHealthAssumption
<1>3. /\ Len(last6) <= Len(w) /\ Len(last6) <= 6 /\ Len(last6) <= DriftWindow
      /\ Len(last6) \in {Len(w), 6, DriftWindow}
  BY LastSixFits
<1>4. Len(last6) \in Nat /\ DOMAIN last6 = 1 .. Len(last6)
  BY LastSixFits
<1>5. \A i \in 1 .. Len(last6) : last6[i] = w[i + (Len(w) - Len(last6))]
  BY LastSixFits
<1> HIDE DEF last6, horizon
<1>6. blocked # {} <=> Alarm(w)
  <2>1. ASSUME NEW i \in blocked PROVE Alarm(w)
    <3> DEFINE j == i + (Len(w) - Len(last6))
    <3>1. i \in 1 .. Len(last6) /\ last6[i].gate = "blocked"
      BY <1>4
    <3>2. /\ j \in 1 .. Len(w) /\ j > Len(w) - 6 /\ j > Len(w) - DriftWindow
      <4>1. /\ Len(last6) = Len(w) \/ Len(last6) = 6 \/ Len(last6) = DriftWindow
            /\ Len(last6) <= Len(w) /\ Len(last6) <= 6 /\ Len(last6) <= DriftWindow
        BY <1>3
      <4>2. /\ Len(last6) \in Nat /\ Len(w) \in Nat /\ DriftWindow \in Nat
            /\ i \in Nat /\ 1 <= i /\ i <= Len(last6)
        BY <1>1, <1>4, <3>1
      <4> QED BY <4>1, <4>2
    <3>3. w[j].gate = "blocked"
      BY <1>5, <3>1
    <3> HIDE DEF j
    <3> QED BY <1>1, <3>2, <3>3 DEF Alarm
  <2>2. ASSUME Alarm(w) PROVE blocked # {}
    <3>1. PICK j \in 1 .. Len(w) :
            j > Len(w) - 6 /\ j > Len(w) - DriftWindow /\ w[j].gate = "blocked"
      BY <1>1, <2>2 DEF Alarm
    <3> DEFINE i == j - (Len(w) - Len(last6))
    <3>2. i \in 1 .. Len(last6) /\ i + (Len(w) - Len(last6)) = j
      <4>1. Len(last6) = Len(w) \/ Len(last6) = 6 \/ Len(last6) = DriftWindow
        BY <1>3
      <4>2. /\ Len(last6) \in Nat /\ Len(w) \in Nat /\ DriftWindow \in Nat
            /\ j \in Nat /\ 1 <= j /\ j <= Len(w)
            /\ j > Len(w) - 6 /\ j > Len(w) - DriftWindow
        BY <1>1, <1>4, <3>1
      <4>3. j > Len(w) - Len(last6)
        <5>1. CASE Len(last6) = Len(w)
          BY <4>2, <5>1
        <5>2. CASE Len(last6) = 6
          BY <4>2, <5>2
        <5>3. CASE Len(last6) = DriftWindow
          BY <4>2, <5>3
        <5> QED BY <4>1, <5>1, <5>2, <5>3
      <4>4. i \in Int /\ 1 <= i /\ i <= Len(last6)
        BY <4>2, <4>3
      <4>5. i + (Len(w) - Len(last6)) = j
        BY <4>2
      <4> HIDE DEF i
      <4> QED BY <4>2, <4>4, <4>5
    <3> HIDE DEF i
    <3>3. last6[i] = w[j]
      BY <1>5, <3>2
    <3> QED BY <1>4, <3>1, <3>2, <3>3
  <2> QED BY <2>1, <2>2
<1>7. Gates(last6, "blocked") > 0 <=> blocked # {}
  <2>1. IsFiniteSet(DOMAIN last6)
    BY <1>4, FS_Interval
  <2>2. IsFiniteSet(blocked)
    BY <2>1, FS_Subset
  <2>3. Cardinality(blocked) \in Nat
          /\ (Cardinality(blocked) = 0 <=> blocked = {})
    <3> HIDE DEF blocked
    <3> QED BY <2>2, FS_CardinalityType, FS_EmptySet
  <2>4. Gates(last6, "blocked") = Cardinality(blocked)
    BY DEF Gates
  <2> HIDE DEF blocked
  <2> QED BY <2>3, <2>4
<1>8. Pressure(w) = "critical" <=> horizon # << >> /\ Gates(last6, "blocked") > 0
  <2>1. ASSUME NEW dq, NEW dc
        PROVE  PressureBy(last6, dq, dc) = "critical" <=> Gates(last6, "blocked") > 0
    BY DEF PressureBy, PressureLevel
  <2> QED BY <2>1 DEF Pressure, PressureOf, LastSix, horizon, last6
<1>9. horizon = << >> => blocked = {}
  <2>1. horizon = << >> => last6 = << >>
    BY DEF LastSix, Suffix, horizon, last6
  <2> QED BY <2>1
<1> QED BY <1>6, <1>7, <1>8, <1>9

(* A record of another gate never raises the alarm.                        *)
LEMMA AlarmFades ==
  ASSUME NEW w \in Seq(Observation), NEW o \in Observation, o.gate # "blocked",
         Alarm(Suffix(Append(w, o), MaxHistory))
  PROVE  Alarm(w)
<1> DEFINE long == Append(w, o)
           v == Suffix(long, MaxHistory)
<1>1. MaxHistory \in Nat \ {0} /\ DriftWindow \in Nat \ {0}
  BY BranchHealthAssumption
<1>2. /\ long \in Seq(Observation) /\ Len(long) = Len(w) + 1 /\ Len(w) \in Nat
      /\ long[Len(w) + 1] = o /\ \A i \in 1 .. Len(w) : long[i] = w[i]
  OBVIOUS
<1> HIDE DEF long
<1>3. /\ v \in Seq(Observation)
      /\ Len(v) = IF Len(long) <= MaxHistory THEN Len(long) ELSE MaxHistory
      /\ \A i \in 1 .. Len(v) : v[i] = long[i + (Len(long) - Len(v))]
  BY <1>1, <1>2, SuffixFits
<1>4. Alarm(v)
  BY DEF long
<1> HIDE DEF v
<1>5. PICK i \in 1 .. Len(v) :
        i > Len(v) - 6 /\ i > Len(v) - DriftWindow /\ v[i].gate = "blocked"
  BY <1>3, <1>4 DEF Alarm
<1> DEFINE j == i + (Len(long) - Len(v))
<1>6. /\ j \in 1 .. Len(w) + 1 /\ j > Len(w) - 6 /\ j > Len(w) - DriftWindow
  <2>1. v \in Seq(Observation)
    BY <1>3
  <2>2. Len(v) \in Nat
    BY <2>1
  <2>3. Len(long) = Len(w) + 1 /\ Len(w) \in Nat
    BY <1>2
  <2>4. Len(v) <= Len(long)
    BY <1>1, <1>3, <2>2, <2>3
  <2>5. i \in 1 .. Len(v) /\ i > Len(v) - 6 /\ i > Len(v) - DriftWindow
    BY <1>5
  <2> QED BY <1>1, <2>2, <2>3, <2>4, <2>5
<1>7. long[j].gate = "blocked"
  BY <1>3, <1>5
<1> HIDE DEF j
<1>8. j \in 1 .. Len(w) /\ w[j].gate = "blocked"
  BY <1>2, <1>6, <1>7
<1> QED BY <1>6, <1>8 DEF Alarm

(* The budget of disruptions is at least one, and an alarm only lowers it. *)
LEMMA BudgetFits ==
  ASSUME NEW w \in Seq(Observation)
  PROVE  /\ Budget(w) \in Nat \ {0}
         /\ Budget(w) = IF Alarm(w) /\ Threshold > 1 THEN Threshold - 1
                        ELSE Threshold
<1>1. Threshold \in 1 .. 6
  BY BranchHealthAssumption
<1>2. Budget(w) = IF Alarm(w) /\ Threshold > 1 THEN Threshold - 1 ELSE Threshold
  BY AlarmRings DEF Budget
<1> QED BY <1>1, <1>2

(* What was disrupted before and what fails now are numbers.               *)
LEMMA DisruptedIn ==
  ASSUME NEW p \in PlanRecord
  PROVE  Disrupted(p) \in Nat /\ Disrupted(p) >= p.disrupted
<1>1. Failing(p) \in Nat
  BY DEF Failing
<1> QED BY <1>1 DEF Disrupted, PlanRecord

(* A history that raises no new alarm requires no remediation either.      *)
LEMMA RequiredEases ==
  ASSUME NEW p \in PlanRecord, NEW w \in Seq(Observation),
         NEW v \in Seq(Observation), Alarm(v) => Alarm(w), ~Required(p, w)
  PROVE  ~Required(p, v)
<1>1. Threshold \in 1 .. 6
  BY BranchHealthAssumption
<1>2. Budget(w) <= Budget(v) /\ Budget(w) \in Nat /\ Budget(v) \in Nat
  BY <1>1, BudgetFits
<1>3. Disrupted(p) \in Nat /\ p.resolved \in Nat
  BY DisruptedIn DEF PlanRecord
<1> QED BY <1>2, <1>3 DEF Required

(* A sync records what is a record.                                        *)
LEMMA LookFits ==
  ASSUME NEW ps \in Files, NEW r \in DOMAIN ps, NEW window
  PROVE  LET look == Outlook(ps, r, window) IN
         /\ Observed(look.health, look.gate) \in Observation
         /\ look.gate = "blocked" =>
              look.health.status = "blocked" /\ Required(ps[r], window)
         /\ Bare(look.health) \in Observation
         /\ Remediation(ps, r, window).blocking <=> look.health.status = "blocked"
<1> DEFINE p == ps[r]
           used == Children(ps, r) # {}
           m == Remediation(ps, r, window)
           look == Outlook(ps, r, window)
           h == RecoveryHealth(ps, r, window)
           o == Observed(look.health, look.gate)
<1>1. p \in PlanRecord
  BY FileFacts
<1>2. Quality(p, used, m) \in Int /\ Confidence(p, used, m) \in Int
  <2> HIDE DEF p, used, m
  <2>1. \A c \in BOOLEAN, n \in Nat : Less(c, n) \in Nat
    BY DEF Less
  <2>2. Smaller(8 * Disrupted(p), 24) \in Int
    <3>1. Disrupted(p) \in Nat
      BY <1>1, DisruptedIn
    <3> QED BY <3>1 DEF Smaller
  <2>3. /\ Less(PlanStatus(p) # "completed", 18) \in Nat
        /\ Less(Open(p), 10) \in Nat /\ Less(p.disrupted > 0, 6) \in Nat
        /\ Less(used, 8) \in Nat /\ Less(used, 10) \in Nat
        /\ Less(m.status = "failed", 20) \in Nat
        /\ Less(m.status = "failed", 25) \in Nat
        /\ Less(m.blocking, 24) \in Nat /\ Less(m.blocking, 20) \in Nat
    BY DEF Less
  <2>4. CommonLoss(p) \in Int
    BY <2>2, <2>3 DEF CommonLoss
  <2> QED BY <2>3, <2>4 DEF Quality, Confidence
<1>3. h = HealthBy(p, used, m, CurrentPhase(p, m), Quality(p, used, m),
                   Confidence(p, used, m))
  BY DEF RecoveryHealth, HealthWith
<1>4. /\ h.quality \in Nat /\ h.confidence \in Nat /\ h.status \in HealthStates
      /\ h.status = "blocked" <=> m.blocking
  <2> HIDE DEF p, used, m, h
  <2>1. \A q \in Int : Clamped(q) \in Nat
    BY DEF Clamped
  <2>2. h.quality \in Nat /\ h.confidence \in Nat
    BY <1>2, <1>3, <2>1 DEF HealthBy
  <2>3. h.status = RecoveryStatus(p, used, m, CurrentPhase(p, m),
                     Quality(p, used, m), Confidence(p, used, m))
    BY <1>3 DEF HealthBy
  <2> HIDE DEF h
  <2>4. h.status \in HealthStates /\ (h.status = "blocked" <=> m.blocking)
    BY <2>3 DEF RecoveryStatus, HealthStates
  <2> QED BY <2>2, <2>4
<1>5. /\ look.health = h
      /\ look.gate = Gate(h.status, Direction(Append(window, Bare(h))),
                          Pressure(Append(window, Bare(h))))
  BY DEF Outlook, Joined, Beside, Judged
<1>6. m.blocking => Required(p, window)
  BY DEF Remediation, RemediationBy
<1> HIDE DEF h, look, m, p, used
<1>7. /\ look.gate \in {"open", "guarded", "restricted", "blocked"}
      /\ look.gate = "blocked" => h.status = "blocked"
  BY <1>5 DEF Gate
<1>8. o \in Observation /\ Bare(look.health) \in Observation
  BY <1>4, <1>5, <1>7 DEF Bare, Observed, Observation
<1> QED BY <1>4, <1>5, <1>6, <1>7, <1>8 DEF look, p, m, o

LEMMA RecordedFits ==
  ASSUME NEW h, IsHistory(h), NEW o \in Observation, NEW s,
         Len(s) = 6 => s[3].status = o.status
  PROVE  /\ IsHistory(Recorded(h, o, s))
         /\ o.gate # "blocked" =>
              (Alarm(Recorded(h, o, s).window) => Alarm(h.window))
<1> DEFINE v == Suffix(Append(h.window, o), MaxHistory)
           g == Recorded(h, o, s)
<1>1. h.window \in Seq(Observation) /\ h.coverage \in {"missing", "stale", "fresh"}
  BY DEF IsHistory
<1>2. v \in Seq(Observation) /\ v # << >> /\ v[Len(v)] = o
  <2> DEFINE long == Append(h.window, o)
  <2>1. /\ long \in Seq(Observation) /\ Len(long) \in Nat \ {0}
        /\ long[Len(long)] = o
    BY <1>1
  <2>2. MaxHistory \in Nat \ {0}
    BY BranchHealthAssumption
  <2> HIDE DEF long
  <2>3. /\ v \in Seq(Observation)
        /\ Len(v) = IF Len(long) <= MaxHistory THEN Len(long) ELSE MaxHistory
        /\ \A i \in 1 .. Len(v) : v[i] = long[i + (Len(long) - Len(v))]
    BY <2>1, <2>2, SuffixFits DEF long
  <2> HIDE DEF v
  <2>4. Len(v) \in Nat \ {0}
    BY <2>1, <2>2, <2>3
  <2>5. v[Len(v)] = long[Len(v) + (Len(long) - Len(v))]
    <3>1. Len(v) \in 1 .. Len(v)
      BY <2>4
    <3> QED BY <2>3, <3>1
  <2>6. Len(v) + (Len(long) - Len(v)) = Len(long)
    BY <2>1, <2>4
  <2> QED BY <2>1, <2>3, <2>4, <2>5, <2>6
<1>3. o.gate # "blocked" => (Alarm(v) => Alarm(h.window))
  BY <1>1, AlarmFades
<1> HIDE DEF v
<1>4. CASE s = h.last
  <2>1. g = h
    BY <1>4 DEF Recorded
  <2> QED BY <2>1
<1>5. CASE s # h.last
  <2>1. g = [window |-> v, last |-> s,
             coverage |-> IF h.coverage = "fresh" THEN "stale" ELSE h.coverage]
    BY <1>5 DEF Recorded, v
  <2> HIDE DEF g
  <2>2. IsHistory(g) /\ g.window = v
    BY <1>1, <1>2, <2>1 DEF IsHistory
  <2> QED BY <1>3, <2>2 DEF g
<1> QED BY <1>4, <1>5

LEMMA RecordFits ==
  ASSUME NEW ps \in Files, NEW i \in DOMAIN ps, NEW h, IsHistory(h)
  PROVE  /\ IsHistory(Record(ps, i, h))
         /\ ~ (ps[i].kind = "recovery" /\ Required(ps[i], h.window)) =>
              (Alarm(Record(ps, i, h).window) => Alarm(h.window))
<1> DEFINE look == Outlook(ps, i, h.window)
           o == Observed(look.health, look.gate)
           bare == Bare(StabilizationHealth(ps[i]))
<1>1. CASE ps[i].kind = "recovery"
  <2>1. o \in Observation /\ (look.gate = "blocked" => Required(ps[i], h.window))
    BY LookFits
  <2>2. o.gate = look.gate
    BY DEF Observed
  <2>3. PICK s : /\ Record(ps, i, h) = Recorded(h, o, s)
                 /\ s[3].status = o.status
    <3> DEFINE s == <<i, PlanStatus(ps[i]), look.health, look.gate,
                      Disrupted(ps[i]), ps[i].disrupted>>
    <3>1. Record(ps, i, h) = Recorded(h, o, s)
      BY <1>1 DEF Record, RecoveryRecorded
    <3> HIDE DEF look
    <3>2. s[3].status = o.status
      BY DEF Observed
    <3> QED BY <3>1, <3>2
  <2> HIDE DEF look, o
  <2> QED BY <1>1, <2>1, <2>2, <2>3, RecordedFits
<1>2. CASE ps[i].kind = "branch_stabilization" /\ ~Open(ps[i])
  <2>1. bare \in Observation /\ bare.gate = "unknown"
    BY DEF Bare, StabilizationHealth, Observed, Observation, HealthStates
  <2>2. PICK s : Record(ps, i, h) = Recorded(h, bare, s) /\ Len(s) # 6
    <3> DEFINE s == <<i, PlanStatus(ps[i])>>
    <3>1. Record(ps, i, h) = Recorded(h, bare, s)
      BY <1>2 DEF Record
    <3>2. Len(s) = 2
      OBVIOUS
    <3> QED BY <3>1, <3>2
  <2> HIDE DEF bare
  <2> QED BY <2>1, <2>2, RecordedFits
<1>3. CASE ps[i].kind # "recovery"
             /\ ~ (ps[i].kind = "branch_stabilization" /\ ~Open(ps[i]))
  <2>1. Record(ps, i, h) = h
    BY <1>3 DEF Record
  <2> QED BY <2>1
<1> QED BY <1>1, <1>2, <1>3

(* What a sync records in one pass over the plans.                         *)
LEMMA SyncSteps ==
  ASSUME NEW ps \in Files, NEW h
  PROVE  \E f : /\ f[0] = h
                /\ \A n \in 1 .. Len(ps) :
                     f[n] = Record(ps, Len(ps) + 1 - n, f[n - 1])
                /\ Sync(ps, h) = f[Len(ps)]
<1> DEFINE Step(n, g) == Record(ps, Len(ps) + 1 - n, g)
           Runs(f, k) ==
             f = [n \in 0 .. k |-> IF n = 0 THEN h ELSE Step(n, f[n - 1])]
           none == {k \in 0 .. Len(ps) : ~ \E f : Runs(f, k)}
<1> HIDE DEF Step
<1>1. Len(ps) \in Nat
  BY FileFacts
<1>2. none = {}
  <2> SUFFICES ASSUME none # {} PROVE FALSE
    OBVIOUS
  <2>1. none \in SUBSET Nat
    BY <1>1
  <2> DEFINE k == Least(none)
  <2>2. k \in none /\ \A y \in none : k <= y
    <3> HIDE DEF none
    <3> QED BY <2>1, LeastIn
  <2>3. k # 0
    <3>1. Runs([n \in 0 .. 0 |-> h], 0)
      OBVIOUS
    <3> HIDE DEF Runs
    <3> QED BY <2>2, <3>1
  <2>4. k \in 1 .. Len(ps) /\ ~ (k - 1 \in none)
    <3>1. k \in 0 .. Len(ps)
      <4> HIDE DEF k, Runs
      <4> QED BY <2>2
    <3> HIDE DEF k, none
    <3> QED BY <1>1, <2>2, <2>3, <3>1
  <2> HIDE DEF k
  <2>5. PICK f : Runs(f, k - 1)
    <3> HIDE DEF Runs
    <3> QED BY <1>1, <2>4
  <2> DEFINE g == [n \in 0 .. k |-> IF n = k THEN Step(k, f[k - 1]) ELSE f[n]]
  <2>6. Runs(g, k)
    <3>1. g = [n \in 0 .. k |-> IF n = 0 THEN h ELSE Step(n, g[n - 1])]
      <4>1. ASSUME NEW n \in 0 .. k
            PROVE  g[n] = IF n = 0 THEN h ELSE Step(n, g[n - 1])
        <5>1. CASE n = 0
          BY <2>4, <2>5, <5>1
        <5>2. CASE n \in 1 .. k - 1
          <6>1. f[n] = Step(n, f[n - 1])
            BY <2>4, <2>5, <5>2
          <6>2. g[n] = f[n] /\ g[n - 1] = f[n - 1] /\ n # 0
            BY <2>4, <5>2
          <6> QED BY <6>1, <6>2
        <5>3. CASE n = k
          <6>1. g[k] = Step(k, f[k - 1]) /\ g[k - 1] = f[k - 1]
            BY <2>4
          <6> HIDE DEF g
          <6> QED BY <2>4, <5>3, <6>1
        <5> QED BY <2>4, <5>1, <5>2, <5>3
      <4> QED BY <4>1
    <3> QED BY <3>1
  <2> HIDE DEF g, Runs
  <2> QED BY <2>2, <2>6
<1> DEFINE after == CHOOSE f : Runs(f, Len(ps))
<1>3. Runs(after, Len(ps))
  <2> HIDE DEF Runs
  <2> QED BY <1>1, <1>2
<1>4. Sync(ps, h) = after[Len(ps)]
  BY DEF Sync, Step
<1> HIDE DEF after
<1>5. /\ after[0] = h
      /\ \A n \in 1 .. Len(ps) : after[n] = Step(n, after[n - 1])
  BY <1>1, <1>3
<1> QED BY <1>4, <1>5 DEF Step

(* A sync keeps the history well formed.  Where the only recovery, if any, *)
(* requires no remediation, a sync raises no alarm, and none is required   *)
(* after it.                                                               *)
LEMMA SyncFits ==
  ASSUME NEW ps \in Files, NEW h, IsHistory(h)
  PROVE  /\ IsHistory(Sync(ps, h))
         /\ (\A r \in Recoveries(ps) : ~Required(ps[r], h.window)) =>
              (Alarm(Sync(ps, h).window) => Alarm(h.window))
<1> DEFINE calm == \A r \in Recoveries(ps) : ~Required(ps[r], h.window)
           Eases(g) == calm => (Alarm(g.window) => Alarm(h.window))
<1>1. Len(ps) \in Nat /\ DOMAIN ps = 1 .. Len(ps)
  BY FileFacts
<1>2. PICK f : /\ f[0] = h
               /\ \A n \in 1 .. Len(ps) :
                    f[n] = Record(ps, Len(ps) + 1 - n, f[n - 1])
               /\ Sync(ps, h) = f[Len(ps)]
  BY SyncSteps
<1>3. ASSUME NEW n \in 1 .. Len(ps), IsHistory(f[n - 1]), Eases(f[n - 1])
      PROVE  IsHistory(f[n]) /\ Eases(f[n])
  <2> DEFINE i == Len(ps) + 1 - n
             g == f[n - 1]
  <2>1. i \in DOMAIN ps /\ f[n] = Record(ps, i, g)
    BY <1>1, <1>2
  <2>2. IsHistory(g) /\ Eases(g)
    BY <1>3
  <2> HIDE DEF i, g
  <2>3. /\ IsHistory(Record(ps, i, g))
        /\ ~ (ps[i].kind = "recovery" /\ Required(ps[i], g.window)) =>
             (Alarm(Record(ps, i, g).window) => Alarm(g.window))
    BY <2>1, <2>2, RecordFits
  <2>4. ASSUME calm, ps[i].kind = "recovery" PROVE ~Required(ps[i], g.window)
    <3>1. ~Required(ps[i], h.window)
      BY <2>1, <2>4 DEF Recoveries, IdsOf
    <3>2. ps[i] \in PlanRecord
      BY <2>1, FileFacts
    <3>3. h.window \in Seq(Observation) /\ g.window \in Seq(Observation)
      BY <2>2 DEF IsHistory
    <3> QED BY <2>2, <2>4, <3>1, <3>2, <3>3, RequiredEases
  <2> HIDE DEF calm
  <2> QED BY <2>1, <2>2, <2>3, <2>4
<1> HIDE DEF Eases
<1> DEFINE S == {n \in 0 .. Len(ps) : IsHistory(f[n]) /\ Eases(f[n])}
<1>4. Len(ps) \in S
  <2>1. 0 \in S
    BY <1>1, <1>2 DEF Eases
  <2>2. \A n \in 1 .. Len(ps) : n - 1 \in S => n \in S
    BY <1>1, <1>3
  <2> HIDE DEF S
  <2> QED BY <1>1, <2>1, <2>2, CountsOn
<1>5. IsHistory(f[Len(ps)]) /\ Eases(f[Len(ps)])
  BY <1>4
<1> QED BY <1>2, <1>5 DEF Eases

---------------------------------------------------------------------------
(* What a call makes of the plans.                                         *)

(* The steps of a call follow one another.                                 *)
LEMMA KeepsOn ==
  ASSUME NEW b, NEW c, NEW d, Keeps(b, c), Keeps(c, d)
  PROVE  Keeps(b, d)
<1>1. /\ IsBranch(d) /\ DOMAIN b.plans \subseteq DOMAIN c.plans
      /\ DOMAIN c.plans \subseteq DOMAIN d.plans
  BY DEF Keeps
<1>2. ASSUME NEW i \in DOMAIN b.plans
      PROVE  /\ d.plans[i].kind = b.plans[i].kind
             /\ d.plans[i].parent = b.plans[i].parent
             /\ b.plans[i].kind = "remediation" /\ b.plans[i].state = "failed" =>
                  d.plans[i].state = "failed"
  BY <1>1 DEF Keeps
<1> QED BY <1>1, <1>2 DEF Keeps

LEMMA KeepsSelf ==
  ASSUME NEW b, IsBranch(b)
  PROVE  Keeps(b, b)
BY DEF Keeps

(* What a plan becomes when it moves on keeps its file well formed, as     *)
(* long as it stays the same plan.                                         *)
LEMMA PlanMoves ==
  ASSUME NEW ps \in Files, NEW i \in DOMAIN ps, NEW p \in PlanRecord,
         p.kind = ps[i].kind, p.parent = ps[i].parent,
         p.step \in 1 .. Len(Steps[p.kind]) + 1,
         p.state # "planned" => p.step <= Len(Steps[p.kind])
  PROVE  /\ [ps EXCEPT ![i] = p] \in Files
         /\ DOMAIN [ps EXCEPT ![i] = p] = DOMAIN ps
         /\ \A j \in DOMAIN ps : [ps EXCEPT ![i] = p][j] = IF j = i THEN p ELSE ps[j]
<1> DEFINE qs == [ps EXCEPT ![i] = p]
<1>1. /\ ps \in Seq(PlanRecord) /\ Len(ps) \in Nat /\ DOMAIN ps = 1 .. Len(ps)
      /\ \A j \in DOMAIN ps : PlanFits(ps, j)
  BY FileFacts
<1>2. qs \in Seq(PlanRecord) /\ DOMAIN qs = DOMAIN ps
  BY <1>1
<1>3. qs[i] = p /\ \A j \in DOMAIN ps \ {i} : qs[j] = ps[j]
  BY <1>2
<1>4. \A j \in DOMAIN ps : qs[j].kind = ps[j].kind /\ qs[j].parent = ps[j].parent
  BY <1>3
<1>5. ASSUME NEW j \in DOMAIN qs PROVE PlanFits(qs, j)
  <2> HIDE DEF qs
  <2>1. PlanFits(ps, j) /\ j \in 1 .. Len(ps)
    BY <1>1, <1>2, <1>5
  <2>2. qs[j].kind = "remediation" =>
          qs[j].parent \in 1 .. j - 1 /\ qs[qs[j].parent].kind = "recovery"
    <3> SUFFICES ASSUME qs[j].kind = "remediation"
                 PROVE  qs[j].parent \in 1 .. j - 1
                          /\ qs[qs[j].parent].kind = "recovery"
      OBVIOUS
    <3>1. /\ qs[j].parent = ps[j].parent /\ ps[j].parent \in 1 .. j - 1
          /\ ps[ps[j].parent].kind = "recovery"
      BY <1>1, <1>2, <1>4, <2>1 DEF PlanFits
    <3>2. ps[j].parent \in DOMAIN ps
      BY <1>1, <2>1, <3>1
    <3> QED BY <1>4, <3>1, <3>2
  <2>3. /\ qs[j].step \in 1 .. Len(Steps[qs[j].kind]) + 1
        /\ qs[j].state # "planned" => qs[j].step <= Len(Steps[qs[j].kind])
    <3>1. CASE j = i
      BY <1>3, <3>1
    <3>2. CASE j # i
      BY <1>2, <1>3, <2>1, <3>2 DEF PlanFits
    <3> QED BY <3>1, <3>2
  <2> QED BY <2>2, <2>3 DEF PlanFits
<1> HIDE DEF qs
<1>6. qs \in Files
  BY <1>2, <1>5 DEF Files
<1> QED BY <1>2, <1>3, <1>6 DEF qs

(* A call puts one plan, or the history, in the place of what was there.   *)
LEMMA BranchMoves ==
  ASSUME NEW b, IsBranch(b), NEW i \in DOMAIN b.plans, NEW p \in PlanRecord,
         p.kind = b.plans[i].kind, p.parent = b.plans[i].parent,
         p.step \in 1 .. Len(Steps[p.kind]) + 1,
         p.state # "planned" => p.step <= Len(Steps[p.kind]),
         p.kind = "remediation" /\ b.plans[i].state = "failed" => p.state = "failed"
  PROVE  /\ Keeps(b, [b EXCEPT !.plans[i] = p])
         /\ [b EXCEPT !.plans[i] = p].health = b.health
         /\ DOMAIN [b EXCEPT !.plans[i] = p].plans = DOMAIN b.plans
         /\ \A j \in DOMAIN b.plans : [b EXCEPT !.plans[i] = p].plans[j] =
                                      IF j = i THEN p ELSE b.plans[j]
<1> DEFINE qs == [b.plans EXCEPT ![i] = p]
           c == [b EXCEPT !.plans[i] = p]
<1>1. b.plans \in Files
  BY DEF IsBranch
<1>2. /\ qs \in Files /\ DOMAIN qs = DOMAIN b.plans
      /\ \A j \in DOMAIN b.plans : qs[j] = IF j = i THEN p ELSE b.plans[j]
  BY <1>1, PlanMoves
<1>3. c.plans = qs /\ c.health = b.health /\ c = [plans |-> qs, health |-> b.health]
  BY DEF IsBranch
<1> HIDE DEF c, qs
<1>4. IsBranch(c)
  BY <1>2, <1>3 DEF IsBranch
<1>5. Keeps(b, c)
  BY <1>2, <1>3, <1>4 DEF Keeps
<1> QED BY <1>2, <1>3, <1>5 DEF c

LEMMA HistoryMoves ==
  ASSUME NEW b, IsBranch(b), NEW h, IsHistory(h)
  PROVE  /\ Keeps(b, [b EXCEPT !.health = h])
         /\ [b EXCEPT !.health = h].plans = b.plans
         /\ [b EXCEPT !.health = h].health = h
<1> DEFINE c == [b EXCEPT !.health = h]
<1>1. c = [plans |-> b.plans, health |-> h] /\ c.plans = b.plans /\ c.health = h
  BY DEF IsBranch
<1> HIDE DEF c
<1>2. IsBranch(c)
  BY <1>1 DEF IsBranch
<1> QED BY <1>1, <1>2 DEF Keeps, c

(* A sync leaves the plans alone.                                          *)
LEMMA SyncedKeeps ==
  ASSUME NEW b, IsBranch(b)
  PROVE  /\ Keeps(b, Synced(b)) /\ Synced(b).plans = b.plans
         /\ Synced(b).health = Sync(b.plans, b.health)
<1>1. IsHistory(Sync(b.plans, b.health))
  BY SyncFits DEF IsBranch
<1> QED BY <1>1, HistoryMoves DEF Synced

(* A new plan comes last.                                                  *)
LEMMA MadeKeeps ==
  ASSUME NEW b, IsBranch(b), NEW kind \in Kinds, NEW parent \in Nat,
         kind = "remediation" =>
           parent \in DOMAIN b.plans /\ b.plans[parent].kind = "recovery"
  PROVE  /\ Keeps(b, Made(b, kind, parent))
         /\ Len(b.plans) + 1 \in DOMAIN Made(b, kind, parent).plans
         /\ Made(b, kind, parent).plans[Len(b.plans) + 1].kind = kind
<1> DEFINE ps == b.plans
           n == Len(ps)
           new == NewPlan(kind, parent)
           qs == Append(ps, new)
           c == Made(b, kind, parent)
<1>1. /\ ps \in Seq(PlanRecord) /\ n \in Nat /\ DOMAIN ps = 1 .. n
      /\ \A j \in DOMAIN ps : PlanFits(ps, j)
  <2>1. ps \in Files
    BY DEF IsBranch
  <2> QED BY <2>1, FileFacts
<1>2. /\ new \in PlanRecord /\ new.kind = kind /\ new.parent = parent
      /\ new.step = 1 /\ new.state = "planned"
  BY DEF NewPlan, PlanRecord, States
<1>3. c.plans = qs /\ c = [plans |-> qs, health |-> c.health]
  BY DEF Made
<1> HIDE DEF c, new
<1>4. /\ qs \in Seq(PlanRecord) /\ DOMAIN qs = 1 .. n + 1
      /\ qs[n + 1] = new /\ \A j \in 1 .. n : qs[j] = ps[j]
  BY <1>1, <1>2
<1> HIDE DEF qs
<1>5. ASSUME NEW j \in DOMAIN qs PROVE PlanFits(qs, j)
  <2>1. CASE j \in 1 .. n
    <3>1. PlanFits(ps, j) /\ qs[j] = ps[j]
      BY <1>1, <1>4, <2>1
    <3>2. ps[j].kind = "remediation" =>
            ps[j].parent \in 1 .. n /\ qs[ps[j].parent] = ps[ps[j].parent]
      <4> HIDE DEF ps, n
      <4> QED BY <1>1, <1>4, <2>1, <3>1 DEF PlanFits
    <3> HIDE DEF ps, n
    <3> QED BY <3>1, <3>2 DEF PlanFits
  <2>2. CASE j = n + 1
    <3>1. qs[j] = new
      BY <1>4, <2>2
    <3>2. 1 \in 1 .. Len(Steps[kind]) + 1
      BY StepsFit
    <3>3. kind = "remediation" => parent \in 1 .. j - 1 /\ qs[parent].kind = "recovery"
      <4>1. kind = "remediation" => parent \in 1 .. n /\ ps[parent].kind = "recovery"
        BY <1>1
      <4> HIDE DEF ps, n
      <4> QED BY <1>1, <1>4, <2>2, <4>1
    <3> HIDE DEF ps, n
    <3> QED BY <1>2, <3>1, <3>2, <3>3 DEF PlanFits
  <2> HIDE DEF ps, n
  <2> QED BY <1>1, <1>4, <1>5, <2>1, <2>2
<1> HIDE DEF n
<1>6. qs \in Files
  BY <1>4, <1>5 DEF Files
<1>7. IsBranch(c)
  <2>1. c.health = Record(qs, n + 1, b.health)
    <3>1. Len(qs) = n + 1
      BY <1>1, <1>4
    <3> QED BY <3>1 DEF Made, c, qs, new
  <2>2. IsHistory(c.health)
    BY <1>1, <1>4, <1>6, <2>1, RecordFits DEF IsBranch
  <2> QED BY <1>3, <1>6, <2>2 DEF IsBranch
<1>8. Keeps(b, c)
  BY <1>1, <1>3, <1>4, <1>7 DEF Keeps
<1>9. n + 1 \in DOMAIN c.plans /\ c.plans[n + 1].kind = kind
  BY <1>1, <1>2, <1>3, <1>4
<1> QED BY <1>8, <1>9 DEF c, n

---------------------------------------------------------------------------
(* The calls.                                                              *)

(* An open plan is at one of its steps.                                    *)
LEMMA OpenFits ==
  ASSUME NEW ps \in Files, NEW i \in DOMAIN ps, Open(ps[i])
  PROVE  ps[i].state # "failed" /\ ps[i].step <= Len(Steps[ps[i].kind])
<1>1. ps[i] \in PlanRecord
  BY FileFacts
<1>2. Len(Steps[ps[i].kind]) \in Nat
  BY <1>1, StepsFit DEF PlanRecord
<1> QED BY <1>1, <1>2 DEF Open, PlanStatus, PlanRecord

LEMMA QueuedKeeps ==
  ASSUME NEW b, IsBranch(b), NEW i \in DOMAIN b.plans
  PROVE  Keeps(b, Queued(b, i))
<1> DEFINE p == [b.plans[i] EXCEPT !.state = "queued"]
<1>1. CASE Open(b.plans[i])
  <2>1. b.plans \in Files
    BY DEF IsBranch
  <2>2. b.plans[i] \in PlanRecord /\ PlanFits(b.plans, i)
    BY <2>1, FileFacts
  <2>3. /\ p \in PlanRecord /\ p.kind = b.plans[i].kind
        /\ p.parent = b.plans[i].parent /\ p.step = b.plans[i].step
    BY <2>2 DEF PlanRecord, States
  <2>4. p.step \in 1 .. Len(Steps[p.kind]) + 1 /\ p.step <= Len(Steps[p.kind])
    BY <1>1, <2>1, <2>2, <2>3, OpenFits DEF PlanFits
  <2>5. [b EXCEPT !.plans[i].state = "queued"] = [b EXCEPT !.plans[i] = p]
    OBVIOUS
  <2> HIDE DEF p
  <2>6. b.plans[i].state # "failed"
    BY <1>1 DEF Open, PlanStatus
  <2>7. Keeps(b, [b EXCEPT !.plans[i] = p])
    BY <2>3, <2>4, <2>6, BranchMoves
  <2> QED BY <2>5, <2>7, KeepsSelf DEF Queued
<1>2. CASE ~Open(b.plans[i])
  BY <1>2, KeepsSelf DEF Queued
<1> QED BY <1>1, <1>2

LEMMA ExecutedKeeps ==
  ASSUME NEW b, IsBranch(b), NEW i \in DOMAIN b.plans
  PROVE  Keeps(b, Executed(b, i))
<1> DEFINE c == Synced(b)
           d == Queued(c, i)
<1>1. Keeps(b, c)
  BY SyncedKeeps
<1>2. Keeps(c, d)
  <2> HIDE DEF c
  <2> QED BY <1>1, QueuedKeeps DEF Keeps
<1>3. Keeps(d, Synced(d))
  <2> HIDE DEF d
  <2> QED BY <1>2, SyncedKeeps DEF Keeps
<1> HIDE DEF c, d
<1>4. Keeps(b, Synced(d))
  BY <1>1, <1>2, <1>3, KeepsOn
<1> QED BY <1>4 DEF Executed, c, d

(* A failed step is one of the plan's, so it has a next one.               *)
LEMMA CompensatedKeeps ==
  ASSUME NEW b, IsBranch(b), NEW r \in DOMAIN b.plans, b.plans[r].kind = "recovery"
  PROVE  Keeps(b, Compensated(b, r))
<1> DEFINE q == b.plans[r]
           p == PastFailure(q)
           c == [b EXCEPT !.plans[r] = p]
<1>1. CASE q.state = "failed"
  <2>1. b.plans \in Files
    BY DEF IsBranch
  <2>2. q \in PlanRecord /\ PlanFits(b.plans, r)
    BY <2>1, FileFacts
  <2> HIDE DEF q
  <2>3. Len(Steps[q.kind]) \in Nat
    BY <2>2, StepsFit DEF PlanRecord
  <2>4. /\ p \in PlanRecord /\ p.kind = q.kind /\ p.parent = q.parent
        /\ p.step = q.step + 1 /\ p.state = "planned"
    <3>1. Disrupted(q) \in Nat /\ q.step + 1 \in Nat
      BY <2>2, DisruptedIn DEF PlanRecord
    <3> QED BY <2>2, <3>1 DEF PastFailure, PlanRecord, States
  <2>5. p.step \in 1 .. Len(Steps[p.kind]) + 1
    BY <1>1, <2>2, <2>3, <2>4 DEF PlanFits, q
  <2> HIDE DEF p
  <2>6. Keeps(b, c)
    BY <2>4, <2>5, BranchMoves DEF q
  <2>7. Compensated(b, r) = Synced(c)
    BY <1>1 DEF Compensated, p, q
  <2> HIDE DEF c
  <2>8. Keeps(c, Synced(c))
    BY <2>6, SyncedKeeps DEF Keeps
  <2> QED BY <2>6, <2>7, <2>8, KeepsOn
<1>2. CASE q.state # "failed"
  BY <1>2, KeepsSelf DEF Compensated
<1> QED BY <1>1, <1>2

(* The latest child of a plan is one of its children.                      *)
LEMMA LatestChildIn ==
  ASSUME NEW ps \in Files, NEW r, LatestChild(ps, r) # NoPlan
  PROVE  LatestChild(ps, r) \in Children(ps, r)
<1> DEFINE some == Children(ps, r)
           open == {i \in some : Open(ps[i])}
<1>1. Len(ps) \in Nat /\ some \in SUBSET (1 .. Len(ps)) /\ some \in SUBSET Nat
  BY FileFacts DEF Children, IdsOf
<1>2. open \in SUBSET (1 .. Len(ps)) /\ open \subseteq some
  BY <1>1
<1>3. LatestChild(ps, r) =
        IF open # {} THEN Newest(open)
        ELSE IF some # {} THEN Least(some) ELSE NoPlan
  BY DEF LatestChild
<1> HIDE DEF open, some
<1>4. open # {} => Newest(open) \in open
  BY <1>1, <1>2, NewestIn
<1>5. some # {} => Least(some) \in some
  BY <1>1, LeastIn
<1> QED BY <1>2, <1>3, <1>4, <1>5 DEF some

LEMMA ContinuedKeeps ==
  ASSUME NEW b, IsBranch(b), NEW r \in DOMAIN b.plans, b.plans[r].kind = "recovery"
  PROVE  Keeps(b, Continued(b, r, LatestChild(b.plans, r)))
<1> DEFINE c == LatestChild(b.plans, r)
           d == Executed(b, c)
           e == Synced(Synced(b))
           f == Made(b, "remediation", r)
           n == Len(b.plans) + 1
           g == Executed(f, n)
<1>1. c # NoPlan => Keeps(b, Synced(d))
  <2> SUFFICES ASSUME c # NoPlan PROVE Keeps(b, Synced(d))
    OBVIOUS
  <2>1. c \in DOMAIN b.plans
    BY LatestChildIn DEF IsBranch, Children, IdsOf
  <2> HIDE DEF c
  <2>2. Keeps(b, d)
    BY <2>1, ExecutedKeeps
  <2> HIDE DEF d
  <2>3. Keeps(d, Synced(d))
    BY <2>2, SyncedKeeps DEF Keeps
  <2> QED BY <2>2, <2>3, KeepsOn
<1>2. Keeps(b, Executed(e, r))
  <2>1. Keeps(b, Synced(b))
    BY SyncedKeeps
  <2>2. Keeps(Synced(b), e)
    BY <2>1, SyncedKeeps DEF Keeps
  <2> HIDE DEF e
  <2>3. Keeps(b, e)
    BY <2>1, <2>2, KeepsOn
  <2>4. Keeps(e, Executed(e, r))
    BY <2>3, ExecutedKeeps DEF Keeps
  <2> QED BY <2>3, <2>4, KeepsOn
<1>3. Keeps(b, Synced(g))
  <2>1. Keeps(b, f) /\ n \in DOMAIN f.plans
    <3>1. "remediation" \in Kinds /\ r \in Nat
      BY FileFacts DEF IsBranch, Kinds
    <3> QED BY <3>1, MadeKeeps
  <2> HIDE DEF f, n
  <2>2. Keeps(f, g)
    BY <2>1, ExecutedKeeps DEF Keeps
  <2> HIDE DEF g
  <2>3. Keeps(g, Synced(g))
    BY <2>2, SyncedKeeps DEF Keeps
  <2> QED BY <2>1, <2>2, <2>3, KeepsOn
<1>4. Keeps(b, b)
  BY KeepsSelf
<1>5. \/ c # NoPlan /\ Continued(b, r, c) = Synced(d)
      \/ Continued(b, r, c) = Executed(e, r)
      \/ Continued(b, r, c) = Synced(g)
      \/ Continued(b, r, c) = b
  BY DEF Continued
<1> HIDE DEF d, e, f, g, n
<1> QED BY <1>1, <1>2, <1>3, <1>4, <1>5

LEMMA AdvancedKeeps ==
  ASSUME NEW b, IsBranch(b), NEW r \in DOMAIN b.plans, b.plans[r].kind = "recovery"
  PROVE  Keeps(b, Advanced(b, r))
<1> DEFINE c == Synced(b)
           d == Compensated(c, r)
           e == Continued(d, r, LatestChild(d.plans, r))
<1>1. Keeps(b, c)
  BY SyncedKeeps
<1>2. Keeps(c, d)
  <2> HIDE DEF c
  <2> QED BY <1>1, CompensatedKeeps DEF Keeps
<1>3. Keeps(d, e)
  <2> HIDE DEF c, d
  <2>1. IsBranch(d) /\ r \in DOMAIN d.plans /\ d.plans[r].kind = "recovery"
    BY <1>1, <1>2 DEF Keeps
  <2> QED BY <2>1, ContinuedKeeps
<1>4. Keeps(e, Synced(e))
  <2> HIDE DEF e
  <2> QED BY <1>3, SyncedKeeps DEF Keeps
<1>5. Advanced(b, r) = Synced(e)
  BY DEF Advanced, AdvancedFrom
<1> HIDE DEF c, d, e
<1> QED BY <1>1, <1>2, <1>3, <1>4, <1>5, KeepsOn

(* An agent reports a step that it was at.                                 *)
LEMMA ReportedKeeps ==
  ASSUME TypeOK, NEW i \in DOMAIN plans, NEW success \in BOOLEAN,
         plans[i].state = "in_progress"
  PROVE  Keeps(Branch, Reported(i, success))
<1> DEFINE q == plans[i]
           p == StepEnded(q, success)
<1>1. IsBranch(Branch) /\ Branch.plans = plans
  BY DEF TypeOK, IsBranch, Branch
<1>2. q \in PlanRecord /\ PlanFits(plans, i)
  BY FileFacts DEF TypeOK
<1>3. Reported(i, success) = [Branch EXCEPT !.plans[i] = p]
  BY <1>1 DEF Reported
<1>4. Len(Steps[q.kind]) \in Nat
  BY <1>2, StepsFit DEF PlanRecord
<1> HIDE DEF q
<1>5. /\ p \in PlanRecord /\ p.kind = q.kind /\ p.parent = q.parent
      /\ p.step \in q.step .. q.step + 1
      /\ p.state # "planned" => p.step = q.step
  <2>1. q.step + 1 \in Nat /\ q.step \in Nat
    BY <1>2 DEF PlanRecord
  <2>2. CASE success
    <3>1. p = [q EXCEPT !.step = q.step + 1, !.state = "planned"]
      BY <2>2 DEF StepEnded
    <3> HIDE DEF p
    <3>2. p \in PlanRecord
      BY <1>2, <2>1, <3>1 DEF PlanRecord, States
    <3>3. /\ p.kind = q.kind /\ p.parent = q.parent /\ p.step = q.step + 1
          /\ p.state = "planned"
      BY <1>2, <3>1 DEF PlanRecord
    <3> QED BY <2>1, <3>2, <3>3
  <2>3. CASE ~success
    <3>1. p = [q EXCEPT !.state = "failed"]
      BY <2>3 DEF StepEnded
    <3> HIDE DEF p
    <3>2. p \in PlanRecord
      BY <1>2, <3>1 DEF PlanRecord, States
    <3>3. p.kind = q.kind /\ p.parent = q.parent /\ p.step = q.step
      BY <1>2, <3>1 DEF PlanRecord
    <3> QED BY <2>1, <3>2, <3>3
  <2> QED BY <2>2, <2>3
<1>6. q.step \in 1 .. Len(Steps[q.kind])
  BY <1>2, <1>4 DEF PlanFits, q
<1>7. /\ p.step \in 1 .. Len(Steps[p.kind]) + 1
      /\ p.state # "planned" => p.step <= Len(Steps[p.kind])
  BY <1>4, <1>5, <1>6
<1> HIDE DEF p
<1> QED BY <1>1, <1>3, <1>5, <1>7, BranchMoves DEF q

(* The recovery of a remediation.                                          *)
LEMMA ParentIn ==
  ASSUME NEW ps \in Files, NEW c \in DOMAIN ps, ps[c].kind = "remediation"
  PROVE  ps[c].parent \in DOMAIN ps /\ ps[ps[c].parent].kind = "recovery"
<1>1. Len(ps) \in Nat /\ DOMAIN ps = 1 .. Len(ps)
  BY FileFacts
<1>2. ps[c].parent \in 1 .. c - 1 /\ ps[ps[c].parent].kind = "recovery"
  BY FileFacts DEF PlanFits
<1> QED BY <1>1, <1>2

(* Its disruptions are made good when it is finished, and it goes on.      *)
LEMMA ResolvedKeeps ==
  ASSUME NEW b, IsBranch(b), NEW r \in DOMAIN b.plans, b.plans[r].kind = "recovery"
  PROVE  Keeps(b, Resolved(b, r))
<1> DEFINE q == b.plans[r]
           p == [q EXCEPT !.resolved = Disrupted(q)]
           d == [b EXCEPT !.plans[r] = p]
<1>1. q \in PlanRecord /\ PlanFits(b.plans, r)
  BY FileFacts DEF IsBranch
<1>2. /\ p \in PlanRecord /\ p.kind = q.kind /\ p.parent = q.parent
      /\ p.step = q.step /\ p.state = q.state
  <2>1. Disrupted(q) \in Nat
    BY <1>1, DisruptedIn
  <2> HIDE DEF q
  <2> QED BY <1>1, <2>1 DEF PlanRecord
<1>3. /\ p.step \in 1 .. Len(Steps[p.kind]) + 1
      /\ p.state # "planned" => p.step <= Len(Steps[p.kind])
  BY <1>1, <1>2 DEF PlanFits
<1>4. Keeps(b, d)
  <2> HIDE DEF p
  <2> QED BY <1>2, <1>3, BranchMoves
<1>5. Resolved(b, r) = d
  BY DEF Resolved
<1> QED BY <1>4, <1>5

LEMMA RepairedKeeps ==
  ASSUME NEW b, IsBranch(b), NEW c \in DOMAIN b.plans, b.plans[c].kind = "remediation"
  PROVE  Keeps(b, Repaired(b, c))
<1> DEFINE r == b.plans[c].parent
           d == Resolved(b, r)
<1>1. r \in DOMAIN b.plans /\ b.plans[r].kind = "recovery"
  BY ParentIn DEF IsBranch
<1>2. Repaired(b, c) \in {b, Advanced(d, r)}
  BY DEF Repaired
<1> HIDE DEF r
<1>3. Keeps(b, d)
  BY <1>1, ResolvedKeeps
<1> HIDE DEF d
<1>4. IsBranch(d) /\ r \in DOMAIN d.plans /\ d.plans[r].kind = "recovery"
  BY <1>1, <1>3 DEF Keeps
<1>5. Keeps(d, Advanced(d, r))
  BY <1>4, AdvancedKeeps
<1> QED BY <1>2, <1>3, <1>5, KeepsOn, KeepsSelf

(* A plan that is made or taken over is no remediation.                    *)
LEMMA RefreshedKeeps ==
  ASSUME NEW b, IsBranch(b), NEW kind \in {"recovery", "branch_stabilization"},
         NEW i, i = NoPlan \/ i \in DOMAIN b.plans
  PROVE  Keeps(b, Refreshed(b, kind, i))
<1> DEFINE c == Made(b, kind, NoPlan)
           n == Len(b.plans) + 1
           d == [b EXCEPT !.health = Record(b.plans, i, @)]
<1>1. CASE i = NoPlan
  <2>1. Keeps(b, c) /\ n \in DOMAIN c.plans
    BY MadeKeeps DEF Kinds, NoPlan
  <2>2. Refreshed(b, kind, i) = Executed(c, n)
    BY <1>1 DEF Refreshed
  <2> HIDE DEF c, n
  <2>3. Keeps(c, Executed(c, n))
    BY <2>1, ExecutedKeeps DEF Keeps
  <2> QED BY <2>1, <2>2, <2>3, KeepsOn
<1>2. CASE i # NoPlan
  <2>1. Keeps(b, d)
    <3>1. IsHistory(Record(b.plans, i, b.health))
      BY <1>2, RecordFits DEF IsBranch
    <3> QED BY <3>1, HistoryMoves
  <2>2. Refreshed(b, kind, i) = Executed(d, i)
    BY <1>2 DEF Refreshed
  <2> HIDE DEF d
  <2>3. Keeps(d, Executed(d, i))
    BY <1>2, <2>1, ExecutedKeeps DEF Keeps
  <2> QED BY <2>1, <2>2, <2>3, KeepsOn
<1> QED BY <1>1, <1>2

(* What the present call has made of the branch.                           *)
LEMMA Results ==
  ASSUME NEW b, Keeps(Branch, b), Becomes(b), UNCHANGED env, TypeOK
  PROVE  TypeOK'
<1>1. /\ plans' = b.plans /\ b.plans \in Files
      /\ health' = b.health /\ IsHistory(b.health)
  BY DEF Becomes, Keeps, IsBranch
<1> QED BY <1>1 DEF TypeOK

(* An action keeps the types.                                              *)
LEMMA StepTypes ==
  ASSUME TypeOK, [Next]_vars
  PROVE  TypeOK'
<1>0. /\ IsBranch(Branch) /\ Branch.plans = plans /\ plans \in Files
      /\ DOMAIN plans = 1 .. Len(plans) /\ Len(plans) \in Nat
  BY FileFacts DEF TypeOK, IsBranch, Branch
<1>1. CASE StartRecovery
  <2> DEFINE b == Made(Branch, "recovery", NoPlan)
             n == Len(plans) + 1
  <2>1. Keeps(Branch, b) /\ n \in DOMAIN b.plans /\ b.plans[n].kind = "recovery"
    BY <1>0, MadeKeeps DEF Kinds, NoPlan
  <2>2. Becomes(Advanced(b, n)) /\ UNCHANGED env
    BY <1>1 DEF StartRecovery
  <2> HIDE DEF b, n
  <2>3. Keeps(b, Advanced(b, n))
    BY <2>1, AdvancedKeeps DEF Keeps
  <2> QED BY <2>1, <2>2, <2>3, KeepsOn, Results
<1>2. CASE Status
  <2>1. Keeps(Branch, Synced(Branch))
    BY <1>0, SyncedKeeps
  <2> QED BY <1>2, <2>1, Results DEF Status
<1>3. CASE RegisterSnapshot
  <2>1. health' = [health EXCEPT !.coverage = "fresh"] /\ UNCHANGED <<plans, env>>
    BY <1>3 DEF RegisterSnapshot
  <2>2. IsHistory(health')
    BY <2>1 DEF TypeOK, IsHistory
  <2> QED BY <2>1, <2>2 DEF TypeOK
<1>4. ASSUME NEW i \in Reusable("branch_stabilization"), Stabilize(i)
      PROVE  TypeOK'
  <2>1. i = NoPlan \/ i \in DOMAIN plans
    BY DEF Reusable, IdsOf
  <2>2. Keeps(Branch, Refreshed(Branch, "branch_stabilization", i))
    BY <1>0, <2>1, RefreshedKeeps
  <2> QED BY <1>4, <2>2, Results DEF Stabilize
<1>5. ASSUME NEW i \in Reusable("branch_stabilization"),
             NEW r \in Reusable("recovery"), Cycle(i, r)
      PROVE  TypeOK'
  <2> DEFINE b == Refreshed(Branch, "branch_stabilization", i)
             c == Refreshed(b, "recovery", r)
             d == Synced(c)
  <2>1. /\ i = NoPlan \/ i \in DOMAIN plans
        /\ r = NoPlan \/ r \in DOMAIN plans
    BY DEF Reusable, IdsOf
  <2>2. Keeps(Branch, b)
    BY <1>0, <2>1, RefreshedKeeps
  <2>3. Keeps(b, c)
    <3> HIDE DEF b
    <3>1. IsBranch(b) /\ (r = NoPlan \/ r \in DOMAIN b.plans)
      BY <1>0, <2>1, <2>2 DEF Keeps
    <3> QED BY <3>1, RefreshedKeeps
  <2>4. Keeps(c, d)
    <3> HIDE DEF c
    <3> QED BY <2>3, SyncedKeeps DEF Keeps
  <2>5. Keeps(d, Synced(d))
    <3> HIDE DEF d
    <3> QED BY <2>4, SyncedKeeps DEF Keeps
  <2>6. Keeps(Branch, Synced(Synced(Branch)))
    <3>1. Keeps(Branch, Synced(Branch))
      BY <1>0, SyncedKeeps
    <3>2. Keeps(Synced(Branch), Synced(Synced(Branch)))
      BY <3>1, SyncedKeeps DEF Keeps
    <3> QED BY <3>1, <3>2, KeepsOn
  <2>7. /\ Becomes(Synced(d)) \/ Becomes(Synced(Synced(Branch)))
        /\ UNCHANGED env
    BY <1>5 DEF Cycle, ActedOn
  <2> HIDE DEF b, c, d
  <2>8. Keeps(Branch, Synced(d))
    BY <2>2, <2>3, <2>4, <2>5, KeepsOn
  <2> QED BY <2>6, <2>7, <2>8, Results
<1>6. ASSUME NEW i \in DOMAIN plans, Advance(i)
      PROVE  TypeOK'
  <2>1. plans[i].kind = "recovery" /\ Becomes(Advanced(Branch, i)) /\ UNCHANGED env
    BY <1>6 DEF Advance
  <2>2. Keeps(Branch, Advanced(Branch, i))
    BY <1>0, <2>1, AdvancedKeeps
  <2> QED BY <2>1, <2>2, Results
<1>7. ASSUME NEW i \in DOMAIN plans, Take(i)
      PROVE  TypeOK'
  <2> DEFINE p == [plans[i] EXCEPT !.state = "in_progress"]
  <2>1. /\ plans[i].state = "queued" /\ UNCHANGED <<health, env>>
        /\ plans' = [plans EXCEPT ![i] = p]
    BY <1>7 DEF Take
  <2>2. plans[i] \in PlanRecord /\ PlanFits(plans, i)
    BY <1>0, FileFacts
  <2>3. /\ p \in PlanRecord /\ p.kind = plans[i].kind
        /\ p.parent = plans[i].parent /\ p.step = plans[i].step
    BY <2>2 DEF PlanRecord, States
  <2>4. p.step \in 1 .. Len(Steps[p.kind]) + 1 /\ p.step <= Len(Steps[p.kind])
    BY <2>1, <2>2, <2>3 DEF PlanFits
  <2> HIDE DEF p
  <2>5. plans' \in Files
    BY <1>0, <2>1, <2>3, <2>4, PlanMoves
  <2> QED BY <2>1, <2>5 DEF TypeOK
<1>8. ASSUME NEW i \in DOMAIN plans, NEW success \in BOOLEAN, Report(i, success)
      PROVE  TypeOK'
  <2> DEFINE b == Reported(i, success)
             c == Synced(b)
             d == Executed(c, i)
  <2>1. plans[i].state = "in_progress" /\ UNCHANGED env
    BY <1>8 DEF Report
  <2>2. Keeps(Branch, b)
    BY <2>1, ReportedKeeps
  <2>3. Becomes(CASE plans[i].kind = "recovery" -> Advanced(b, i)
                  [] plans[i].kind = "remediation" -> Repaired(d, i)
                  [] OTHER -> Synced(d))
    BY <1>8 DEF Report
  <2>4. Keeps(b, c)
    <3> HIDE DEF b
    <3> QED BY <2>2, SyncedKeeps DEF Keeps
  <2>5. Keeps(c, d)
    <3> HIDE DEF b, c
    <3>1. IsBranch(c) /\ i \in DOMAIN c.plans
      BY <1>0, <2>2, <2>4 DEF Keeps
    <3> QED BY <3>1, ExecutedKeeps
  <2> HIDE DEF b, c, d
  <2>6. IsBranch(b) /\ i \in DOMAIN b.plans /\ b.plans[i].kind = plans[i].kind
    BY <1>0, <2>2 DEF Keeps
  <2>7. Keeps(Branch, d) /\ IsBranch(d)
    BY <2>2, <2>4, <2>5, KeepsOn DEF Keeps
  <2>8. i \in DOMAIN d.plans /\ d.plans[i].kind = plans[i].kind
    BY <1>0, <2>7 DEF Keeps
  <2>9. CASE plans[i].kind = "recovery"
    <3>1. Keeps(b, Advanced(b, i))
      BY <2>6, <2>9, AdvancedKeeps
    <3>2. Becomes(Advanced(b, i))
      BY <2>3, <2>9
    <3> QED BY <2>1, <2>2, <3>1, <3>2, KeepsOn, Results
  <2>10. CASE plans[i].kind = "remediation"
    <3>1. Keeps(d, Repaired(d, i))
      BY <2>7, <2>8, <2>10, RepairedKeeps
    <3>2. Becomes(Repaired(d, i))
      BY <2>3, <2>10
    <3> QED BY <2>1, <2>7, <3>1, <3>2, KeepsOn, Results
  <2>11. CASE plans[i].kind \notin {"recovery", "remediation"}
    <3>1. Keeps(d, Synced(d))
      BY <2>7, SyncedKeeps
    <3>2. Becomes(Synced(d))
      BY <2>3, <2>11
    <3> QED BY <2>1, <2>7, <3>1, <3>2, KeepsOn, Results
  <2> QED BY <2>9, <2>10, <2>11
<1>9. CASE UNCHANGED vars
  BY <1>9 DEF vars, TypeOK
<1> QED BY <1>1, <1>2, <1>3, <1>4, <1>5, <1>6, <1>7, <1>8, <1>9 DEF Next

(* Plans are what they seem: no call, and no order of calls, leaves a plan *)
(* past its last step with a task for it, or a remediation without the     *)
(* recovery that it is to continue.                                        *)
THEOREM TypeCorrect == Spec => []TypeOK
<1>1. Init => TypeOK
  <2> SUFFICES ASSUME Init PROVE TypeOK
    OBVIOUS
  <2>1. plans \in Files
    BY DEF Init, Files
  <2>2. IsHistory(health)
    <3>1. health = [window |-> << >>, last |-> << >>, coverage |-> "missing"]
      BY DEF Init
    <3> QED BY <3>1 DEF IsHistory
  <2> QED BY <2>1, <2>2 DEF Init, TypeOK
<1>2. TypeOK /\ [Next]_vars => TypeOK'
  BY StepTypes
<1> QED BY <1>1, <1>2, PTL DEF Spec

---------------------------------------------------------------------------
(* The gate.                                                               *)

(* The recovery that is looked at is one of them, an open one if any is.   *)
LEMMA SelectedIn ==
  ASSUME TypeOK, Recoveries(plans) # {}
  PROVE  /\ Selected(plans) \in Recoveries(plans) /\ Selected(plans) # NoPlan
         /\ \/ Open(plans[Selected(plans)])
            \/ /\ Selected(plans) = Newest(Recoveries(plans))
               /\ \A r \in Recoveries(plans) : ~Open(plans[r])
<1> DEFINE rs == Recoveries(plans)
           open == {i \in rs : Open(plans[i])}
           s == Selected(plans)
<1>1. Len(plans) \in Nat /\ rs \in SUBSET (1 .. Len(plans))
  BY FileFacts DEF TypeOK, Recoveries, IdsOf
<1>2. open \in SUBSET (1 .. Len(plans)) /\ open \subseteq rs
  BY <1>1
<1>3. s = IF open # {} THEN Newest(open) ELSE Newest(rs)
  BY DEF Selected
<1>4. Newest(rs) \in rs
  BY <1>1, NewestIn
<1>5. open # {} => Newest(open) \in open
  BY <1>1, <1>2, NewestIn
<1>6. s \in rs
  BY <1>2, <1>3, <1>4, <1>5
<1>7. s # NoPlan
  BY <1>1, <1>6 DEF NoPlan
<1>8. Open(plans[s]) \/ (s = Newest(rs) /\ \A r \in rs : ~Open(plans[r]))
  BY <1>3, <1>5
<1> QED BY <1>6, <1>7, <1>8

(* How a recovery looks that is not over: its gate holds work back.        *)
LEMMA OpenGate ==
  ASSUME NEW ps, NEW r, NEW window, Open(ps[r])
  PROVE  Outlook(ps, r, window).gate \in {"restricted", "blocked"}
<1> DEFINE look == Outlook(ps, r, window)
           h == RecoveryHealth(ps, r, window)
<1>1. h.status \in {"blocked", "degraded", "verifying", "recovering"}
  BY DEF RecoveryHealth, HealthWith, HealthBy, RecoveryStatus, Open
<1>2. look.gate = Gate(h.status, Direction(Append(window, Bare(h))),
                       Pressure(Append(window, Bare(h))))
  BY DEF Outlook, Joined, Beside, Judged
<1> HIDE DEF h, look
<1> QED BY <1>1, <1>2 DEF Gate, look

(* How one looks that did not go smoothly.                                 *)
LEMMA TroubledGate ==
  ASSUME NEW ps \in Files, NEW r \in DOMAIN ps, NEW window,
         ps[r].disrupted > 0 \/ Children(ps, r) # {}
  PROVE  Outlook(ps, r, window).gate # "open"
<1> DEFINE look == Outlook(ps, r, window)
           h == RecoveryHealth(ps, r, window)
           used == Children(ps, r) # {}
<1>1. Disrupted(ps[r]) # 0 \/ used
  <2>1. ps[r] \in PlanRecord
    BY FileFacts
  <2>2. Disrupted(ps[r]) \in Nat /\ Disrupted(ps[r]) >= ps[r].disrupted
          /\ ps[r].disrupted \in Nat
    BY <2>1, DisruptedIn DEF PlanRecord
  <2> QED BY <2>2
<1>2. h.status # "healthy"
  <2> HIDE DEF used
  <2>1. h = HealthWith(ps[r], used, Remediation(ps, r, window))
    BY DEF RecoveryHealth, used
  <2> QED BY <1>1, <2>1 DEF HealthWith, HealthBy, RecoveryStatus
<1>3. h.status \in {"blocked", "degraded", "verifying", "recovering", "observe"}
  BY <1>2 DEF RecoveryHealth, HealthWith, HealthBy, RecoveryStatus
<1>4. look.gate = Gate(h.status, Direction(Append(window, Bare(h))),
                       Pressure(Append(window, Bare(h))))
  BY DEF Outlook, Joined, Beside, Judged
<1> HIDE DEF h, look
<1> QED BY <1>3, <1>4 DEF Gate, look

(* PlannerRuntime leaves open which gate a branch has, as long as it holds *)
(* operational work back while a recovery is to be done, and is not open   *)
(* after a disruption: so it is, whatever the history says.                *)
THEOREM GateHolds == Spec => []GateAsAssumed
<1>1. TypeOK => GateAsAssumed
  <2> SUFFICES ASSUME TypeOK PROVE GateAsAssumed
    OBVIOUS
  <2> DEFINE rs == Recoveries(plans)
             s == Selected(plans)
  <2>1. rs # {} => s # NoPlan /\ Now = Outlook(plans, s, health.window)
    BY SelectedIn DEF Now, BranchSummary
  <2>2. rs # {} /\ Open(plans[s]) => Now.gate \in {"restricted", "blocked"}
    BY <2>1, OpenGate
  <2>3. (\E r \in rs : Open(plans[r])) => Now.gate \in {"restricted", "blocked"}
    BY <2>2, SelectedIn
  <2>4. ASSUME rs # {},
               plans[Newest(rs)].disrupted > 0 \/ Children(plans, Newest(rs)) # {}
        PROVE  Now.gate # "open"
    <3>1. CASE Open(plans[s])
      BY <2>2, <2>4, <3>1
    <3>2. CASE ~Open(plans[s])
      <4>1. s = Newest(rs) /\ s \in DOMAIN plans
        BY <2>4, <3>2, SelectedIn DEF Recoveries, IdsOf
      <4> HIDE DEF s, rs
      <4>2. Outlook(plans, s, health.window).gate # "open"
        BY <2>4, <4>1, TroubledGate DEF TypeOK
      <4> QED BY <2>1, <2>4, <4>2
    <3> QED BY <3>1, <3>2
  <2> QED BY <2>3, <2>4 DEF GateAsAssumed
<1> QED BY <1>1, TypeCorrect, PTL

---------------------------------------------------------------------------
(* The repair of a branch.                                                 *)

(* While a branch has one recovery that is not over, and no remediation of *)
(* it was given up, a step of it or of a remediation is with the agents,   *)
(* and the recovery's own step only while no remediation is required.      *)
Active(p) == p.state \in {"queued", "in_progress"}
Concerned(ps, r) ==
  /\ Recoveries(ps) = {r} /\ Open(ps[r])
  /\ \A c \in Children(ps, r) : ps[c].state # "failed"
Going(ps, r) == \E i \in {r} \union Children(ps, r) : Active(ps[i])
Spared(b, r) == ~Required(b.plans[r], b.health.window)
Affordable(b, r) == Active(b.plans[r]) => Spared(b, r)
Afloat(b) ==
  \A r \in Recoveries(b.plans) :
    Concerned(b.plans, r) => Going(b.plans, r) /\ Affordable(b, r)

(* What is with the agents is not over.                                    *)
LEMMA ActiveOpen ==
  ASSUME NEW ps \in Files, NEW i \in DOMAIN ps, Active(ps[i])
  PROVE  Open(ps[i])
<1>1. ps[i] \in PlanRecord /\ PlanFits(ps, i)
  BY FileFacts
<1>2. Len(Steps[ps[i].kind]) \in Nat /\ ps[i].step \in Nat
  BY <1>1, StepsFit DEF PlanRecord
<1>3. ps[i].state \in {"queued", "in_progress"}
  BY DEF Active
<1>4. ps[i].step <= Len(Steps[ps[i].kind])
  BY <1>1, <1>3 DEF PlanFits
<1> QED BY <1>2, <1>3, <1>4 DEF Open, PlanStatus

(* An open plan that is not with the agents waits at its next step.        *)
LEMMA OpenWaits ==
  ASSUME NEW ps \in Files, NEW i \in DOMAIN ps, Open(ps[i]), ~Active(ps[i])
  PROVE  ps[i].state = "planned"
<1>1. ps[i] \in PlanRecord
  BY FileFacts
<1>2. ps[i].state # "failed" /\ ps[i].state \in States
  BY <1>1, OpenFits DEF PlanRecord
<1> QED BY <1>2 DEF Active, States

(* A remediation that is open is the one that is looked at.                *)
LEMMA LatestOpen ==
  ASSUME NEW ps \in Files, NEW r, NEW x \in Children(ps, r), Open(ps[x])
  PROVE  /\ LatestChild(ps, r) # NoPlan /\ LatestChild(ps, r) \in Children(ps, r)
         /\ Open(ps[LatestChild(ps, r)])
<1> DEFINE open == {i \in Children(ps, r) : Open(ps[i])}
<1>1. Len(ps) \in Nat /\ Children(ps, r) \in SUBSET (1 .. Len(ps))
  BY FileFacts DEF Children, IdsOf
<1>2. open \in SUBSET (1 .. Len(ps)) /\ open # {}
  BY <1>1
<1>3. LatestChild(ps, r) = Newest(open)
  BY <1>2 DEF LatestChild
<1>4. Newest(open) \in open
  <2> HIDE DEF open
  <2> QED BY <1>1, <1>2, NewestIn
<1>5. Newest(open) \in Children(ps, r) /\ Open(ps[Newest(open)])
  BY <1>4
<1> HIDE DEF open
<1>6. Newest(open) # NoPlan
  BY <1>1, <1>5 DEF NoPlan
<1> QED BY <1>3, <1>5, <1>6

(* Children are remediations of the plan, and with one recovery all        *)
(* remediations are its children.                                          *)
LEMMA ChildrenIn ==
  ASSUME NEW ps \in Files, NEW r, Recoveries(ps) = {r}
  PROVE  /\ r \in DOMAIN ps /\ ps[r].kind = "recovery"
         /\ Children(ps, r) = IdsOf(ps, "remediation")
         /\ r \notin Children(ps, r)
<1>1. r \in DOMAIN ps /\ ps[r].kind = "recovery"
  BY DEF Recoveries, IdsOf
<1>2. ASSUME NEW i \in IdsOf(ps, "remediation") PROVE ps[i].parent = r
  <2>1. /\ i \in DOMAIN ps /\ ps[i].kind = "remediation" /\ PlanFits(ps, i)
        /\ DOMAIN ps = 1 .. Len(ps) /\ Len(ps) \in Nat
    BY FileFacts DEF IdsOf
  <2>2. ps[i].parent \in 1 .. i - 1 /\ ps[ps[i].parent].kind = "recovery"
    BY <2>1 DEF PlanFits
  <2>3. ps[i].parent \in DOMAIN ps
    BY <2>1, <2>2
  <2>4. ps[i].parent \in Recoveries(ps)
    BY <2>2, <2>3 DEF Recoveries, IdsOf
  <2> QED BY <2>4
<1>3. Children(ps, r) = IdsOf(ps, "remediation")
  BY <1>2 DEF Children
<1>4. r \notin IdsOf(ps, "remediation")
  BY <1>1 DEF IdsOf
<1> QED BY <1>1, <1>3, <1>4

(* What concerns a branch has concerned it before.                         *)
LEMMA Before ==
  ASSUME NEW b, NEW c, Keeps(b, c), NEW r, Concerned(c.plans, r)
  PROVE  /\ Recoveries(b.plans) \subseteq {r}
         /\ \A x \in Children(b.plans, r) : b.plans[x].state # "failed"
<1>1. /\ DOMAIN b.plans \subseteq DOMAIN c.plans
      /\ \A i \in DOMAIN b.plans :
           /\ c.plans[i].kind = b.plans[i].kind
           /\ c.plans[i].parent = b.plans[i].parent
           /\ b.plans[i].kind = "remediation" /\ b.plans[i].state = "failed" =>
                c.plans[i].state = "failed"
  BY DEF Keeps
<1>2. /\ Recoveries(c.plans) = {r}
      /\ \A x \in Children(c.plans, r) : c.plans[x].state # "failed"
  BY DEF Concerned
<1>3. Recoveries(b.plans) \subseteq Recoveries(c.plans)
  BY <1>1 DEF Recoveries, IdsOf
<1>4. ASSUME NEW x \in Children(b.plans, r) PROVE b.plans[x].state # "failed"
  <2>1. /\ x \in DOMAIN b.plans /\ b.plans[x].kind = "remediation"
        /\ b.plans[x].parent = r
    BY DEF Children, IdsOf
  <2>2. x \in Children(c.plans, r)
    BY <1>1, <2>1 DEF Children, IdsOf
  <2> QED BY <1>1, <1>2, <2>1, <2>2
<1> QED BY <1>2, <1>3, <1>4

(* A sync makes nothing required for the only recovery of a branch.        *)
LEMMA SyncedSpares ==
  ASSUME NEW b, IsBranch(b), NEW r, Recoveries(b.plans) = {r}, Spared(b, r)
  PROVE  Spared(Synced(b), r)
<1>1. b.plans \in Files /\ IsHistory(b.health)
  BY DEF IsBranch
<1>2. Synced(b).plans = b.plans /\ Synced(b).health = Sync(b.plans, b.health)
  BY SyncedKeeps
<1>3. /\ IsHistory(Sync(b.plans, b.health))
      /\ Alarm(Sync(b.plans, b.health).window) => Alarm(b.health.window)
  BY <1>1, SyncFits DEF Spared
<1>4. b.plans[r] \in PlanRecord
  BY <1>1, ChildrenIn, FileFacts
<1>5. /\ b.health.window \in Seq(Observation)
      /\ Sync(b.plans, b.health).window \in Seq(Observation)
  BY <1>1, <1>3 DEF IsHistory
<1>6. ~Required(b.plans[r], Sync(b.plans, b.health).window)
  BY <1>3, <1>4, <1>5, RequiredEases DEF Spared
<1> QED BY <1>2, <1>6 DEF Spared

LEMMA SyncedAfloat ==
  ASSUME NEW b, IsBranch(b), Afloat(b)
  PROVE  Afloat(Synced(b))
<1> DEFINE c == Synced(b)
<1>1. c.plans = b.plans
  BY SyncedKeeps
<1>2. ASSUME NEW r \in Recoveries(b.plans), Concerned(b.plans, r)
      PROVE  Going(b.plans, r) /\ Affordable(c, r)
  <2>1. Going(b.plans, r) /\ Affordable(b, r) /\ Recoveries(b.plans) = {r}
    BY <1>2 DEF Afloat, Concerned
  <2>2. Spared(b, r) => Spared(c, r)
    BY <2>1, SyncedSpares
  <2> QED BY <1>1, <2>1, <2>2 DEF Affordable
<1> HIDE DEF c
<1> QED BY <1>1, <1>2 DEF Afloat, c

(* What it means to queue a step.                                          *)
LEMMA QueuedFacts ==
  ASSUME NEW b, IsBranch(b), NEW i \in DOMAIN b.plans
  PROVE  LET c == Queued(b, i)
             free == /\ b.plans[i].state = "planned" /\ Open(b.plans[i])
                     /\ ~TitleTaken(b.plans, i)
                     /\ b.plans[i].kind = "recovery" =>
                          ~Remediation(b.plans, i, b.health.window).blocking
         IN /\ c.health = b.health /\ DOMAIN c.plans = DOMAIN b.plans
            /\ \A j \in DOMAIN b.plans :
                 c.plans[j] = IF j = i /\ free THEN [b.plans[i] EXCEPT !.state = "queued"]
                              ELSE b.plans[j]
<1> DEFINE c == Queued(b, i)
           p == [b.plans[i] EXCEPT !.state = "queued"]
           free == /\ b.plans[i].state = "planned" /\ Open(b.plans[i])
                   /\ ~TitleTaken(b.plans, i)
                   /\ b.plans[i].kind = "recovery" =>
                        ~Remediation(b.plans, i, b.health.window).blocking
<1>1. b.plans \in Files
  BY DEF IsBranch
<1>2. c = IF free THEN [b EXCEPT !.plans[i].state = "queued"] ELSE b
  BY DEF Queued
<1>3. CASE free
  <2>1. [b EXCEPT !.plans[i].state = "queued"] = [b EXCEPT !.plans[i] = p]
    OBVIOUS
  <2>2. c = [b EXCEPT !.plans[i] = p]
    <3> HIDE DEF c, p, free
    <3> QED BY <1>2, <1>3, <2>1
  <2>3. b.plans[i] \in PlanRecord /\ PlanFits(b.plans, i)
    BY <1>1, FileFacts
  <2>4. /\ p \in PlanRecord /\ p.kind = b.plans[i].kind
        /\ p.parent = b.plans[i].parent /\ p.step = b.plans[i].step
    BY <2>3 DEF PlanRecord, States
  <2>5. p.step \in 1 .. Len(Steps[p.kind]) + 1 /\ p.step <= Len(Steps[p.kind])
    BY <1>1, <1>3, <2>3, <2>4, OpenFits DEF PlanFits
  <2>6. b.plans[i].state # "failed"
    BY <1>3
  <2> HIDE DEF p, c
  <2>7. /\ c.health = b.health /\ DOMAIN c.plans = DOMAIN b.plans
        /\ \A j \in DOMAIN b.plans : c.plans[j] = IF j = i THEN p ELSE b.plans[j]
    BY <2>2, <2>4, <2>5, <2>6, BranchMoves
  <2> HIDE DEF free
  <2> QED BY <1>3, <2>7 DEF p, c, free
<1>4. CASE ~free
  <2> HIDE DEF free
  <2>1. c = b
    BY <1>2, <1>4
  <2> QED BY <1>4, <2>1 DEF free
<1> QED BY <1>3, <1>4

(* Plans of which only some have been given to the agents.                 *)
Onward(ps, qs) ==
  /\ DOMAIN qs = DOMAIN ps
  /\ \A j \in DOMAIN ps :
       /\ qs[j].kind = ps[j].kind /\ qs[j].parent = ps[j].parent
       /\ Open(qs[j]) = Open(ps[j])
       /\ qs[j].state = "failed" <=> ps[j].state = "failed"
       /\ Disrupted(qs[j]) = Disrupted(ps[j]) /\ qs[j].resolved = ps[j].resolved
       /\ Active(ps[j]) => Active(qs[j])

LEMMA OnwardFacts ==
  ASSUME NEW ps, NEW qs, Onward(ps, qs), NEW r
  PROVE  /\ Recoveries(qs) = Recoveries(ps) /\ Children(qs, r) = Children(ps, r)
         /\ Concerned(qs, r) => Concerned(ps, r)
         /\ Recoveries(ps) = {r} /\ Going(ps, r) => Going(qs, r)
         /\ \A j \in DOMAIN ps : \A w : Required(qs[j], w) = Required(ps[j], w)
<1>1. /\ DOMAIN qs = DOMAIN ps
      /\ \A j \in DOMAIN ps :
           /\ qs[j].kind = ps[j].kind /\ qs[j].parent = ps[j].parent
           /\ Open(qs[j]) = Open(ps[j])
           /\ qs[j].state = "failed" <=> ps[j].state = "failed"
           /\ Disrupted(qs[j]) = Disrupted(ps[j]) /\ qs[j].resolved = ps[j].resolved
           /\ Active(ps[j]) => Active(qs[j])
  BY DEF Onward
<1>2. Recoveries(qs) = Recoveries(ps)
  BY <1>1 DEF Recoveries, IdsOf
<1>3. Children(qs, r) = Children(ps, r) /\ Children(ps, r) \subseteq DOMAIN ps
  BY <1>1 DEF Children, IdsOf
<1>4. Recoveries(ps) \subseteq DOMAIN ps
  BY DEF Recoveries, IdsOf
<1>5. Concerned(qs, r) => Concerned(ps, r)
  <2> SUFFICES ASSUME Concerned(qs, r) PROVE Concerned(ps, r)
    OBVIOUS
  <2>1. /\ Recoveries(ps) = {r} /\ Open(qs[r])
        /\ \A c \in Children(ps, r) : qs[c].state # "failed"
    BY <1>2, <1>3 DEF Concerned
  <2>2. r \in DOMAIN ps
    BY <1>4, <2>1
  <2>3. Open(ps[r])
    BY <1>1, <2>1, <2>2
  <2>4. \A c \in Children(ps, r) : ps[c].state # "failed"
    BY <1>1, <1>3, <2>1
  <2> QED BY <2>1, <2>3, <2>4 DEF Concerned
<1>6. ASSUME Recoveries(ps) = {r}, Going(ps, r) PROVE Going(qs, r)
  <2>1. PICK i \in {r} \union Children(ps, r) : Active(ps[i])
    BY <1>6 DEF Going
  <2>2. i \in DOMAIN ps
    BY <1>3, <1>4, <1>6, <2>1
  <2>3. Active(qs[i])
    BY <1>1, <2>1, <2>2
  <2> QED BY <1>3, <2>1, <2>3 DEF Going
<1>7. \A j \in DOMAIN ps : \A w : Required(qs[j], w) = Required(ps[j], w)
  BY <1>1 DEF Required
<1> QED BY <1>2, <1>3, <1>5, <1>6, <1>7

LEMMA QueuedOnward ==
  ASSUME NEW b, IsBranch(b), NEW i \in DOMAIN b.plans
  PROVE  Onward(b.plans, Queued(b, i).plans)
<1> DEFINE ps == b.plans
           qs == Queued(b, i).plans
           q == [ps[i] EXCEPT !.state = "queued"]
<1>1. /\ DOMAIN qs = DOMAIN ps
      /\ \A j \in DOMAIN ps : j # i => qs[j] = ps[j]
      /\ qs[i] # ps[i] => qs[i] = q /\ ps[i].state = "planned"
  BY QueuedFacts
<1>2. ps[i] \in PlanRecord
  BY FileFacts DEF IsBranch
<1> HIDE DEF qs, ps
<1>3. ASSUME qs[i] = q, ps[i].state = "planned"
      PROVE  /\ qs[i].kind = ps[i].kind /\ qs[i].parent = ps[i].parent
             /\ Open(qs[i]) = Open(ps[i])
             /\ qs[i].state = "failed" <=> ps[i].state = "failed"
             /\ Disrupted(qs[i]) = Disrupted(ps[i]) /\ qs[i].resolved = ps[i].resolved
             /\ Active(ps[i]) => Active(qs[i])
  <2>1. /\ qs[i].kind = ps[i].kind /\ qs[i].parent = ps[i].parent
        /\ qs[i].step = ps[i].step /\ qs[i].state = "queued"
        /\ qs[i].disrupted = ps[i].disrupted /\ qs[i].resolved = ps[i].resolved
    BY <1>2, <1>3 DEF PlanRecord
  <2>2. Open(qs[i]) = Open(ps[i])
    BY <1>3, <2>1 DEF Open, PlanStatus
  <2>3. Disrupted(qs[i]) = Disrupted(ps[i])
    BY <1>3, <2>1 DEF Disrupted, Failing
  <2>4. Active(qs[i])
    BY <2>1 DEF Active
  <2> QED BY <1>3, <2>1, <2>2, <2>3, <2>4
<1> HIDE DEF q
<1>4. ASSUME NEW j \in DOMAIN ps
      PROVE  /\ qs[j].kind = ps[j].kind /\ qs[j].parent = ps[j].parent
             /\ Open(qs[j]) = Open(ps[j])
             /\ qs[j].state = "failed" <=> ps[j].state = "failed"
             /\ Disrupted(qs[j]) = Disrupted(ps[j]) /\ qs[j].resolved = ps[j].resolved
             /\ Active(ps[j]) => Active(qs[j])
  <2>1. CASE qs[j] = ps[j]
    BY <2>1
  <2>2. CASE qs[j] # ps[j]
    BY <1>1, <1>3, <2>2
  <2> QED BY <2>1, <2>2
<1>5. Onward(ps, qs)
  BY <1>1, <1>4 DEF Onward
<1> QED BY <1>5 DEF ps, qs

(* A recovery that waits for its remediation is not queued with it.        *)
LEMMA QueuedAfloat ==
  ASSUME NEW b, IsBranch(b), NEW i \in DOMAIN b.plans, Afloat(b)
  PROVE  Afloat(Queued(b, i))
<1> DEFINE c == Queued(b, i)
           ps == b.plans
           w == b.health.window
<1>1. /\ ps \in Files /\ Keeps(b, c) /\ Onward(ps, c.plans) /\ c.health = b.health
      /\ \A j \in DOMAIN ps : j # i => c.plans[j] = ps[j]
  BY QueuedKeeps, QueuedOnward, QueuedFacts DEF IsBranch
<1>2. \/ c.plans[i] = ps[i]
      \/ /\ ps[i].state = "planned"
         /\ ps[i].kind = "recovery" => ~Remediation(ps, i, w).blocking
  BY QueuedFacts
<1> HIDE DEF c, ps
<1>3. ASSUME NEW r, Concerned(c.plans, r)
      PROVE  Going(c.plans, r) /\ Affordable(c, r)
  <2>1. Concerned(ps, r) /\ Recoveries(ps) = {r}
    BY <1>1, <1>3, OnwardFacts DEF Concerned
  <2>2. Going(ps, r) /\ Affordable(b, r)
    BY <2>1 DEF Afloat, ps
  <2>3. Going(c.plans, r)
    BY <1>1, <2>1, <2>2, OnwardFacts
  <2>4. r \in DOMAIN ps /\ ps[r].kind = "recovery"
    BY <1>1, <2>1, ChildrenIn
  <2>5. CASE c.plans[r] = ps[r]
    <3>1. Active(ps[r]) => ~Required(ps[r], w)
      BY <2>2 DEF Affordable, Spared, ps
    <3>2. Active(c.plans[r]) => ~Required(c.plans[r], c.health.window)
      BY <1>1, <2>5, <3>1
    <3> QED BY <2>3, <3>2 DEF Affordable, Spared
  <2>6. CASE c.plans[r] # ps[r]
    <3>1. r = i /\ ps[r].state = "planned" /\ ~Remediation(ps, r, w).blocking
      BY <1>1, <1>2, <2>4, <2>6
    <3>2. PICK x \in Children(ps, r) : Active(ps[x])
      BY <2>2, <3>1 DEF Going, Active
    <3>3. x \in DOMAIN ps
      BY <3>2 DEF Children, IdsOf
    <3>4. Open(ps[x])
      BY <1>1, <3>2, <3>3, ActiveOpen
    <3>5. LatestChild(ps, r) # NoPlan /\ Open(ps[LatestChild(ps, r)])
      BY <1>1, <3>2, <3>4, LatestOpen
    <3>6. ChildStatus(ps, LatestChild(ps, r)) # "completed"
      BY <3>5 DEF ChildStatus, Open
    <3>7. ~Required(ps[r], w)
      BY <3>1, <3>6 DEF Remediation, RemediationBy
    <3>8. ~Required(c.plans[r], w)
      BY <1>1, <2>4, <3>7, OnwardFacts
    <3> QED BY <1>1, <2>3, <3>8 DEF Affordable, Spared
  <2> QED BY <2>3, <2>5, <2>6
<1> QED BY <1>3 DEF Afloat, c

LEMMA ExecutedAfloat ==
  ASSUME NEW b, IsBranch(b), NEW i \in DOMAIN b.plans, Afloat(b)
  PROVE  Afloat(Executed(b, i))
<1> DEFINE c == Synced(b)
           d == Queued(c, i)
<1>1. IsBranch(c) /\ i \in DOMAIN c.plans /\ Afloat(c)
  BY SyncedKeeps, SyncedAfloat DEF Keeps
<1> HIDE DEF c
<1>2. IsBranch(d) /\ Afloat(d)
  BY <1>1, QueuedKeeps, QueuedAfloat DEF Keeps
<1> HIDE DEF d
<1>3. Afloat(Synced(d))
  BY <1>2, SyncedAfloat
<1> QED BY <1>3 DEF Executed, c, d

(* To execute an open remediation of the only recovery sets it going: its  *)
(* step is queued, or another one of the recovery's is with the agents.    *)
LEMMA ChildStarts ==
  ASSUME NEW b, IsBranch(b), NEW r, Recoveries(b.plans) = {r},
         NEW x \in Children(b.plans, r), Open(b.plans[x]), Affordable(b, r)
  PROVE  Afloat(Executed(b, x))
<1> DEFINE s == Synced(b)
           q == Queued(s, x)
<1>1. x \in DOMAIN b.plans /\ r \in DOMAIN b.plans /\ x # r
  BY ChildrenIn DEF Children, IdsOf, IsBranch
<1>2. IsBranch(s) /\ s.plans = b.plans /\ s.plans \in Files
  BY SyncedKeeps DEF Keeps, IsBranch
<1>3. Affordable(s, r)
  <2>1. Spared(b, r) => Spared(s, r)
    BY SyncedSpares
  <2> HIDE DEF s
  <2> QED BY <1>2, <2>1 DEF Affordable
<1> HIDE DEF s
<1>4. /\ IsBranch(q) /\ Onward(s.plans, q.plans) /\ q.health = s.health
      /\ q.plans[r] = s.plans[r]
  <2>1. x \in DOMAIN s.plans /\ r \in DOMAIN s.plans
    BY <1>1, <1>2
  <2>2. IsBranch(q) /\ Onward(s.plans, q.plans)
    BY <1>2, <2>1, QueuedKeeps, QueuedOnward DEF Keeps
  <2>3. q.health = s.health /\ q.plans[r] = s.plans[r]
    BY <1>1, <1>2, <2>1, QueuedFacts
  <2> QED BY <2>2, <2>3
<1>5. Affordable(q, r)
  BY <1>3, <1>4 DEF Affordable, Spared
<1>6. Going(q.plans, r)
  <2>1. s.plans[x].kind = "remediation"
    BY <1>2 DEF Children, IdsOf
  <2>2. CASE Active(s.plans[x])
    <3>1. Going(s.plans, r)
      BY <1>2, <2>2 DEF Going
    <3> QED BY <1>2, <1>4, <3>1, OnwardFacts
  <2>3. CASE TitleTaken(s.plans, x)
    <3>1. PICK j \in IdsOf(s.plans, "remediation") :
            s.plans[j].state \in {"queued", "in_progress"}
      BY <2>1, <2>3 DEF TitleTaken
    <3>2. j \in Children(s.plans, r)
      BY <1>2, <3>1, ChildrenIn
    <3>3. Going(s.plans, r)
      BY <3>1, <3>2 DEF Going, Active
    <3> QED BY <1>2, <1>4, <3>3, OnwardFacts
  <2>4. CASE ~Active(s.plans[x]) /\ ~TitleTaken(s.plans, x)
    <3>1. s.plans[x].state = "planned" /\ Open(s.plans[x])
      BY <1>1, <1>2, <2>4, OpenWaits
    <3>2. q.plans[x] = [s.plans[x] EXCEPT !.state = "queued"]
      BY <1>1, <1>2, <2>1, <2>4, <3>1, QueuedFacts
    <3>3. s.plans[x] \in PlanRecord
      BY <1>1, <1>2, FileFacts
    <3>4. Active(q.plans[x])
      BY <3>2, <3>3 DEF Active, PlanRecord
    <3>5. x \in Children(q.plans, r)
      BY <1>2, <1>4, OnwardFacts
    <3> QED BY <3>4, <3>5 DEF Going
  <2> QED BY <2>2, <2>3, <2>4
<1>7. Recoveries(q.plans) = {r}
  BY <1>2, <1>4, OnwardFacts
<1> HIDE DEF q
<1>8. Afloat(q)
  BY <1>5, <1>6, <1>7 DEF Afloat
<1>9. Afloat(Synced(q))
  BY <1>4, <1>8, SyncedAfloat
<1> QED BY <1>9 DEF Executed, q, s

(* To execute the only recovery, which requires no remediation, sets it    *)
(* going.                                                                  *)
LEMMA RecoveryStarts ==
  ASSUME NEW b, IsBranch(b), NEW r, Recoveries(b.plans) = {r}, Spared(b, r)
  PROVE  Afloat(Executed(b, r))
<1> DEFINE s == Synced(b)
           q == Queued(s, r)
<1>1. r \in DOMAIN b.plans /\ b.plans[r].kind = "recovery"
  BY ChildrenIn DEF IsBranch
<1>2. IsBranch(s) /\ s.plans = b.plans /\ s.plans \in Files
  BY SyncedKeeps DEF Keeps, IsBranch
<1>3. Spared(s, r)
  BY SyncedSpares
<1> HIDE DEF s
<1>4. IsBranch(q) /\ Onward(s.plans, q.plans) /\ q.health = s.health
  BY <1>1, <1>2, QueuedKeeps, QueuedOnward, QueuedFacts DEF Keeps
<1>5. Affordable(q, r)
  <2>1. Required(q.plans[r], s.health.window) = Required(s.plans[r], s.health.window)
    BY <1>1, <1>2, <1>4, OnwardFacts
  <2> QED BY <1>3, <1>4, <2>1 DEF Affordable, Spared
<1>6. ASSUME Open(q.plans[r]) PROVE Going(q.plans, r)
  <2>1. Open(s.plans[r])
    BY <1>1, <1>2, <1>4, <1>6 DEF Onward
  <2>2. CASE Active(s.plans[r])
    <3>1. Active(q.plans[r])
      BY <1>1, <1>2, <1>4, <2>2 DEF Onward
    <3> QED BY <3>1 DEF Going
  <2>3. CASE ~Active(s.plans[r])
    <3>1. s.plans[r].state = "planned"
      BY <1>1, <1>2, <2>1, <2>3, OpenWaits
    <3>2. ~TitleTaken(s.plans, r)
      <4>1. IdsOf(s.plans, "recovery") = {r}
        BY <1>2 DEF Recoveries
      <4>2. s.plans[r].kind = "recovery"
        BY <1>1, <1>2
      <4> QED BY <3>1, <4>1, <4>2 DEF TitleTaken
    <3>3. ~Remediation(s.plans, r, s.health.window).blocking
      BY <1>3 DEF Remediation, RemediationBy, Spared
    <3>4. q.plans[r] = [s.plans[r] EXCEPT !.state = "queued"]
      BY <1>1, <1>2, <2>1, <3>1, <3>2, <3>3, QueuedFacts
    <3>5. s.plans[r] \in PlanRecord
      BY <1>1, <1>2, FileFacts
    <3>6. Active(q.plans[r])
      BY <3>4, <3>5 DEF Active, PlanRecord
    <3> QED BY <3>6 DEF Going
  <2> QED BY <2>2, <2>3
<1>7. Recoveries(q.plans) = {r}
  BY <1>2, <1>4, OnwardFacts
<1> HIDE DEF q
<1>8. Afloat(q)
  BY <1>5, <1>6, <1>7 DEF Afloat, Concerned
<1>9. Afloat(Synced(q))
  BY <1>4, <1>8, SyncedAfloat
<1> QED BY <1>9 DEF Executed, q, s

(* A new plan beside those there are.  Unless it is a recovery it raises   *)
(* no alarm.                                                               *)
LEMMA MadeFacts ==
  ASSUME NEW b, IsBranch(b), NEW kind \in Kinds, NEW parent \in Nat,
         kind = "remediation" =>
           parent \in DOMAIN b.plans /\ b.plans[parent].kind = "recovery"
  PROVE  LET c == Made(b, kind, parent)
             n == Len(b.plans) + 1
         IN /\ Keeps(b, c) /\ DOMAIN c.plans = DOMAIN b.plans \union {n}
            /\ n \notin DOMAIN b.plans /\ c.plans[n] = NewPlan(kind, parent)
            /\ \A j \in DOMAIN b.plans : c.plans[j] = b.plans[j]
            /\ kind # "recovery" =>
                 (Alarm(c.health.window) => Alarm(b.health.window))
<1> DEFINE ps == b.plans
           n == Len(ps) + 1
           new == NewPlan(kind, parent)
           qs == Append(ps, new)
           c == Made(b, kind, parent)
<1>1. /\ ps \in Files /\ ps \in Seq(PlanRecord)
      /\ Len(ps) \in Nat /\ DOMAIN ps = 1 .. Len(ps)
  BY FileFacts DEF IsBranch
<1>2. Keeps(b, c)
  BY MadeKeeps
<1>3. new.kind = kind
  BY DEF NewPlan
<1>4. c.plans = qs /\ c.health = Record(qs, Len(qs), b.health)
  BY DEF Made
<1> HIDE DEF c, new
<1>5. /\ Len(qs) = n /\ DOMAIN qs = DOMAIN ps \union {n} /\ n \notin DOMAIN ps
      /\ qs[n] = new /\ \A j \in DOMAIN ps : qs[j] = ps[j]
  <2> HIDE DEF ps
  <2>1. DOMAIN qs = 1 .. Len(ps) + 1 /\ Len(qs) = Len(ps) + 1
    BY <1>1
  <2>2. 1 .. Len(ps) + 1 = DOMAIN ps \union {n} /\ n \notin DOMAIN ps
    BY <1>1
  <2>3. qs[n] = new /\ \A j \in DOMAIN ps : qs[j] = ps[j]
    BY <1>1
  <2> QED BY <2>1, <2>2, <2>3
<1>6. qs \in Files /\ IsHistory(b.health)
  BY <1>2, <1>4 DEF Keeps, IsBranch
<1> HIDE DEF qs, n
<1>7. kind # "recovery" => (Alarm(c.health.window) => Alarm(b.health.window))
  BY <1>3, <1>4, <1>5, <1>6, RecordFits
<1> HIDE DEF ps
<1> QED BY <1>2, <1>4, <1>5, <1>7 DEF c, n, new, ps

(* A stabilization moves nothing but the history.                          *)
LEMMA MadeAfloat ==
  ASSUME NEW b, IsBranch(b), Afloat(b)
  PROVE  Afloat(Made(b, "branch_stabilization", NoPlan))
<1> DEFINE c == Made(b, "branch_stabilization", NoPlan)
           n == Len(b.plans) + 1
<1>1. /\ Keeps(b, c) /\ DOMAIN c.plans = DOMAIN b.plans \union {n}
      /\ n \notin DOMAIN b.plans
      /\ c.plans[n] = NewPlan("branch_stabilization", NoPlan)
      /\ \A j \in DOMAIN b.plans : c.plans[j] = b.plans[j]
      /\ Alarm(c.health.window) => Alarm(b.health.window)
  BY MadeFacts DEF Kinds, NoPlan
<1>2. c.plans[n].kind = "branch_stabilization"
  BY <1>1 DEF NewPlan
<1> HIDE DEF c, n
<1>3. IsBranch(c)
  BY <1>1 DEF Keeps
<1>4. Recoveries(c.plans) = Recoveries(b.plans)
  BY <1>1, <1>2 DEF Recoveries, IdsOf
<1>5. ASSUME NEW r, Concerned(c.plans, r)
      PROVE  Going(c.plans, r) /\ Affordable(c, r)
  <2>1. Children(c.plans, r) = Children(b.plans, r)
    BY <1>1, <1>2 DEF Children, IdsOf
  <2>2. Recoveries(b.plans) = {r} /\ r \in DOMAIN b.plans
    BY <1>4, <1>5 DEF Concerned, Recoveries, IdsOf
  <2>3. c.plans[r] = b.plans[r]
    BY <1>1, <2>2
  <2>4. Concerned(b.plans, r)
    <3>1. \A x \in Children(b.plans, r) : b.plans[x].state # "failed"
      BY <1>1, <1>5, Before
    <3> QED BY <1>5, <2>2, <2>3, <3>1 DEF Concerned
  <2>5. Going(b.plans, r) /\ Affordable(b, r)
    BY <2>2, <2>4 DEF Afloat
  <2>6. Going(c.plans, r)
    <3>1. PICK i \in {r} \union Children(b.plans, r) : Active(b.plans[i])
      BY <2>5 DEF Going
    <3>2. c.plans[i] = b.plans[i]
      BY <1>1, <2>2, <3>1 DEF Children, IdsOf
    <3> QED BY <2>1, <3>1, <3>2 DEF Going
  <2>7. Spared(b, r) => Spared(c, r)
    <3>1. /\ b.plans[r] \in PlanRecord /\ b.health.window \in Seq(Observation)
          /\ c.health.window \in Seq(Observation)
      BY <1>3, <2>2, FileFacts DEF IsBranch, IsHistory
    <3> QED BY <1>1, <2>3, <3>1, RequiredEases DEF Spared
  <2>8. Affordable(c, r)
    BY <2>3, <2>5, <2>7 DEF Affordable
  <2> QED BY <2>6, <2>8
<1> QED BY <1>5 DEF Afloat, c

(* To go on with the only recovery of a branch sets it going: an open      *)
(* remediation is executed, or the recovery when it requires none, or a    *)
(* new remediation.                                                        *)
LEMMA ContinuedAfloat ==
  ASSUME NEW b, IsBranch(b), NEW r, Recoveries(b.plans) = {r},
         \/ Spared(b, r)
         \/ /\ b.plans[r].state = "planned"
            /\ \/ RoomForRemediation(b.plans)
               \/ \E x \in Children(b.plans, r) : Open(b.plans[x])
  PROVE  Afloat(Continued(b, r, LatestChild(b.plans, r)))
<1> DEFINE x == LatestChild(b.plans, r)
           d == Executed(b, x)
           e == Synced(Synced(b))
           f == Made(b, "remediation", r)
           n == Len(b.plans) + 1
           g == Executed(f, n)
<1>1. /\ b.plans \in Files /\ r \in DOMAIN b.plans /\ b.plans[r].kind = "recovery"
      /\ r \in Nat
  BY ChildrenIn, FileFacts DEF IsBranch
<1>2. Affordable(b, r)
  BY DEF Affordable, Active
<1>3. CASE x # NoPlan /\ Open(b.plans[x])
  <2>1. x \in Children(b.plans, r) /\ x \in DOMAIN b.plans
    BY <1>1, <1>3, LatestChildIn DEF Children, IdsOf
  <2>2. Continued(b, r, x) = Synced(d)
    BY <1>3 DEF Continued
  <2> HIDE DEF x
  <2>3. Afloat(d) /\ IsBranch(d)
    BY <1>2, <1>3, <2>1, ChildStarts, ExecutedKeeps DEF Keeps
  <2> HIDE DEF d
  <2> QED BY <2>2, <2>3, SyncedAfloat DEF x
<1>4. CASE ~ (x # NoPlan /\ Open(b.plans[x])) /\ Spared(b, r)
  <2>1. Continued(b, r, x) = Executed(e, r)
    BY <1>4 DEF Continued, Spared
  <2>2. /\ IsBranch(Synced(b)) /\ Recoveries(Synced(b).plans) = {r}
        /\ Spared(Synced(b), r)
    BY <1>4, SyncedKeeps, SyncedSpares DEF Keeps
  <2>3. IsBranch(e) /\ Recoveries(e.plans) = {r} /\ Spared(e, r)
    <3> DEFINE s == Synced(b)
    <3> HIDE DEF s
    <3>1. IsBranch(Synced(s)) /\ Recoveries(Synced(s).plans) = {r} /\ Spared(Synced(s), r)
      BY <2>2, SyncedKeeps, SyncedSpares DEF Keeps, s
    <3> QED BY <3>1 DEF s
  <2> HIDE DEF e
  <2>4. Afloat(Executed(e, r))
    BY <2>3, RecoveryStarts
  <2> QED BY <2>1, <2>4
<1>5. CASE ~ (x # NoPlan /\ Open(b.plans[x])) /\ ~Spared(b, r)
  <2>1. ~ \E y \in Children(b.plans, r) : Open(b.plans[y])
    BY <1>1, <1>5, LatestOpen
  <2>2. b.plans[r].state = "planned" /\ RoomForRemediation(b.plans)
    BY <1>5, <2>1
  <2>3. Continued(b, r, x) = Synced(g)
    BY <1>5, <2>2 DEF Continued, Spared
  <2>4. /\ Keeps(b, f) /\ DOMAIN f.plans = DOMAIN b.plans \union {n}
        /\ n \notin DOMAIN b.plans /\ f.plans[n] = NewPlan("remediation", r)
        /\ \A j \in DOMAIN b.plans : f.plans[j] = b.plans[j]
    BY <1>1, MadeFacts DEF Kinds
  <2>5. /\ f.plans[n].kind = "remediation" /\ f.plans[n].parent = r
        /\ Open(f.plans[n])
    <3>1. Len(Steps["remediation"]) \in Nat \ {0}
      BY StepsFit DEF Kinds
    <3> QED BY <2>4, <3>1 DEF NewPlan, Open, PlanStatus
  <2> HIDE DEF f, n
  <2>6. IsBranch(f) /\ Recoveries(f.plans) = {r} /\ n \in Children(f.plans, r)
    <3>1. Recoveries(f.plans) = Recoveries(b.plans)
      BY <2>4, <2>5 DEF Recoveries, IdsOf
    <3>2. n \in Children(f.plans, r)
      BY <2>4, <2>5 DEF Children, IdsOf
    <3> QED BY <2>4, <3>1, <3>2 DEF Keeps
  <2>7. Affordable(f, r)
    <3>1. f.plans[r].state = "planned"
      BY <1>1, <2>2, <2>4
    <3> QED BY <3>1 DEF Affordable, Active
  <2>8. Afloat(g) /\ IsBranch(g)
    BY <2>4, <2>5, <2>6, <2>7, ChildStarts, ExecutedKeeps DEF Keeps
  <2> HIDE DEF g
  <2> QED BY <2>3, <2>8, SyncedAfloat
<1> HIDE DEF x
<1> QED BY <1>3, <1>4, <1>5 DEF x

(* A step that is skipped counts as disrupted, as it did when it failed.   *)
LEMMA PastFailureCounts ==
  ASSUME NEW p \in PlanRecord, NEW w
  PROVE  /\ Required(PastFailure(p), w) = Required(p, w)
         /\ PastFailure(p).state = "planned"
<1> DEFINE q == PastFailure(p)
<1>1. /\ q.state = "planned" /\ q.disrupted = Disrupted(p)
      /\ q.resolved = p.resolved
  BY DEF PastFailure, PlanRecord
<1> HIDE DEF q
<1>2. Disrupted(p) \in Nat
  BY DisruptedIn
<1>3. Failing(q) = 0
  BY <1>1 DEF Failing
<1>4. Disrupted(q) = Disrupted(p)
  BY <1>1, <1>2, <1>3 DEF Disrupted
<1> QED BY <1>1, <1>4 DEF Required, q

(* So does a call that advances it, if what it has left of its steps is    *)
(* its own or there is, or can be, a remediation.                          *)
LEMMA AdvancedAfloat ==
  ASSUME NEW b, IsBranch(b), NEW r, Recoveries(b.plans) = {r},
         \/ Spared(b, r)
         \/ b.plans[r].state = "failed" /\ RoomForRemediation(b.plans)
         \/ /\ b.plans[r].state = "planned"
            /\ \E x \in Children(b.plans, r) : Open(b.plans[x])
  PROVE  Afloat(Advanced(b, r))
<1> DEFINE s == Synced(b)
           p == b.plans[r]
           c == [s EXCEPT !.plans[r] = PastFailure(p)]
           d == Compensated(s, r)
           e == Continued(d, r, LatestChild(d.plans, r))
<1>1. /\ b.plans \in Files /\ r \in DOMAIN b.plans /\ p.kind = "recovery"
      /\ p \in PlanRecord /\ PlanFits(b.plans, r)
  BY ChildrenIn, FileFacts DEF IsBranch
<1>2. IsBranch(s) /\ s.plans = b.plans /\ (Spared(b, r) => Spared(s, r))
  BY SyncedKeeps, SyncedSpares DEF Keeps
<1> HIDE DEF s
<1>3. /\ Keeps(s, d) /\ Recoveries(d.plans) = {r}
      /\ \/ Spared(d, r)
         \/ /\ d.plans[r].state = "planned"
            /\ \/ RoomForRemediation(d.plans)
               \/ \E x \in Children(d.plans, r) : Open(d.plans[x])
  <2>1. CASE p.state # "failed"
    <3>1. d = s
      BY <1>2, <2>1 DEF Compensated
    <3> HIDE DEF d
    <3> QED BY <1>2, <2>1, <3>1, KeepsSelf DEF s
  <2>2. CASE p.state = "failed"
    <3>1. d = Synced(c)
      <4>1. [s EXCEPT !.plans[r] = PastFailure(@)] = c
        BY <1>2
      <4> HIDE DEF c
      <4> QED BY <1>2, <2>2, <4>1 DEF Compensated
    <3>2. /\ PastFailure(p) \in PlanRecord /\ PastFailure(p).kind = p.kind
          /\ PastFailure(p).parent = p.parent
          /\ PastFailure(p).step \in 1 .. Len(Steps[p.kind]) + 1
          /\ PastFailure(p).state = "planned"
      <4>1. Disrupted(p) \in Nat
        BY <1>1, DisruptedIn
      <4>2. p.step \in 1 .. Len(Steps[p.kind]) /\ Len(Steps[p.kind]) \in Nat
        BY <1>1, <2>2, StepsFit DEF PlanFits, PlanRecord
      <4> DEFINE q == PastFailure(p)
      <4> HIDE DEF p
      <4>3. /\ q \in PlanRecord /\ q.kind = p.kind /\ q.parent = p.parent
            /\ q.step = p.step + 1 /\ q.state = "planned"
        <5>1. p.step + 1 \in Nat
          BY <4>2
        <5> QED BY <1>1, <4>1, <5>1 DEF PastFailure, PlanRecord, States
      <4> HIDE DEF q
      <4>4. q.step \in 1 .. Len(Steps[p.kind]) + 1
        BY <4>2, <4>3
      <4> QED BY <4>3, <4>4 DEF q
    <3>3. /\ Keeps(s, c) /\ c.health = s.health /\ DOMAIN c.plans = DOMAIN s.plans
          /\ \A j \in DOMAIN s.plans :
               c.plans[j] = IF j = r THEN PastFailure(p) ELSE s.plans[j]
      BY <1>1, <1>2, <3>2, BranchMoves
    <3> HIDE DEF c
    <3>4. \A j \in DOMAIN b.plans : c.plans[j].kind = b.plans[j].kind
      BY <1>2, <3>3 DEF Keeps
    <3>5. \A kind : IdsOf(c.plans, kind) = IdsOf(b.plans, kind)
      BY <1>2, <3>3, <3>4 DEF IdsOf
    <3>6. Recoveries(c.plans) = {r}
      BY <3>5 DEF Recoveries
    <3>7. c.plans[r] = PastFailure(p) /\ c.plans[r].state = "planned"
      BY <1>1, <1>2, <3>2, <3>3
    <3>8. Spared(b, r) => Spared(c, r)
      <4>1. Spared(s, r) => Spared(c, r)
        BY <1>1, <1>2, <3>3, <3>7, PastFailureCounts DEF Spared
      <4> QED BY <1>2, <4>1
    <3>9. IsBranch(c)
      BY <3>3 DEF Keeps
    <3>10. /\ Keeps(c, Synced(c)) /\ Synced(c).plans = c.plans
           /\ Spared(c, r) => Spared(Synced(c), r)
      BY <3>6, <3>9, SyncedKeeps, SyncedSpares
    <3>11. RoomForRemediation(b.plans) => RoomForRemediation(c.plans)
      BY <3>5 DEF RoomForRemediation
    <3>12. Keeps(s, Synced(c))
      BY <3>3, <3>10, KeepsOn
    <3>13. Spared(Synced(c), r) \/ RoomForRemediation(c.plans)
      BY <2>2, <3>8, <3>10, <3>11
    <3> HIDE DEF d
    <3> QED BY <3>1, <3>6, <3>7, <3>10, <3>12, <3>13
  <2> QED BY <2>1, <2>2
<1> HIDE DEF d
<1>4. IsBranch(d)
  BY <1>3 DEF Keeps
<1>5. Afloat(e)
  BY <1>3, <1>4, ContinuedAfloat
<1>6. IsBranch(e)
  <2>1. r \in DOMAIN d.plans /\ d.plans[r].kind = "recovery"
    BY <1>3 DEF Recoveries, IdsOf
  <2> QED BY <1>4, <2>1, ContinuedKeeps DEF Keeps
<1> HIDE DEF e
<1>7. Afloat(Synced(e))
  BY <1>5, <1>6, SyncedAfloat
<1> QED BY <1>7 DEF Advanced, AdvancedFrom, e, d, s

(* A plan that is observed once more.                                      *)
LEMMA ObservedAfloat ==
  ASSUME NEW b, IsBranch(b), NEW i \in DOMAIN b.plans, Afloat(b)
  PROVE  /\ Keeps(b, [b EXCEPT !.health = Record(b.plans, i, @)])
         /\ Afloat([b EXCEPT !.health = Record(b.plans, i, @)])
<1> DEFINE h == Record(b.plans, i, b.health)
           c == [b EXCEPT !.health = h]
<1>1. b.plans \in Files /\ IsHistory(b.health)
  BY DEF IsBranch
<1>2. /\ IsHistory(h)
      /\ ~ (b.plans[i].kind = "recovery" /\ Required(b.plans[i], b.health.window)) =>
           (Alarm(h.window) => Alarm(b.health.window))
  BY <1>1, RecordFits
<1>3. [b EXCEPT !.health = Record(b.plans, i, @)] = c
  OBVIOUS
<1> HIDE DEF h
<1>4. Keeps(b, c) /\ c.plans = b.plans /\ c.health = h
  BY <1>2, HistoryMoves
<1> HIDE DEF c
<1>5. ASSUME NEW r, Concerned(b.plans, r)
      PROVE  Going(b.plans, r) /\ Affordable(c, r)
  <2>1. Recoveries(b.plans) = {r}
    BY <1>5 DEF Concerned
  <2>2. Going(b.plans, r) /\ Affordable(b, r)
    BY <1>5, <2>1 DEF Afloat
  <2>3. b.plans[i].kind = "recovery" => i = r
    BY <2>1 DEF Recoveries, IdsOf
  <2>4. ASSUME Spared(b, r) PROVE Spared(c, r)
    <3>1. Alarm(h.window) => Alarm(b.health.window)
      BY <1>2, <2>3, <2>4 DEF Spared
    <3>2. /\ b.plans[r] \in PlanRecord /\ b.health.window \in Seq(Observation)
          /\ h.window \in Seq(Observation)
      BY <1>1, <1>2, <2>1, ChildrenIn, FileFacts DEF IsHistory
    <3>3. ~Required(b.plans[r], h.window)
      BY <2>4, <3>1, <3>2, RequiredEases DEF Spared
    <3> QED BY <1>4, <3>3 DEF Spared
  <2> QED BY <1>4, <2>2, <2>4 DEF Affordable
<1>6. Afloat(c)
  BY <1>4, <1>5 DEF Afloat
<1> QED BY <1>3, <1>4, <1>6

(* A new recovery is alone, or no recovery of the branch is.               *)
LEMMA MadeRecovery ==
  ASSUME NEW b, IsBranch(b)
  PROVE  LET c == Made(b, "recovery", NoPlan)
             n == Len(b.plans) + 1
         IN /\ Keeps(b, c) /\ n \in DOMAIN c.plans /\ c.plans[n].kind = "recovery"
            /\ Recoveries(c.plans) = Recoveries(b.plans) \union {n}
            /\ n \notin Recoveries(b.plans) /\ Spared(c, n)
<1> DEFINE c == Made(b, "recovery", NoPlan)
           n == Len(b.plans) + 1
           new == NewPlan("recovery", NoPlan)
<1>1. /\ Keeps(b, c) /\ DOMAIN c.plans = DOMAIN b.plans \union {n}
      /\ n \notin DOMAIN b.plans /\ c.plans[n] = new
      /\ \A j \in DOMAIN b.plans : c.plans[j] = b.plans[j]
  BY MadeFacts DEF Kinds, NoPlan
<1>2. /\ new.kind = "recovery" /\ new.state = "planned" /\ new.disrupted = 0
      /\ new.resolved = 0
  BY DEF NewPlan
<1> HIDE DEF c, n, new
<1>3. /\ n \in DOMAIN c.plans /\ c.plans[n].kind = "recovery"
      /\ Recoveries(c.plans) = Recoveries(b.plans) \union {n}
      /\ n \notin Recoveries(b.plans)
  BY <1>1, <1>2 DEF Recoveries, IdsOf
<1>4. Spared(c, n)
  <2>1. Budget(c.health.window) \in Nat \ {0}
    BY <1>1, BudgetFits DEF Keeps, IsBranch, IsHistory
  <2>2. Disrupted(new) = 0
    BY <1>2 DEF Disrupted, Failing
  <2> QED BY <1>1, <1>2, <2>1, <2>2 DEF Spared, Required
<1> QED BY <1>1, <1>3, <1>4 DEF c, n

(* Plans that a call makes or takes over.                                  *)
LEMMA RefreshedAfloat ==
  ASSUME NEW b, IsBranch(b), Afloat(b),
         NEW kind \in {"recovery", "branch_stabilization"},
         NEW i, i = NoPlan \/ i \in DOMAIN b.plans
  PROVE  Afloat(Refreshed(b, kind, i))
<1> DEFINE c == Made(b, kind, NoPlan)
           n == Len(b.plans) + 1
           d == [b EXCEPT !.health = Record(b.plans, i, @)]
<1>1. CASE i = NoPlan
  <2>1. Refreshed(b, kind, i) = Executed(c, n)
    BY <1>1 DEF Refreshed
  <2>2. CASE kind = "branch_stabilization"
    <3>1. Keeps(b, c) /\ n \in DOMAIN c.plans /\ Afloat(c)
      BY <2>2, MadeKeeps, MadeAfloat DEF Kinds, NoPlan
    <3> HIDE DEF c, n
    <3> QED BY <2>1, <3>1, ExecutedAfloat DEF Keeps
  <2>3. CASE kind = "recovery"
    <3>1. /\ Keeps(b, c) /\ n \in DOMAIN c.plans
          /\ Recoveries(c.plans) = Recoveries(b.plans) \union {n}
          /\ n \notin Recoveries(b.plans) /\ Spared(c, n)
      BY <2>3, MadeRecovery
    <3> DEFINE e == Executed(c, n)
    <3> HIDE DEF c, n
    <3>2. IsBranch(c) /\ Keeps(c, e)
      BY <3>1, ExecutedKeeps DEF Keeps
    <3>3. CASE Recoveries(b.plans) = {}
      BY <2>1, <3>1, <3>2, <3>3, RecoveryStarts
    <3>4. CASE Recoveries(b.plans) # {}
      <4> HIDE DEF e
      <4>1. \A r : ~Concerned(e.plans, r)
        BY <3>1, <3>2, <3>4, Before
      <4>2. Afloat(e)
        BY <4>1 DEF Afloat
      <4> QED BY <2>1, <4>2 DEF e
    <3> QED BY <3>3, <3>4
  <2> QED BY <2>2, <2>3
<1>2. CASE i # NoPlan
  <2>1. Keeps(b, d) /\ Afloat(d)
    BY <1>2, ObservedAfloat
  <2>2. Refreshed(b, kind, i) = Executed(d, i)
    BY <1>2 DEF Refreshed
  <2> HIDE DEF d
  <2>3. i \in DOMAIN d.plans /\ IsBranch(d)
    BY <1>2, <2>1 DEF Keeps
  <2> QED BY <2>1, <2>2, <2>3, ExecutedAfloat
<1> QED BY <1>1, <1>2

(* A recovery that is advanced by hand.                                    *)
LEMMA AdvancedByHand ==
  ASSUME NEW b, IsBranch(b), Afloat(b), NEW r \in DOMAIN b.plans,
         b.plans[r].kind = "recovery", Open(b.plans[r])
  PROVE  Afloat(Advanced(b, r))
<1> DEFINE c == Advanced(b, r)
<1>1. Keeps(b, c) /\ b.plans \in Files /\ r \in Recoveries(b.plans)
  BY AdvancedKeeps DEF IsBranch, Recoveries, IdsOf
<1>2. ASSUME NEW q, Concerned(c.plans, q) PROVE Afloat(c)
  <2> HIDE DEF c
  <2>1. /\ Recoveries(b.plans) = {r}
        /\ \A x \in Children(b.plans, r) : b.plans[x].state # "failed"
    BY <1>1, <1>2, Before
  <2>2. Going(b.plans, r) /\ Affordable(b, r)
    BY <1>1, <2>1 DEF Afloat, Concerned
  <2>3. CASE Spared(b, r)
    BY <2>1, <2>3, AdvancedAfloat DEF c
  <2>4. CASE ~Spared(b, r)
    <3>1. ~Active(b.plans[r])
      BY <2>2, <2>4 DEF Affordable
    <3>2. b.plans[r].state = "planned"
      BY <1>1, <3>1, OpenWaits
    <3>3. PICK x \in Children(b.plans, r) : Active(b.plans[x])
      BY <2>2, <3>1 DEF Going
    <3>4. Open(b.plans[x])
      BY <1>1, <3>3, ActiveOpen DEF Children, IdsOf
    <3> QED BY <2>1, <3>2, <3>3, <3>4, AdvancedAfloat DEF c
  <2> QED BY <2>3, <2>4
<1> HIDE DEF c
<1>3. CASE \E q : Concerned(c.plans, q)
  BY <1>2, <1>3 DEF c
<1>4. CASE ~ \E q : Concerned(c.plans, q)
  <2>1. Afloat(c)
    BY <1>4 DEF Afloat
  <2> QED BY <2>1 DEF c
<1> QED BY <1>3, <1>4

(* A recovery whose disruptions are resolved requires no remediation.      *)
LEMMA ResolvedAfloat ==
  ASSUME NEW b, IsBranch(b), NEW r \in DOMAIN b.plans, b.plans[r].kind = "recovery"
  PROVE  Afloat(Advanced(Resolved(b, r), r))
<1> DEFINE q == b.plans[r]
           p == [q EXCEPT !.resolved = Disrupted(q)]
           d == Resolved(b, r)
           e == Advanced(d, r)
<1>1. q \in PlanRecord /\ PlanFits(b.plans, r)
  BY FileFacts DEF IsBranch
<1>2. Disrupted(q) \in Nat
  BY <1>1, DisruptedIn
<1> HIDE DEF q
<1>3. /\ p \in PlanRecord /\ p.kind = q.kind /\ p.parent = q.parent
      /\ p.step = q.step /\ p.state = q.state /\ p.disrupted = q.disrupted
      /\ p.resolved = Disrupted(q)
  BY <1>1, <1>2 DEF PlanRecord
<1>4. d = [b EXCEPT !.plans[r] = p]
  BY DEF Resolved, q
<1> HIDE DEF p, d
<1>5. /\ p.step \in 1 .. Len(Steps[p.kind]) + 1
      /\ p.state # "planned" => p.step <= Len(Steps[p.kind])
      /\ p.kind = "recovery"
  BY <1>1, <1>3 DEF PlanFits, q
<1>6. Keeps(b, d) /\ d.plans[r] = p
  BY <1>3, <1>4, <1>5, BranchMoves DEF q
<1>7. IsBranch(d) /\ r \in Recoveries(d.plans) /\ r \in DOMAIN d.plans
  BY <1>5, <1>6 DEF Keeps, Recoveries, IdsOf
<1>8. Spared(d, r)
  <2>1. Budget(d.health.window) \in Nat \ {0}
    BY <1>7, BudgetFits DEF IsBranch, IsHistory
  <2>2. Disrupted(p) = Disrupted(q)
    BY <1>3 DEF Disrupted, Failing
  <2> QED BY <1>2, <1>3, <1>6, <2>1, <2>2 DEF Spared, Required
<1>9. Keeps(d, e)
  BY <1>5, <1>6, <1>7, AdvancedKeeps
<1>10. CASE Recoveries(d.plans) = {r}
  BY <1>7, <1>8, <1>10, AdvancedAfloat DEF d
<1>11. CASE Recoveries(d.plans) # {r}
  <2> HIDE DEF e
  <2>1. \A x : ~Concerned(e.plans, x)
    BY <1>7, <1>9, <1>11, Before
  <2>2. Afloat(e)
    BY <2>1 DEF Afloat
  <2> QED BY <2>2 DEF e, d
<1> QED BY <1>10, <1>11

(* What a report makes of the plan.                                        *)
LEMMA ReportedFacts ==
  ASSUME TypeOK, NEW i \in DOMAIN plans, NEW success \in BOOLEAN,
         plans[i].state = "in_progress"
  PROVE  LET b == Reported(i, success) IN
         /\ IsBranch(Branch) /\ Branch.plans = plans /\ Branch.health = health
         /\ plans \in Files /\ Open(plans[i])
         /\ Keeps(Branch, b) /\ IsBranch(b) /\ b.health = health
         /\ DOMAIN b.plans = DOMAIN plans
         /\ \A j \in DOMAIN plans : j # i => b.plans[j] = plans[j]
         /\ b.plans[i].kind = plans[i].kind /\ b.plans[i].parent = plans[i].parent
         /\ b.plans[i].disrupted = plans[i].disrupted
         /\ b.plans[i].resolved = plans[i].resolved
         /\ b.plans[i].state = IF success THEN "planned" ELSE "failed"
<1> DEFINE b == Reported(i, success)
           p == StepEnded(plans[i], success)
<1>1. /\ IsBranch(Branch) /\ Branch.plans = plans /\ Branch.health = health
      /\ plans \in Files
  BY DEF TypeOK, IsBranch, Branch
<1>2. Keeps(Branch, b) /\ IsBranch(b)
  BY ReportedKeeps DEF Keeps
<1>3. /\ b.health = health /\ DOMAIN b.plans = DOMAIN plans /\ b.plans[i] = p
      /\ \A j \in DOMAIN plans : j # i => b.plans[j] = plans[j]
  BY DEF Reported, Branch
<1>4. plans[i] \in PlanRecord
  BY <1>1, FileFacts
<1>5. /\ p.kind = plans[i].kind /\ p.parent = plans[i].parent
      /\ p.disrupted = plans[i].disrupted /\ p.resolved = plans[i].resolved
      /\ p.state = IF success THEN "planned" ELSE "failed"
  <2>1. CASE success
    BY <1>4, <2>1 DEF StepEnded, PlanRecord
  <2>2. CASE ~success
    BY <1>4, <2>2 DEF StepEnded, PlanRecord
  <2> QED BY <2>1, <2>2
<1>6. Open(plans[i])
  BY <1>1, ActiveOpen DEF Active
<1> QED BY <1>1, <1>2, <1>3, <1>5, <1>6

(* A step fails only while there is room for the remediation.              *)
LEMMA RepairsFit ==
  ASSUME TypeOK, RoomForRepairs, NEW r \in Recoveries(plans), Open(plans[r])
  PROVE  RoomForRemediation(plans)
<1> DEFINE rem == IdsOf(plans, "remediation")
           open == {x \in Recoveries(plans) : Open(plans[x])}
<1>1. IsFiniteSet(DOMAIN plans)
  <2>1. DOMAIN plans = 1 .. Len(plans) /\ Len(plans) \in Nat
    BY FileFacts DEF TypeOK
  <2> QED BY <2>1, FS_Interval
<1>2. rem \subseteq DOMAIN plans /\ open \subseteq DOMAIN plans /\ r \in open
  BY DEF IdsOf, Recoveries
<1>3. Cardinality(rem) + Cardinality(open) <= MaxRemediations
  BY DEF RoomForRepairs
<1> HIDE DEF rem, open
<1>4. IsFiniteSet(rem) /\ IsFiniteSet(open)
  BY <1>1, <1>2, FS_Subset
<1>5. Cardinality(rem) \in Nat /\ Cardinality(open) \in Nat /\ Cardinality(open) # 0
  BY <1>2, <1>4, FS_CardinalityType, FS_EmptySet
<1>6. MaxRemediations \in Nat
  BY BranchHealthAssumption
<1>7. Cardinality(rem) < MaxRemediations
  BY <1>3, <1>5, <1>6
<1> QED BY <1>7 DEF RoomForRemediation, rem

(* A recovery's own step that ends.                                        *)
LEMMA RecoveryReported ==
  ASSUME TypeOK, Afloat(Branch), NEW i \in DOMAIN plans, NEW success \in BOOLEAN,
         plans[i].state = "in_progress", plans[i].kind = "recovery",
         success \/ MayFail(plans[i])
  PROVE  Afloat(Advanced(Reported(i, success), i))
<1> DEFINE b == Reported(i, success)
           e == Advanced(b, i)
<1>1. /\ IsBranch(Branch) /\ Branch.plans = plans /\ Branch.health = health
      /\ plans \in Files /\ Open(plans[i])
      /\ Keeps(Branch, b) /\ IsBranch(b) /\ b.health = health
      /\ DOMAIN b.plans = DOMAIN plans
      /\ \A j \in DOMAIN plans : j # i => b.plans[j] = plans[j]
      /\ b.plans[i].kind = plans[i].kind
      /\ b.plans[i].disrupted = plans[i].disrupted
      /\ b.plans[i].resolved = plans[i].resolved
      /\ b.plans[i].state = IF success THEN "planned" ELSE "failed"
  BY ReportedFacts
<1> HIDE DEF b
<1>2. i \in Recoveries(b.plans) /\ i \in DOMAIN b.plans
  BY <1>1 DEF Recoveries, IdsOf
<1>3. Keeps(b, e)
  BY <1>1, <1>2, AdvancedKeeps
<1>4. Keeps(Branch, e)
  <2> HIDE DEF e
  <2> QED BY <1>1, <1>3, KeepsOn
<1> HIDE DEF e
<1>5. ASSUME NEW r, Concerned(e.plans, r) PROVE Afloat(e)
  <2>1. /\ Recoveries(b.plans) = {i} /\ r = i
        /\ Recoveries(plans) = {i}
        /\ \A x \in Children(plans, i) : plans[x].state # "failed"
    <3>1. Recoveries(b.plans) \subseteq {r}
      BY <1>3, <1>5, Before
    <3>2. /\ Recoveries(plans) \subseteq {r}
          /\ \A x \in Children(plans, r) : plans[x].state # "failed"
      BY <1>1, <1>4, <1>5, Before
    <3>3. i \in Recoveries(plans)
      BY DEF Recoveries, IdsOf
    <3> QED BY <1>2, <3>1, <3>2, <3>3
  <2>2. CASE success
    <3>1. Concerned(plans, i)
      BY <1>1, <2>1 DEF Concerned
    <3>2. Affordable(Branch, i)
      BY <1>1, <2>1, <3>1 DEF Afloat
    <3>3. ~Required(plans[i], health.window)
      BY <1>1, <3>2 DEF Affordable, Active, Spared
    <3>4. Disrupted(b.plans[i]) = Disrupted(plans[i])
      BY <1>1, <2>2 DEF Disrupted, Failing
    <3>5. Spared(b, i)
      BY <1>1, <3>3, <3>4 DEF Spared, Required
    <3> QED BY <1>1, <2>1, <3>5, AdvancedAfloat DEF e
  <2>3. CASE ~success
    <3>1. RoomForRepairs
      BY <2>3 DEF MayFail
    <3>2. RoomForRemediation(plans)
      BY <1>1, <2>1, <3>1, RepairsFit
    <3>3. IdsOf(b.plans, "remediation") = IdsOf(plans, "remediation")
      BY <1>1 DEF IdsOf
    <3>4. b.plans[i].state = "failed" /\ RoomForRemediation(b.plans)
      BY <1>1, <2>3, <3>2, <3>3 DEF RoomForRemediation
    <3> QED BY <1>1, <2>1, <3>4, AdvancedAfloat DEF e
  <2> QED BY <2>2, <2>3
<1>6. ASSUME ~ \E r : Concerned(e.plans, r) PROVE Afloat(e)
  BY <1>6 DEF Afloat
<1>7. Afloat(e)
  BY <1>5, <1>6
<1> QED BY <1>7 DEF e, b

(* A remediation's step that ends: the next one, the recovery, or nothing, *)
(* for a remediation that failed is given up.                              *)
LEMMA RemediationReported ==
  ASSUME TypeOK, Afloat(Branch), NEW i \in DOMAIN plans, NEW success \in BOOLEAN,
         plans[i].state = "in_progress", plans[i].kind = "remediation"
  PROVE  Afloat(Repaired(Executed(Synced(Reported(i, success)), i), i))
<1> DEFINE b == Reported(i, success)
           c == Synced(b)
           s == Synced(c)
           q == Queued(s, i)
           d == Executed(c, i)
           r == plans[i].parent
<1>1. /\ IsBranch(Branch) /\ Branch.plans = plans /\ Branch.health = health
      /\ plans \in Files
      /\ Keeps(Branch, b) /\ IsBranch(b) /\ b.health = health
      /\ DOMAIN b.plans = DOMAIN plans
      /\ \A j \in DOMAIN plans : j # i => b.plans[j] = plans[j]
      /\ b.plans[i].kind = plans[i].kind /\ b.plans[i].parent = plans[i].parent
      /\ b.plans[i].state = IF success THEN "planned" ELSE "failed"
  BY ReportedFacts
<1>2. r \in DOMAIN plans /\ plans[r].kind = "recovery" /\ r # i
  <2>1. DOMAIN plans = 1 .. Len(plans) /\ Len(plans) \in Nat /\ PlanFits(plans, i)
    BY <1>1, FileFacts
  <2>2. r \in 1 .. i - 1 /\ plans[r].kind = "recovery"
    BY <2>1 DEF PlanFits
  <2> HIDE DEF r
  <2> QED BY <2>1, <2>2
<1> HIDE DEF b, r
<1>3. IsBranch(c) /\ Keeps(b, c) /\ c.plans = b.plans
  BY <1>1, SyncedKeeps DEF Keeps
<1>4. i \in DOMAIN c.plans /\ c.plans[i].kind = "remediation" /\ c.plans[i].parent = r
  BY <1>1, <1>3 DEF r
<1> HIDE DEF c
<1>5. IsBranch(s) /\ s.plans = c.plans
  BY <1>3, SyncedKeeps DEF Keeps
<1> HIDE DEF s
<1>6. /\ IsBranch(q) /\ Onward(s.plans, q.plans)
      /\ ~Open(s.plans[i]) => q.plans[i] = s.plans[i]
  <2>1. i \in DOMAIN s.plans
    BY <1>4, <1>5
  <2>2. IsBranch(q) /\ Onward(s.plans, q.plans)
    BY <1>5, <2>1, QueuedKeeps, QueuedOnward DEF Keeps
  <2>3. ASSUME ~Open(s.plans[i]) PROVE q.plans[i] = s.plans[i]
    <3>1. q = IF FALSE THEN [s EXCEPT !.plans[i].state = "queued"] ELSE s
      BY <2>3 DEF Queued, q
    <3> QED BY <3>1
  <2> QED BY <2>2, <2>3
<1> HIDE DEF q
<1>7. Keeps(c, d) /\ d.plans = q.plans
  <2>1. Keeps(c, d)
    BY <1>3, <1>4, ExecutedKeeps
  <2>2. d = Synced(q)
    BY DEF Executed, q, s
  <2> HIDE DEF d
  <2> QED BY <1>6, <2>1, <2>2, SyncedKeeps
<1> HIDE DEF d
<1>8. /\ IsBranch(d) /\ i \in DOMAIN d.plans /\ d.plans[i].kind = "remediation"
      /\ d.plans[i].parent = r /\ r \in DOMAIN d.plans /\ d.plans[r].kind = "recovery"
      /\ Keeps(Branch, d)
  <2>1. Keeps(Branch, d)
    BY <1>1, <1>3, <1>7, KeepsOn
  <2> QED BY <1>1, <1>2, <2>1 DEF Keeps, r
<1>9. CASE PlanStatus(d.plans[i]) = "completed"
  <2>1. Repaired(d, i) = Advanced(Resolved(d, r), r)
    BY <1>8, <1>9 DEF Repaired
  <2> QED BY <1>8, <2>1, ResolvedAfloat DEF d, c, b
<1>10. CASE PlanStatus(d.plans[i]) # "completed"
  <2>1. Repaired(d, i) = d
    BY <1>10 DEF Repaired
  <2>2. ASSUME NEW x, Concerned(d.plans, x) PROVE Afloat(d)
    <3>1. /\ Recoveries(c.plans) = {r} /\ Recoveries(plans) = {r} /\ x = r
          /\ \A y \in Children(plans, r) : plans[y].state # "failed"
          /\ \A y \in Children(c.plans, r) : c.plans[y].state # "failed"
      <4>1. /\ Recoveries(c.plans) \subseteq {x}
            /\ \A y \in Children(c.plans, x) : c.plans[y].state # "failed"
        BY <1>7, <2>2, Before
      <4>2. /\ Recoveries(plans) \subseteq {x}
            /\ \A y \in Children(plans, x) : plans[y].state # "failed"
        BY <1>1, <1>8, <2>2, Before
      <4>3. r \in Recoveries(plans) /\ r \in Recoveries(c.plans)
        BY <1>1, <1>2, <1>3 DEF Recoveries, IdsOf
      <4> QED BY <4>1, <4>2, <4>3
    <3>2. i \in Children(c.plans, r)
      BY <1>4 DEF Children, IdsOf
    <3>3. c.plans[i].state = "planned"
      BY <1>1, <1>3, <3>1, <3>2
    <3>4. Open(c.plans[i])
      <4>1. ASSUME ~Open(c.plans[i]) PROVE FALSE
        <5>1. d.plans[i] = c.plans[i]
          BY <1>5, <1>6, <1>7, <4>1
        <5> QED BY <1>10, <3>3, <4>1, <5>1 DEF Open, PlanStatus
      <4> QED BY <4>1
    <3>5. Affordable(c, r)
      <4>1. c.plans[r] = plans[r]
        BY <1>1, <1>2, <1>3
      <4>2. ASSUME Active(plans[r]) PROVE Spared(c, r)
        <5>1. Open(plans[r])
          BY <1>1, <1>2, <4>2, ActiveOpen
        <5>2. Affordable(Branch, r)
          BY <1>1, <3>1, <5>1 DEF Afloat, Concerned
        <5>3. ~Required(plans[r], health.window)
          BY <1>1, <4>2, <5>2 DEF Affordable, Spared
        <5>4. Spared(b, r)
          BY <1>1, <1>2, <5>3 DEF Spared
        <5>5. Recoveries(b.plans) = {r}
          BY <1>3, <3>1
        <5> QED BY <1>1, <5>4, <5>5, SyncedSpares DEF c
      <4> QED BY <4>1, <4>2 DEF Affordable
    <3> QED BY <1>3, <3>1, <3>2, <3>4, <3>5, ChildStarts DEF d
  <2>3. ASSUME ~ \E x : Concerned(d.plans, x) PROVE Afloat(d)
    BY <2>3 DEF Afloat
  <2>4. Afloat(d)
    BY <2>2, <2>3
  <2> QED BY <2>1, <2>4 DEF d, c, b
<1> QED BY <1>9, <1>10

(* A stabilization's step that ends does not concern the recovery.         *)
LEMMA StabilizationReported ==
  ASSUME TypeOK, Afloat(Branch), NEW i \in DOMAIN plans, NEW success \in BOOLEAN,
         plans[i].state = "in_progress",
         plans[i].kind \notin {"recovery", "remediation"}
  PROVE  Afloat(Synced(Executed(Synced(Reported(i, success)), i)))
<1> DEFINE b == Reported(i, success)
           c == Synced(b)
           d == Executed(c, i)
<1>1. /\ IsBranch(Branch) /\ Branch.plans = plans /\ Branch.health = health
      /\ plans \in Files
      /\ Keeps(Branch, b) /\ IsBranch(b) /\ b.health = health
      /\ DOMAIN b.plans = DOMAIN plans
      /\ \A j \in DOMAIN plans : j # i => b.plans[j] = plans[j]
      /\ b.plans[i].kind = plans[i].kind
  BY ReportedFacts
<1> HIDE DEF b
<1>2. /\ Recoveries(b.plans) = Recoveries(plans) /\ i \notin Recoveries(plans)
      /\ \A r : Children(b.plans, r) = Children(plans, r) /\ i \notin Children(plans, r)
  <2>1. Recoveries(b.plans) = Recoveries(plans) /\ i \notin Recoveries(plans)
    BY <1>1 DEF Recoveries, IdsOf
  <2>2. ASSUME NEW r
        PROVE  Children(b.plans, r) = Children(plans, r) /\ i \notin Children(plans, r)
    BY <1>1 DEF Children, IdsOf
  <2> QED BY <2>1, <2>2
<1>3. ASSUME NEW r \in Recoveries(b.plans), Concerned(b.plans, r)
      PROVE  Going(b.plans, r) /\ Affordable(b, r)
  <2>1. r \in DOMAIN plans /\ b.plans[r] = plans[r] /\ Recoveries(plans) = {r}
    BY <1>1, <1>2, <1>3 DEF Recoveries, IdsOf, Concerned
  <2>2. \A x \in Children(plans, r) : x \in DOMAIN plans /\ b.plans[x] = plans[x]
    BY <1>1, <1>2 DEF Children, IdsOf
  <2>3. Concerned(plans, r)
    BY <1>2, <1>3, <2>1, <2>2 DEF Concerned
  <2>4. Going(plans, r) /\ Affordable(Branch, r)
    BY <1>1, <2>1, <2>3 DEF Afloat
  <2>5. Going(b.plans, r)
    BY <1>2, <2>1, <2>2, <2>4 DEF Going
  <2>6. Affordable(b, r)
    BY <1>1, <2>1, <2>4 DEF Affordable, Spared
  <2> QED BY <2>5, <2>6
<1>4. Afloat(b)
  BY <1>3 DEF Afloat
<1>5. IsBranch(c) /\ Afloat(c) /\ i \in DOMAIN c.plans
  BY <1>1, <1>4, SyncedKeeps, SyncedAfloat DEF Keeps
<1> HIDE DEF c
<1>6. IsBranch(d) /\ Afloat(d)
  BY <1>5, ExecutedKeeps, ExecutedAfloat DEF Keeps
<1> HIDE DEF d
<1>7. Afloat(Synced(d))
  BY <1>6, SyncedAfloat
<1> QED BY <1>7 DEF d, c, b

(* What becomes of a plan whose task an agent takes.                       *)
LEMMA TakenOnward ==
  ASSUME TypeOK, NEW i \in DOMAIN plans, Take(i)
  PROVE  /\ Onward(plans, plans') /\ health' = health
         /\ \A j \in DOMAIN plans : Active(plans'[j]) => Active(plans[j])
<1> DEFINE p == [plans[i] EXCEPT !.state = "in_progress"]
           qs == plans'
<1>1. /\ plans[i].state = "queued" /\ health' = health
      /\ plans' = [plans EXCEPT ![i] = p]
  BY DEF Take
<1>2. plans[i] \in PlanRecord /\ plans \in Files
  BY FileFacts DEF TypeOK
<1>3. /\ DOMAIN qs = DOMAIN plans /\ qs[i] = p
      /\ \A j \in DOMAIN plans : j # i => qs[j] = plans[j]
  BY <1>1
<1>4. /\ p.kind = plans[i].kind /\ p.parent = plans[i].parent
      /\ p.step = plans[i].step /\ p.state = "in_progress"
      /\ p.disrupted = plans[i].disrupted /\ p.resolved = plans[i].resolved
  BY <1>2 DEF PlanRecord
<1> HIDE DEF p
<1>5. /\ Open(p) = Open(plans[i]) /\ Disrupted(p) = Disrupted(plans[i])
      /\ Active(p) /\ Active(plans[i])
  <2>1. Open(p) = Open(plans[i])
    BY <1>1, <1>4 DEF Open, PlanStatus
  <2>2. Disrupted(p) = Disrupted(plans[i])
    BY <1>1, <1>4 DEF Disrupted, Failing
  <2> QED BY <1>1, <1>4, <2>1, <2>2 DEF Active
<1>6. ASSUME NEW j \in DOMAIN plans
      PROVE  /\ qs[j].kind = plans[j].kind /\ qs[j].parent = plans[j].parent
             /\ Open(qs[j]) = Open(plans[j])
             /\ qs[j].state = "failed" <=> plans[j].state = "failed"
             /\ Disrupted(qs[j]) = Disrupted(plans[j])
             /\ qs[j].resolved = plans[j].resolved
             /\ Active(plans[j]) => Active(qs[j])
  <2>1. CASE j = i
    BY <1>1, <1>3, <1>4, <1>5, <2>1
  <2>2. CASE j # i
    BY <1>3, <2>2
  <2> QED BY <2>1, <2>2
<1>7. Onward(plans, qs)
  BY <1>3, <1>6 DEF Onward
<1>8. \A j \in DOMAIN plans : Active(qs[j]) => Active(plans[j])
  BY <1>3, <1>5
<1> QED BY <1>1, <1>7, <1>8

(* So it is of the branch, between two calls.                              *)
Tended == Afloat(Branch)

(* What a call leaves is what the next one finds.                          *)
LEMMA BecomesTended ==
  ASSUME NEW b, IsBranch(b), Afloat(b), Becomes(b)
  PROVE  Tended'
<1>1. plans' = b.plans /\ health' = b.health
  BY DEF Becomes
<1>2. b = [plans |-> b.plans, health |-> b.health]
  BY DEF IsBranch
<1>3. [plans |-> plans', health |-> health'] = b
  BY <1>1, <1>2
<1> QED BY <1>3 DEF Tended, Branch

(* No call leaves the only recovery of a branch with nobody at it.         *)
LEMMA StepTended ==
  ASSUME TypeOK, Tended, [Next]_vars
  PROVE  Tended'
<1>0. /\ IsBranch(Branch) /\ Branch.plans = plans /\ Branch.health = health
      /\ plans \in Files /\ Afloat(Branch)
  BY DEF TypeOK, IsBranch, Branch, Tended
<1>1. CASE StartRecovery
  <2> DEFINE b == Made(Branch, "recovery", NoPlan)
             n == Len(plans) + 1
             e == Advanced(b, n)
  <2>1. /\ Keeps(Branch, b) /\ n \in DOMAIN b.plans /\ b.plans[n].kind = "recovery"
        /\ Recoveries(b.plans) = Recoveries(plans) \union {n}
        /\ n \notin Recoveries(plans) /\ Spared(b, n)
    BY <1>0, MadeRecovery
  <2>2. Becomes(e)
    BY <1>1 DEF StartRecovery
  <2> HIDE DEF b, n
  <2>3. Keeps(b, e) /\ IsBranch(b)
    BY <2>1, AdvancedKeeps DEF Keeps
  <2>4. CASE Recoveries(plans) = {}
    <3>1. Afloat(e) /\ IsBranch(e)
      BY <2>1, <2>3, <2>4, AdvancedAfloat DEF Keeps
    <3> QED BY <2>2, <3>1, BecomesTended
  <2>5. CASE Recoveries(plans) # {}
    <3> HIDE DEF e
    <3>1. \A r : ~Concerned(e.plans, r)
      BY <2>1, <2>3, <2>5, Before
    <3>2. Afloat(e) /\ IsBranch(e)
      BY <2>3, <3>1 DEF Afloat, Keeps
    <3> QED BY <2>2, <3>2, BecomesTended
  <2> QED BY <2>4, <2>5
<1>2. CASE Status
  <2>1. Becomes(Synced(Branch))
    BY <1>2 DEF Status
  <2>2. IsBranch(Synced(Branch)) /\ Afloat(Synced(Branch))
    BY <1>0, SyncedKeeps, SyncedAfloat DEF Keeps
  <2> QED BY <2>1, <2>2, BecomesTended
<1>3. CASE RegisterSnapshot
  <2>1. plans' = plans /\ health' = [health EXCEPT !.coverage = "fresh"]
    BY <1>3 DEF RegisterSnapshot
  <2>2. health'.window = health.window
    BY <2>1 DEF TypeOK, IsHistory
  <2> QED BY <2>1, <2>2 DEF Tended, Afloat, Branch, Affordable, Spared
<1>4. ASSUME NEW i \in Reusable("branch_stabilization"), Stabilize(i)
      PROVE  Tended'
  <2> DEFINE b == Refreshed(Branch, "branch_stabilization", i)
  <2>1. i = NoPlan \/ i \in DOMAIN plans
    BY DEF Reusable, IdsOf
  <2>2. IsBranch(b) /\ Afloat(b)
    BY <1>0, <2>1, RefreshedKeeps, RefreshedAfloat DEF Keeps
  <2>3. Becomes(b)
    BY <1>4 DEF Stabilize
  <2> QED BY <2>2, <2>3, BecomesTended
<1>5. ASSUME NEW i \in Reusable("branch_stabilization"),
             NEW r \in Reusable("recovery"), Cycle(i, r)
      PROVE  Tended'
  <2> DEFINE b == Refreshed(Branch, "branch_stabilization", i)
             c == Refreshed(b, "recovery", r)
             d == Synced(c)
             e == Synced(Branch)
  <2>1. /\ i = NoPlan \/ i \in DOMAIN plans
        /\ r = NoPlan \/ r \in DOMAIN plans
    BY DEF Reusable, IdsOf
  <2>2. Becomes(Synced(d)) \/ Becomes(Synced(e))
    BY <1>5 DEF Cycle, ActedOn
  <2>3. /\ Keeps(Branch, b) /\ IsBranch(b) /\ Afloat(b)
        /\ r = NoPlan \/ r \in DOMAIN b.plans
    BY <1>0, <2>1, RefreshedKeeps, RefreshedAfloat DEF Keeps
  <2> HIDE DEF b
  <2>4. IsBranch(c) /\ Afloat(c)
    BY <2>3, RefreshedKeeps, RefreshedAfloat DEF Keeps
  <2> HIDE DEF c
  <2>5. IsBranch(d) /\ Afloat(d)
    BY <2>4, SyncedKeeps, SyncedAfloat DEF Keeps
  <2>6. IsBranch(e) /\ Afloat(e)
    BY <1>0, SyncedKeeps, SyncedAfloat DEF Keeps
  <2> HIDE DEF d, e
  <2>7. /\ IsBranch(Synced(d)) /\ Afloat(Synced(d))
        /\ IsBranch(Synced(e)) /\ Afloat(Synced(e))
    BY <2>5, <2>6, SyncedKeeps, SyncedAfloat DEF Keeps
  <2> QED BY <2>2, <2>7, BecomesTended
<1>6. ASSUME NEW i \in DOMAIN plans, Advance(i)
      PROVE  Tended'
  <2>1. plans[i].kind = "recovery" /\ Open(plans[i]) /\ Becomes(Advanced(Branch, i))
    BY <1>6 DEF Advance
  <2>2. IsBranch(Advanced(Branch, i)) /\ Afloat(Advanced(Branch, i))
    BY <1>0, <2>1, AdvancedKeeps, AdvancedByHand DEF Keeps
  <2> QED BY <2>1, <2>2, BecomesTended
<1>7. ASSUME NEW i \in DOMAIN plans, Take(i)
      PROVE  Tended'
  <2> DEFINE qs == plans'
             b == [plans |-> qs, health |-> health]
  <2>1. /\ Onward(plans, qs) /\ health' = health
        /\ \A j \in DOMAIN plans : Active(qs[j]) => Active(plans[j])
    BY <1>0, <1>7, TakenOnward DEF TypeOK
  <2> HIDE DEF qs
  <2>2. ASSUME NEW r, Concerned(qs, r)
        PROVE  Going(qs, r) /\ Affordable(b, r)
    <3>1. Concerned(plans, r) /\ Recoveries(plans) = {r}
      BY <2>1, <2>2, OnwardFacts DEF Concerned
    <3>2. Going(plans, r) /\ Affordable(Branch, r)
      BY <1>0, <3>1 DEF Afloat
    <3>3. Going(qs, r)
      BY <2>1, <3>1, <3>2, OnwardFacts
    <3>4. r \in DOMAIN plans
      BY <3>1 DEF Recoveries, IdsOf
    <3>5. ASSUME Active(qs[r]) PROVE ~Required(qs[r], health.window)
      <4>1. ~Required(plans[r], health.window)
        BY <1>0, <2>1, <3>2, <3>4, <3>5 DEF Affordable, Spared
      <4> QED BY <2>1, <3>4, <4>1, OnwardFacts
    <3> QED BY <3>3, <3>5 DEF Affordable, Spared
  <2>3. Afloat(b)
    BY <2>2 DEF Afloat
  <2> QED BY <2>1, <2>3 DEF Tended, Branch, qs
<1>8. ASSUME NEW i \in DOMAIN plans, NEW success \in BOOLEAN, Report(i, success)
      PROVE  Tended'
  <2> DEFINE b == Reported(i, success)
             c == Synced(b)
             d == Executed(c, i)
  <2>1. plans[i].state = "in_progress" /\ (success \/ MayFail(plans[i]))
    BY <1>8 DEF Report
  <2>2. Becomes(CASE plans[i].kind = "recovery" -> Advanced(b, i)
                  [] plans[i].kind = "remediation" -> Repaired(d, i)
                  [] OTHER -> Synced(d))
    BY <1>8 DEF Report
  <2>3. /\ Keeps(Branch, b) /\ IsBranch(b) /\ i \in DOMAIN b.plans
        /\ b.plans[i].kind = plans[i].kind
    BY <1>0, <2>1, ReportedKeeps DEF Keeps
  <2>4. /\ IsBranch(d) /\ i \in DOMAIN d.plans /\ d.plans[i].kind = plans[i].kind
    <3> HIDE DEF b
    <3>1. Keeps(b, c) /\ IsBranch(c) /\ i \in DOMAIN c.plans
      BY <2>3, SyncedKeeps DEF Keeps
    <3> HIDE DEF c
    <3>2. Keeps(b, d)
      BY <3>1, ExecutedKeeps, KeepsOn
    <3> HIDE DEF d
    <3> QED BY <2>3, <3>2 DEF Keeps
  <2>5. CASE plans[i].kind = "recovery"
    <3>1. Afloat(Advanced(b, i))
      BY <1>0, <2>1, <2>5, RecoveryReported
    <3> HIDE DEF b
    <3>2. IsBranch(Advanced(b, i))
      BY <2>3, <2>5, AdvancedKeeps DEF Keeps
    <3>3. Becomes(Advanced(b, i))
      BY <2>2, <2>5
    <3> QED BY <3>1, <3>2, <3>3, BecomesTended
  <2>6. CASE plans[i].kind = "remediation"
    <3>1. Afloat(Repaired(d, i))
      BY <1>0, <2>1, <2>6, RemediationReported
    <3> HIDE DEF d
    <3>2. IsBranch(Repaired(d, i))
      BY <2>4, <2>6, RepairedKeeps DEF Keeps
    <3>3. Becomes(Repaired(d, i))
      BY <2>2, <2>6
    <3> QED BY <3>1, <3>2, <3>3, BecomesTended
  <2>7. CASE plans[i].kind \notin {"recovery", "remediation"}
    <3>1. Afloat(Synced(d))
      BY <1>0, <2>1, <2>7, StabilizationReported
    <3> HIDE DEF d
    <3>2. IsBranch(Synced(d))
      BY <2>4, SyncedKeeps DEF Keeps
    <3>3. Becomes(Synced(d))
      BY <2>2, <2>7
    <3> QED BY <3>1, <3>2, <3>3, BecomesTended
  <2> QED BY <2>5, <2>6, <2>7
<1>9. CASE UNCHANGED vars
  BY <1>9 DEF vars, Tended, Branch
<1> QED BY <1>1, <1>2, <1>3, <1>4, <1>5, <1>6, <1>7, <1>8, <1>9 DEF Next

(* A recovery goes on by itself: whatever else is planned on its branch,   *)
(* however often its steps fail, and whatever that makes of the pressure   *)
(* and so of the budget between two syncs of a call, a report, a request   *)
(* or a cycle of the loop leaves a step of the branch's only recovery, or  *)
(* of a remediation of it, with the agents, unless a remediation failed.   *)
THEOREM NothingIsStranded == Spec => []NothingStranded
<1>1. Init => Tended
  BY DEF Init, Tended, Afloat, Branch, Recoveries, IdsOf
<1>2. TypeOK /\ Tended /\ [Next]_vars => Tended'
  BY StepTended
<1>3. TypeOK /\ Tended => NothingStranded
  <2> SUFFICES ASSUME TypeOK, Tended,
                      NEW r \in Recoveries(plans), Open(plans[r]),
                      Recoveries(plans) = {r},
                      \A c \in Children(plans, r) : PlanStatus(plans[c]) # "failed"
               PROVE  \E i \in {r} \union Children(plans, r) :
                        plans[i].state \in {"queued", "in_progress"}
    BY DEF NothingStranded
  <2>1. \A c \in Children(plans, r) : plans[c].state # "failed"
    BY DEF PlanStatus
  <2>2. Concerned(plans, r)
    BY <2>1 DEF Concerned
  <2>3. Going(plans, r)
    BY <2>2 DEF Tended, Afloat, Branch
  <2> QED BY <2>3 DEF Going, Active
<1> QED BY <1>1, <1>2, <1>3, TypeCorrect, PTL DEF Spec

---------------------------------------------------------------------------
(* The pressure of a branch whose recovery waits for its remediation.      *)

(* One of the last k records is of a blocked recovery.                     *)
Marked(w, k) == \E j \in DOMAIN w : j > Len(w) - k /\ w[j].status = "blocked"

(* With each record the marks of a history age by one.                     *)
LEMMA MarksAge ==
  ASSUME NEW w \in Seq(Observation), NEW o \in Observation, NEW k \in Nat
  PROVE  LET v == Suffix(Append(w, o), MaxHistory) IN
         /\ v \in Seq(Observation)
         /\ k + 1 <= MaxHistory /\ Marked(w, k) => Marked(v, k + 1)
         /\ o.status = "blocked" => Marked(v, 1)
<1> DEFINE long == Append(w, o)
           v == Suffix(long, MaxHistory)
           n == Len(w)
<1>1. MaxHistory \in Nat \ {0}
  BY BranchHealthAssumption
<1>2. /\ long \in Seq(Observation) /\ Len(long) = n + 1 /\ n \in Nat
      /\ long[n + 1] = o /\ \A i \in 1 .. n : long[i] = w[i]
      /\ DOMAIN w = 1 .. n
  OBVIOUS
<1> HIDE DEF long, n
<1>3. /\ v \in Seq(Observation)
      /\ Len(v) = IF Len(long) <= MaxHistory THEN Len(long) ELSE MaxHistory
      /\ \A i \in 1 .. Len(v) : v[i] = long[i + (Len(long) - Len(v))]
  BY <1>1, <1>2, SuffixFits
<1> HIDE DEF v
<1>4. /\ Len(v) \in Nat \ {0} /\ DOMAIN v = 1 .. Len(v) /\ Len(v) <= n + 1
  <2>1. Len(v) \in Nat /\ DOMAIN v = 1 .. Len(v)
    BY <1>3
  <2>2. Len(v) = IF n + 1 <= MaxHistory THEN n + 1 ELSE MaxHistory
    BY <1>2, <1>3
  <2> QED BY <1>1, <1>2, <2>1, <2>2
<1>5. Len(v) = n + 1 \/ Len(v) = MaxHistory
  BY <1>2, <1>3
<1>6. \A i \in 1 .. Len(v) : v[i] = long[i + (n + 1 - Len(v))]
  <2>1. Len(long) = n + 1
    BY <1>2
  <2>2. ASSUME NEW i \in 1 .. Len(v) PROVE v[i] = long[i + (n + 1 - Len(v))]
    <3>1. v[i] = long[i + (Len(long) - Len(v))]
      BY <1>3
    <3>2. i + (Len(long) - Len(v)) = i + (n + 1 - Len(v))
      <4>1. Len(long) = n + 1 /\ n \in Nat /\ Len(v) \in Nat /\ i \in Int
        BY <1>2, <1>4, <2>1
      <4> QED BY <4>1
    <3> QED BY <3>1, <3>2
  <2> QED BY <2>2
<1>7. ASSUME k + 1 <= MaxHistory, Marked(w, k) PROVE Marked(v, k + 1)
  <2>1. PICK j \in 1 .. n : j > n - k /\ w[j].status = "blocked"
    BY <1>2, <1>7 DEF Marked, n
  <2> DEFINE i == j - (n + 1 - Len(v))
  <2>2. i \in 1 .. Len(v) /\ i > Len(v) - (k + 1) /\ i + (n + 1 - Len(v)) = j
    <3>1. /\ n \in Nat /\ Len(v) \in Nat /\ Len(v) <= n + 1 /\ MaxHistory \in Nat
          /\ j \in Nat /\ j >= 1 /\ j <= n /\ j > n - k
      BY <1>1, <1>2, <1>4, <2>1
    <3>2. k + 1 <= MaxHistory /\ (Len(v) = n + 1 \/ Len(v) = MaxHistory)
      BY <1>5, <1>7
    <3> HIDE DEF n, v
    <3> QED BY <3>1, <3>2
  <2> HIDE DEF i
  <2>3. v[i] = w[j]
    BY <1>2, <1>6, <2>1, <2>2
  <2> QED BY <1>4, <2>1, <2>2, <2>3 DEF Marked
<1>8. ASSUME o.status = "blocked" PROVE Marked(v, 1)
  <2>1. Len(v) \in 1 .. Len(v) /\ Len(v) > Len(v) - 1
    BY <1>4
  <2>2. Len(v) + (n + 1 - Len(v)) = n + 1
    BY <1>2, <1>4
  <2>3. v[Len(v)] = o
    BY <1>2, <1>6, <2>1, <2>2
  <2> QED BY <1>4, <1>8, <2>1, <2>3 DEF Marked
<1> QED BY <1>3, <1>7, <1>8 DEF v, long

(* What a record does to the marks.                                        *)
LEMMA RecordedMarks ==
  ASSUME NEW h, IsHistory(h), NEW o \in Observation, NEW s,
         Len(s) = 6 => s[3].status = o.status,
         o.gate = "blocked" => o.status = "blocked"
  PROVE  LET g == Recorded(h, o, s) IN
         /\ \A k \in Nat : k + 1 <= MaxHistory /\ Marked(h.window, k) =>
                             Marked(g.window, k + 1)
         /\ Alarm(g.window) => Alarm(h.window) \/ Marked(g.window, 1)
         /\ Len(s) = 6 /\ o.status = "blocked" => Marked(g.window, 1)
<1> DEFINE v == Suffix(Append(h.window, o), MaxHistory)
           g == Recorded(h, o, s)
           n == Len(h.window)
<1>1. h.window \in Seq(Observation) /\ n \in Nat /\ DOMAIN h.window = 1 .. n
  BY DEF IsHistory
<1>2. CASE s = h.last
  <2>1. g = h
    BY <1>2 DEF Recorded
  <2>2. ASSUME NEW k \in Nat, Marked(h.window, k) PROVE Marked(h.window, k + 1)
    <3>1. PICK j \in 1 .. n : j > n - k /\ h.window[j].status = "blocked"
      BY <1>1, <2>2 DEF Marked
    <3>2. j > n - (k + 1)
      BY <1>1, <3>1
    <3> QED BY <1>1, <3>1, <3>2 DEF Marked
  <2>3. ASSUME Len(s) = 6, o.status = "blocked" PROVE Marked(h.window, 1)
    <3>1. h.window # << >> /\ h.window[n].status = "blocked"
      BY <1>2, <2>3 DEF IsHistory
    <3>2. n \in 1 .. n /\ n > n - 1
      BY <1>1, <3>1
    <3> QED BY <1>1, <3>1, <3>2 DEF Marked
  <2> QED BY <2>1, <2>2, <2>3
<1>3. CASE s # h.last
  <2>1. g.window = v
    BY <1>3 DEF Recorded
  <2> HIDE DEF g
  <2>2. \A k \in Nat : k + 1 <= MaxHistory /\ Marked(h.window, k) => Marked(v, k + 1)
    BY <1>1, MarksAge
  <2>3. o.status = "blocked" => Marked(v, 1)
    BY <1>1, MarksAge
  <2>4. o.gate # "blocked" /\ Alarm(v) => Alarm(h.window)
    BY <1>1, AlarmFades
  <2> HIDE DEF v
  <2> QED BY <2>1, <2>2, <2>3, <2>4 DEF g
<1> QED BY <1>2, <1>3

LEMMA RecordMarks ==
  ASSUME NEW ps \in Files, NEW i \in DOMAIN ps, NEW h, IsHistory(h)
  PROVE  LET g == Record(ps, i, h) IN
         /\ i \notin Watched(ps) => g = h
         /\ i \in Watched(ps) =>
              \A k \in Nat : k + 1 <= MaxHistory /\ Marked(h.window, k) =>
                               Marked(g.window, k + 1)
         /\ Alarm(g.window) => Alarm(h.window) \/ Marked(g.window, 1)
         /\ ps[i].kind = "recovery" /\ Remediation(ps, i, h.window).blocking =>
              Marked(g.window, 1)
<1> DEFINE look == Outlook(ps, i, h.window)
           o == Observed(look.health, look.gate)
           bare == Bare(StabilizationHealth(ps[i]))
           g == Record(ps, i, h)
<1>1. CASE ps[i].kind = "recovery"
  <2> DEFINE s == <<i, PlanStatus(ps[i]), look.health, look.gate,
                    Disrupted(ps[i]), ps[i].disrupted>>
  <2>1. /\ o \in Observation
        /\ look.gate = "blocked" => look.health.status = "blocked"
        /\ Remediation(ps, i, h.window).blocking => look.health.status = "blocked"
    BY LookFits
  <2>2. g = Recorded(h, o, s)
    BY <1>1 DEF Record, RecoveryRecorded
  <2>3. i \in Watched(ps)
    BY <1>1 DEF Watched, Recoveries, IdsOf
  <2> HIDE DEF look, g
  <2>4. /\ Len(s) = 6 /\ s[3].status = o.status
        /\ o.gate = look.gate /\ o.status = look.health.status
    BY DEF Observed
  <2> HIDE DEF o, s
  <2>5. /\ \A k \in Nat : k + 1 <= MaxHistory /\ Marked(h.window, k) =>
                            Marked(g.window, k + 1)
        /\ Alarm(g.window) => Alarm(h.window) \/ Marked(g.window, 1)
        /\ o.status = "blocked" => Marked(g.window, 1)
    BY <2>1, <2>2, <2>4, RecordedMarks
  <2> QED BY <2>1, <2>3, <2>4, <2>5 DEF g
<1>2. CASE ps[i].kind = "branch_stabilization" /\ ~Open(ps[i])
  <2> DEFINE s == <<i, PlanStatus(ps[i])>>
  <2>1. bare \in Observation /\ bare.gate = "unknown"
    BY DEF Bare, StabilizationHealth, Observed, Observation, HealthStates
  <2>2. g = Recorded(h, bare, s)
    BY <1>2 DEF Record
  <2>3. Len(s) # 6
    BY DEF s
  <2> HIDE DEF g, bare, s
  <2>4. /\ \A k \in Nat : k + 1 <= MaxHistory /\ Marked(h.window, k) =>
                            Marked(g.window, k + 1)
        /\ Alarm(g.window) => Alarm(h.window) \/ Marked(g.window, 1)
    BY <2>1, <2>2, <2>3, RecordedMarks
  <2>5. i \in Watched(ps)
    BY <1>2 DEF Watched, IdsOf
  <2> QED BY <1>2, <2>4, <2>5 DEF g
<1>3. CASE ps[i].kind # "recovery"
             /\ ~ (ps[i].kind = "branch_stabilization" /\ ~Open(ps[i]))
  <2>1. g = h
    BY <1>3 DEF Record
  <2>2. i \notin Watched(ps)
    BY <1>3 DEF Watched, Recoveries, IdsOf
  <2> HIDE DEF g
  <2> QED BY <1>3, <2>1, <2>2 DEF g
<1> QED BY <1>1, <1>2, <1>3

(* After a sync the last records, as many as plans are observed, tell of   *)
(* every recovery that waits for its remediation.                          *)
Warned(ps, w) ==
  Cardinality(Watched(ps)) <= 5 =>
    \A r \in Recoveries(ps) : Remediation(ps, r, w).blocking =>
                                Marked(w, Cardinality(Watched(ps)))

LEMMA SyncWarns ==
  ASSUME NEW ps \in Files, NEW h, IsHistory(h), MaxHistory >= 5
  PROVE  Warned(ps, Sync(ps, h).window)
<1> SUFFICES ASSUME Cardinality(Watched(ps)) <= 5
             PROVE  \A r \in Recoveries(ps) :
                      Remediation(ps, r, Sync(ps, h).window).blocking =>
                        Marked(Sync(ps, h).window, Cardinality(Watched(ps)))
  BY DEF Warned
<1> DEFINE m == Len(ps)
           W(n) == {i \in Watched(ps) : i > m - n}
           size(n) == Cardinality(W(n))
           Blocked(r, w) == Remediation(ps, r, w).blocking
<1>1. m \in Nat /\ DOMAIN ps = 1 .. m
  BY FileFacts
<1>2. PICK f : /\ f[0] = h
               /\ \A n \in 1 .. m : f[n] = Record(ps, m + 1 - n, f[n - 1])
               /\ Sync(ps, h) = f[m]
  BY SyncSteps
<1>3. Watched(ps) \subseteq DOMAIN ps /\ Recoveries(ps) \subseteq Watched(ps)
  BY DEF Watched, Recoveries, IdsOf
<1> HIDE DEF m
<1>4. IsFiniteSet(Watched(ps)) /\ \A n : IsFiniteSet(W(n))
  <2>1. IsFiniteSet(DOMAIN ps)
    BY <1>1, FS_Interval
  <2>2. IsFiniteSet(Watched(ps))
    BY <1>3, <2>1, FS_Subset
  <2>3. \A n : W(n) \subseteq Watched(ps)
    OBVIOUS
  <2> HIDE DEF W
  <2> QED BY <2>2, <2>3, FS_Subset
<1>5. \A n : size(n) \in Nat /\ size(n) <= 5
  <2> TAKE n
  <2>1. W(n) \subseteq Watched(ps)
    OBVIOUS
  <2> HIDE DEF W
  <2>2. Cardinality(W(n)) <= Cardinality(Watched(ps))
    BY <1>4, <2>1, FS_Subset
  <2>3. Cardinality(W(n)) \in Nat /\ Cardinality(Watched(ps)) \in Nat
    BY <1>4, FS_CardinalityType
  <2> QED BY <2>2, <2>3
<1> DEFINE J(n) == \A r \in Recoveries(ps) :
                     r > m - n /\ Blocked(r, f[n].window) =>
                       Marked(f[n].window, size(n))
           Holds(n) == IsHistory(f[n]) /\ J(n)
<1>6. ASSUME NEW n \in 1 .. m, Holds(n - 1) PROVE Holds(n)
  <2> DEFINE i == m + 1 - n
             g == f[n - 1]
  <2>1. i \in DOMAIN ps /\ f[n] = Record(ps, i, g) /\ i > m - n
    BY <1>1, <1>2
  <2>2. IsHistory(g) /\ J(n - 1)
    BY <1>6
  <2>3. \A x \in DOMAIN ps : x > m - n <=> x = i \/ x > m - (n - 1)
    BY <1>1
  <2>4. ~ (i > m - (n - 1))
    BY <1>1
  <2>5. W(n) = IF i \in Watched(ps) THEN W(n - 1) \union {i} ELSE W(n - 1)
    <3> HIDE DEF i
    <3>1. ASSUME NEW x \in Watched(ps) PROVE x > m - n <=> x = i \/ x > m - (n - 1)
      BY <1>3, <2>3
    <3> QED BY <3>1
  <2>6. i \notin W(n - 1)
    BY <2>4
  <2>7. size(n) = IF i \in Watched(ps) THEN size(n - 1) + 1 ELSE size(n - 1)
    <3> HIDE DEF W, i
    <3>1. IsFiniteSet(W(n - 1))
      BY <1>4
    <3>2. Cardinality(W(n - 1) \union {i}) = Cardinality(W(n - 1)) + 1
      BY <2>6, <3>1, FS_AddElement
    <3> QED BY <2>5, <3>2
  <2> HIDE DEF W, size, i, g
  <2>8. /\ i \notin Watched(ps) => f[n] = g
        /\ i \in Watched(ps) =>
             \A k \in Nat : k + 1 <= MaxHistory /\ Marked(g.window, k) =>
                              Marked(f[n].window, k + 1)
        /\ Alarm(f[n].window) => Alarm(g.window) \/ Marked(f[n].window, 1)
        /\ ps[i].kind = "recovery" /\ Blocked(i, g.window) =>
             Marked(f[n].window, 1)
    BY <2>1, <2>2, RecordMarks
  <2>9. IsHistory(f[n])
    BY <2>1, <2>2, RecordFits
  <2>10. ASSUME NEW r \in Recoveries(ps), r > m - n, Blocked(r, f[n].window)
         PROVE  Marked(f[n].window, size(n))
    <3>1. r \in DOMAIN ps /\ r \in Watched(ps) /\ ps[r] \in PlanRecord
            /\ ps[r].kind = "recovery"
      BY <1>3, FileFacts DEF Recoveries, IdsOf
    <3>2. CASE i \notin Watched(ps)
      <4>1. r > m - (n - 1) /\ f[n] = g /\ size(n) = size(n - 1)
        BY <2>3, <2>7, <2>8, <2>10, <3>1, <3>2
      <4> QED BY <2>2, <2>10, <4>1 DEF g
    <3>3. CASE i \in Watched(ps)
      <4>1. size(n) = size(n - 1) + 1 /\ size(n - 1) \in Nat /\ size(n) <= MaxHistory
        <5>1. size(n) = size(n - 1) + 1
          BY <2>7, <3>3
        <5>2. size(n) \in Nat /\ size(n) <= 5 /\ size(n - 1) \in Nat
          BY <1>5
        <5>3. MaxHistory \in Nat
          BY BranchHealthAssumption
        <5> QED BY <5>1, <5>2, <5>3
      <4>2. ASSUME Marked(f[n].window, 1) PROVE Marked(f[n].window, size(n))
        <5>1. PICK j \in DOMAIN f[n].window :
                j > Len(f[n].window) - 1 /\ f[n].window[j].status = "blocked"
          BY <4>2 DEF Marked
        <5>2. Len(f[n].window) \in Nat /\ DOMAIN f[n].window = 1 .. Len(f[n].window)
          BY <2>9 DEF IsHistory
        <5>3. j > Len(f[n].window) - size(n)
          BY <4>1, <5>1, <5>2
        <5> QED BY <5>1, <5>3 DEF Marked
      <4>3. CASE ~Blocked(r, g.window)
        <5>1. Required(ps[r], f[n].window) /\ ~Required(ps[r], g.window)
          BY <2>10, <4>3 DEF Remediation, RemediationBy
        <5>2. g.window \in Seq(Observation) /\ f[n].window \in Seq(Observation)
          BY <2>2, <2>9 DEF IsHistory
        <5>3. Alarm(f[n].window) /\ ~Alarm(g.window)
          BY <3>1, <5>1, <5>2, RequiredEases
        <5> QED BY <2>8, <4>2, <5>3
      <4>4. CASE Blocked(r, g.window) /\ r = i
        BY <2>8, <3>1, <4>2, <4>4
      <4>5. CASE Blocked(r, g.window) /\ r # i
        <5>1. r > m - (n - 1)
          BY <2>3, <2>10, <3>1, <4>5
        <5>2. Marked(g.window, size(n - 1))
          BY <2>2, <4>5, <5>1 DEF g
        <5> QED BY <2>8, <3>3, <4>1, <5>2
      <4> QED BY <4>3, <4>4, <4>5
    <3> QED BY <3>2, <3>3
  <2> QED BY <2>9, <2>10
<1>7. Holds(0)
  <2>1. \A r \in Recoveries(ps) : ~ (r > m - 0)
    BY <1>1, <1>3
  <2> QED BY <1>2, <2>1
<1> HIDE DEF Holds
<1> DEFINE S == {n \in 0 .. m : Holds(n)}
<1>8. \A n \in 1 .. m : n - 1 \in S => n \in S
  BY <1>1, <1>6
<1>9. Holds(m)
  <2>1. 0 \in S
    BY <1>1, <1>7
  <2>2. m \in S
    <3> HIDE DEF S
    <3> QED BY <1>1, <1>8, <2>1, CountsOn
  <2> QED BY <2>2
<1>10. W(m) = Watched(ps)
  BY <1>1, <1>3
<1>11. ASSUME NEW r \in Recoveries(ps), Blocked(r, f[m].window)
       PROVE  Marked(f[m].window, Cardinality(Watched(ps)))
  <2>1. r > m - m
    BY <1>1, <1>3
  <2>2. J(m)
    BY <1>9 DEF Holds
  <2> HIDE DEF W
  <2> QED BY <1>10, <1>11, <2>1, <2>2
<1> QED BY <1>2, <1>11

(* Where a record of a blocked branch is among the last five and the       *)
(* branch is blocked now, the pressure is high at least.                   *)
LEMMA Pressed ==
  ASSUME NEW w \in Seq(Observation), NEW o \in Observation, o.status = "blocked",
         NEW k \in Nat, k <= 5, Marked(w, k), DriftWindow >= 6
  PROVE  Pressure(Append(w, o)) \in {"critical", "high"}
<1> DEFINE long == Append(w, o)
           horizon == Suffix(long, DriftWindow)
           last6 == LastSix(long)
           troubled == {i \in DOMAIN last6 : last6[i].status \in {"degraded", "blocked"}}
           n == Len(w)
           m == Len(last6)
<1>1. /\ long \in Seq(Observation) /\ Len(long) = n + 1 /\ n \in Nat
      /\ long[n + 1] = o /\ \A i \in 1 .. n : long[i] = w[i]
      /\ DOMAIN w = 1 .. n
  OBVIOUS
<1>2. PICK j \in 1 .. n : j > n - k /\ w[j].status = "blocked"
  BY <1>1 DEF Marked
<1> HIDE DEF long, n
<1>3. /\ m \in Nat /\ DOMAIN last6 = 1 .. m
      /\ m <= Len(long) /\ m <= 6 /\ m \in {Len(long), 6, DriftWindow}
      /\ \A i \in 1 .. m : last6[i] = long[i + (Len(long) - m)]
  BY <1>1, LastSixFits
<1> HIDE DEF last6
<1>4. m = n + 1 \/ m = 6
  <2>1. DriftWindow \in Nat
    BY BranchHealthAssumption
  <2>2. m = Len(long) \/ m = 6 \/ m = DriftWindow
    BY <1>3
  <2>3. m = DriftWindow => m = 6
    BY <1>3, <2>1
  <2> QED BY <1>1, <2>2, <2>3
<1>5. m \in Nat /\ m <= n + 1 /\ Len(long) = n + 1 /\ n \in Nat
  BY <1>1, <1>3
<1> HIDE DEF m
<1>6. ASSUME NEW i \in 1 .. m, long[i + (n + 1 - m)].status = "blocked"
      PROVE  i \in troubled
  <2>1. last6[i] = long[i + (n + 1 - m)]
    <3>1. last6[i] = long[i + (Len(long) - m)]
      BY <1>3
    <3> QED BY <1>5, <3>1
  <2> QED BY <1>3, <1>6, <2>1
<1>7. j \in Nat /\ 1 <= j /\ j <= n /\ j > n - 5
  <2>1. j \in Nat /\ 1 <= j /\ j <= n /\ j > n - k
    BY <1>2, <1>5
  <2> QED BY <1>5, <2>1
<1>8. j > n + 1 - m /\ n + 1 > n + 1 - m /\ m >= 1
  <2>1. CASE m = n + 1
    BY <1>5, <1>7, <2>1
  <2>2. CASE m = 6
    BY <1>5, <1>7, <2>2
  <2> QED BY <1>4, <2>1, <2>2
<1>9. j - (n + 1 - m) \in troubled /\ m \in troubled
  <2> DEFINE i == j - (n + 1 - m)
  <2>1. i \in 1 .. m /\ i + (n + 1 - m) = j
    BY <1>5, <1>7, <1>8
  <2>2. m \in 1 .. m /\ m + (n + 1 - m) = n + 1
    BY <1>5, <1>8
  <2>3. long[j].status = "blocked" /\ long[n + 1].status = "blocked"
    BY <1>1, <1>2
  <2> HIDE DEF i, troubled
  <2>4. i \in troubled
    BY <1>6, <2>1, <2>3
  <2>5. m \in troubled
    BY <1>6, <2>2, <2>3
  <2> QED BY <2>4, <2>5 DEF i
<1>10. j - (n + 1 - m) # m
  BY <1>5, <1>7
<1>11. Seen(last6, {"degraded", "blocked"}) >= 2
  <2> DEFINE x == j - (n + 1 - m)
  <2>1. Seen(last6, {"degraded", "blocked"}) = Cardinality(troubled)
    BY DEF Seen
  <2>2. IsFiniteSet(troubled)
    <3>1. IsFiniteSet(DOMAIN last6)
      BY <1>3, <1>5, FS_Interval
    <3> QED BY <3>1, FS_Subset
  <2> HIDE DEF troubled
  <2>3. {x, m} \subseteq troubled /\ x # m
    BY <1>9, <1>10
  <2> HIDE DEF x
  <2>4. Cardinality({x, m}) = 2
    <3>1. IsFiniteSet({m}) /\ Cardinality({m}) = 1
      BY FS_Singleton
    <3>2. Cardinality({m} \union {x}) = Cardinality({m}) + 1
      BY <2>3, <3>1, FS_AddElement
    <3>3. {m} \union {x} = {x, m}
      OBVIOUS
    <3>4. Cardinality({x, m}) = Cardinality({m}) + 1
      BY <3>2, <3>3
    <3> QED BY <3>1, <3>4
  <2>5. Cardinality({x, m}) <= Cardinality(troubled) /\ Cardinality(troubled) \in Nat
    BY <2>2, <2>3, FS_Subset, FS_CardinalityType
  <2> QED BY <2>1, <2>4, <2>5
<1>12. ASSUME NEW dq, NEW dc PROVE PressureBy(last6, dq, dc) \in {"critical", "high"}
  BY <1>11 DEF PressureBy, PressureLevel
<1>13. horizon # << >>
  <2>1. last6 = Suffix(horizon, 6)
    BY DEF LastSix, last6, horizon
  <2>2. last6 # << >>
    <3>1. 1 \in DOMAIN last6
      BY <1>3, <1>5, <1>8
    <3>2. DOMAIN << >> = {}
      OBVIOUS
    <3> QED BY <3>1, <3>2
  <2> HIDE DEF horizon
  <2> QED BY <2>1, <2>2 DEF Suffix
<1>14. Pressure(long) = PressureBy(last6, Delta(Qualities(horizon), 5),
                                   Delta(Confidences(horizon), 5))
  BY <1>13 DEF Pressure, PressureOf, LastSix, last6
<1> QED BY <1>12, <1>14 DEF long

(* While a branch has no recovery, no record is of a blocked one.          *)
Quiet(w) == \A j \in DOMAIN w : w[j].status # "blocked"
Calm(b) == Recoveries(b.plans) = {} => Quiet(b.health.window)

LEMMA RecordQuiet ==
  ASSUME NEW ps \in Files, NEW i \in DOMAIN ps, ps[i].kind # "recovery",
         NEW h, IsHistory(h), Quiet(h.window)
  PROVE  Quiet(Record(ps, i, h).window)
<1> DEFINE bare == Bare(StabilizationHealth(ps[i]))
           s == <<i, PlanStatus(ps[i])>>
           long == Append(h.window, bare)
           v == Suffix(long, MaxHistory)
           n == Len(h.window)
<1>1. bare \in Observation /\ bare.status # "blocked"
  BY DEF Bare, StabilizationHealth, Observed, Observation, HealthStates
<1> HIDE DEF bare
<1>2. /\ long \in Seq(Observation) /\ Len(long) = n + 1 /\ n \in Nat
      /\ long[n + 1] = bare /\ \A x \in 1 .. n : long[x] = h.window[x]
      /\ DOMAIN h.window = 1 .. n
  BY <1>1 DEF IsHistory
<1>3. \A x \in 1 .. n + 1 : long[x].status # "blocked"
  <2> SUFFICES ASSUME NEW x \in 1 .. n + 1 PROVE long[x].status # "blocked"
    OBVIOUS
  <2>1. CASE x = n + 1
    BY <1>1, <1>2, <2>1
  <2>2. CASE x \in 1 .. n
    BY <1>2, <2>2 DEF Quiet
  <2>3. x = n + 1 \/ x \in 1 .. n
    <3> HIDE DEF n
    <3> QED BY <1>2
  <2> QED BY <2>1, <2>2, <2>3
<1> HIDE DEF long, n
<1>4. MaxHistory \in Nat
  BY BranchHealthAssumption
<1>5. /\ v \in Seq(Observation)
      /\ Len(v) = IF Len(long) <= MaxHistory THEN Len(long) ELSE MaxHistory
      /\ \A x \in 1 .. Len(v) : v[x] = long[x + (Len(long) - Len(v))]
  BY <1>2, <1>4, SuffixFits
<1> HIDE DEF v
<1>6. Quiet(v)
  <2> SUFFICES ASSUME NEW x \in DOMAIN v PROVE v[x].status # "blocked"
    BY DEF Quiet
  <2>1. Len(v) \in Nat /\ x \in 1 .. Len(v)
    BY <1>5
  <2>2. Len(v) <= Len(long) /\ Len(long) = n + 1 /\ n \in Nat
    BY <1>2, <1>4, <1>5, <2>1
  <2>3. x + (Len(long) - Len(v)) \in 1 .. n + 1
    BY <2>1, <2>2
  <2> QED BY <1>3, <1>5, <2>1, <2>3
<1>7. Record(ps, i, h) = h \/ Record(ps, i, h) = Recorded(h, bare, s)
  BY DEF Record, bare
<1>8. Recorded(h, bare, s).window \in {h.window, v}
  BY DEF Recorded, v, long
<1> QED BY <1>6, <1>7, <1>8

LEMMA SyncQuiet ==
  ASSUME NEW ps \in Files, NEW h, IsHistory(h), Recoveries(ps) = {}, Quiet(h.window)
  PROVE  Quiet(Sync(ps, h).window)
<1> DEFINE m == Len(ps)
<1>1. m \in Nat /\ DOMAIN ps = 1 .. m
  BY FileFacts
<1>2. PICK f : /\ f[0] = h
               /\ \A n \in 1 .. m : f[n] = Record(ps, m + 1 - n, f[n - 1])
               /\ Sync(ps, h) = f[m]
  BY SyncSteps
<1> HIDE DEF m
<1> DEFINE S == {n \in 0 .. m : IsHistory(f[n]) /\ Quiet(f[n].window)}
<1>3. ASSUME NEW n \in 1 .. m, n - 1 \in S PROVE n \in S
  <2> DEFINE i == m + 1 - n
             g == f[n - 1]
  <2>1. i \in DOMAIN ps /\ f[n] = Record(ps, i, g)
    BY <1>1, <1>2
  <2>2. IsHistory(g) /\ Quiet(g.window)
    BY <1>3
  <2> HIDE DEF i, g
  <2>3. ps[i].kind # "recovery"
    BY <2>1 DEF Recoveries, IdsOf
  <2>4. IsHistory(f[n]) /\ Quiet(f[n].window)
    BY <2>1, <2>2, <2>3, RecordFits, RecordQuiet
  <2> QED BY <1>1, <2>4
<1>4. 0 \in S
  BY <1>1, <1>2
<1>5. m \in S
  <2> HIDE DEF S
  <2> QED BY <1>1, <1>3, <1>4, CountsOn
<1> QED BY <1>2, <1>5

(* A call that ends with a sync leaves the history up to date.             *)
Told(b) == Warned(b.plans, b.health.window)

LEMMA SyncedTold ==
  ASSUME NEW b, IsBranch(b), MaxHistory >= 5
  PROVE  Told(Synced(b))
<1>1. b.plans \in Files /\ IsHistory(b.health)
  BY DEF IsBranch
<1>2. Synced(b).plans = b.plans /\ Synced(b).health = Sync(b.plans, b.health)
  BY SyncedKeeps
<1> QED BY <1>1, <1>2, SyncWarns DEF Told

LEMMA ExecutedTold ==
  ASSUME NEW b, IsBranch(b), NEW i \in DOMAIN b.plans, MaxHistory >= 5
  PROVE  Told(Executed(b, i))
<1> DEFINE c == Synced(b)
           d == Queued(c, i)
<1>1. IsBranch(c) /\ i \in DOMAIN c.plans
  BY SyncedKeeps DEF Keeps
<1> HIDE DEF c
<1>2. IsBranch(d)
  BY <1>1, QueuedKeeps DEF Keeps
<1> HIDE DEF d
<1>3. Told(Synced(d))
  BY <1>2, SyncedTold
<1> QED BY <1>3 DEF Executed, c, d

LEMMA AdvancedTold ==
  ASSUME NEW b, IsBranch(b), NEW r \in DOMAIN b.plans,
         b.plans[r].kind = "recovery", MaxHistory >= 5
  PROVE  Told(Advanced(b, r))
<1> DEFINE c == Synced(b)
           d == Compensated(c, r)
           e == Continued(d, r, LatestChild(d.plans, r))
<1>1. IsBranch(c) /\ r \in DOMAIN c.plans /\ c.plans[r].kind = "recovery"
  BY SyncedKeeps DEF Keeps
<1> HIDE DEF c
<1>2. IsBranch(d) /\ r \in DOMAIN d.plans /\ d.plans[r].kind = "recovery"
  BY <1>1, CompensatedKeeps DEF Keeps
<1> HIDE DEF d
<1>3. IsBranch(e)
  BY <1>2, ContinuedKeeps DEF Keeps
<1> HIDE DEF e
<1>4. Told(Synced(e))
  BY <1>3, SyncedTold
<1> QED BY <1>4 DEF Advanced, AdvancedFrom, c, d, e

LEMMA RefreshedTold ==
  ASSUME NEW b, IsBranch(b), NEW kind \in {"recovery", "branch_stabilization"},
         NEW i, i = NoPlan \/ i \in DOMAIN b.plans, MaxHistory >= 5
  PROVE  Told(Refreshed(b, kind, i))
<1> DEFINE c == Made(b, kind, NoPlan)
           n == Len(b.plans) + 1
           d == [b EXCEPT !.health = Record(b.plans, i, @)]
<1>1. CASE i = NoPlan
  <2>1. IsBranch(c) /\ n \in DOMAIN c.plans
    BY MadeKeeps DEF Kinds, NoPlan, Keeps
  <2>2. Refreshed(b, kind, i) = Executed(c, n)
    BY <1>1 DEF Refreshed
  <2> HIDE DEF c, n
  <2> QED BY <2>1, <2>2, ExecutedTold
<1>2. CASE i # NoPlan
  <2>1. IsBranch(d) /\ i \in DOMAIN d.plans
    <3>1. IsHistory(Record(b.plans, i, b.health))
      BY <1>2, RecordFits DEF IsBranch
    <3>2. Keeps(b, d) /\ d.plans = b.plans
      BY <3>1, HistoryMoves
    <3> HIDE DEF d
    <3> QED BY <1>2, <3>2 DEF Keeps
  <2>2. Refreshed(b, kind, i) = Executed(d, i)
    BY <1>2 DEF Refreshed
  <2> HIDE DEF d
  <2> QED BY <2>1, <2>2, ExecutedTold
<1> QED BY <1>1, <1>2

LEMMA RepairedTold ==
  ASSUME NEW b, IsBranch(b), Told(b), NEW c \in DOMAIN b.plans,
         b.plans[c].kind = "remediation", MaxHistory >= 5
  PROVE  Told(Repaired(b, c))
<1> DEFINE r == b.plans[c].parent
           d == Resolved(b, r)
<1>1. r \in DOMAIN b.plans /\ b.plans[r].kind = "recovery"
  BY ParentIn DEF IsBranch
<1>2. Repaired(b, c) \in {b, Advanced(d, r)}
  BY DEF Repaired
<1> HIDE DEF r
<1>3. Keeps(b, d)
  BY <1>1, ResolvedKeeps
<1> HIDE DEF d
<1>4. IsBranch(d) /\ r \in DOMAIN d.plans /\ d.plans[r].kind = "recovery"
  BY <1>1, <1>3 DEF Keeps
<1>5. Told(Advanced(d, r))
  BY <1>4, AdvancedTold
<1> QED BY <1>2, <1>5

(* The history stays quiet while a branch has no recovery.                 *)
LEMMA SyncedCalm ==
  ASSUME NEW b, IsBranch(b), Calm(b)
  PROVE  Calm(Synced(b))
<1>1. b.plans \in Files /\ IsHistory(b.health)
  BY DEF IsBranch
<1>2. Synced(b).plans = b.plans /\ Synced(b).health = Sync(b.plans, b.health)
  BY SyncedKeeps
<1> QED BY <1>1, <1>2, SyncQuiet DEF Calm

LEMMA ExecutedCalm ==
  ASSUME NEW b, IsBranch(b), NEW i \in DOMAIN b.plans, Calm(b)
  PROVE  Calm(Executed(b, i))
<1> DEFINE c == Synced(b)
           d == Queued(c, i)
<1>1. IsBranch(c) /\ i \in DOMAIN c.plans /\ Calm(c)
  BY SyncedKeeps, SyncedCalm DEF Keeps
<1> HIDE DEF c
<1>2. IsBranch(d)
  BY <1>1, QueuedKeeps DEF Keeps
<1>3. Recoveries(d.plans) = Recoveries(c.plans) /\ d.health = c.health
  <2>1. Onward(c.plans, d.plans) /\ d.health = c.health
    BY <1>1, QueuedOnward, QueuedFacts
  <2> HIDE DEF d
  <2> QED BY <2>1, OnwardFacts
<1>4. Calm(d)
  BY <1>1, <1>3 DEF Calm
<1> HIDE DEF d
<1>5. Calm(Synced(d))
  BY <1>2, <1>4, SyncedCalm
<1> QED BY <1>5 DEF Executed, c, d

(* Where there is a recovery there is nothing to it.                       *)
LEMMA RecoveryCalm ==
  ASSUME NEW b, NEW c, Keeps(b, c), NEW r \in DOMAIN b.plans,
         b.plans[r].kind = "recovery"
  PROVE  Calm(c)
<1>1. r \in Recoveries(c.plans)
  BY DEF Keeps, Recoveries, IdsOf
<1> QED BY <1>1 DEF Calm

LEMMA MadeCalm ==
  ASSUME NEW b, IsBranch(b), NEW kind \in {"recovery", "branch_stabilization"},
         Calm(b)
  PROVE  Calm(Made(b, kind, NoPlan))
<1> DEFINE c == Made(b, kind, NoPlan)
           n == Len(b.plans) + 1
<1>1. /\ Keeps(b, c) /\ DOMAIN c.plans = DOMAIN b.plans \union {n}
      /\ c.plans[n] = NewPlan(kind, NoPlan)
      /\ \A j \in DOMAIN b.plans : c.plans[j] = b.plans[j]
  BY MadeFacts DEF Kinds, NoPlan
<1>2. c.plans[n].kind = kind
  BY <1>1 DEF NewPlan
<1>3. c.health = Record(c.plans, n, b.health)
  <2>1. Len(Append(b.plans, NewPlan(kind, NoPlan))) = n
    <3>1. b.plans \in Seq(PlanRecord)
      BY FileFacts DEF IsBranch
    <3> QED BY <3>1
  <2> QED BY <2>1 DEF Made
<1> HIDE DEF c, n
<1>4. SUFFICES ASSUME Recoveries(c.plans) = {} PROVE Quiet(c.health.window)
  BY DEF Calm, c
<1>5. kind # "recovery" /\ Recoveries(b.plans) = {}
  BY <1>1, <1>2, <1>4 DEF Recoveries, IdsOf
<1>6. Quiet(b.health.window) /\ IsHistory(b.health)
  BY <1>5 DEF Calm, IsBranch
<1>7. c.plans \in Files /\ n \in DOMAIN c.plans
  BY <1>1 DEF Keeps, IsBranch
<1> QED BY <1>2, <1>3, <1>5, <1>6, <1>7, RecordQuiet

LEMMA RefreshedCalm ==
  ASSUME NEW b, IsBranch(b), NEW kind \in {"recovery", "branch_stabilization"},
         NEW i, i = NoPlan \/ i \in DOMAIN b.plans, Calm(b)
  PROVE  Calm(Refreshed(b, kind, i))
<1> DEFINE c == Made(b, kind, NoPlan)
           n == Len(b.plans) + 1
           h == Record(b.plans, i, b.health)
           d == [b EXCEPT !.health = h]
<1>1. CASE i = NoPlan
  <2>1. IsBranch(c) /\ n \in DOMAIN c.plans /\ Calm(c)
    BY MadeKeeps, MadeCalm DEF Kinds, NoPlan, Keeps
  <2>2. Refreshed(b, kind, i) = Executed(c, n)
    BY <1>1 DEF Refreshed
  <2> HIDE DEF c, n
  <2> QED BY <2>1, <2>2, ExecutedCalm
<1>2. CASE i # NoPlan
  <2>1. b.plans \in Files /\ IsHistory(b.health) /\ i \in DOMAIN b.plans
    BY <1>2 DEF IsBranch
  <2>2. IsHistory(h)
    BY <2>1, RecordFits
  <2>3. Recoveries(b.plans) = {} => Quiet(h.window)
    <3>1. Recoveries(b.plans) = {} => b.plans[i].kind # "recovery"
      BY <2>1 DEF Recoveries, IdsOf
    <3> QED BY <2>1, <3>1, RecordQuiet DEF Calm
  <2>4. Refreshed(b, kind, i) = Executed(d, i)
    BY <1>2 DEF Refreshed
  <2> HIDE DEF h
  <2>5. Keeps(b, d) /\ d.plans = b.plans /\ d.health = h
    BY <2>2, HistoryMoves
  <2> HIDE DEF d
  <2>6. IsBranch(d) /\ i \in DOMAIN d.plans /\ Calm(d)
    BY <2>1, <2>3, <2>5 DEF Keeps, Calm
  <2> QED BY <2>4, <2>6, ExecutedCalm
<1> QED BY <1>1, <1>2

(* A task that is taken changes nothing of what is observed.               *)
LEMMA OnwardTold ==
  ASSUME NEW ps \in Files, NEW qs, Onward(ps, qs), NEW w, Warned(ps, w)
  PROVE  Warned(qs, w)
<1>1. /\ DOMAIN qs = DOMAIN ps
      /\ \A j \in DOMAIN ps :
           /\ qs[j].kind = ps[j].kind /\ Open(qs[j]) = Open(ps[j])
           /\ qs[j].state = "failed" <=> ps[j].state = "failed"
  BY DEF Onward
<1>2. Recoveries(qs) = Recoveries(ps) /\ Recoveries(ps) \subseteq DOMAIN ps
  BY <1>1 DEF Recoveries, IdsOf
<1>3. Watched(qs) = Watched(ps)
  BY <1>1, <1>2 DEF Watched, IdsOf
<1>4. ASSUME NEW r \in Recoveries(ps), Remediation(qs, r, w).blocking
      PROVE  Remediation(ps, r, w).blocking
  <2> DEFINE c == LatestChild(ps, r)
  <2>1. LatestChild(qs, r) = c
    <3>1. Children(qs, r) = Children(ps, r) /\ Children(ps, r) \subseteq DOMAIN ps
      BY OnwardFacts DEF Children, IdsOf
    <3>2. {i \in Children(qs, r) : Open(qs[i])} = {i \in Children(ps, r) : Open(ps[i])}
      BY <1>1, <3>1
    <3> QED BY <3>1, <3>2 DEF LatestChild
  <2>2. Required(qs[r], w) = Required(ps[r], w)
    BY <1>2, OnwardFacts
  <2>3. c # NoPlan => c \in DOMAIN ps
    BY LatestChildIn DEF Children, IdsOf
  <2> HIDE DEF c
  <2>4. Required(qs[r], w) /\ ChildStatus(qs, c) # "completed"
    BY <1>4, <2>1 DEF Remediation, RemediationBy
  <2>5. ChildStatus(ps, c) # "completed"
    <3>1. CASE c = NoPlan
      BY <3>1 DEF ChildStatus
    <3>2. CASE c # NoPlan
      <4>1. PlanStatus(qs[c]) # "completed"
        BY <2>4, <3>2 DEF ChildStatus
      <4>2. /\ Open(qs[c]) = Open(ps[c])
            /\ qs[c].state = "failed" <=> ps[c].state = "failed"
        BY <1>1, <2>3, <3>2
      <4>3. PlanStatus(ps[c]) # "completed"
        <5>1. CASE ps[c].state = "failed"
          BY <5>1 DEF PlanStatus
        <5>2. CASE ps[c].state # "failed"
          <6>1. PlanStatus(qs[c]) # "failed" \/ qs[c].state = "failed"
            BY DEF PlanStatus
          <6>2. Open(qs[c])
            BY <4>1, <4>2, <5>2, <6>1 DEF Open
          <6> QED BY <4>2, <6>2 DEF Open
        <5> QED BY <5>1, <5>2
      <4> QED BY <3>2, <4>3 DEF ChildStatus
    <3> QED BY <3>1, <3>2
  <2> QED BY <2>2, <2>4, <2>5 DEF Remediation, RemediationBy, c
<1> QED BY <1>2, <1>3, <1>4 DEF Warned

(* What the next call finds.                                               *)
UpToDate == Told(Branch) /\ Calm(Branch)

LEMMA BecomesUpToDate ==
  ASSUME NEW b, IsBranch(b), Told(b), Calm(b), Becomes(b)
  PROVE  UpToDate'
<1>1. plans' = b.plans /\ health' = b.health
  BY DEF Becomes
<1>2. b = [plans |-> b.plans, health |-> b.health]
  BY DEF IsBranch
<1>3. [plans |-> plans', health |-> health'] = b
  BY <1>1, <1>2
<1> QED BY <1>3 DEF UpToDate, Branch

(* No call ends without it.                                                *)
LEMMA StepUpToDate ==
  ASSUME TypeOK, UpToDate, [Next]_vars, MaxHistory >= 5
  PROVE  UpToDate'
<1>0. /\ IsBranch(Branch) /\ Branch.plans = plans /\ Branch.health = health
      /\ plans \in Files /\ Told(Branch) /\ Calm(Branch)
  BY DEF TypeOK, IsBranch, Branch, UpToDate
<1>1. CASE StartRecovery
  <2> DEFINE b == Made(Branch, "recovery", NoPlan)
             n == Len(plans) + 1
             e == Advanced(b, n)
  <2>1. IsBranch(b) /\ n \in DOMAIN b.plans /\ b.plans[n].kind = "recovery"
    BY <1>0, MadeRecovery DEF Keeps
  <2>2. Becomes(e)
    BY <1>1 DEF StartRecovery
  <2> HIDE DEF b, n
  <2>3. Keeps(b, e) /\ Told(e)
    BY <2>1, AdvancedKeeps, AdvancedTold
  <2> HIDE DEF e
  <2>4. IsBranch(e) /\ Calm(e)
    BY <2>1, <2>3, RecoveryCalm DEF Keeps
  <2> QED BY <2>2, <2>3, <2>4, BecomesUpToDate
<1>2. CASE Status
  <2>1. Becomes(Synced(Branch))
    BY <1>2 DEF Status
  <2>2. /\ IsBranch(Synced(Branch)) /\ Told(Synced(Branch))
        /\ Calm(Synced(Branch))
    BY <1>0, SyncedKeeps, SyncedTold, SyncedCalm DEF Keeps
  <2> QED BY <2>1, <2>2, BecomesUpToDate
<1>3. CASE RegisterSnapshot
  <2>1. plans' = plans /\ health' = [health EXCEPT !.coverage = "fresh"]
    BY <1>3 DEF RegisterSnapshot
  <2>2. health'.window = health.window
    BY <2>1 DEF TypeOK, IsHistory
  <2> QED BY <2>1, <2>2 DEF UpToDate, Told, Calm, Branch
<1>4. ASSUME NEW i \in Reusable("branch_stabilization"), Stabilize(i)
      PROVE  UpToDate'
  <2> DEFINE b == Refreshed(Branch, "branch_stabilization", i)
  <2>1. i = NoPlan \/ i \in DOMAIN plans
    BY DEF Reusable, IdsOf
  <2>2. IsBranch(b) /\ Told(b) /\ Calm(b)
    BY <1>0, <2>1, RefreshedKeeps, RefreshedTold, RefreshedCalm DEF Keeps
  <2>3. Becomes(b)
    BY <1>4 DEF Stabilize
  <2> QED BY <2>2, <2>3, BecomesUpToDate
<1>5. ASSUME NEW i \in Reusable("branch_stabilization"),
             NEW r \in Reusable("recovery"), Cycle(i, r)
      PROVE  UpToDate'
  <2> DEFINE b == Refreshed(Branch, "branch_stabilization", i)
             c == Refreshed(b, "recovery", r)
             d == Synced(c)
             e == Synced(Branch)
  <2>1. /\ i = NoPlan \/ i \in DOMAIN plans
        /\ r = NoPlan \/ r \in DOMAIN plans
    BY DEF Reusable, IdsOf
  <2>2. Becomes(Synced(d)) \/ Becomes(Synced(e))
    BY <1>5 DEF Cycle, ActedOn
  <2>3. /\ Keeps(Branch, b) /\ IsBranch(b) /\ Calm(b)
        /\ r = NoPlan \/ r \in DOMAIN b.plans
    BY <1>0, <2>1, RefreshedKeeps, RefreshedCalm DEF Keeps
  <2> HIDE DEF b
  <2>4. IsBranch(c) /\ Calm(c)
    BY <2>3, RefreshedKeeps, RefreshedCalm DEF Keeps
  <2> HIDE DEF c
  <2>5. IsBranch(d) /\ Calm(d)
    BY <2>4, SyncedKeeps, SyncedCalm DEF Keeps
  <2>6. IsBranch(e) /\ Calm(e)
    BY <1>0, SyncedKeeps, SyncedCalm DEF Keeps
  <2> HIDE DEF d, e
  <2>7. /\ IsBranch(Synced(d)) /\ Told(Synced(d)) /\ Calm(Synced(d))
        /\ IsBranch(Synced(e)) /\ Told(Synced(e)) /\ Calm(Synced(e))
    BY <2>5, <2>6, SyncedKeeps, SyncedTold, SyncedCalm DEF Keeps
  <2> QED BY <2>2, <2>7, BecomesUpToDate
<1>6. ASSUME NEW i \in DOMAIN plans, Advance(i)
      PROVE  UpToDate'
  <2> DEFINE e == Advanced(Branch, i)
  <2>1. plans[i].kind = "recovery" /\ Becomes(e)
    BY <1>6 DEF Advance
  <2>2. Keeps(Branch, e) /\ Told(e)
    BY <1>0, <2>1, AdvancedKeeps, AdvancedTold
  <2> HIDE DEF e
  <2>3. IsBranch(e) /\ Calm(e)
    BY <1>0, <2>1, <2>2, RecoveryCalm DEF Keeps
  <2> QED BY <2>1, <2>2, <2>3, BecomesUpToDate
<1>7. ASSUME NEW i \in DOMAIN plans, Take(i)
      PROVE  UpToDate'
  <2> DEFINE qs == plans'
  <2>1. Onward(plans, qs) /\ health' = health
    BY <1>0, <1>7, TakenOnward
  <2> HIDE DEF qs
  <2>2. Warned(qs, health.window)
    BY <1>0, <2>1, OnwardTold DEF Told
  <2>3. Recoveries(qs) = Recoveries(plans)
    BY <2>1, OnwardFacts
  <2> QED BY <1>0, <2>1, <2>2, <2>3 DEF UpToDate, Told, Calm, Branch, qs
<1>8. ASSUME NEW i \in DOMAIN plans, NEW success \in BOOLEAN, Report(i, success)
      PROVE  UpToDate'
  <2> DEFINE b == Reported(i, success)
             c == Synced(b)
             d == Executed(c, i)
  <2>1. plans[i].state = "in_progress"
    BY <1>8 DEF Report
  <2>2. Becomes(CASE plans[i].kind = "recovery" -> Advanced(b, i)
                  [] plans[i].kind = "remediation" -> Repaired(d, i)
                  [] OTHER -> Synced(d))
    BY <1>8 DEF Report
  <2>3. /\ Keeps(Branch, b) /\ IsBranch(b) /\ b.health = health
        /\ i \in DOMAIN b.plans /\ b.plans[i].kind = plans[i].kind
        /\ DOMAIN b.plans = DOMAIN plans
        /\ \A j \in DOMAIN plans : j # i => b.plans[j] = plans[j]
    BY <1>0, <2>1, ReportedFacts
  <2> HIDE DEF b
  <2>4. Recoveries(b.plans) = Recoveries(plans)
    BY <2>3 DEF Recoveries, IdsOf
  <2>5. Calm(b)
    BY <1>0, <2>3, <2>4 DEF Calm
  <2>6. Keeps(b, c) /\ IsBranch(c) /\ Calm(c) /\ i \in DOMAIN c.plans
    BY <2>3, <2>5, SyncedKeeps, SyncedCalm DEF Keeps
  <2> HIDE DEF c
  <2>7. Keeps(c, d) /\ IsBranch(d) /\ Calm(d) /\ Told(d)
    BY <2>6, ExecutedKeeps, ExecutedCalm, ExecutedTold DEF Keeps
  <2> HIDE DEF d
  <2>8. /\ Keeps(b, d) /\ i \in DOMAIN d.plans /\ d.plans[i].kind = plans[i].kind
    <3>1. Keeps(b, d)
      BY <2>6, <2>7, KeepsOn
    <3> QED BY <2>3, <3>1 DEF Keeps
  <2>9. CASE plans[i].kind = "recovery"
    <3> DEFINE e == Advanced(b, i)
    <3>1. Becomes(e)
      BY <2>2, <2>9
    <3>2. Keeps(b, e) /\ Told(e)
      BY <2>3, <2>9, AdvancedKeeps, AdvancedTold
    <3> HIDE DEF e
    <3>3. IsBranch(e) /\ Calm(e)
      BY <2>3, <2>9, <3>2, RecoveryCalm DEF Keeps
    <3> QED BY <3>1, <3>2, <3>3, BecomesUpToDate
  <2>10. CASE plans[i].kind = "remediation"
    <3> DEFINE e == Repaired(d, i)
    <3>1. Becomes(e)
      BY <2>2, <2>10
    <3>2. Keeps(d, e) /\ Told(e)
      BY <2>7, <2>8, <2>10, RepairedKeeps, RepairedTold
    <3> HIDE DEF e
    <3>3. \E r \in DOMAIN d.plans : d.plans[r].kind = "recovery"
      BY <2>7, <2>8, <2>10, ParentIn DEF IsBranch
    <3>4. IsBranch(e) /\ Calm(e)
      BY <3>2, <3>3, RecoveryCalm DEF Keeps
    <3> QED BY <3>1, <3>2, <3>4, BecomesUpToDate
  <2>11. CASE plans[i].kind \notin {"recovery", "remediation"}
    <3>1. Becomes(Synced(d))
      BY <2>2, <2>11
    <3>2. IsBranch(Synced(d)) /\ Told(Synced(d)) /\ Calm(Synced(d))
      BY <2>7, SyncedKeeps, SyncedTold, SyncedCalm DEF Keeps
    <3> QED BY <3>1, <3>2, BecomesUpToDate
  <2> QED BY <2>9, <2>10, <2>11
<1>9. CASE UNCHANGED vars
  BY <1>9 DEF vars, UpToDate, Branch
<1> QED BY <1>1, <1>2, <1>3, <1>4, <1>5, <1>6, <1>7, <1>8, <1>9 DEF Next

(* The pressure of a branch is at least high while its gate is blocked.    *)
LEMMA BlockedIsPressed ==
  ASSUME TypeOK, UpToDate, DriftWindow >= 6, Now.gate = "blocked",
         Cardinality(Watched(plans)) <= 5
  PROVE  Now.pressure \in {"critical", "high"}
<1> DEFINE r == Selected(plans)
           w == health.window
           look == Outlook(plans, r, w)
           o == Bare(look.health)
           k == Cardinality(Watched(plans))
<1>1. plans \in Files /\ w \in Seq(Observation)
  BY DEF TypeOK, IsHistory
<1>2. Recoveries(plans) # {}
  <2> SUFFICES ASSUME Recoveries(plans) = {} PROVE FALSE
    OBVIOUS
  <2>1. r = NoPlan
    BY DEF Selected
  <2>2. w # << >> /\ Now = Beside(Last(w), w)
    BY <2>1 DEF Now, BranchSummary
  <2>3. Last(w).status = "blocked"
    <3>1. Now.gate = Gate(Last(w).status, Direction(w), Pressure(w))
      BY <2>2 DEF Beside, Judged
    <3> QED BY <3>1 DEF Gate
  <2>4. Len(w) \in DOMAIN w
    BY <1>1, <2>2
  <2>5. Quiet(w)
    BY DEF UpToDate, Calm, Branch
  <2> QED BY <2>3, <2>4, <2>5 DEF Quiet, Last
<1>3. r \in Recoveries(plans) /\ r # NoPlan
  BY <1>2, SelectedIn
<1>4. r \in DOMAIN plans /\ Now = look
  BY <1>3 DEF Now, BranchSummary, Recoveries, IdsOf
<1>5. /\ o \in Observation /\ look.health.status = "blocked"
      /\ Remediation(plans, r, w).blocking
  BY <1>1, <1>4, LookFits
<1>6. o.status = "blocked"
  BY <1>5 DEF Bare, Observed
<1>7. look.pressure = Pressure(Append(w, o))
  BY DEF Outlook, Joined, Beside, Judged
<1> HIDE DEF look, o, r
<1>8. Marked(w, k)
  BY <1>3, <1>5 DEF UpToDate, Told, Warned, Branch
<1>9. k \in Nat
  <2>1. IsFiniteSet(DOMAIN plans)
    BY <1>1, FileFacts, FS_Interval
  <2>2. Watched(plans) \subseteq DOMAIN plans
    BY DEF Watched, Recoveries, IdsOf
  <2> QED BY <2>1, <2>2, FS_Subset, FS_CardinalityType
<1> HIDE DEF k, w
<1>10. Pressure(Append(w, o)) \in {"critical", "high"}
  BY <1>1, <1>5, <1>6, <1>8, <1>9, Pressed DEF k
<1> QED BY <1>4, <1>7, <1>10

(* A branch that is held back repairs itself one assignment at a time.  A  *)
(* restricted gate sees to that itself; what closes a blocked one is a     *)
(* recovery that waits for its remediation, of which every call leaves a   *)
(* record so recent that, with the present, two of the last six records    *)
(* tell of it.  (In the code there are ten and twenty-four of them.)       *)
THEOREM PausedIsSerial ==
  ASSUME DriftWindow >= 6, MaxHistory >= 5
  PROVE  Spec => []PausedBranchIsSerial
<1>1. Init => UpToDate
  <2> SUFFICES ASSUME Init PROVE UpToDate
    OBVIOUS
  <2>1. Recoveries(plans) = {} /\ Branch.plans = plans
    BY DEF Init, Recoveries, IdsOf, Branch
  <2>2. Branch.health.window = << >>
    BY DEF Init, Branch
  <2> QED BY <2>1, <2>2 DEF UpToDate, Told, Warned, Calm, Quiet
<1>2. TypeOK /\ UpToDate /\ [Next]_vars => UpToDate'
  BY StepUpToDate
<1>3. TypeOK /\ UpToDate => PausedBranchIsSerial
  <2> SUFFICES ASSUME TypeOK, UpToDate, Now.gate \in {"restricted", "blocked"},
                      Cardinality(Watched(plans)) <= 5, NEW kind \in Kinds
               PROVE  DispatchCap(Now.gate, Now.pressure, kind) = 1
    BY DEF PausedBranchIsSerial
  <2>1. Now.gate = "restricted" \/ Now.pressure \in {"critical", "high"}
    BY BlockedIsPressed
  <2> QED BY <2>1 DEF DispatchCap, Admits
<1> QED BY <1>1, <1>2, <1>3, TypeCorrect, PTL DEF Spec
=============================================================================
