------------------------ MODULE ConceptMemoryProofs -------------------------
(***************************************************************************)
(* RelationContract and RelationInventory: no builder refuses what the     *)
(* ones before it made, for every list of relations whatever, and so many  *)
(* of them.  ConceptMemory: the mesh over any blocks points back at them.  *)
(***************************************************************************)
EXTENDS ConceptMemory, FiniteSetTheorems, SequenceTheorems, WellFoundedInduction,
        TLAPS

Inventory ==
  [reports : Nat, statuses : [Statuses -> Nat], relations : Nat, versioned : Nat,
   unversioned : Nat, malformed : Nat, issues : Nat]
Good(c) == c \in Inventory /\ InventoryFits(c)

(* The three kinds of relations make up a list.                            *)
LEMMA KindsOfRelations ==
  ASSUME NEW rs \in Lists
  PROVE  /\ Len(rs) \in Nat
         /\ Cardinality(Versioned(rs)) \in Nat
         /\ Cardinality(Unversioned(rs)) \in Nat
         /\ Cardinality(Malformed(rs)) \in Nat
         /\ Len(rs) = Cardinality(Versioned(rs)) + Cardinality(Unversioned(rs))
                        + Cardinality(Malformed(rs))
         /\ (Cardinality(Versioned(rs)) = 0) <=> (Versioned(rs) = {})
         /\ (Cardinality(Unversioned(rs)) = 0) <=> (Unversioned(rs) = {})
         /\ (Cardinality(Malformed(rs)) = 0) <=> (Malformed(rs) = {})
<1> DEFINE V == Versioned(rs)  U == Unversioned(rs)  M == Malformed(rs)
<1>1. /\ Len(rs) \in Nat /\ DOMAIN rs = 1 .. Len(rs)
      /\ IsFiniteSet(1 .. Len(rs)) /\ Cardinality(1 .. Len(rs)) = Len(rs)
  <2>1. Len(rs) \in Nat /\ DOMAIN rs = 1 .. Len(rs)
    BY DEF Lists
  <2> DEFINE n == Len(rs)
  <2> HIDE DEF n
  <2>2. n \in Nat
    BY <2>1 DEF n
  <2>3. IsFiniteSet(1 .. n) /\ Cardinality(1 .. n) = IF 1 > n THEN 0 ELSE n - 1 + 1
    BY <2>2, FS_Interval
  <2>4. Cardinality(1 .. n) = n
    BY <2>2, <2>3
  <2> QED BY <2>1, <2>3, <2>4 DEF n
<1>2. /\ V \subseteq 1 .. Len(rs) /\ U \subseteq 1 .. Len(rs) /\ M \subseteq 1 .. Len(rs)
      /\ 1 .. Len(rs) = (V \cup U) \cup M
      /\ V \cap U = {} /\ (V \cup U) \cap M = {}
  BY <1>1 DEF Versioned, Unversioned, Malformed
<1>3. IsFiniteSet(V) /\ IsFiniteSet(U) /\ IsFiniteSet(M) /\ IsFiniteSet(V \cup U)
  BY <1>1, <1>2, FS_Subset, FS_Union
<1>4. /\ Cardinality(V) \in Nat /\ Cardinality(U) \in Nat /\ Cardinality(M) \in Nat
      /\ (Cardinality(V) = 0) <=> (V = {})
      /\ (Cardinality(U) = 0) <=> (U = {})
      /\ (Cardinality(M) = 0) <=> (M = {})
  BY <1>3, FS_CardinalityType, FS_EmptySet
<1>5. Cardinality(V \cup U) = Cardinality(V) + Cardinality(U)
  <2>1. Cardinality(V \cup U) = Cardinality(V) + Cardinality(U) - Cardinality(V \cap U)
    BY <1>3, FS_Union
  <2>2. Cardinality(V \cap U) = 0
    BY <1>2, FS_EmptySet
  <2> HIDE DEF V, U
  <2> QED BY <2>1, <2>2, <1>4
<1>6. Cardinality((V \cup U) \cup M) = Cardinality(V \cup U) + Cardinality(M)
  <2>1. Cardinality((V \cup U) \cup M) =
          Cardinality(V \cup U) + Cardinality(M) - Cardinality((V \cup U) \cap M)
    BY <1>3, FS_Union
  <2>2. Cardinality((V \cup U) \cap M) = 0
    BY <1>2, FS_EmptySet
  <2>3. Cardinality(V \cup U) \in Nat
    BY <1>3, FS_CardinalityType
  <2> HIDE DEF V, U, M
  <2> QED BY <2>1, <2>2, <2>3, <1>4
<1> QED BY <1>1, <1>2, <1>4, <1>5, <1>6

(* A list that the writer accepts has no faulty relation.                  *)
LEMMA AcceptedHasNoFault ==
  ASSUME NEW rs \in Lists \cup {NotAList}, NEW source, Validation(rs, source) = "none"
  PROVE  /\ rs \in Lists /\ source \in Concepts
         /\ \A i \in DOMAIN rs : Fault(rs, i, source) = "none"
<1>1. /\ source \in Concepts /\ rs # NotAList
      /\ Faulty(rs, source) # {} => Fault(rs, Least(Faulty(rs, source)), source) = "none"
  BY DEF Validation
<1>2. Faulty(rs, source) = {}
  <2> SUFFICES ASSUME Faulty(rs, source) # {} PROVE FALSE
    OBVIOUS
  <2>1. Faulty(rs, source) \subseteq Nat
    <3>1. DOMAIN rs = 1 .. Len(rs) /\ Len(rs) \in Nat
      BY <1>1 DEF Lists
    <3> QED BY <3>1 DEF Faulty
  <2> DEFINE below == {ss \in Nat \X Nat : ss[1] < ss[2]}
  <2>2. IsWellFoundedOn(below, Nat)
    BY NatLessThanWellFounded, Zenon DEF OpToRel
  <2>3. \E n \in Faulty(rs, source) : \A m \in Faulty(rs, source) : n <= m
    <3>1. PICK n \in Faulty(rs, source) :
                 \A m \in Faulty(rs, source) : ~ (<<m, n>> \in below)
      BY <2>1, <2>2, WFMin
    <3>2. ASSUME NEW m \in Faulty(rs, source) PROVE n <= m
      <4>1. m \in Nat /\ n \in Nat
        BY <2>1
      <4>2. ~ (m < n)
        <5> SUFFICES ASSUME m < n PROVE <<m, n>> \in below
          BY <3>1
        <5> QED BY <4>1
      <4> QED BY <4>1, <4>2
    <3> QED BY <3>2
  <2>4. Least(Faulty(rs, source)) \in Faulty(rs, source)
    BY <2>3 DEF Least
  <2> QED BY <1>1, <2>4 DEF Faulty
<1> QED BY <1>1, <1>2 DEF Faulty

(* What a writer stored under the contract is read as compatible by the    *)
(* classifier: add_concept_node and the inventories agree on the contract. *)
THEOREM AuthoredIsCompatible ==
  ASSUME NEW rs \in Lists \cup {NotAList}, NEW source, Validation(rs, source) = "none"
  PROVE  Classify(rs, source).status \in {"empty", "compatible_v1_shape"}
<1>1. rs \in Lists /\ rs # NotAList
  BY AcceptedHasNoFault DEF Validation
<1>2. \A i \in DOMAIN rs : rs[i] # NotAnObject /\ rs[i].fields = Required
                              /\ rs[i].version = "v1"
  <2> TAKE i \in DOMAIN rs
  <2>1. Fault(rs, i, source) = "none"
    BY AcceptedHasNoFault
  <2> QED BY <2>1 DEF Fault
<1>3. Malformed(rs) = {}
  BY <1>2 DEF Malformed
<1>4. Versioned(rs) = DOMAIN rs /\ Unversioned(rs) = {} /\ Unsupported(rs) = {}
  BY <1>2, <1>3 DEF Versioned, Unversioned, Unsupported, Required
<1>5. CASE Len(rs) = 0
  BY <1>1, <1>3, <1>5 DEF Classify, Report
<1>6. CASE Len(rs) # 0
  <2>1. DOMAIN rs = 1 .. Len(rs) /\ Len(rs) \in Nat
    BY <1>1 DEF Lists
  <2>2. 1 \in DOMAIN rs
    BY <1>6, <2>1
  <2>3. Versioned(rs) # {}
    BY <1>4, <2>2
  <2> QED BY <1>1, <1>3, <1>4, <1>6, <2>3 DEF Classify, Report
<1> QED BY <1>5, <1>6

(* Every report of the classifier passes the checks of the inventory.      *)
THEOREM ReportsFit ==
  ASSUME NEW rs \in Lists \cup {NotAList}, NEW source
  PROVE  ReportFits(Classify(rs, source))
<1>1. CASE rs = NotAList
  <2>1. /\ << >> \in Lists /\ Len(<< >>) = 0
        /\ Malformed(<< >>) = {} /\ Versioned(<< >>) = {} /\ Unversioned(<< >>) = {}
    BY DEF Lists, Malformed, Versioned, Unversioned
  <2>2. Classify(rs, source) =
          [status |-> "malformed_relations", relations |-> 0, versioned |-> 0,
           unversioned |-> 0, malformed |-> 0, issue |-> "relations_not_list"]
    BY <1>1, <2>1, FS_EmptySet DEF Classify, Report
  <2> QED BY <2>2 DEF ReportFits, CountsFit, Statuses, IssueFree
<1>2. CASE rs # NotAList
  <2> rs \in Lists BY <1>2
  <2> DEFINE r == Classify(rs, source)
             v == Cardinality(Versioned(rs))
             u == Cardinality(Unversioned(rs))
             m == Cardinality(Malformed(rs))
  <2>1. /\ Len(rs) \in Nat /\ v \in Nat /\ u \in Nat /\ m \in Nat
        /\ Len(rs) = v + u + m
        /\ (v = 0) <=> (Versioned(rs) = {})
        /\ (u = 0) <=> (Unversioned(rs) = {})
        /\ (m = 0) <=> (Malformed(rs) = {})
    BY KindsOfRelations
  <2>2. /\ r.relations = Len(rs) /\ r.versioned = v /\ r.unversioned = u
        /\ r.malformed = m
    BY <1>2 DEF Classify, Report
  <2> HIDE DEF v, u, m
  <2>3. CASE Malformed(rs) # {}
    <3>1. r.status = "malformed_relations" /\ r.issue = "relation_not_object"
      BY <1>2, <2>3 DEF Classify, Report
    <3> HIDE DEF r
    <3> QED BY <3>1, <2>1, <2>2, <2>3 DEF r, ReportFits, CountsFit, Statuses, IssueFree
  <2>4. CASE Malformed(rs) = {} /\ Len(rs) = 0
    <3>1. r.status = "empty" /\ r.issue = "none"
      BY <1>2, <2>4 DEF Classify, Report
    <3> QED BY <3>1, <2>1, <2>2, <2>4 DEF ReportFits, CountsFit, Statuses, IssueFree
  <2>5. CASE Malformed(rs) = {} /\ Len(rs) # 0 /\ Versioned(rs) = {}
    <3>1. r.status = "legacy_unversioned" /\ r.issue = "none"
      BY <1>2, <2>5 DEF Classify, Report
    <3> QED BY <3>1, <2>1, <2>2, <2>5 DEF ReportFits, CountsFit, Statuses, IssueFree
  <2>6. CASE Malformed(rs) = {} /\ Len(rs) # 0 /\ Versioned(rs) # {}
               /\ Unversioned(rs) # {}
    <3>1. r.status = "mixed_versioning" /\ r.issue = "mixed_relation_versioning"
      BY <1>2, <2>6 DEF Classify, Report
    <3> QED BY <3>1, <2>1, <2>2, <2>6 DEF ReportFits, CountsFit, Statuses, IssueFree
  <2>7. CASE Malformed(rs) = {} /\ Len(rs) # 0 /\ Versioned(rs) # {}
               /\ Unversioned(rs) = {}
    <3>1. \/ r.status = "unsupported_version" /\ r.issue = "unsupported_contract_version"
          \/ r.status = "invalid_v1" /\ r.issue # "none"
          \/ r.status = "compatible_v1_shape" /\ r.issue = "none"
      BY <1>2, <2>7 DEF Classify, Report
    <3> QED BY <3>1, <2>1, <2>2, <2>7 DEF ReportFits, CountsFit, Statuses, IssueFree
  <2> QED BY <2>3, <2>4, <2>5, <2>6, <2>7
<1> QED BY <1>1, <1>2

(* Nothing counted is an inventory that passes.                            *)
LEMMA NothingIsGood == Good(NoCounts)
BY DEF Good, NoCounts, Inventory, InventoryFits, AllStatuses, WithIssues,
       LeastVersioned, LeastUnversioned, InMalformed, Statuses

(* One more report that passes leaves an inventory that passes.            *)
LEMMA CountedIsGood ==
  ASSUME NEW c, NEW r, Good(c), ReportFits(r)
  PROVE  Good(Counted(c, r))
<1> DEFINE d == Counted(c, r)
<1>1. /\ r.status \in Statuses /\ r.relations \in Nat /\ r.versioned \in Nat
      /\ r.unversioned \in Nat /\ r.malformed \in Nat
      /\ r.relations = r.versioned + r.unversioned + r.malformed
      /\ CountsFit(r)
      /\ (r.issue = "none") <=> (r.status \in IssueFree)
  BY DEF ReportFits
<1>2. c \in Inventory /\ InventoryFits(c)
  BY DEF Good
<1>3. d \in Inventory
  BY <1>1, <1>2 DEF Counted, Inventory
<1>4. \A s \in Statuses : /\ c.statuses[s] \in Nat
                          /\ d.statuses[s] = IF s = r.status THEN c.statuses[s] + 1
                                             ELSE c.statuses[s]
  BY <1>1, <1>2 DEF Counted, Inventory
<1>5. /\ c.reports \in Nat /\ c.relations \in Nat /\ c.versioned \in Nat
      /\ c.unversioned \in Nat /\ c.malformed \in Nat /\ c.issues \in Nat
      /\ d.reports = c.reports + 1 /\ d.relations = c.relations + r.relations
      /\ d.versioned = c.versioned + r.versioned
      /\ d.unversioned = c.unversioned + r.unversioned
      /\ d.malformed = c.malformed + r.malformed
      /\ d.issues = c.issues + (IF r.issue = "none" THEN 0 ELSE 1)
  BY <1>2 DEF Counted, Inventory
<1> HIDE DEF d
(* The seven counts, by name.                                              *)
<1> DEFINE a1 == c.statuses["empty"]
           a2 == c.statuses["compatible_v1_shape"]
           a3 == c.statuses["legacy_unversioned"]
           a4 == c.statuses["mixed_versioning"]
           a5 == c.statuses["unsupported_version"]
           a6 == c.statuses["invalid_v1"]
           a7 == c.statuses["malformed_relations"]
           one(s) == IF s = r.status THEN 1 ELSE 0
<1>6. /\ a1 \in Nat /\ a2 \in Nat /\ a3 \in Nat /\ a4 \in Nat /\ a5 \in Nat
      /\ a6 \in Nat /\ a7 \in Nat
      /\ d.statuses["empty"] = a1 + one("empty")
      /\ d.statuses["compatible_v1_shape"] = a2 + one("compatible_v1_shape")
      /\ d.statuses["legacy_unversioned"] = a3 + one("legacy_unversioned")
      /\ d.statuses["mixed_versioning"] = a4 + one("mixed_versioning")
      /\ d.statuses["unsupported_version"] = a5 + one("unsupported_version")
      /\ d.statuses["invalid_v1"] = a6 + one("invalid_v1")
      /\ d.statuses["malformed_relations"] = a7 + one("malformed_relations")
  BY <1>4 DEF Statuses
<1>7. /\ c.reports = a1 + a2 + a3 + a4 + a5 + a6 + a7
      /\ c.relations = c.versioned + c.unversioned + c.malformed
      /\ c.issues = a4 + a5 + a6 + a7
      /\ c.versioned >= a2 + a4 + a5 + a6 /\ c.unversioned >= a3 + a4
      /\ c.malformed > 0 => a7 > 0
      /\ c.versioned > 0 => a2 + a4 + a5 + a6 > 0 \/ (a7 > 0 /\ c.malformed > 0)
      /\ c.unversioned > 0 => a3 + a4 > 0 \/ (a7 > 0 /\ c.malformed > 0)
  BY <1>2, <1>6 DEF InventoryFits, AllStatuses, WithIssues, LeastVersioned,
     LeastUnversioned, InMalformed
<1> HIDE DEF a1, a2, a3, a4, a5, a6, a7
<1>8. InventoryFits(d)
  <2>1. CASE r.status = "empty"
    <3>1. /\ d.statuses["empty"] = a1 + 1
          /\ d.statuses["compatible_v1_shape"] = a2
          /\ d.statuses["legacy_unversioned"] = a3
          /\ d.statuses["mixed_versioning"] = a4
          /\ d.statuses["unsupported_version"] = a5
          /\ d.statuses["invalid_v1"] = a6
          /\ d.statuses["malformed_relations"] = a7
      BY <1>6, <2>1
    <3>2. r.versioned = 0 /\ r.unversioned = 0 /\ r.malformed = 0
      BY <1>1, <2>1 DEF CountsFit
    <3>3. d.issues = c.issues
      BY <1>1, <1>5, <2>1 DEF IssueFree
    <3> QED BY <1>1, <1>5, <1>6, <1>7, <3>1, <3>2, <3>3 DEF InventoryFits, AllStatuses,
            WithIssues, LeastVersioned, LeastUnversioned, InMalformed
  <2>2. CASE r.status = "compatible_v1_shape"
    <3>1. /\ d.statuses["empty"] = a1
          /\ d.statuses["compatible_v1_shape"] = a2 + 1
          /\ d.statuses["legacy_unversioned"] = a3
          /\ d.statuses["mixed_versioning"] = a4
          /\ d.statuses["unsupported_version"] = a5
          /\ d.statuses["invalid_v1"] = a6
          /\ d.statuses["malformed_relations"] = a7
      BY <1>6, <2>2
    <3>2. r.versioned > 0 /\ r.unversioned = 0 /\ r.malformed = 0
      BY <1>1, <2>2 DEF CountsFit
    <3>3. d.issues = c.issues
      BY <1>1, <1>5, <2>2 DEF IssueFree
    <3> QED BY <1>1, <1>5, <1>6, <1>7, <3>1, <3>2, <3>3 DEF InventoryFits, AllStatuses,
            WithIssues, LeastVersioned, LeastUnversioned, InMalformed
  <2>3. CASE r.status = "legacy_unversioned"
    <3>1. /\ d.statuses["empty"] = a1
          /\ d.statuses["compatible_v1_shape"] = a2
          /\ d.statuses["legacy_unversioned"] = a3 + 1
          /\ d.statuses["mixed_versioning"] = a4
          /\ d.statuses["unsupported_version"] = a5
          /\ d.statuses["invalid_v1"] = a6
          /\ d.statuses["malformed_relations"] = a7
      BY <1>6, <2>3
    <3>2. r.versioned = 0 /\ r.unversioned > 0 /\ r.malformed = 0
      BY <1>1, <2>3 DEF CountsFit
    <3>3. d.issues = c.issues
      BY <1>1, <1>5, <2>3 DEF IssueFree
    <3> QED BY <1>1, <1>5, <1>6, <1>7, <3>1, <3>2, <3>3 DEF InventoryFits, AllStatuses,
            WithIssues, LeastVersioned, LeastUnversioned, InMalformed
  <2>4. CASE r.status = "mixed_versioning"
    <3>1. /\ d.statuses["empty"] = a1
          /\ d.statuses["compatible_v1_shape"] = a2
          /\ d.statuses["legacy_unversioned"] = a3
          /\ d.statuses["mixed_versioning"] = a4 + 1
          /\ d.statuses["unsupported_version"] = a5
          /\ d.statuses["invalid_v1"] = a6
          /\ d.statuses["malformed_relations"] = a7
      BY <1>6, <2>4
    <3>2. r.versioned > 0 /\ r.unversioned > 0 /\ r.malformed = 0
      BY <1>1, <2>4 DEF CountsFit
    <3>3. d.issues = c.issues + 1
      BY <1>1, <1>5, <2>4 DEF IssueFree
    <3> QED BY <1>1, <1>5, <1>6, <1>7, <3>1, <3>2, <3>3 DEF InventoryFits, AllStatuses,
            WithIssues, LeastVersioned, LeastUnversioned, InMalformed
  <2>5. CASE r.status = "unsupported_version"
    <3>1. /\ d.statuses["empty"] = a1
          /\ d.statuses["compatible_v1_shape"] = a2
          /\ d.statuses["legacy_unversioned"] = a3
          /\ d.statuses["mixed_versioning"] = a4
          /\ d.statuses["unsupported_version"] = a5 + 1
          /\ d.statuses["invalid_v1"] = a6
          /\ d.statuses["malformed_relations"] = a7
      BY <1>6, <2>5
    <3>2. r.versioned > 0 /\ r.unversioned = 0 /\ r.malformed = 0
      BY <1>1, <2>5 DEF CountsFit
    <3>3. d.issues = c.issues + 1
      BY <1>1, <1>5, <2>5 DEF IssueFree
    <3> QED BY <1>1, <1>5, <1>6, <1>7, <3>1, <3>2, <3>3 DEF InventoryFits, AllStatuses,
            WithIssues, LeastVersioned, LeastUnversioned, InMalformed
  <2>6. CASE r.status = "invalid_v1"
    <3>1. /\ d.statuses["empty"] = a1
          /\ d.statuses["compatible_v1_shape"] = a2
          /\ d.statuses["legacy_unversioned"] = a3
          /\ d.statuses["mixed_versioning"] = a4
          /\ d.statuses["unsupported_version"] = a5
          /\ d.statuses["invalid_v1"] = a6 + 1
          /\ d.statuses["malformed_relations"] = a7
      BY <1>6, <2>6
    <3>2. r.versioned > 0 /\ r.unversioned = 0 /\ r.malformed = 0
      BY <1>1, <2>6 DEF CountsFit
    <3>3. d.issues = c.issues + 1
      BY <1>1, <1>5, <2>6 DEF IssueFree
    <3> QED BY <1>1, <1>5, <1>6, <1>7, <3>1, <3>2, <3>3 DEF InventoryFits, AllStatuses,
            WithIssues, LeastVersioned, LeastUnversioned, InMalformed
  <2>7. CASE r.status = "malformed_relations"
    <3>1. /\ d.statuses["empty"] = a1
          /\ d.statuses["compatible_v1_shape"] = a2
          /\ d.statuses["legacy_unversioned"] = a3
          /\ d.statuses["mixed_versioning"] = a4
          /\ d.statuses["unsupported_version"] = a5
          /\ d.statuses["invalid_v1"] = a6
          /\ d.statuses["malformed_relations"] = a7 + 1
      BY <1>6, <2>7
    <3>2. (r.versioned = 0 /\ r.unversioned = 0 /\ r.malformed = 0) \/ r.malformed > 0
      BY <1>1, <2>7 DEF CountsFit
    <3>3. d.issues = c.issues + 1
      BY <1>1, <1>5, <2>7 DEF IssueFree
    <3>4. CASE r.malformed > 0
      BY <1>1, <1>5, <1>6, <1>7, <3>1, <3>3, <3>4 DEF InventoryFits, AllStatuses,
         WithIssues, LeastVersioned, LeastUnversioned, InMalformed
    <3>5. CASE r.versioned = 0 /\ r.unversioned = 0 /\ r.malformed = 0
      BY <1>1, <1>5, <1>6, <1>7, <3>1, <3>3, <3>5 DEF InventoryFits, AllStatuses,
         WithIssues, LeastVersioned, LeastUnversioned, InMalformed
    <3> QED BY <3>2, <3>4, <3>5
  <2> QED BY <1>1, <2>1, <2>2, <2>3, <2>4, <2>5, <2>6, <2>7 DEF Statuses
<1> QED BY <1>3, <1>8 DEF Good, d

(* Sums of inventories that pass are inventories that pass.                *)
LEMMA SumIsGood ==
  ASSUME NEW c, NEW d, Good(c), Good(d)
  PROVE  Good(Plus(c, d))
<1> DEFINE e == Plus(c, d)
<1>1. c \in Inventory /\ d \in Inventory /\ InventoryFits(c) /\ InventoryFits(d)
  BY DEF Good
<1>2. e \in Inventory
  BY <1>1 DEF Plus, Inventory
<1>3. \A s \in Statuses : /\ c.statuses[s] \in Nat /\ d.statuses[s] \in Nat
                          /\ e.statuses[s] = c.statuses[s] + d.statuses[s]
  BY <1>1 DEF Plus, Inventory
<1>4. /\ c.reports \in Nat /\ c.relations \in Nat /\ c.versioned \in Nat
      /\ c.unversioned \in Nat /\ c.malformed \in Nat /\ c.issues \in Nat
      /\ d.reports \in Nat /\ d.relations \in Nat /\ d.versioned \in Nat
      /\ d.unversioned \in Nat /\ d.malformed \in Nat /\ d.issues \in Nat
      /\ e.reports = c.reports + d.reports /\ e.relations = c.relations + d.relations
      /\ e.versioned = c.versioned + d.versioned
      /\ e.unversioned = c.unversioned + d.unversioned
      /\ e.malformed = c.malformed + d.malformed /\ e.issues = c.issues + d.issues
  BY <1>1 DEF Plus, Inventory
<1> HIDE DEF e
<1>5. InventoryFits(e)
  BY <1>1, <1>3, <1>4 DEF InventoryFits, AllStatuses, WithIssues, LeastVersioned,
     LeastUnversioned, InMalformed, Statuses
<1> QED BY <1>2, <1>5 DEF Good, e

---------------------------------------------------------------------------
(* The inductive invariant: all four inventories pass.                     *)
Fitting ==
  /\ Good(baseline) /\ Good(candidate)
  /\ Good(total.baseline) /\ Good(total.candidate)
  /\ ~refused

LEMMA FittingInit == CountingInit => Fitting
BY NothingIsGood DEF CountingInit, Fitting

LEMMA FittingStep == Fitting /\ [CountingNext]_counting => Fitting'
<1> SUFFICES ASSUME Fitting, [CountingNext]_counting PROVE Fitting'
  OBVIOUS
<1>1. ASSUME NEW rs \in Lists \cup {NotAList}, NEW source \in Ids,
             TakeBaseline(Classify(rs, source))
      PROVE  Fitting'
  BY <1>1, ReportsFit, CountedIsGood DEF TakeBaseline, Fitting
<1>2. ASSUME NEW rs \in Lists \cup {NotAList}, NEW source \in Ids,
             TakeCandidate(Classify(rs, source))
      PROVE  Fitting'
  BY <1>2, ReportsFit, CountedIsGood DEF TakeCandidate, Fitting
<1>3. CASE Compare
  <2>1. InventoryFits(baseline) /\ InventoryFits(candidate)
    BY DEF Fitting, Good
  <2>2. /\ total'.baseline = Plus(total.baseline, baseline)
        /\ total'.candidate = Plus(total.candidate, candidate)
        /\ baseline' = NoCounts /\ candidate' = NoCounts /\ refused' = refused
    BY <1>3, <2>1 DEF Compare
  <2> QED BY <2>2, SumIsGood, NothingIsGood DEF Fitting
<1>4. CASE UNCHANGED counting
  BY <1>4 DEF counting, Fitting
<1> QED BY <1>1, <1>2, <1>3, <1>4 DEF CountingNext

(* Whatever lists are stored, classified, counted, compared and added up,  *)
(* no builder raises over what another one made.                           *)
THEOREM BuildersAgree == CountingSpec => []Accepted
<1>1. Fitting => Accepted
  BY DEF Fitting, Good, Accepted
<1> QED BY FittingInit, FittingStep, <1>1, PTL DEF CountingSpec

---------------------------------------------------------------------------
(* ConceptMemory: the blocks of the document and the mesh over them.       *)

(* A set of numbers that is not empty has a least one.                     *)
LEMMA FirstIn ==
  ASSUME NEW S \in SUBSET Nat, S # {}
  PROVE  \E n \in S : \A m \in S : n <= m
<1> DEFINE below == {ss \in Nat \X Nat : ss[1] < ss[2]}
<1>1. IsWellFoundedOn(below, Nat)
  BY NatLessThanWellFounded, Zenon DEF OpToRel
<1>2. PICK n \in S : \A m \in S : ~ (<<m, n>> \in below)
  BY <1>1, WFMin
<1>3. ASSUME NEW m \in S PROVE n <= m
  <2>1. m \in Nat /\ n \in Nat
    BY S \in SUBSET Nat, n \in S, m \in S
  <2>2. ~ (m < n)
    <3> SUFFICES ASSUME m < n PROVE <<m, n>> \in below
      BY <1>2
    <3> QED BY <2>1
  <2> QED BY <2>1, <2>2
<1> QED BY <1>3

(* The loop over a list of relations: there is a function that does what   *)
(* each of its rounds says.                                                *)
Loop(f, rs, last) ==
  f = [n \in 0 .. last |-> IF n = 0 THEN << >> ELSE Kept(f[n - 1], rs[n])]

LEMMA LoopEnds ==
  ASSUME NEW rs, NEW last \in Nat
  PROVE  \E f : Loop(f, rs, last)
<1> DEFINE S == {m \in Nat : ~ \E f : Loop(f, rs, m)}
<1>1. SUFFICES ASSUME S # {} PROVE FALSE
  OBVIOUS
<1>2. PICK m \in S : \A k \in S : m <= k
  <2> HIDE DEF S
  <2>1. S \in SUBSET Nat
    BY DEF S
  <2> QED BY <1>1, <2>1, FirstIn
<1>3. CASE m = 0
  <2> DEFINE g == [n \in 0 .. 0 |-> << >>]
  <2>1. Loop(g, rs, 0)
    BY DEF Loop
  <2> QED BY <1>2, <1>3, <2>1
<1>4. CASE m # 0
  <2>1. m \in Nat /\ m - 1 \in Nat /\ m - 1 \notin S
    BY <1>2, <1>4
  <2>2. PICK f : Loop(f, rs, m - 1)
    BY <2>1
  <2> DEFINE g == [n \in 0 .. m |-> IF n = m THEN Kept(f[m - 1], rs[m]) ELSE f[n]]
             h == [n \in 0 .. m |-> IF n = 0 THEN << >> ELSE Kept(g[n - 1], rs[n])]
  <2>3. ASSUME NEW n \in 0 .. m PROVE g[n] = h[n]
    <3>1. CASE n = m
      <4>1. g[m - 1] = f[m - 1]
        BY <2>1
      <4> QED BY <1>4, <2>1, <3>1, <4>1
    <3>2. CASE n # m
      <4>1. n \in 0 .. m - 1 /\ (n # 0 => g[n - 1] = f[n - 1])
        BY <2>1, <3>2
      <4>2. f[n] = IF n = 0 THEN << >> ELSE Kept(f[n - 1], rs[n])
        BY <2>2, <4>1 DEF Loop
      <4> QED BY <3>2, <4>1, <4>2
    <3> QED BY <3>1, <3>2
  <2>4. g = h
    BY <2>3
  <2>5. Loop(g, rs, m)
    BY <2>4 DEF Loop
  <2> QED BY <1>2, <2>5
<1> QED BY <1>3, <1>4

(* What __post_init__ keeps of a list are objects, and of a list of        *)
(* objects it keeps everything.                                            *)
LEMMA CoercedFits ==
  ASSUME NEW rs \in Lists \cup {NotAList}
  PROVE  /\ Coerced(rs) \in Seq(Relation)
         /\ rs # NotAList /\ Malformed(rs) = {} => Coerced(rs) = rs
<1>1. CASE rs = NotAList
  BY <1>1 DEF Coerced
<1>2. CASE rs # NotAList
  <2> DEFINE f == CHOOSE g : Loop(g, rs, Len(rs))
             c == CHOOSE g : g = [n \in 0 .. Len(rs) |->
                    IF n = 0 THEN << >> ELSE Kept(g[n - 1], rs[n])]
  <2>1. rs \in Seq(Relation \cup {NotAnObject}) /\ Len(rs) \in Nat
    BY <1>2 DEF Lists
  <2>2. Loop(f, rs, Len(rs))
    BY <2>1, LoopEnds
  <2>3. c = f
    BY DEF Loop
  <2>4. Coerced(rs) = f[Len(rs)]
    BY <1>2, <2>3 DEF Coerced
  <2> HIDE DEF f, c
  <2>5. /\ f[0] = << >>
        /\ \A n \in 1 .. Len(rs) : f[n] = Kept(f[n - 1], rs[n])
    <3>1. 0 \in 0 .. Len(rs) /\ \A n \in 1 .. Len(rs) : n \in 0 .. Len(rs) /\ n # 0
      BY <2>1
    <3>2. \A n \in 0 .. Len(rs) :
            f[n] = IF n = 0 THEN << >> ELSE Kept(f[n - 1], rs[n])
      BY <2>2 DEF Loop
    <3> QED BY <3>1, <3>2
  <2> DEFINE Fits(n) == /\ f[n] \in Seq(Relation)
                        /\ Malformed(rs) = {} => f[n] = SubSeq(rs, 1, n)
             S == {n \in 0 .. Len(rs) : ~Fits(n)}
  <2>6. SUFFICES ASSUME S # {} PROVE FALSE
    <3>1. SUFFICES Fits(Len(rs)) => /\ f[Len(rs)] \in Seq(Relation)
                                    /\ Malformed(rs) = {} => f[Len(rs)] = rs
      BY <2>1, <2>4
    <3> QED BY <2>1
  <2>7. PICK m \in S : \A k \in S : m <= k
    <3> HIDE DEF S
    <3>1. S \in SUBSET Nat
      BY <2>1 DEF S
    <3> QED BY <2>6, <3>1, FirstIn
  <2>8. m # 0
    <3>1. Fits(0)
      BY <2>1, <2>5
    <3> QED BY <2>7, <3>1
  <2>9. m \in 1 .. Len(rs) /\ m - 1 \in 0 .. Len(rs) /\ Fits(m - 1)
    BY <2>1, <2>7, <2>8
  <2>10. rs[m] \in Relation \cup {NotAnObject} /\ f[m] = Kept(f[m - 1], rs[m])
    BY <2>1, <2>5, <2>9
  <2>11. f[m] \in Seq(Relation)
    BY <2>9, <2>10 DEF Kept
  <2>12. ASSUME Malformed(rs) = {} PROVE f[m] = SubSeq(rs, 1, m)
    <3>1. rs[m] # NotAnObject
      BY <2>1, <2>9, <2>12 DEF Malformed
    <3>2. f[m] = Append(SubSeq(rs, 1, m - 1), rs[m])
      BY <2>9, <2>10, <2>12, <3>1 DEF Kept
    <3> QED BY <2>1, <2>9, <3>2
  <2> QED BY <2>7, <2>11, <2>12
<1> QED BY <1>1, <1>2

Kinds == {"text", "concept", "broken"}
Writers == {"text", "permissive", "authored", "import"}
BlockRecord ==
  [id : Nat, kind : Kinds, concept : Concepts \cup {Invalid},
   relations : Lists \cup {NotAList}, writer : Writers]

(* Type invariant, with the numbers of the blocks.                         *)
TypeOK ==
  /\ blocks \in Seq(BlockRecord) /\ env \in Envs
  /\ \A i \in DOMAIN blocks : blocks[i].id = i

(* The writers of this code store objects only.                            *)
ObjectsOnly ==
  \A i \in DOMAIN blocks :
    blocks[i].writer # "import" =>
      blocks[i].relations \in Lists /\ Malformed(blocks[i].relations) = {}

Sound == TypeOK /\ ObjectsOnly

LEMMA SoundInit == Init => Sound
BY DEF Init, Sound, TypeOK, ObjectsOnly

(* A list of relations that are objects.                                   *)
LEMMA ObjectLists ==
  ASSUME NEW rs \in Seq(Relation)
  PROVE  rs \in Lists /\ Malformed(rs) = {}
BY ObjectAssumption DEF Lists, Malformed

(* One block more ...                                                      *)
LEMMA AddedSound ==
  ASSUME Sound, NEW kind \in Kinds, NEW c \in Concepts \cup {Invalid},
         NEW rs \in Lists \cup {NotAList}, NEW writer \in Writers,
         writer # "import" => rs \in Lists /\ Malformed(rs) = {},
         Added(Block(kind, c, rs, writer))
  PROVE  Sound'
<1> DEFINE b == Block(kind, c, rs, writer)
<1>1. /\ blocks \in Seq(BlockRecord) /\ Len(blocks) \in Nat
      /\ DOMAIN blocks = 1 .. Len(blocks)
  BY DEF Sound, TypeOK
<1>2. /\ b \in BlockRecord /\ b.id = Len(blocks) + 1
      /\ b.writer = writer /\ b.relations = rs
  BY <1>1 DEF Block, BlockRecord
<1> HIDE DEF b
<1>3. blocks' = Append(blocks, b) /\ UNCHANGED <<env, counting>>
  BY DEF Added, b
<1>4. /\ blocks' \in Seq(BlockRecord)
      /\ DOMAIN blocks' = DOMAIN blocks \cup {Len(blocks) + 1}
      /\ blocks'[Len(blocks) + 1] = b
      /\ \A i \in DOMAIN blocks : blocks'[i] = blocks[i]
  BY <1>1, <1>2, <1>3
<1>5. TypeOK'
  BY <1>2, <1>3, <1>4 DEF Sound, TypeOK
<1>6. ObjectsOnly'
  BY <1>2, <1>4 DEF Sound, ObjectsOnly
<1> QED BY <1>5, <1>6 DEF Sound

(* ... or less.                                                            *)
LEMMA DeleteSound ==
  ASSUME Sound, NEW i \in DOMAIN blocks, Delete(i)
  PROVE  Sound'
<1> DEFINE n == Len(blocks)
           rest == RemoveAt(blocks, i)
<1>1. /\ blocks \in Seq(BlockRecord) /\ n \in Nat /\ DOMAIN blocks = 1 .. n
      /\ i \in 1 .. n
  BY DEF Sound, TypeOK
<1>2. ASSUME NEW k \in 1 .. n - 1
      PROVE  \E j \in 1 .. n : rest[k] = blocks[j]
  <2> DEFINE s == SubSeq(blocks, 1, i - 1)
             t == SubSeq(blocks, i + 1, n)
  <2>1. /\ s \in Seq(BlockRecord) /\ Len(s) = i - 1
        /\ \A j \in 1 .. i - 1 : s[j] = blocks[j]
    BY <1>1
  <2>2. /\ t \in Seq(BlockRecord) /\ Len(t) = n - i
        /\ \A j \in 1 .. n - i : t[j] = blocks[i + j]
    <3>1. i + 1 \in Int /\ n \in Int /\ \A j \in i + 1 .. n : blocks[j] \in BlockRecord
      BY <1>1
    <3>2. /\ t \in Seq(BlockRecord)
          /\ Len(t) = IF i + 1 <= n THEN n - (i + 1) + 1 ELSE 0
          /\ \A j \in 1 .. n - (i + 1) + 1 : t[j] = blocks[(i + 1) + j - 1]
      BY <3>1, SubSeqProperties
    <3>3. \A j \in 1 .. n - i :
            j \in 1 .. n - (i + 1) + 1 /\ (i + 1) + j - 1 = i + j
      BY <1>1
    <3> HIDE DEF t
    <3> QED BY <1>1, <3>2, <3>3
  <2>3. rest = s \o t
    BY DEF RemoveAt
  <2> HIDE DEF s, t, n, rest
  <2>4. CASE k <= i - 1
    <3>1. k \in 1 .. i - 1
      BY <1>1, <1>2, <2>4
    <3>2. rest[k] = s[k]
      BY <1>1, <2>1, <2>2, <2>3, <3>1
    <3> QED BY <1>1, <2>1, <3>1, <3>2
  <2>5. CASE ~(k <= i - 1)
    <3>1. k - (i - 1) \in 1 .. n - i /\ k \in 1 .. (i - 1) + (n - i) /\ k + 1 \in 1 .. n
      BY <1>1, <1>2, <2>5
    <3>2. rest[k] = t[k - (i - 1)]
      <4>1. k \in 1 .. Len(s) + Len(t) /\ k > Len(s)
        BY <1>1, <1>2, <2>1, <2>2, <2>5, <3>1
      <4>2. (s \o t)[k] = t[k - Len(s)]
        BY <2>1, <2>2, <4>1
      <4> QED BY <2>1, <2>3, <4>2
    <3>3. rest[k] = blocks[i + (k - (i - 1))] /\ i + (k - (i - 1)) = k + 1
      BY <1>1, <2>2, <3>1, <3>2
    <3> QED BY <3>1, <3>3
  <2> QED BY <2>4, <2>5
<1>3. /\ blocks' = [k \in 1 .. n - 1 |-> [rest[k] EXCEPT !.id = k]]
      /\ UNCHANGED <<env, counting>>
  BY DEF Delete
<1> HIDE DEF n, rest
<1>4. ASSUME NEW k \in 1 .. n - 1
      PROVE  /\ blocks'[k] \in BlockRecord /\ blocks'[k].id = k
             /\ blocks'[k].writer # "import" =>
                  /\ blocks'[k].relations \in Lists
                  /\ Malformed(blocks'[k].relations) = {}
  <2>1. PICK j \in 1 .. n : rest[k] = blocks[j]
    BY <1>2
  <2>2. blocks[j] \in BlockRecord /\ j \in DOMAIN blocks
    BY <1>1
  <2>3. blocks'[k] = [blocks[j] EXCEPT !.id = k] /\ k \in Nat
    <3>1. blocks'[k] = [rest[k] EXCEPT !.id = k] /\ k \in Nat
      BY <1>1, <1>3
    <3> QED BY <2>1, <3>1
  <2>4. /\ blocks'[k] \in BlockRecord /\ blocks'[k].id = k
        /\ blocks'[k].writer = blocks[j].writer
        /\ blocks'[k].relations = blocks[j].relations
    BY <2>2, <2>3 DEF BlockRecord
  <2> QED BY <2>2, <2>4 DEF Sound, ObjectsOnly
<1>5. blocks' \in Seq(BlockRecord) /\ DOMAIN blocks' = 1 .. n - 1
  <2>1. n - 1 \in Nat
    BY <1>1
  <2>2. DOMAIN blocks' = 1 .. n - 1 /\ blocks' \in [1 .. n - 1 -> BlockRecord]
    BY <1>3, <1>4
  <2> QED BY <2>1, <2>2
<1> QED BY <1>3, <1>4, <1>5 DEF Sound, TypeOK, ObjectsOnly

LEMMA SoundStep == Sound /\ [Next]_vars => Sound'
<1> SUFFICES ASSUME Sound, [Next]_vars PROVE Sound'
  OBVIOUS
<1>1. CASE AddText
  <2>1. << >> \in Seq(Relation)
    OBVIOUS
  <2>2. << >> \in Lists /\ Malformed(<< >>) = {}
    BY <2>1, ObjectLists
  <2> QED BY <1>1, <2>2, AddedSound DEF AddText, Kinds, Writers
<1>2. ASSUME NEW c \in Concepts, NEW rs \in Payloads, AddConcept(c, rs)
      PROVE  Sound'
  <2>1. Coerced(rs) \in Seq(Relation)
    BY PayloadAssumption, CoercedFits
  <2>2. Coerced(rs) \in Lists /\ Malformed(Coerced(rs)) = {}
    BY <2>1, ObjectLists
  <2> QED BY <1>2, <2>2, AddedSound DEF AddConcept, Kinds, Writers
<1>3. ASSUME NEW c \in Concepts, NEW rs \in Payloads, NEW padded \in BOOLEAN,
             AddAuthored(c, padded, rs)
      PROVE  Sound'
  <2> DEFINE source == IF padded THEN Padded(c) ELSE c
  <2>1. rs \in Lists /\ \A i \in DOMAIN rs : Fault(rs, i, source) = "none"
    <3> HIDE DEF source
    <3>1. Validation(rs, source) = "none" /\ rs \in Lists \cup {NotAList}
      BY <1>3, PayloadAssumption DEF AddAuthored, source
    <3> QED BY <3>1, AcceptedHasNoFault
  <2>2. Malformed(rs) = {}
    BY <2>1 DEF Malformed, Fault
  <2>3. Added(Block("concept", c, rs, "authored"))
    BY <1>3 DEF AddAuthored
  <2> QED BY <2>1, <2>2, <2>3, AddedSound DEF Kinds, Writers
<1>4. ASSUME NEW c \in Concepts, NEW rs \in Foreign, NEW kind \in {"concept", "broken"},
             Import(kind, c, rs)
      PROVE  Sound'
  BY <1>4, AddedSound, PayloadAssumption DEF Import, Kinds, Writers
<1>5. ASSUME NEW i \in DOMAIN blocks, Delete(i) PROVE Sound'
  BY <1>5, DeleteSound
<1>6. CASE UNCHANGED <<blocks, env>>
  BY <1>6 DEF Sound, TypeOK, ObjectsOnly
<1>7. ASSUME NEW i \in DOMAIN blocks, Inspect(i) PROVE UNCHANGED <<blocks, env>>
  BY <1>7 DEF Inspect
<1> QED BY <1>1, <1>2, <1>3, <1>4, <1>5, <1>6, <1>7 DEF Next, vars, CompareBatches

(* Whatever is added, imported and deleted, blocks have their types and    *)
(* are numbered as they stand.                                             *)
THEOREM TypeCorrect == Spec => []TypeOK
<1>1. Sound => TypeOK
  BY DEF Sound
<1> QED BY SoundInit, SoundStep, <1>1, PTL DEF Spec

(* Each node and each relation of the mesh is found again at the block,    *)
(* and in that block's list at the place, that it names; lists of any      *)
(* length, any number of blocks, whatever was deleted in between.          *)
THEOREM MeshIsFaithful == Spec => []MeshPointsBack
<1>1. Sound => MeshPointsBack
  <2> SUFFICES ASSUME Sound PROVE MeshPointsBack
    OBVIOUS
  <2>1. /\ \A i \in DOMAIN blocks : blocks[i] \in BlockRecord /\ blocks[i].id = i
        /\ Range(blocks) = {blocks[i] : i \in DOMAIN blocks}
    BY DEF Sound, TypeOK, Range
  <2>2. ASSUME NEW n \in Nodes
        PROVE  \E b \in Range(blocks) :
                 Node(b) = n /\ \A c \in Range(blocks) : c.id = b.id => c = b
    <3>1. PICK i \in DOMAIN blocks : n = Node(blocks[i])
      BY <2>2 DEF Nodes, InMesh
    <3> QED BY <2>1, <3>1
  <2>3. ASSUME NEW r \in ExplicitRelations, NEW b \in Range(blocks),
               b.id = r.block, Authentic(b)
        PROVE  /\ NodeId(b) = r.source
               /\ r.index \in DOMAIN b.relations /\ b.relations[r.index] # NotAnObject
               /\ Explicit(b, r.index, b.relations[r.index]) = r
               /\ r.target \in {n.id : n \in Nodes} \cup {Invalid}
    <3>1. PICK i \in StrictConcepts : r \in ExplicitOf(blocks[i])
      BY DEF ExplicitRelations
    <3>2. PICK k \in 1 .. Len(Coerced(blocks[i].relations)) :
            r = Explicit(blocks[i], k, Coerced(blocks[i].relations)[k])
      BY <3>1 DEF ExplicitOf
    <3>3. r.block = blocks[i].id /\ r.index = k /\ r.source = NodeId(blocks[i])
      BY <3>2 DEF Explicit
    <3>4. b = blocks[i] /\ i \in DOMAIN blocks
      BY <2>1, <2>3, <3>3 DEF StrictConcepts
    <3>5. b.relations \in Lists \cup {NotAList}
      BY <2>1, <3>4 DEF BlockRecord
    <3>6. b.relations # NotAList
      BY <3>2, <3>4 DEF Coerced
    <3>7. Malformed(b.relations) = {}
      BY <2>3, <3>4 DEF Sound, ObjectsOnly, Authentic
    <3>8. Coerced(b.relations) = b.relations
      BY <3>5, <3>6, <3>7, CoercedFits
    <3>9. k \in DOMAIN b.relations /\ b.relations[k] # NotAnObject
      BY <3>2, <3>4, <3>5, <3>6, <3>7, <3>8 DEF Lists, Malformed
    <3>10. r.target \in {n.id : n \in Nodes} \cup {Invalid}
      <4> DEFINE id == Trimmed(Text(b.relations[k], "target", b.relations[k].target))
      <4>1. r.target = Resolved(id)
        BY <3>2, <3>4, <3>8 DEF Explicit
      <4> HIDE DEF id
      <4>2. CASE id \in Known
        <5>1. PICK j \in StrictConcepts : id = blocks[j].concept
          BY <4>2 DEF Known
        <5>2. /\ j \in InMesh /\ NodeId(blocks[j]) = <<"concept", id>>
          BY <5>1 DEF StrictConcepts, InMesh, NodeId
        <5>3. Node(blocks[j]) \in Nodes /\ Node(blocks[j]).id = <<"concept", id>>
          BY <5>2 DEF Nodes, Node
        <5> QED BY <4>1, <4>2, <5>3 DEF Resolved
      <4>3. CASE id \notin Known
        BY <4>1, <4>3 DEF Resolved
      <4> QED BY <4>2, <4>3
    <3> QED BY <3>2, <3>3, <3>4, <3>8, <3>9, <3>10
  <2> QED BY <2>2, <2>3 DEF MeshPointsBack
<1> QED BY SoundInit, SoundStep, <1>1, PTL DEF Spec

(* Whatever the document holds, no builder raises over its relations.      *)
THEOREM StoredIsAccepted == Spec => []Accepted
<1>1. Init => Fitting
  BY FittingInit DEF Init
<1>2. Sound /\ Fitting /\ [Next]_vars => Fitting'
  <2> SUFFICES ASSUME Sound, Fitting, [Next]_vars PROVE Fitting'
    OBVIOUS
  <2>1. ASSUME NEW i \in DOMAIN blocks, Inspect(i) PROVE Fitting'
    <3> DEFINE report == Classify(blocks[i].relations, blocks[i].concept)
    <3>1. blocks[i].relations \in Lists \cup {NotAList}
      <4>1. blocks \in Seq(BlockRecord)
        BY DEF Sound, TypeOK
      <4>2. blocks[i] \in BlockRecord
        BY <4>1
      <4> QED BY <4>2 DEF BlockRecord
    <3>2. ReportFits(report)
      BY <3>1, ReportsFit
    <3> HIDE DEF report
    <3>3. TakeBaseline(report) \/ TakeCandidate(report)
      BY <2>1 DEF Inspect, report
    <3> QED BY <3>2, <3>3, CountedIsGood DEF TakeBaseline, TakeCandidate, Fitting
  <2>2. CASE CompareBatches
    BY <2>2, FittingStep DEF CompareBatches, CountingNext
  <2>3. CASE UNCHANGED counting
    BY <2>3 DEF counting, Fitting
  <2> QED BY <2>1, <2>2, <2>3 DEF Next, vars, AddText, AddConcept, AddAuthored, Import,
             Added, Delete
<1>3. Fitting => Accepted
  BY DEF Fitting, Good, Accepted
<1> QED BY SoundInit, SoundStep, <1>1, <1>2, <1>3, PTL DEF Spec
=============================================================================
