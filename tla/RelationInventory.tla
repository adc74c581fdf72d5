------------------------- MODULE RelationInventory --------------------------
(***************************************************************************)
(* Reports of Classify are counted into an inventory                       *)
(* (semantic_relation_compatibility_inventory.py, _batch.py), two          *)
(* inventories are compared (_comparison.py) and comparisons are counted   *)
(* again (_comparison_inventory.py, _comparison_batch.py).  Each builder   *)
(* checks what it is given and refuses what no builder before it could     *)
(* have made.  The lists are passed by the caller one after the other.     *)
(***************************************************************************)
EXTENDS RelationContract

VARIABLES
  baseline, candidate, \* the inventories of the two batches, so far
  total,               \* of all comparisons: their number, the counts of both
                       \* sides and the delta
  refused              \* a builder raised

counting == <<baseline, candidate, total, refused>>

Statuses == {"empty", "compatible_v1_shape", "legacy_unversioned",
             "mixed_versioning", "unsupported_version", "invalid_v1",
             "malformed_relations"}
IssueFree == {"empty", "compatible_v1_shape", "legacy_unversioned"}

---------------------------------------------------------------------------
(* build_semantic_relation_compatibility_inventory.                        *)

(* _status_counts_are_consistent                                           *)
CountsFit(r) ==
  CASE r.status = "empty" -> r.relations = 0
    [] r.status \in {"compatible_v1_shape", "unsupported_version", "invalid_v1"} ->
         /\ r.relations > 0 /\ r.versioned = r.relations
         /\ r.unversioned = 0 /\ r.malformed = 0
    [] r.status = "legacy_unversioned" ->
         /\ r.relations > 0 /\ r.unversioned = r.relations
         /\ r.versioned = 0 /\ r.malformed = 0
    [] r.status = "mixed_versioning" ->
         r.versioned > 0 /\ r.unversioned > 0 /\ r.malformed = 0
    [] r.status = "malformed_relations" -> r.relations = 0 \/ r.malformed > 0
    [] OTHER -> FALSE

(* _validate_report                                                        *)
ReportFits(r) ==
  /\ r.status \in Statuses
  /\ r.relations \in Nat /\ r.versioned \in Nat /\ r.unversioned \in Nat
  /\ r.malformed \in Nat
  /\ r.relations = r.versioned + r.unversioned + r.malformed
  /\ CountsFit(r)
  /\ (r.issue = "none") <=> (r.status \in IssueFree)

NoCounts == [reports |-> 0, statuses |-> [s \in Statuses |-> 0], relations |-> 0,
             versioned |-> 0, unversioned |-> 0, malformed |-> 0, issues |-> 0]

(* One round of the loop over the reports.                                 *)
Counted(c, r) ==
  [reports |-> c.reports + 1,
   statuses |-> [c.statuses EXCEPT ![r.status] = @ + 1],
   relations |-> c.relations + r.relations,
   versioned |-> c.versioned + r.versioned,
   unversioned |-> c.unversioned + r.unversioned,
   malformed |-> c.malformed + r.malformed,
   issues |-> c.issues + (IF r.issue = "none" THEN 0 ELSE 1)]

---------------------------------------------------------------------------
(* Comparisons.                                                            *)

AllStatuses(c) ==
  c.statuses["empty"] + c.statuses["compatible_v1_shape"]
    + c.statuses["legacy_unversioned"] + c.statuses["mixed_versioning"]
    + c.statuses["unsupported_version"] + c.statuses["invalid_v1"]
    + c.statuses["malformed_relations"]
WithIssues(c) ==
  c.statuses["mixed_versioning"] + c.statuses["unsupported_version"]
    + c.statuses["invalid_v1"] + c.statuses["malformed_relations"]
LeastVersioned(c) ==
  c.statuses["compatible_v1_shape"] + c.statuses["mixed_versioning"]
    + c.statuses["unsupported_version"] + c.statuses["invalid_v1"]
LeastUnversioned(c) ==
  c.statuses["legacy_unversioned"] + c.statuses["mixed_versioning"]
InMalformed(c) == c.statuses["malformed_relations"] > 0 /\ c.malformed > 0

(* Mutant of InventoryFits: relations with a version only occur in lists   *)
(* of which the status says so.                                            *)
InventoryFitsByStatus(c) ==
  /\ c.reports = AllStatuses(c)
  /\ c.relations = c.versioned + c.unversioned + c.malformed
  /\ c.issues = WithIssues(c)
  /\ c.versioned >= LeastVersioned(c) /\ c.unversioned >= LeastUnversioned(c)
  /\ c.malformed > 0 => c.statuses["malformed_relations"] > 0
  /\ c.versioned > 0 => LeastVersioned(c) > 0
  /\ c.unversioned > 0 => LeastUnversioned(c) > 0

(* _validate_inventory                                                     *)
InventoryFits(c) ==
  /\ c.reports = AllStatuses(c)
  /\ c.relations = c.versioned + c.unversioned + c.malformed
  /\ c.issues = WithIssues(c)
  /\ c.versioned >= LeastVersioned(c) /\ c.unversioned >= LeastUnversioned(c)
  /\ c.malformed > 0 => c.statuses["malformed_relations"] > 0
  /\ c.versioned > 0 => LeastVersioned(c) > 0 \/ InMalformed(c)
  /\ c.unversioned > 0 => LeastUnversioned(c) > 0 \/ InMalformed(c)

(* _add_inventory_counts                                                   *)
Plus(c, d) ==
  [reports |-> c.reports + d.reports,
   statuses |-> [s \in Statuses |-> c.statuses[s] + d.statuses[s]],
   relations |-> c.relations + d.relations,
   versioned |-> c.versioned + d.versioned,
   unversioned |-> c.unversioned + d.unversioned,
   malformed |-> c.malformed + d.malformed, issues |-> c.issues + d.issues]

(* _subtract_counts                                                        *)
Minus(c, d) ==
  [reports |-> c.reports - d.reports,
   statuses |-> [s \in Statuses |-> c.statuses[s] - d.statuses[s]],
   relations |-> c.relations - d.relations,
   versioned |-> c.versioned - d.versioned,
   unversioned |-> c.unversioned - d.unversioned,
   malformed |-> c.malformed - d.malformed, issues |-> c.issues - d.issues]

---------------------------------------------------------------------------
CountingInit ==
  /\ baseline = NoCounts /\ candidate = NoCounts
  /\ total = [number |-> 0, baseline |-> NoCounts, candidate |-> NoCounts,
              delta |-> NoCounts]
  /\ refused = FALSE

(* The caller passes one more list, for one of the two batches.            *)
TakeBaseline(report) ==
  /\ IF ReportFits(report)
     THEN baseline' = Counted(baseline, report) /\ UNCHANGED refused
     ELSE refused' = TRUE /\ UNCHANGED baseline
  /\ UNCHANGED <<candidate, total>>

TakeCandidate(report) ==
  /\ IF ReportFits(report)
     THEN candidate' = Counted(candidate, report) /\ UNCHANGED refused
     ELSE refused' = TRUE /\ UNCHANGED candidate
  /\ UNCHANGED <<baseline, total>>

(* The two batches are compared, and the comparison is counted; the next   *)
(* pair of batches begins.                                                 *)
Compare ==
  /\ IF InventoryFits(baseline) /\ InventoryFits(candidate)
     THEN /\ total' = [number |-> total.number + 1,
                       baseline |-> Plus(total.baseline, baseline),
                       candidate |-> Plus(total.candidate, candidate),
                       delta |-> Minus(Plus(total.candidate, candidate),
                                       Plus(total.baseline, baseline))]
          /\ UNCHANGED refused
     ELSE refused' = TRUE /\ UNCHANGED total
  /\ baseline' = NoCounts /\ candidate' = NoCounts

CountingNext ==
  \/ \E rs \in Lists \cup {NotAList}, source \in Ids :
       TakeBaseline(Classify(rs, source)) \/ TakeCandidate(Classify(rs, source))
  \/ Compare

CountingSpec == CountingInit /\ [][CountingNext]_counting

---------------------------------------------------------------------------
(* Properties.                                                             *)

(* No builder refuses what the ones before it made, whatever was stored:   *)
(* the minimum counts that _validate_inventory asks of sums hold of all    *)
(* sums of reports.  They hold as well of the sums in comparisons that are *)
(* added up again, which the code itself does not check.                   *)
Accepted ==
  /\ ~refused
  /\ InventoryFits(total.baseline) /\ InventoryFits(total.candidate)
=============================================================================
