-------------------------- MODULE RelationContract --------------------------
(***************************************************************************)
(* The contract of authored relations, semantic_relation.v1: what the      *)
(* writer of a concept asks of a list of relations                         *)
(* (ai_os/semantic_relation_contract.py), and how a list that is already   *)
(* stored is classified (ai_os/semantic_relation_compatibility.py).        *)
(***************************************************************************)
EXTENDS Integers, FiniteSets, Sequences

CONSTANTS
  Concepts,     \* canonical concept ids
  Types,        \* ALLOWED_RELATION_TYPES
  Refs,         \* canonical evidence refs
  Invalid,      \* an unknown type, a blank id or ref
  NotAList,     \* relations that are not a list, but a text or an object
  NotAnObject,  \* a relation that is not an object
  MaxRelations  \* MAX_RELATIONS_PER_NODE

ASSUME ContractAssumption ==
  /\ Invalid \notin Concepts \cup Types \cup Refs
  /\ MaxRelations \in Nat \ {0}

(* A concept id with blanks around it.                                     *)
Padded(c) == <<c>>
Ids == Concepts \cup {Padded(c) : c \in Concepts} \cup {Invalid}

Required == {"contract_version", "type", "target", "evidence_ref"}
Relation == [fields : SUBSET (Required \cup {"other"}), version : {"v1", "other"},
             type : Types \cup {Invalid}, target : Ids, ref : Refs \cup {Invalid}]
ASSUME ObjectAssumption == NotAnObject \notin Relation
Lists == Seq(Relation \cup {NotAnObject})

---------------------------------------------------------------------------
(* validate_semantic_relation_list.                                        *)

SameRelation(r, s) == r.type = s.type /\ r.target = s.target /\ r.ref = s.ref

(* What the loop over the relations says of one of them.                   *)
Fault(rs, i, source) ==
  LET r == rs[i] IN
  CASE r = NotAnObject -> "relation_not_object"
    [] r # NotAnObject ->
         IF ~(Required \subseteq r.fields) THEN "relation_missing_fields"
         ELSE IF r.fields # Required THEN "relation_unknown_fields"
         ELSE IF r.version # "v1" THEN "relation_contract_version_mismatch"
         ELSE IF r.type \notin Types THEN "relation_type_not_allowed"
         ELSE IF r.target \notin Concepts THEN "relation_target_invalid"
         ELSE IF r.ref \notin Refs THEN "relation_evidence_ref_invalid"
         ELSE IF r.target = source THEN "relation_self_reference"
         ELSE IF \E j \in 1 .. i - 1 : rs[j] # NotAnObject /\ SameRelation(rs[j], r)
              THEN "relation_duplicate"
         ELSE "none"

Least(S) == CHOOSE x \in S : \A y \in S : x <= y
Faulty(rs, source) == {i \in DOMAIN rs : Fault(rs, i, source) # "none"}

(* The error raised, "none" if the list is accepted.                       *)
Validation(rs, source) ==
  IF source \notin Concepts THEN "invalid_source_concept_id"
  ELSE IF rs = NotAList THEN "relations_not_list"
  ELSE IF Len(rs) > MaxRelations THEN "relation_limit_exceeded"
  ELSE IF Faulty(rs, source) # {}
       THEN Fault(rs, Least(Faulty(rs, source)), source)
  ELSE "none"

---------------------------------------------------------------------------
(* classify_semantic_relation_compatibility.                               *)

Malformed(rs) == {i \in DOMAIN rs : rs[i] = NotAnObject}
Versioned(rs) ==
  {i \in DOMAIN rs \ Malformed(rs) : "contract_version" \in rs[i].fields}
Unversioned(rs) == DOMAIN rs \ (Malformed(rs) \cup Versioned(rs))
Unsupported(rs) == {i \in Versioned(rs) : rs[i].version # "v1"}

Report(status, rs, issue) ==
  [status |-> status, relations |-> Len(rs), versioned |-> Cardinality(Versioned(rs)),
   unversioned |-> Cardinality(Unversioned(rs)),
   malformed |-> Cardinality(Malformed(rs)), issue |-> issue]

Classify(rs, source) ==
  IF rs = NotAList THEN Report("malformed_relations", << >>, "relations_not_list")
  ELSE IF Malformed(rs) # {}
       THEN Report("malformed_relations", rs, "relation_not_object")
  ELSE IF Len(rs) = 0 THEN Report("empty", rs, "none")
  ELSE IF Versioned(rs) = {} THEN Report("legacy_unversioned", rs, "none")
  ELSE IF Unversioned(rs) # {}
       THEN Report("mixed_versioning", rs, "mixed_relation_versioning")
  ELSE IF Unsupported(rs) # {}
       THEN Report("unsupported_version", rs, "unsupported_contract_version")
  ELSE IF Validation(rs, source) # "none"
       THEN Report("invalid_v1", rs, Validation(rs, source))
  ELSE Report("compatible_v1_shape", rs, "none")
=============================================================================
