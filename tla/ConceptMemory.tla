--------------------------- MODULE ConceptMemory ----------------------------
(***************************************************************************)
(* Concepts in the memory document: clients add texts and concepts with    *)
(* relations (scripts/api_server.py, core/memory_engine.py), delete blocks *)
(* and ask for the semantic mesh (ai_os/semantic_mesh.py), and the stored  *)
(* relations are counted (RelationInventory).  Server and loop as writers  *)
(* of the document at the same time are the matter of CognitiveLoop; here  *)
(* one call follows another.                                               *)
(***************************************************************************)
EXTENDS RelationInventory, SequencesExt

CONSTANTS
  Payloads,    \* lists of relations that clients send
  Foreign,     \* lists of relations that a document may hold already
  Envs,        \* bounds of a behaviour: blocks in the document, lists in a batch
  MaxCompared  \* bound: comparisons

ASSUME PayloadAssumption ==
  /\ Payloads \subseteq Lists \cup {NotAList}
  /\ Foreign \subseteq Lists \cup {NotAList}
  /\ Envs \subseteq [blocks : Nat, taken : Nat] /\ MaxCompared \in Nat

VARIABLES
  blocks, \* memory_blocks: id, kind ("text", "concept", or "broken" for metadata
          \* that is no concept), the concept's id and relations, by whom written
  env

vars == <<blocks, env, counting>>

Block(kind, concept, relations, writer) ==
  [id |-> Len(blocks) + 1, kind |-> kind, concept |-> concept,
   relations |-> relations, writer |-> writer]

---------------------------------------------------------------------------
(* Writers.                                                                *)

(* MemoryNode.__post_init__ keeps the relations that are objects.          *)
Kept(relations, r) == IF r = NotAnObject THEN relations ELSE Append(relations, r)
Coerced(rs) ==
  LET coerced[n \in 0 .. Len(rs)] ==
        IF n = 0 THEN << >> ELSE Kept(coerced[n - 1], rs[n])
  IN IF rs = NotAList THEN << >> ELSE coerced[Len(rs)]

(* add                                                                     *)
Added(block) ==
  /\ Len(blocks) < env.blocks /\ blocks' = Append(blocks, block)
  /\ UNCHANGED <<env, counting>>

AddText == Added(Block("text", Invalid, << >>, "text"))

(* add_concept_node without a contract: the id is trimmed.                 *)
AddConcept(c, rs) == Added(Block("concept", c, Coerced(rs), "permissive"))

(* Mutant of AddAuthored: the relations are coerced before they are looked *)
(* at, and stored as they came.                                            *)
AddAuthoredCoerced(c, padded, rs) ==
  /\ Validation(Coerced(rs), IF padded THEN Padded(c) ELSE c) = "none"
  /\ Added(Block("concept", c, rs, "authored"))

(* ... and with one: the relations are validated as they came, for the id  *)
(* as it came, which may be padded with blanks.                            *)
AddAuthored(c, padded, rs) ==
  /\ Validation(rs, IF padded THEN Padded(c) ELSE c) = "none"
  /\ Added(Block("concept", c, rs, "authored"))

(* A block that other software or an older version has put there.          *)
Import(kind, c, rs) ==
  /\ \A i \in DOMAIN blocks : blocks[i].writer # "import"
  /\ Added(Block(kind, c, rs, "import"))

(* Mutant of Delete: the blocks that stay keep their ids.                  *)
DeleteInPlace(i) ==
  /\ i \in DOMAIN blocks /\ blocks' = RemoveAt(blocks, i)
  /\ UNCHANGED <<env, counting>>

(* delete: the blocks that stay are numbered anew.                         *)
Delete(i) ==
  /\ i \in DOMAIN blocks
  /\ blocks' = [k \in 1 .. Len(blocks) - 1 |-> [RemoveAt(blocks, i)[k] EXCEPT !.id = k]]
  /\ UNCHANGED <<env, counting>>

---------------------------------------------------------------------------
(* build_semantic_mesh (nodes and explicit relations; relations derived    *)
(* from shared words and the counts of all are left out).                  *)

(* _mesh_node_id: the concept's id, or the number of the block.            *)
NodeId(b) == IF b.kind = "text" THEN <<"memory", b.id>> ELSE <<"concept", b.concept>>
Node(b) == [id |-> NodeId(b), block |-> b.id]
InMesh == {i \in DOMAIN blocks : blocks[i].kind # "broken"}
Nodes == {Node(blocks[i]) : i \in InMesh}
StrictConcepts == {i \in DOMAIN blocks : blocks[i].kind = "concept"}

(* _explicit_relations and _resolve_relation_targets.  The relations are   *)
(* those of the validated concept, so the objects only are numbered.       *)
Text(r, field, value) == IF field \in r.fields THEN value ELSE Invalid
Trimmed(id) == IF id \in Concepts \cup {Invalid} THEN id ELSE id[1]
Known == {blocks[i].concept : i \in StrictConcepts}
Resolved(id) == IF id \in Known THEN <<"concept", id>> ELSE Invalid
Explicit(b, k, r) ==
  [source |-> NodeId(b), block |-> b.id, index |-> k,
   type |-> Text(r, "type", r.type),
   target |-> Resolved(Trimmed(Text(r, "target", r.target)))]
ExplicitOf(b) ==
  {Explicit(b, k, Coerced(b.relations)[k]) : k \in 1 .. Len(Coerced(b.relations))}
ExplicitRelations == UNION {ExplicitOf(blocks[i]) : i \in StrictConcepts}

---------------------------------------------------------------------------
(* The counts of what is stored: a caller passes a block's relations.      *)

Inspect(i) ==
  /\ i \in DOMAIN blocks /\ blocks[i].kind = "concept" /\ total.number < MaxCompared
  /\ LET report == Classify(blocks[i].relations, blocks[i].concept)
     IN \/ baseline.reports < env.taken /\ TakeBaseline(report)
        \/ candidate.reports < env.taken /\ TakeCandidate(report)
  /\ UNCHANGED <<blocks, env>>

CompareBatches ==
  /\ total.number < MaxCompared /\ Compare
  /\ UNCHANGED <<blocks, env>>

Init == blocks = << >> /\ env \in Envs /\ CountingInit

Next ==
  \/ AddText
  \/ \E c \in Concepts, rs \in Payloads :
       AddConcept(c, rs) \/ \E padded \in BOOLEAN : AddAuthored(c, padded, rs)
  \/ \E c \in Concepts, rs \in Foreign, kind \in {"concept", "broken"} :
       Import(kind, c, rs)
  \/ \E i \in DOMAIN blocks : Delete(i) \/ Inspect(i)
  \/ CompareBatches

Spec == Init /\ [][Next]_vars

---------------------------------------------------------------------------
(* Properties.                                                             *)

Authentic(b) ==
  b.writer = "import" => b.relations # NotAList /\ Malformed(b.relations) = {}

(* "Every mesh node must point back to the original memory block", and     *)
(* "evidence refs should point back to original memory data": the number   *)
(* of a block in the mesh is that of one block only, which makes this node *)
(* and has this relation at this place, whoever wrote it and whatever was  *)
(* deleted and numbered anew since.  (Not so for a list that holds         *)
(* something else than objects, which no writer of this code stores: the   *)
(* mesh numbers the objects only.)  And a relation leads to a node of the  *)
(* mesh, unless its concept is in no block.                                *)
MeshPointsBack ==
  /\ \A n \in Nodes :
       \E b \in Range(blocks) : Node(b) = n /\ \A c \in Range(blocks) : c.id = b.id => c = b
  /\ \A r \in ExplicitRelations, b \in Range(blocks) :
       b.id = r.block /\ Authentic(b) =>
         /\ NodeId(b) = r.source
         /\ r.index \in DOMAIN b.relations /\ b.relations[r.index] # NotAnObject
         /\ Explicit(b, r.index, b.relations[r.index]) = r
         /\ r.target \in {n.id : n \in Nodes} \cup {Invalid}
=============================================================================
