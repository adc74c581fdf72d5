-------------------------- MODULE DurableDocument --------------------------
(***************************************************************************)
(* What ai_os/atomic_store.py promises to the component whose document it  *)
(* keeps: at every moment there is one document on disk, which a save      *)
(* replaces in a single step by a newer one that was asked for.  A save    *)
(* that is killed or fails leaves the document as it was.                  *)
(***************************************************************************)
EXTENDS Naturals

VARIABLES
  doc,       \* the document a load returns, 0 for the empty one
  requested  \* saves asked for so far

Init == doc = 0 /\ requested = 0

(* A caller asks for a new document to be saved.                           *)
Request == requested' = requested + 1 /\ UNCHANGED doc

(* A save that was asked for completes: the next document is there.        *)
Save == doc < requested /\ doc' = doc + 1 /\ UNCHANGED requested

Next == Request \/ Save

Spec == Init /\ [][Next]_<<doc, requested>>
=============================================================================
