--------------------------- MODULE MCAtomicStore ---------------------------
(* Instances of AtomicStore for TLC.                                       *)
EXTENDS AtomicStore, TLC

(* The writers of the memory document differ in nothing but their names.   *)
WriterSymmetry == Permutations(Writers)

(* How the runtimes load their state, how scripts/runtime_store.py loads   *)
(* the memory document.                                                    *)
RuntimePolicy == [exclusive |-> TRUE, preserve |-> TRUE, unrecoverable |-> "default"]
MemoryPolicy == [exclusive |-> FALSE, preserve |-> FALSE, unrecoverable |-> "raise"]
BothPolicies == {RuntimePolicy, MemoryPolicy}
OnlyMemoryPolicy == {MemoryPolicy}
=============================================================================
