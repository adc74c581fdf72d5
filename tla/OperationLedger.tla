-------------------------- MODULE OperationLedger --------------------------
(***************************************************************************)
(* execution/ledger.py: the log of what happened to operations, newest     *)
(* entry first, with the branches the operations belong to, as functions   *)
(* from one state of the ledger to the next.  record_event appends an      *)
(* entry, keeps the branch's count and saves the file; its caller          *)
(* (ExecutionHistory) models the save.                                     *)
(*                                                                         *)
(* An operation is known by its task; an entry id is a time stamp that is  *)
(* never used twice, the logical time an index kept in the file, which     *)
(* may go back when a save failed.                                         *)
(***************************************************************************)
EXTENDS ExecutionRuntime, Integers, Sequences

CONSTANTS
  Tasks,          \* tasks, each with one operation
  NoTask,         \* "no parent operation"
  Branches,       \* branch ids
  Main,           \* the branch "main"
  NoBranch,       \* "no parent branch"
  BranchOf,       \* per task, the branch of its operation
  ParentOf,       \* per task, its parent_operation_id
  DeclaredParent, \* per task, metadata["parent_branch_id"]
  MaxEntries      \* max_entries

ASSUME LedgerAssumption ==
  /\ NoTask \notin Tasks /\ Main \in Branches /\ NoBranch \notin Branches
  /\ BranchOf \in [Tasks -> Branches]
  /\ ParentOf \in [Tasks -> Tasks \cup {NoTask}]
  /\ DeclaredParent \in [Tasks -> Branches \cup {NoBranch}]
  /\ MaxEntries \in Nat \ {0}

(* Fields of no entry: what the code reads from {} when there is none.     *)
NoEntry == [id |-> 0, time |-> 0, op |-> NoTask, branch |-> NoBranch,
            parentBranch |-> NoBranch, seq |-> 0, opSeq |-> 0, parent |-> 0,
            depth |-> 0, is |-> NoOperation]
UnknownBranch == [known |-> FALSE, parent |-> NoBranch, depth |-> 0,
                  count |-> 0]

EmptyLedger == [entries |-> << >>, branches |-> [b \in Branches |->
                UnknownBranch], next |-> 1]

OfOperation(es, t) == {i \in DOMAIN es : es[i].op = t}
OfBranch(es, b) == {i \in DOMAIN es : es[i].branch = b}
IsFirst(I, i) == i \in I /\ \A j \in I : i <= j
Newest(es, I) == IF I = {} THEN NoEntry ELSE es[CHOOSE i \in I : IsFirst(I, i)]
NewestOf(es, t) == Newest(es, OfOperation(es, t))
NewestIn(es, b) == Newest(es, OfBranch(es, b))

(* _default_branch                                                         *)
NewBranch(branches, b, parent) ==
  [known |-> TRUE, parent |-> parent, count |-> 0,
   depth |-> CASE parent # NoBranch -> branches[parent].depth + 1
               [] parent = NoBranch /\ b # Main -> 1
               [] OTHER -> 0]

(* _normalize_parent_branch_id: what the task declares, or the branch of   *)
(* its parent operation; a branch other than main hangs on main.           *)
ParentBranch(es, t) ==
  LET declared == DeclaredParent[t]
      inherited == NewestOf(es, ParentOf[t]).branch
      asked == IF declared # NoBranch THEN declared ELSE inherited
  IN  CASE asked = BranchOf[t] -> NoBranch
        [] asked = NoBranch /\ BranchOf[t] # Main -> Main
        [] OTHER -> asked

(* Mutant of EnsureBranch: a branch that gets a parent is made anew.       *)
EnsureBranchAnew(branches, b, parent) ==
  LET with == IF parent = NoBranch \/ branches[parent].known THEN branches
              ELSE [branches EXCEPT ![parent] =
                                      NewBranch(branches, parent, NoBranch)]
  IN  IF ~with[b].known \/ (parent # NoBranch /\ with[b].parent = NoBranch)
      THEN [with EXCEPT ![b] = NewBranch(with, b, parent)]
      ELSE with

(* _ensure_branch: an unknown parent becomes a branch of its own, and a    *)
(* branch without a parent takes the first one it is given.                *)
EnsureBranch(branches, b, parent) ==
  LET with == IF parent = NoBranch \/ branches[parent].known THEN branches
              ELSE [branches EXCEPT ![parent] =
                                      NewBranch(branches, parent, NoBranch)]
  IN  CASE ~with[b].known -> [with EXCEPT ![b] = NewBranch(with, b, parent)]
        [] with[b].known /\ parent # NoBranch /\ with[b].parent = NoBranch ->
             [with EXCEPT ![b] =
                [known |-> TRUE, parent |-> parent, count |-> @.count,
                 depth |-> with[parent].depth + 1]]
        [] OTHER -> with

(* The entry that record_event writes for the operation of t, now op.      *)
NewEntry(led, branches, id, t, op) ==
  LET b == BranchOf[t]
      previous == NewestOf(led.entries, t)
      caller == NewestOf(led.entries, ParentOf[t])
      neighbour == NewestIn(led.entries, b)
      above == CASE previous.id # 0 -> previous
                 [] OTHER -> caller
      depth == branches[b].depth
  IN  [id |-> id, time |-> led.next, op |-> t, branch |-> b,
       parentBranch |-> ParentBranch(led.entries, t),
       seq |-> branches[b].count + 1, opSeq |-> previous.opSeq + 1,
       parent |-> IF above.id # 0 THEN above.id ELSE neighbour.id,
       depth |-> CASE above.id = 0 -> depth
                   [] above.depth = 0 -> depth + 1
                   [] OTHER -> above.depth + 1,
       is |-> op]

Kept(es) == SubSeq(es, 1, IF Len(es) <= MaxEntries THEN Len(es) ELSE MaxEntries)

(* record_event, up to its save.                                           *)
Recorded(led, id, t, op) ==
  LET branches == EnsureBranch(led.branches, BranchOf[t],
                               ParentBranch(led.entries, t))
  IN  [entries |-> Kept(<<NewEntry(led, branches, id, t, op)>>
                        \o led.entries),
       branches |-> [branches EXCEPT ![BranchOf[t]].count = @ + 1],
       next |-> led.next + 1]

(* _load_state: the index never falls below the number of entries.  (The   *)
(* branch main is added when the file has entries and no such branch.)     *)
Loaded(led) ==
  [entries |-> led.entries,
   branches |-> [led.branches EXCEPT ![Main] =
                   IF led.entries # << >> /\ ~@.known
                   THEN NewBranch(led.branches, Main, NoBranch) ELSE @],
   next |-> IF led.next > Len(led.entries) THEN led.next
            ELSE Len(led.entries) + 1]
=============================================================================
