-------------------------- MODULE ExecutionHistory --------------------------
(***************************************************************************)
(* The execution runtime, its ledger and the snapshot registry             *)
(* (execution/runtime.py, ledger.py, snapshots.py), each with a document   *)
(* of its own.  A method of the execution runtime changes an operation,    *)
(* has the ledger record it, which saves the ledger, and then saves the    *)
(* operations, all under the execution lock.  The registry reads the       *)
(* ledger before it takes its own lock.  Any save may raise, which leaves  *)
(* memory changed, and the process may be killed between any two saves.    *)
(*                                                                         *)
(* Which method is called when is left open here; AgentRuntime has that.   *)
(***************************************************************************)
EXTENDS OperationLedger, FiniteSets

CONSTANTS
  Server,       \* the HTTP server's thread: calls every method
  Loop,         \* the cognitive loop's thread: queues tasks, so registers
  NoThread,     \* nobody holds the execution lock
  ReplayLimit,  \* limit of replay_plan: entries of the branch it looks at
  MaxStamps,    \* bound: entries and snapshots made in a behaviour
  Envs          \* what may happen: sets of "crash", "fault" (saves raise)

ASSUME HistoryAssumption ==
  /\ Server # Loop /\ NoThread \notin {Server, Loop}
  /\ ReplayLimit \in Nat \ {0} /\ MaxStamps \in Nat
  /\ Envs \subseteq SUBSET {"crash", "fault"}

VARIABLES
  ops,            \* operations of the execution runtime
  ledger,         \* entries, branches and the next index
  snapshots,      \* snapshot records, newest first
  stamp,          \* the clock that entry and snapshot ids come from
  saving,         \* the thread between the ledger's save and the other one
  source,         \* the entry register_snapshot has read, before its lock
  savedOps, savedLedger, savedSnapshots, \* the three documents
  env             \* what may happen in this behaviour

vars == <<ops, ledger, snapshots, stamp, saving, source, savedOps, savedLedger,
          savedSnapshots, env>>

Ids == 0 .. MaxStamps
NoSource == [stage |-> "none"]
Source == [stage : {"read"}, branch : Branches, entry : Ids, time : Ids,
           above : Branches \cup {NoBranch}]
Entry == [id : Ids, time : Ids, op : Tasks, branch : Branches,
          parentBranch : Branches \cup {NoBranch}, seq : Ids, opSeq : Ids,
          parent : Ids, depth : Nat, is : Operation]
Branch == [known : BOOLEAN, parent : Branches \cup {NoBranch}, depth : Nat,
           count : Ids]
Ledger == [entries : Seq(Entry), branches : [Branches -> Branch],
           next : 1 .. MaxStamps + 1]
(* named is not in the record of the code: the client chose the parent.    *)
Snapshot == [id : Ids, branch : Branches, parent : Ids, named : BOOLEAN,
             entry : Ids, time : Ids]

(* Type invariant.                                                         *)
TypeOK ==
  /\ ops \in [Tasks -> Operation] /\ savedOps \in [Tasks -> Operation]
  /\ ledger \in Ledger /\ savedLedger \in Ledger
  /\ Len(ledger.entries) <= MaxEntries
  /\ snapshots \in Seq(Snapshot) /\ savedSnapshots \in Seq(Snapshot)
  /\ stamp \in 1 .. MaxStamps + 1
  /\ saving \in {Server, Loop, NoThread}
  /\ source \in Source \cup {NoSource}
  /\ env \in Envs

Init ==
  /\ ops = [t \in Tasks |-> NoOperation] /\ savedOps = ops
  /\ ledger = EmptyLedger /\ savedLedger = ledger
  /\ snapshots = << >> /\ savedSnapshots = snapshots
  /\ stamp = 1 /\ saving = NoThread /\ source = NoSource
  /\ env \in Envs

(* A document after its save: the new content or, if the save raised, the  *)
(* old one.                                                                *)
Faulty == "fault" \in env
Threads == {Server, Loop}

---------------------------------------------------------------------------
(* The execution runtime, which the other thread waits for at the lock.    *)

(* What the methods make of an operation; the loop only registers.         *)
Changes(th, t) ==
  {Registered(ops, t)} \cup
  IF th # Server \/ ~Known(ops, t) THEN {}
  ELSE {Claimed(ops, t), Released(ops, t), Completed(ops, t, TRUE),
        Completed(ops, t, FALSE), Compensated(ops, t)}

(* Mutant of Change: the operations are saved before the ledger.           *)
ChangeSavedFirst(th, t) ==
  /\ saving = NoThread /\ stamp <= MaxStamps
  /\ th = Server => source = NoSource
  /\ ops' \in Changes(th, t)
  /\ savedOps' = ops'
  /\ ledger' = Recorded(ledger, stamp, t, ops'[t])
  /\ stamp' = stamp + 1
  /\ \/ savedLedger' = ledger' /\ saving' = th
     \/ Faulty /\ UNCHANGED <<savedLedger, saving>>
  /\ UNCHANGED <<snapshots, source, savedSnapshots, env>>

(* A method up to the end of record_event.  If the ledger's save raises,   *)
(* the method ends there, with the change and the entry in memory.         *)
Change(th, t) ==
  /\ saving = NoThread /\ stamp <= MaxStamps
  /\ th = Server => source = NoSource
  /\ ops' \in Changes(th, t)
  /\ ledger' = Recorded(ledger, stamp, t, ops'[t])
  /\ stamp' = stamp + 1
  /\ \/ savedLedger' = ledger' /\ saving' = th
     \/ Faulty /\ UNCHANGED <<savedLedger, saving>>
  /\ UNCHANGED <<snapshots, source, savedOps, savedSnapshots, env>>

(* _save_state of the execution runtime, which ends the method.            *)
SaveOps(th) ==
  /\ saving = th
  /\ saving' = NoThread
  /\ savedOps' = ops \/ (Faulty /\ UNCHANGED savedOps)
  /\ UNCHANGED <<ops, ledger, snapshots, stamp, source, savedLedger,
                 savedSnapshots, env>>

---------------------------------------------------------------------------
(* The registry.  Only the server registers snapshots.                     *)

NoSnapshot == [id |-> 0, branch |-> NoBranch, parent |-> 0, named |-> FALSE,
               entry |-> 0, time |-> 0]

(* _latest_snapshot, among those at I                                      *)
Latest(I) ==
  IF I = {} THEN NoSnapshot ELSE snapshots[CHOOSE i \in I : IsFirst(I, i)]
LatestIn(b) == Latest(OfBranch(snapshots, b))

(* _find_source_entry: an entry or an operation the client names, else the *)
(* newest entry of the branch.                                             *)
Sources(b) ==
  {ledger.entries[i] : i \in DOMAIN ledger.entries}
    \cup {NewestIn(ledger.entries, b)}

(* Mutant of ReadSource: the snapshot claims the entry still to come.      *)
ReadSourceAhead(b) ==
  /\ saving # Server /\ source = NoSource /\ stamp <= MaxStamps
  /\ \E e \in Sources(b) :
       source' = [stage |-> "read", branch |-> b, entry |-> e.id,
                  time |-> ledger.next, above |-> ledger.branches[b].parent]
  /\ UNCHANGED <<ops, ledger, snapshots, stamp, saving, savedOps, savedLedger,
                 savedSnapshots, env>>

(* register_snapshot before its lock: the source entry and the branch's    *)
(* parent.                                                                 *)
ReadSource(b) ==
  /\ saving # Server /\ source = NoSource /\ stamp <= MaxStamps
  /\ \E e \in Sources(b) :
       source' = [stage |-> "read", branch |-> b, entry |-> e.id,
                  time |-> e.time, above |-> ledger.branches[b].parent]
  /\ UNCHANGED <<ops, ledger, snapshots, stamp, saving, savedOps, savedLedger,
                 savedSnapshots, env>>

(* An id that a client sends as the parent's: nobody looks whether there   *)
(* is, was or will be such a snapshot.                                     *)
Named == [id : Ids \ {0}, named : {TRUE}]

(* Mutant of Parents: looked up when the new snapshot is already there.    *)
ParentsLate == Named \cup {[id |-> stamp, named |-> FALSE]}

(* The parent of a snapshot: the one the client names, else the latest of  *)
(* the branch, else that of the branch's parent.                           *)
Parents ==
  LET same == LatestIn(source.branch)
      chosen == IF same.id # 0 THEN same ELSE LatestIn(source.above)
  IN  Named \cup {[id |-> chosen.id, named |-> FALSE]}

(* register_snapshot under its lock.                                       *)
Register ==
  /\ source # NoSource /\ stamp <= MaxStamps
  /\ \E p \in Parents :
       snapshots' = <<[id |-> stamp, branch |-> source.branch,
                       parent |-> p.id, named |-> p.named,
                       entry |-> source.entry, time |-> source.time]>>
                    \o snapshots
  /\ stamp' = stamp + 1 /\ source' = NoSource
  /\ savedSnapshots' = snapshots' \/ (Faulty /\ UNCHANGED savedSnapshots)
  /\ UNCHANGED <<ops, ledger, saving, savedOps, savedLedger, env>>

(* replay_plan(branch_id): the entries of the branch after its latest      *)
(* snapshot, or after the latest of all when the branch has none, among    *)
(* the newest ReplayLimit ones (their order is that of their times).       *)
Within(b) ==
  {i \in OfBranch(ledger.entries, b) :
     Cardinality(OfBranch(ledger.entries, b) \cap 1 .. i) <= ReplayLimit}
Replay(b) ==
  LET own == LatestIn(b)
      anchor == IF own.id # 0 THEN own ELSE Latest(DOMAIN snapshots)
  IN  {i \in Within(b) : ledger.entries[i].time > anchor.time}

---------------------------------------------------------------------------
(* The process is killed and started again: the three documents are read.  *)
Crash ==
  /\ "crash" \in env
  /\ ops' = savedOps /\ ledger' = Loaded(savedLedger)
  /\ snapshots' = savedSnapshots
  /\ saving' = NoThread /\ source' = NoSource
  /\ UNCHANGED <<stamp, savedOps, savedLedger, savedSnapshots, env>>

Next ==
  \/ \E th \in Threads : SaveOps(th) \/ \E t \in Tasks : Change(th, t)
  \/ \E b \in Branches : ReadSource(b)
  \/ Register
  \/ Crash

Spec == Init /\ [][Next]_vars

---------------------------------------------------------------------------
(* Properties.                                                             *)

(* The ledger is in the order of what happened, however often a save       *)
(* failed or the process was killed: the index never goes back within it,  *)
(* the entries of a branch are numbered without a gap, and what an entry   *)
(* follows, in its operation or as its parent, comes before it.            *)
Ordered(es, i, j) ==
  /\ i < j => es[i].id > es[j].id /\ es[i].time > es[j].time
  /\ i < j /\ es[i].branch = es[j].branch =>
       \/ es[i].seq = es[j].seq + 1
       \/ \E k \in i + 1 .. j - 1 : es[k].branch = es[i].branch
  /\ i < j /\ es[i].op = es[j].op =>
       es[i].opSeq > es[j].opSeq /\ es[i].depth > es[j].depth
  /\ es[i].parent = es[j].id => i < j
InOrder(led) == \A i, j \in DOMAIN led.entries : Ordered(led.entries, i, j)
LedgerInOrder == InOrder(ledger) /\ InOrder(savedLedger)

(* What the execution file says of an operation has been recorded in the   *)
(* ledger's file, unless it is so long ago that it was trimmed: the ledger *)
(* is saved first, with every entry a failed save left behind.             *)
Told(led, t, op) ==
  \/ Len(led.entries) = MaxEntries
  \/ \E i \in DOMAIN led.entries : led.entries[i].op = t
                                   /\ led.entries[i].is = op
NothingUnrecorded ==
  \A t \in Tasks : Known(savedOps, t) => Told(savedLedger, t, savedOps[t])

(* The replay of a branch has everything the branch did after its latest   *)
(* snapshot, up to the limit.  (After a failed save of the ledger and a    *)
(* kill the index is used again and this does not hold.)                   *)
ReplayComplete ==
  env # {"crash", "fault"} =>
    \A b \in Branches : LatestIn(b).id # 0 =>
      \A i \in Within(b) :
        ledger.entries[i].id > LatestIn(b).id => i \in Replay(b)

(* A parent that the registry chose is there and older than the snapshot,  *)
(* in memory and in the file: a failed save or a kill takes a snapshot     *)
(* away only with those it was chosen for.  (Of a parent that the client   *)
(* named nothing holds.)                                                   *)
Tree(ss) ==
  \A i \in DOMAIN ss :
    ~ss[i].named /\ ss[i].parent # 0 =>
      \E j \in DOMAIN ss : j > i /\ ss[j].id = ss[i].parent
SnapshotsFormATree == Tree(snapshots) /\ Tree(savedSnapshots)
=============================================================================
