---------------------------- MODULE AtomicStore ----------------------------
(***************************************************************************)
(* ai_os/atomic_store.py: how every component of the AI OS keeps its JSON  *)
(* document on disk.  A document has a primary file (slot 0) and Backups   *)
(* older generations (slot i is <name>.bak<i>).  A save stages a complete  *)
(* temporary file, shifts every generation down by one slot, the oldest    *)
(* first, and renames the temporary file into slot 0.  Each rename is a    *)
(* step of its own: a process can be killed, a rename can fail and another *)
(* process can run between any two of them.  A load examines the slots one *)
(* by one, the newest first.                                               *)
(*                                                                         *)
(* A document is its number in the order of the completed saves; 0 is what *)
(* default_factory() returns when nothing was ever saved.                  *)
(***************************************************************************)
EXTENDS Integers, FiniteSets

CONSTANTS
  Writers,         \* threads or processes that save the document
  Readers,         \* threads or processes that load it
  Backups,         \* generations kept beside the primary (DEFAULT_BACKUPS)
  Policies,        \* how a document is used.  exclusive: saves and loads
                   \* exclude each other (the runtimes: one process, a lock
                   \* around each save, loads at start; the memory document
                   \* has none of this).  preserve_corrupt, on_unrecoverable:
                   \* the runtimes keep the wreck and go on with defaults,
                   \* the memory document raises and leaves it where it is
  Absent,          \* no file in the slot
  Corrupt,         \* a file that is empty, truncated or not a document
  Garbled,         \* a file whose bytes are no text: it cannot be decoded
  MaxWrites,       \* bound: saves started in a behaviour
  MaxAttempts,     \* bound: saves started since one last reached slot 0
  MaxDamage        \* bound: files damaged from outside

Damaged == {Corrupt, Garbled}

Policy == [exclusive : BOOLEAN, preserve : BOOLEAN,
           unrecoverable : {"raise", "default"}]

ASSUME StoreAssumption ==
  /\ Backups \in Nat /\ MaxWrites \in Nat
  /\ MaxAttempts \in Nat /\ MaxDamage \in Nat
  /\ Policies \subseteq Policy
  /\ Damaged \cap (Nat \cup {Absent}) = {} /\ Absent \notin Nat

VARIABLES
  disk,        \* what each slot holds: a document, Absent or damage
  writer,      \* per writer: stage and the slot it shifts next
  reader,      \* per reader: stage, the slot it examines, what it has seen
  issued,      \* saves started so far
  committed,   \* saves completed so far: the last document of slot 0
  attempts,    \* saves started since then
  interrupted, \* whether a save has failed or been killed so far
  damage,      \* files damaged so far
  policy       \* how this document is used

vars == <<disk, writer, reader, issued, committed, attempts, interrupted,
          damage, policy>>

Default == 0
Slots == 0 .. Backups
Good(d, i) == d[i] \in Nat
Present(d, i) == d[i] # Absent

(* The newest slot that holds a document, and what a load returns when     *)
(* nobody touches the files meanwhile, unless it meets a garbled one first.*)
Newest(d) ==
  CHOOSE i \in Slots : Good(d, i) /\ \A j \in Slots : Good(d, j) => i <= j
Document(d) == IF \E i \in Slots : Good(d, i) THEN d[Newest(d)] ELSE Default
Recovered == Document(disk)
Blocked(d) ==
  \E i \in Slots : d[i] = Garbled /\ \A j \in Slots : j < i => ~Good(d, j)

Saving == {w \in Writers : writer[w].stage # "idle"}
Loading == {r \in Readers : reader[r].stage \in {"exists", "read", "give_up"}}
IdleWriter == [stage |-> "idle", slot |-> 0]
IdleReader == [stage |-> "idle", slot |-> 0, present |-> FALSE,
               base |-> 0, result |-> 0]
WriterState == [stage : {"idle", "rotate", "replace"}, slot : Slots]
ReaderState == [stage : {"idle", "exists", "read", "give_up", "loaded",
                         "defaulted", "raised"},
                slot : Slots, present : BOOLEAN, base : Nat, result : Nat]

Content == Nat \cup {Absent} \cup Damaged

(* Type invariant.                                                         *)
TypeOK ==
  /\ disk \in [Slots -> Content]
  /\ writer \in [Writers -> WriterState]
  /\ reader \in [Readers -> ReaderState]
  /\ issued \in Nat /\ committed \in Nat /\ attempts \in Nat
  /\ interrupted \in BOOLEAN /\ damage \in Nat /\ policy \in Policies

Init ==
  /\ disk = [i \in Slots |-> Absent]
  /\ writer = [w \in Writers |-> IdleWriter]
  /\ reader = [r \in Readers |-> IdleReader]
  /\ issued = 0 /\ committed = 0 /\ attempts = 0
  /\ interrupted = FALSE /\ damage = 0 /\ policy \in Policies

---------------------------------------------------------------------------
(* Saving: atomic_write_text and _rotate_backups.                          *)

(* Mutant of Stage: the save does not wait for the loads at start.         *)
StageUnlocked(w) ==
  /\ writer[w].stage = "idle"
  /\ issued < MaxWrites /\ attempts < MaxAttempts
  /\ issued' = issued + 1 /\ attempts' = attempts + 1
  /\ writer' = [writer EXCEPT ![w] = [stage |-> "rotate", slot |-> Backups]]
  /\ UNCHANGED <<disk, reader, committed, interrupted, damage, policy>>

(* The temporary file is complete and fsync-ed before the first rename.  A *)
(* save refused earlier (no space, no temporary file) has touched nothing. *)
Stage(w) ==
  /\ writer[w].stage = "idle"
  /\ policy.exclusive => Saving = {} /\ Loading = {}
  /\ issued < MaxWrites /\ attempts < MaxAttempts
  /\ issued' = issued + 1 /\ attempts' = attempts + 1
  /\ writer' = [writer EXCEPT ![w] = [stage |-> "rotate", slot |-> Backups]]
  /\ UNCHANGED <<disk, reader, committed, interrupted, damage, policy>>

(* Mutants of Shifted: the primary is unlinked, or copied instead of       *)
(* renamed, or only the primary is aged.                                   *)
ShiftedUnlinking(d, i) ==
  IF i \in {0, Backups} THEN [d EXCEPT ![i] = Absent]
  ELSE IF Present(d, i) THEN [d EXCEPT ![i + 1] = d[i], ![i] = Absent]
  ELSE d
ShiftedCopying(d, i) ==
  IF i = Backups THEN [d EXCEPT ![i] = Absent]
  ELSE IF Present(d, i) THEN [d EXCEPT ![i + 1] = d[i]]
  ELSE d
ShiftedOnce(d, i) ==
  IF i = 0 /\ Present(d, 0) THEN [d EXCEPT ![1] = d[0], ![0] = Absent]
  ELSE d

(* One unlink or rename of the rotation; a missing source is ignored.      *)
Shifted(d, i) ==
  IF i = Backups THEN [d EXCEPT ![i] = Absent]
  ELSE IF Present(d, i) THEN [d EXCEPT ![i + 1] = d[i], ![i] = Absent]
  ELSE d

Rotate(w) ==
  LET i == writer[w].slot IN
  /\ writer[w].stage = "rotate"
  /\ disk' = Shifted(disk, i)
  /\ writer' = IF i = 0 THEN [writer EXCEPT ![w].stage = "replace"]
               ELSE [writer EXCEPT ![w].slot = i - 1]
  /\ UNCHANGED <<reader, issued, committed, attempts, interrupted, damage,
                 policy>>

(* os.replace(tmp_path, path)                                              *)
Replace(w) ==
  /\ writer[w].stage = "replace"
  /\ committed' = committed + 1
  /\ disk' = [disk EXCEPT ![0] = committed']
  /\ attempts' = Cardinality(Saving \ {w})
  /\ writer' = [writer EXCEPT ![w] = IdleWriter]
  /\ UNCHANGED <<reader, issued, interrupted, damage, policy>>

(* A rename raises: the temporary file is removed, the renames already     *)
(* done stay, and the error goes to the caller.                            *)
FailSave(w) ==
  /\ writer[w].stage # "idle"
  /\ writer' = [writer EXCEPT ![w] = IdleWriter]
  /\ interrupted' = TRUE
  /\ UNCHANGED <<disk, reader, issued, committed, attempts, damage, policy>>

---------------------------------------------------------------------------
(* Loading: read_json_resilient and _load_one.                             *)

(* Mutant: the load starts with the backups.                               *)
BeginLoadAtBackup(r) ==
  /\ reader[r].stage = "idle"
  /\ policy.exclusive => Saving = {}
  /\ reader' = [reader EXCEPT ![r] = [stage |-> "exists", slot |-> 1,
                   present |-> FALSE, base |-> committed, result |-> 0]]
  /\ UNCHANGED <<disk, writer, issued, committed, attempts, interrupted,
                 damage, policy>>

BeginLoad(r) ==
  /\ reader[r].stage = "idle"
  /\ policy.exclusive => Saving = {}
  /\ reader' = [reader EXCEPT ![r] = [stage |-> "exists", slot |-> 0,
                   present |-> FALSE, base |-> committed, result |-> 0]]
  /\ UNCHANGED <<disk, writer, issued, committed, attempts, interrupted,
                 damage, policy>>

(* Mutants of NextCandidate: only the primary is tried; damaged files      *)
(* count as missing ones.                                                  *)
NextCandidateNever(r, present) ==
  reader' = [reader EXCEPT ![r].stage = "defaulted"]
NextCandidateForgetful(r, present) ==
  reader' = [reader EXCEPT ![r].slot = IF @ < Backups THEN @ + 1 ELSE @,
              ![r].stage = IF reader[r].slot < Backups THEN "exists"
                           ELSE "defaulted"]

(* Slot i gave no document; present says whether its file was there.       *)
NextCandidate(r, present) ==
  LET seen == reader[r].present \/ present IN
  reader' = [reader EXCEPT ![r].present = seen,
              ![r].slot = IF @ < Backups THEN @ + 1 ELSE @,
              ![r].stage = IF reader[r].slot < Backups THEN "exists"
                           ELSE IF seen THEN "give_up" ELSE "defaulted"]

(* candidate.exists()                                                      *)
Exists(r) ==
  /\ reader[r].stage = "exists"
  /\ IF Present(disk, reader[r].slot)
     THEN reader' = [reader EXCEPT ![r].stage = "read"]
     ELSE NextCandidate(r, FALSE)
  /\ UNCHANGED <<disk, writer, issued, committed, attempts, interrupted,
                 damage, policy>>

(* candidate.read_text() and json.loads: a file renamed away since exists()*)
(* counts as unreadable, not as missing.  The UnicodeDecodeError of a file *)
(* that is no text is caught nowhere: the load ends with it.               *)
Read(r) ==
  LET i == reader[r].slot IN
  /\ reader[r].stage = "read"
  /\ \/ /\ Good(disk, i)
        /\ reader' = [reader EXCEPT ![r].stage = "loaded",
                                    ![r].result = disk[i]]
     \/ /\ disk[i] = Garbled
        /\ reader' = [reader EXCEPT ![r].stage = "raised"]
     \/ /\ ~Good(disk, i) /\ disk[i] # Garbled
        /\ NextCandidate(r, TRUE)
  /\ UNCHANGED <<disk, writer, issued, committed, attempts, interrupted,
                 damage, policy>>

(* Files were there and none was usable: the primary is kept aside for     *)
(* forensics, then the load returns defaults or raises.                    *)
GiveUp(r) ==
  /\ reader[r].stage = "give_up"
  /\ disk' = IF policy.preserve THEN [disk EXCEPT ![0] = Absent] ELSE disk
  /\ reader' = [reader EXCEPT ![r].stage =
                  IF policy.unrecoverable = "default" THEN "defaulted"
                  ELSE "raised"]
  /\ UNCHANGED <<writer, issued, committed, attempts, interrupted, damage,
                 policy>>

(* The caller has its answer and may load again later.                     *)
EndLoad(r) ==
  /\ reader[r].stage \in {"loaded", "defaulted", "raised"}
  /\ reader' = [reader EXCEPT ![r] = IdleReader]
  /\ UNCHANGED <<disk, writer, issued, committed, attempts, interrupted,
                 damage, policy>>

---------------------------------------------------------------------------
(* The surroundings.                                                       *)

(* The processes are killed; only the files survive.                       *)
Crash ==
  /\ Saving # {}
  /\ writer' = [w \in Writers |-> IdleWriter]
  /\ reader' = [r \in Readers |-> IdleReader]
  /\ interrupted' = TRUE
  /\ UNCHANGED <<disk, issued, committed, attempts, damage, policy>>

(* A file is truncated or overwritten from outside, with text or not.      *)
DamageFile(i) ==
  /\ damage < MaxDamage
  /\ Good(disk, i)
  /\ damage' = damage + 1
  /\ \E damaged \in Damaged : disk' = [disk EXCEPT ![i] = damaged]
  /\ UNCHANGED <<writer, reader, issued, committed, attempts, interrupted,
                 policy>>

Next ==
  \/ \E w \in Writers : Stage(w) \/ Rotate(w) \/ Replace(w) \/ FailSave(w)
  \/ \E r \in Readers :
        BeginLoad(r) \/ Exists(r) \/ Read(r) \/ GiveUp(r) \/ EndLoad(r)
  \/ Crash
  \/ \E i \in Slots : DamageFile(i)

Spec == Init /\ [][Next]_vars

---------------------------------------------------------------------------
(* Properties.                                                             *)

(* Whatever renames have been done, undone by a kill or lost to an error,  *)
(* the files on disk hold the last save that completed: a restart between  *)
(* any two renames loads it, never an older generation and never the empty *)
(* default.  Needs MaxAttempts <= Backups: each unfinished save ages every *)
(* generation by one slot.                                                 *)
CommittedIsRecovered == damage = 0 => Recovered = committed

(* The slots are in order of age whatever was interrupted: a load that     *)
(* falls back takes the newest generation left, so damage never makes it   *)
(* jump over a usable newer one.                                           *)
GenerationsOrdered ==
  \A i, j \in Slots :
     i < j /\ Good(disk, i) /\ Good(disk, j) => disk[i] > disk[j]

(* Each file damaged from outside costs the reader at most one generation, *)
(* also while a later save ages damaged and sound files alike: a damaged   *)
(* primary is rotated into .bak like any other.  (Saves that overlap may   *)
(* lose a generation besides.)  A garbled file newer than every good one   *)
(* costs the whole load instead, which raises in spite of the backups.     *)
DamageCostsOneGeneration ==
  policy.exclusive /\ ~interrupted /\ damage + Cardinality(Saving) <= Backups =>
     Blocked(disk) \/ Recovered >= committed - damage

(* As many saves were begun since the newest document a load could find    *)
(* when it started as there are slots: without a lock they can move every  *)
(* document behind its back.                                               *)
Overtaken(r) == issued - reader[r].base > Backups

(* A load that ran while saves were rotating the files returns a document  *)
(* at least as new as the one that was current when it started: the slots  *)
(* it has passed can only have been refilled with newer ones.              *)
LoadsAreNotStale ==
  \A r \in Readers :
     damage = 0 /\ reader[r].stage = "loaded" =>
        reader[r].result >= reader[r].base

(* A load answers with the empty default only if nothing had been saved    *)
(* when it started ("A genuinely absent store ... yields an empty          *)
(* default"), and raises only if it met a damaged file; unless it was      *)
(* overtaken.                                                              *)
LoadsFindTheDocument ==
  \A r \in Readers :
     damage = 0 /\ reader[r].stage \in {"defaulted", "raised"} =>
        reader[r].base = 0 \/ Overtaken(r)

(* Seen through what a load would return, the renames of a save are one    *)
(* atomic replacement of the document by a newer one (until a file is      *)
(* damaged, which the abstract document knows nothing of).                 *)
Durable == INSTANCE DurableDocument WITH
  doc <- IF damage = 0 THEN Recovered ELSE committed,
  requested <- issued
ImplementsDurableDocument == Durable!Spec

(* With files damaged from outside too, a load that was not overtaken      *)
(* never silently replaces an existing document by the empty default when  *)
(* on_unrecoverable is "raise".                                            *)
NoSilentDefault ==
  \A r \in Readers :
     policy.unrecoverable = "raise" /\ reader[r].stage = "defaulted" =>
        reader[r].base = 0 \/ Overtaken(r)
=============================================================================
