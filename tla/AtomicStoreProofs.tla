------------------------- MODULE AtomicStoreProofs -------------------------
(***************************************************************************)
(* AtomicStore for any number of backups, writers and readers, any use of  *)
(* the document, any save killed or failed half way and any file damaged.  *)
(*                                                                         *)
(* The invariant numbers the files: some g says of every file, damaged or  *)
(* not, which save wrote it (what a damaged file held is nowhere in the    *)
(* state).  A save under way ages each file by one slot at most, and the   *)
(* saves begun since the file was written are enough to pay for its age.   *)
(* So whatever a save overtakes a load with is newer than what it takes    *)
(* away, until more saves than there are slots were begun.                 *)
(***************************************************************************)
EXTENDS AtomicStore, FiniteSetTheorems, WellFoundedInduction, TLAPS

(* Saves that have still to age the file in slot q.                        *)
Pending(q) ==
  {w \in Writers : writer[w].stage = "rotate" /\ q <= writer[w].slot}

(* g says for every file, damaged or not, which save wrote it.  A save     *)
(* ages a file by one slot at most, and only those that had not completed  *)
(* when the file was written do.                                           *)
Numbers(g) ==
  /\ \A i \in Slots : Good(disk, i) => g[i] = disk[i]
  /\ \A i \in Slots : Present(disk, i) =>
       /\ 0 < g[i] /\ g[i] <= committed
       /\ i + Cardinality(Pending(i)) <= issued - g[i]
  /\ \A i, j \in Slots :
       i < j /\ Present(disk, i) /\ Present(disk, j) => g[i] > g[j]

(* A search for save b or a newer one that is at slot s will meet one; or  *)
(* else only newer files are left, and b was overtaken.                    *)
Reaches(g, b, s) ==
  \/ \E q \in Slots : s <= q /\ Present(disk, q) /\ b <= g[q]
  \/ /\ \A i \in Slots : Present(disk, i) => b <= g[i]
     /\ b = 0 \/ issued - b > Backups

(* The last save that completed is there, aged by unfinished ones at most. *)
Holds(g) ==
  0 < committed => \E q \in Slots :
     /\ Present(disk, q) /\ g[q] = committed
     /\ q + Cardinality(Pending(q)) <= attempts

(* Nothing but renames takes files away.                                   *)
Firm == /\ policy.preserve => policy.exclusive
        /\ damage = 0 \/ ~policy.preserve
Searching(r) ==
  /\ reader[r].stage \in {"exists", "read"}
  /\ damage = 0 \/ ~reader[r].present

Files(g) ==
  /\ Numbers(g)
  /\ Firm => /\ Reaches(g, committed, 0)
             /\ \A r \in Readers :
                  Searching(r) => Reaches(g, reader[r].base, reader[r].slot)
  /\ Firm /\ damage = 0 /\ MaxAttempts <= Backups => Holds(g)

Counts ==
  /\ IsFiniteSet(Saving) /\ committed + Cardinality(Saving) <= issued
  /\ Cardinality(Saving) <= attempts /\ attempts <= MaxAttempts
  /\ damage = 0 => \A i \in Slots : disk[i] \notin Damaged

(* What a load has found out about the slots, where no save can change     *)
(* them before it ends.                                                    *)
Knows(r) ==
  LET s == reader[r].stage IN
  /\ s \in {"exists", "read"} =>
       \A i \in Slots : i < reader[r].slot => ~Good(disk, i)
  /\ s = "give_up" => \A i \in Slots : ~Good(disk, i)
  /\ damage = 0 =>
       /\ s # "give_up"
       /\ s \in {"exists", "read"} => ~reader[r].present
       /\ s = "read" => Present(disk, reader[r].slot)

(* Where saves and loads exclude each other.                               *)
Locked ==
  policy.exclusive =>
    /\ \A v, w \in Saving : v = w
    /\ Saving = {} \/ Loading = {}
    /\ \A r \in Readers : Knows(r)

Answer(r) ==
  LET s == reader[r].stage
      none == reader[r].base = 0 \/ Overtaken(r)
  IN
  /\ reader[r].base <= committed
  /\ Firm /\ damage = 0 /\ s = "loaded" => reader[r].base <= reader[r].result
  /\ Firm /\ damage = 0 /\ s \in {"give_up", "defaulted", "raised"} => none
  /\ ~policy.preserve /\ policy.unrecoverable = "raise" /\ s = "defaulted" =>
       none
Answers == \A r \in Readers : Answer(r)

(* While no save has failed, slot i holds the i-th save before the last    *)
(* completed one.  A save under way has moved the slots above Upto by one. *)
Upto(w) == IF writer[w].stage = "replace" THEN -1 ELSE writer[w].slot
Layout ==
  policy.exclusive /\ ~interrupted =>
    /\ Saving = {} => \A i \in Slots : Good(disk, i) => disk[i] = committed - i
    /\ \A w \in Saving : \A i \in Slots :
         Good(disk, i) => /\ i <= Upto(w) => disk[i] = committed - i
                          /\ i # Upto(w) + 1
                          /\ i > Upto(w) => disk[i] = committed - i + 1

(* The saves of which there should be a file and is none.                  *)
Lost == {k \in 1 .. committed :
           /\ committed - Backups + Cardinality(Saving) <= k
           /\ \A i \in Slots : disk[i] # k}
FewLost == policy.exclusive /\ ~interrupted => Cardinality(Lost) <= damage

IInv ==
  /\ TypeOK /\ Counts /\ Locked /\ Answers /\ Layout /\ FewLost
  /\ \E g \in [Slots -> Nat] : Files(g)

---------------------------------------------------------------------------
(* Types and counts.                                                       *)

(* What the next slot makes of a load.                                     *)
LEMMA Candidate ==
  ASSUME TypeOK, NEW r \in Readers, NEW p \in BOOLEAN, NextCandidate(r, p)
  PROVE  /\ \A q \in Readers : q # r => reader'[q] = reader[q]
         /\ reader' \in [Readers -> ReaderState]
         /\ reader'[r].base = reader[r].base
         /\ reader'[r].present = (reader[r].present \/ p)
         /\ reader[r].slot < Backups =>
              /\ reader'[r].stage = "exists"
              /\ reader'[r].slot = reader[r].slot + 1
         /\ ~(reader[r].slot < Backups) =>
              /\ reader[r].slot = Backups
              /\ reader'[r].stage =
                   IF reader[r].present \/ p THEN "give_up" ELSE "defaulted"
<1> DEFINE old == reader[r]
           i == old.slot
           seen == old.present \/ p
<1>1. old \in ReaderState
  BY DEF TypeOK
<1>2. i \in Slots /\ old.present \in BOOLEAN /\ old.base \in Nat
      /\ seen \in BOOLEAN
  BY <1>1 DEF ReaderState
<1>3. /\ reader'[r].base = old.base /\ reader'[r].result = old.result
      /\ reader'[r].present = seen
      /\ reader'[r].slot = IF i < Backups THEN i + 1 ELSE i
      /\ reader'[r].stage = IF i < Backups THEN "exists"
                            ELSE IF seen THEN "give_up" ELSE "defaulted"
  BY <1>1 DEF NextCandidate, ReaderState, TypeOK
<1>4. reader' = [reader EXCEPT ![r] = reader'[r]]
  BY <1>1 DEF NextCandidate, ReaderState, TypeOK
<1>5. reader'[r] \in ReaderState
  <2>1. (IF i < Backups THEN i + 1 ELSE i) \in Slots
    BY <1>2, StoreAssumption DEF Slots
  <2> QED BY <1>1, <1>2, <2>1 DEF NextCandidate, ReaderState, TypeOK
<1>6. reader' \in [Readers -> ReaderState]
  BY <1>4, <1>5 DEF TypeOK
<1>7. \A q \in Readers : q # r => reader'[q] = reader[q]
  BY <1>4 DEF TypeOK
<1>8. ~(i < Backups) => i = Backups
  BY <1>2, StoreAssumption DEF Slots
<1> QED BY <1>3, <1>6, <1>7, <1>8

(* The saves under way, when one of them begins or ends.                   *)
LEMMA SavingBegins ==
  ASSUME TypeOK, Counts, NEW w \in Writers, Stage(w)
  PROVE  /\ w \notin Saving /\ Saving' = Saving \cup {w}
         /\ IsFiniteSet(Saving')
         /\ Cardinality(Saving') = Cardinality(Saving) + 1
<1>1. w \notin Saving
  BY DEF Stage, Saving
<1>2. \A v \in Writers : writer'[v].stage # "idle"
                           <=> v = w \/ writer[v].stage # "idle"
  BY DEF Stage, TypeOK
<1>3. Saving' = Saving \cup {w}
  BY <1>2 DEF Saving
<1> QED BY <1>1, <1>3, FS_AddElement DEF Counts

(* A save that completes or fails is one save less.                        *)
LEMMA SavingEnds ==
  ASSUME TypeOK, Counts, NEW w \in Writers, Replace(w) \/ FailSave(w)
  PROVE  /\ w \in Saving /\ Saving' = Saving \ {w}
         /\ IsFiniteSet(Saving \ {w})
         /\ Cardinality(Saving \ {w}) = Cardinality(Saving) - 1
<1>1. w \in Saving
  BY DEF Replace, FailSave, Saving
<1>2. \A v \in Writers : writer'[v].stage # "idle"
                           <=> v # w /\ writer[v].stage # "idle"
  BY DEF Replace, FailSave, TypeOK, IdleWriter
<1>3. Saving' = Saving \ {w}
  BY <1>2 DEF Saving
<1> QED BY <1>1, <1>3, FS_RemoveElement DEF Counts

(* A rename of the rotation leaves the saves under way as they are, and    *)
(* moves the one that does it to the next slot.                            *)
LEMMA SavingRotates ==
  ASSUME TypeOK, NEW w \in Writers, Rotate(w)
  PROVE  /\ Saving' = Saving /\ w \in Saving
         /\ writer[w].slot \in Slots
         /\ \A v \in Writers : v # w => writer'[v] = writer[v]
         /\ writer'[w] \in WriterState
         /\ writer' = [writer EXCEPT ![w] = writer'[w]]
         /\ writer[w].slot = 0 => writer'[w].stage = "replace"
         /\ writer[w].slot # 0 => /\ writer'[w].stage = "rotate"
                                  /\ writer'[w].slot = writer[w].slot - 1
<1> DEFINE i == writer[w].slot
<1>1. writer[w] \in WriterState /\ writer[w].stage = "rotate" /\ i \in Slots
  BY DEF Rotate, TypeOK, WriterState
<1>2. i # 0 => i - 1 \in Slots
  BY <1>1, StoreAssumption DEF Slots
<1>3. /\ writer' = [writer EXCEPT ![w] = writer'[w]]
      /\ \A v \in Writers : v # w => writer'[v] = writer[v]
      /\ i = 0 => writer'[w].stage = "replace"
      /\ i # 0 => writer'[w].stage = "rotate" /\ writer'[w].slot = i - 1
  BY <1>1 DEF Rotate, TypeOK, WriterState
<1>4. writer'[w] \in WriterState
  BY <1>1, <1>2 DEF Rotate, TypeOK, WriterState
<1>5. Saving' = Saving /\ w \in Saving
  BY <1>1, <1>3 DEF Saving
<1> QED BY <1>1, <1>3, <1>4, <1>5

(* Without damage a slot holds a document or nothing.                      *)
LEMMA Intact ==
  ASSUME TypeOK, Counts, damage = 0, NEW i \in Slots
  PROVE  Present(disk, i) <=> Good(disk, i)
<1>1. disk[i] \in Content /\ disk[i] \notin Damaged
  BY DEF TypeOK, Counts
<1> QED BY <1>1, StoreAssumption DEF Content, Present, Good

(* What a rename of the rotation does to the slots.                        *)
LEMMA Renamed ==
  ASSUME TypeOK, NEW w \in Writers, Rotate(w), NEW i \in Slots,
         i = writer[w].slot
  PROVE  /\ disk' \in [Slots -> Content]
         /\ \A j \in Slots : j # i /\ j # i + 1 => disk'[j] = disk[j]
         /\ disk'[i] = Absent
         /\ i = Backups => \A j \in Slots : j # i => disk'[j] = disk[j]
         /\ i # Backups /\ Present(disk, i) =>
              i + 1 \in Slots /\ disk'[i + 1] = disk[i]
         /\ i # Backups /\ ~Present(disk, i) => disk' = disk
<1>1. disk' = Shifted(disk, i) /\ disk \in [Slots -> Content]
  BY DEF Rotate, TypeOK
<1>2. i # Backups => i + 1 \in Slots
  BY StoreAssumption DEF Slots
<1>3. i \in Int /\ i # i + 1
  BY DEF Slots
<1>4. CASE i = Backups
  BY <1>1, <1>3, <1>4 DEF Shifted, Content
<1>5. CASE i # Backups /\ Present(disk, i)
  <2>1. /\ i + 1 \in Slots /\ disk[i] \in Content /\ Absent \in Content
        /\ disk' = [disk EXCEPT ![i + 1] = disk[i], ![i] = Absent]
    BY <1>1, <1>2, <1>5 DEF Shifted, Content
  <2> QED BY <1>1, <1>3, <1>5, <2>1
<1>6. CASE i # Backups /\ ~Present(disk, i)
  BY <1>1, <1>6 DEF Shifted, Present
<1> QED BY <1>4, <1>5, <1>6

(* Reading a slot that holds a document ends the load with it.             *)
LEMMA Loaded ==
  ASSUME TypeOK, NEW r \in Readers, Read(r), Good(disk, reader[r].slot)
  PROVE  /\ reader'[r].stage = "loaded" /\ reader'[r].base = reader[r].base
         /\ reader'[r].result = disk[reader[r].slot]
<1>1. disk[reader[r].slot] # Garbled
  BY StoreAssumption DEF Good, Damaged
<1>2. reader' = [reader EXCEPT ![r].stage = "loaded",
                               ![r].result = disk[reader[r].slot]]
  BY <1>1 DEF Read
<1> QED BY <1>2 DEF TypeOK, ReaderState

(* The steps of a load.                                                    *)
LoadStep(r) == BeginLoad(r) \/ Exists(r) \/ Read(r) \/ GiveUp(r) \/ EndLoad(r)

(* A step of a load changes no save and, unless it gives up and keeps the  *)
(* wreck aside, no file.                                                   *)
LEMMA LoadFrame ==
  ASSUME TypeOK, NEW r \in Readers, LoadStep(r)
  PROVE  /\ UNCHANGED <<writer, issued, committed, attempts, interrupted,
                        damage, policy>>
         /\ \A q \in Readers : q # r => reader'[q] = reader[q]
         /\ reader' \in [Readers -> ReaderState]
         /\ disk' \in [Slots -> Content]
         /\ disk' # disk =>
              /\ policy.preserve /\ reader[r].stage = "give_up"
              /\ disk'[0] = Absent
              /\ \A i \in Slots : i # 0 => disk'[i] = disk[i]
<1> USE StoreAssumption
<1>0. 0 \in Slots /\ reader[r] \in ReaderState
      /\ reader \in [Readers -> ReaderState]
      /\ disk \in [Slots -> Content]
  BY DEF Slots, TypeOK
<1>1. UNCHANGED <<writer, issued, committed, attempts, interrupted, damage,
                  policy>>
  BY DEF LoadStep, BeginLoad, Exists, Read, GiveUp, EndLoad
<1>2. GiveUp(r) \/ UNCHANGED disk
  BY DEF LoadStep, BeginLoad, Exists, Read, EndLoad
<1>3. GiveUp(r) =>
        /\ disk' \in [Slots -> Content]
        /\ disk' # disk =>
             /\ policy.preserve /\ reader[r].stage = "give_up"
             /\ disk'[0] = Absent
             /\ \A i \in Slots : i # 0 => disk'[i] = disk[i]
  <2>1. Absent \in Content
    BY DEF Content
  <2> QED BY <1>0, <2>1 DEF GiveUp
<1>4. /\ \A q \in Readers : q # r => reader'[q] = reader[q]
      /\ reader' \in [Readers -> ReaderState]
  <2>1. CASE BeginLoad(r)
    <3>1. [stage |-> "exists", slot |-> 0, present |-> FALSE,
           base |-> committed, result |-> 0] \in ReaderState
      BY <1>0 DEF ReaderState, TypeOK
    <3> QED BY <2>1, <3>1, <1>0 DEF BeginLoad
  <2>2. CASE Exists(r)
    <3>1. CASE NextCandidate(r, FALSE)
      BY <3>1, Candidate
    <3>2. CASE reader' = [reader EXCEPT ![r].stage = "read"]
      BY <3>2, <1>0 DEF ReaderState
    <3> QED BY <2>2, <3>1, <3>2 DEF Exists
  <2>3. CASE Read(r)
    <3>1. CASE NextCandidate(r, TRUE)
      BY <3>1, Candidate
    <3>2. CASE /\ Good(disk, reader[r].slot)
               /\ reader' = [reader EXCEPT ![r].stage = "loaded",
                                           ![r].result = disk[reader[r].slot]]
      BY <3>2, <1>0 DEF ReaderState, Good
    <3>3. CASE reader' = [reader EXCEPT ![r].stage = "raised"]
      BY <3>3, <1>0 DEF ReaderState
    <3> QED BY <2>3, <3>1, <3>2, <3>3 DEF Read
  <2>4. CASE GiveUp(r)
    BY <2>4, <1>0 DEF GiveUp, ReaderState
  <2>5. CASE EndLoad(r)
    <3>1. IdleReader \in ReaderState
      BY <1>0 DEF IdleReader, ReaderState
    <3> QED BY <2>5, <3>1, <1>0 DEF EndLoad
  <2> QED BY <2>1, <2>2, <2>3, <2>4, <2>5 DEF LoadStep
<1> QED BY <1>0, <1>1, <1>2, <1>3, <1>4

(* The steps one by one.                                                   *)
LEMMA NextCases ==
  ASSUME [Next]_vars
  PROVE  \/ \E w \in Writers : Stage(w) \/ Rotate(w) \/ Replace(w)
                                 \/ FailSave(w)
         \/ \E r \in Readers : LoadStep(r)
         \/ Crash
         \/ \E i \in Slots : DamageFile(i)
         \/ UNCHANGED vars
BY DEF Next, LoadStep

(* Every step keeps the types.                                             *)
LEMMA TypeStep == TypeOK /\ Counts /\ [Next]_vars => TypeOK'
<1> SUFFICES ASSUME TypeOK, Counts, [Next]_vars PROVE TypeOK'
  OBVIOUS
<1> USE StoreAssumption
<1>0. 0 \in Slots /\ Backups \in Slots
  BY DEF Slots
<1>1. IdleWriter \in WriterState /\ IdleReader \in ReaderState
  BY <1>0 DEF IdleWriter, IdleReader, WriterState, ReaderState
<1>2. ASSUME NEW w \in Writers, Stage(w) PROVE TypeOK'
  BY <1>0, <1>2 DEF Stage, TypeOK, WriterState
<1>3. ASSUME NEW w \in Writers, Rotate(w) PROVE TypeOK'
  <2>1. writer[w].slot \in Slots
    BY DEF TypeOK, WriterState
  <2>2. disk' \in [Slots -> Content]
    BY <1>3, <2>1, Renamed
  <2>3. writer' \in [Writers -> WriterState]
    BY <1>3, SavingRotates DEF TypeOK
  <2> QED BY <1>3, <2>2, <2>3 DEF Rotate, TypeOK
<1>4. ASSUME NEW w \in Writers, Replace(w) PROVE TypeOK'
  <2>1. attempts' \in Nat
    <3>1. IsFiniteSet(Saving \ {w})
      BY <1>4, SavingEnds
    <3>2. Cardinality(Saving \ {w}) \in Nat
      BY <3>1, FS_CardinalityType
    <3> QED BY <1>4, <3>2 DEF Replace
  <2>2. disk' \in [Slots -> Content]
    <3>1. committed' \in Nat /\ disk' = [disk EXCEPT ![0] = committed']
      BY <1>4 DEF Replace, TypeOK
    <3>2. committed' \in Content
      BY <3>1 DEF Content
    <3> QED BY <3>1, <3>2 DEF TypeOK
  <2>3. writer' \in [Writers -> WriterState]
    BY <1>1, <1>4 DEF Replace, TypeOK
  <2> QED BY <1>4, <2>1, <2>2, <2>3 DEF Replace, TypeOK
<1>5. ASSUME NEW w \in Writers, FailSave(w) PROVE TypeOK'
  BY <1>1, <1>5 DEF FailSave, TypeOK
<1>6. ASSUME NEW r \in Readers, LoadStep(r) PROVE TypeOK'
  BY <1>6, LoadFrame DEF TypeOK
<1>7. CASE Crash
  BY <1>1, <1>7 DEF Crash, TypeOK
<1>8. ASSUME NEW i \in Slots, DamageFile(i) PROVE TypeOK'
  <2>1. Damaged \subseteq Content
    BY DEF Content
  <2> QED BY <1>8, <2>1 DEF DamageFile, TypeOK
<1>9. CASE UNCHANGED vars
  BY <1>9 DEF vars, TypeOK
<1> QED BY <1>2, <1>3, <1>4, <1>5, <1>6, <1>7, <1>8, <1>9, NextCases

(* Every step keeps the counts of saves begun, under way and completed.    *)
LEMMA CountStep == TypeOK /\ Counts /\ [Next]_vars => Counts'
<1> SUFFICES ASSUME TypeOK, Counts, [Next]_vars PROVE Counts'
  OBVIOUS
<1> USE StoreAssumption
<1>0. /\ Cardinality(Saving) \in Nat
      /\ committed \in Nat /\ issued \in Nat /\ attempts \in Nat
      /\ damage \in Nat /\ disk \in [Slots -> Content]
  BY FS_CardinalityType DEF Counts, TypeOK
<1> DEFINE Numbered ==
      /\ IsFiniteSet(Saving) /\ committed + Cardinality(Saving) <= issued
      /\ Cardinality(Saving) <= attempts /\ attempts <= MaxAttempts
           Whole == damage = 0 => \A i \in Slots : disk[i] \notin Damaged
<1>1. ASSUME NEW w \in Writers, Stage(w) PROVE Counts'
  <2>1. Numbered'
    <3>1. /\ IsFiniteSet(Saving')
          /\ Cardinality(Saving') = Cardinality(Saving) + 1
      BY <1>1, SavingBegins
    <3>2. /\ issued' = issued + 1 /\ attempts' = attempts + 1
          /\ committed' = committed /\ attempts < MaxAttempts
      BY <1>1 DEF Stage
    <3> QED BY <1>0, <3>1, <3>2 DEF Counts
  <2>2. Whole'
    BY <1>1 DEF Stage, Counts
  <2> QED BY <2>1, <2>2 DEF Counts
<1>2. ASSUME NEW w \in Writers, Rotate(w) PROVE Counts'
  <2>1. Numbered'
    <3>1. Saving' = Saving
      BY <1>2, SavingRotates
    <3> QED BY <1>2, <3>1 DEF Rotate, Counts
  <2>2. Whole'
    <3>0. PICK i \in Slots : i = writer[w].slot
      BY <1>2, SavingRotates
    <3>1. /\ \A j \in Slots : j # i /\ j # i + 1 => disk'[j] = disk[j]
          /\ disk'[i] = Absent
          /\ i = Backups => \A j \in Slots : j # i => disk'[j] = disk[j]
          /\ i # Backups /\ Present(disk, i) =>
               i + 1 \in Slots /\ disk'[i + 1] = disk[i]
          /\ i # Backups /\ ~Present(disk, i) => disk' = disk
      BY <1>2, <3>0, Renamed
    <3>2. UNCHANGED damage
      BY <1>2 DEF Rotate
    <3> QED BY <3>1, <3>2 DEF Counts
  <2> QED BY <2>1, <2>2 DEF Counts
<1>3. ASSUME NEW w \in Writers, Replace(w) PROVE Counts'
  <2>1. Numbered'
    <3>1. /\ Saving' = Saving \ {w} /\ IsFiniteSet(Saving \ {w})
          /\ Cardinality(Saving \ {w}) = Cardinality(Saving) - 1
      BY <1>3, SavingEnds
    <3>2. /\ committed' = committed + 1 /\ issued' = issued
          /\ attempts' = Cardinality(Saving \ {w})
      BY <1>3 DEF Replace
    <3> QED BY <1>0, <3>1, <3>2 DEF Counts
  <2>2. Whole'
    <3>1. disk' = [disk EXCEPT ![0] = committed + 1] /\ damage' = damage
      BY <1>3 DEF Replace
    <3>2. committed + 1 \notin Damaged
      BY <1>0
    <3> QED BY <1>0, <3>1, <3>2 DEF Counts
  <2> QED BY <2>1, <2>2 DEF Counts
<1>4. ASSUME NEW w \in Writers, FailSave(w) PROVE Counts'
  <2>1. Numbered'
    <3>1. /\ Saving' = Saving \ {w} /\ IsFiniteSet(Saving \ {w})
          /\ Cardinality(Saving \ {w}) = Cardinality(Saving) - 1
      BY <1>4, SavingEnds
    <3> QED BY <1>0, <1>4, <3>1 DEF FailSave, Counts
  <2>2. Whole'
    BY <1>4 DEF FailSave, Counts
  <2> QED BY <2>1, <2>2 DEF Counts
<1>5. ASSUME NEW r \in Readers, LoadStep(r) PROVE Counts'
  <2>1. /\ UNCHANGED <<writer, issued, committed, attempts, damage>>
        /\ disk' # disk => /\ disk'[0] = Absent
                           /\ \A i \in Slots : i # 0 => disk'[i] = disk[i]
    BY <1>5, LoadFrame
  <2> QED BY <2>1 DEF Counts, Saving
<1>6. CASE Crash
  <2>1. Saving' = {}
    BY <1>6 DEF Crash, Saving, IdleWriter
  <2>2. Numbered'
    BY <1>0, <1>6, <2>1, FS_EmptySet DEF Crash, Counts
  <2>3. Whole'
    BY <1>6 DEF Crash, Counts
  <2> QED BY <2>2, <2>3 DEF Counts
<1>7. ASSUME NEW i \in Slots, DamageFile(i) PROVE Counts'
  <2>1. damage' # 0
    BY <1>0, <1>7 DEF DamageFile
  <2> QED BY <1>7, <2>1 DEF DamageFile, Counts, Saving
<1>8. CASE UNCHANGED vars
  BY <1>8 DEF vars, Counts, Saving
<1> QED BY <1>1, <1>2, <1>3, <1>4, <1>5, <1>6, <1>7, <1>8, NextCases

---------------------------------------------------------------------------
(* Where saves and loads exclude each other.                               *)

(* The step of a load from one slot to the next, or to the end.            *)
LEMMA KnowsMore ==
  ASSUME TypeOK, Counts, NEW r \in Readers, Knows(r),
         Exists(r) \/ Read(r)
  PROVE  Knows(r)'
<1> USE StoreAssumption
<1> DEFINE i == reader[r].slot
<1>0. /\ reader[r] \in ReaderState /\ i \in Slots /\ damage' = damage
      /\ disk' = disk /\ disk \in [Slots -> Content]
      /\ reader[r].stage \in {"exists", "read"}
  BY DEF Exists, Read, TypeOK, ReaderState
<1>1. ASSUME NEW p \in BOOLEAN, NextCandidate(r, p), ~Good(disk, i),
             damage = 0 => ~p
      PROVE  Knows(r)'
  <2>1. damage = 0 => ~reader[r].present
    BY <1>0 DEF Knows
  <2>2. CASE i < Backups
    <3>1. /\ reader'[r].stage = "exists" /\ reader'[r].slot = i + 1
          /\ reader'[r].present = (reader[r].present \/ p)
      BY <1>1, <2>2, Candidate
    <3>2. \A j \in Slots : j < i + 1 => j < i \/ j = i
      BY <1>0 DEF Slots
    <3>3. \A j \in Slots : j < i => ~Good(disk, j)
      BY <1>0 DEF Knows
    <3>4. \A j \in Slots : j < reader'[r].slot => ~Good(disk, j)
      BY <1>1, <3>1, <3>2, <3>3
    <3> QED BY <1>0, <1>1, <2>1, <3>1, <3>4 DEF Knows, Good
  <2>3. CASE ~(i < Backups)
    <3>1. /\ reader'[r].stage = IF reader[r].present \/ p THEN "give_up"
                                ELSE "defaulted"
          /\ i = Backups
      BY <1>1, <2>3, Candidate
    <3>2. \A j \in Slots : j < i \/ j = i
      BY <1>0, <3>1 DEF Slots
    <3>3. \A j \in Slots : j < i => ~Good(disk, j)
      BY <1>0 DEF Knows
    <3>4. \A j \in Slots : ~Good(disk, j)
      BY <1>1, <3>2, <3>3
    <3> QED BY <1>0, <1>1, <2>1, <3>1, <3>4 DEF Knows, Good
  <2> QED BY <2>2, <2>3
<1>2. CASE Exists(r)
  <2>1. CASE ~Present(disk, i)
    <3>1. ~Good(disk, i)
      BY <2>1 DEF Present, Good
    <3> QED BY <1>1, <1>2, <2>1, <3>1 DEF Exists
  <2>2. CASE Present(disk, i)
    <3>1. /\ reader'[r].stage = "read" /\ reader'[r].slot = i
          /\ reader'[r].present = reader[r].present
      BY <1>0, <1>2, <2>2 DEF Exists, ReaderState, TypeOK
    <3> QED BY <1>0, <2>2, <3>1 DEF Knows, Good, Present
  <2> QED BY <2>1, <2>2
<1>3. CASE Read(r)
  <2>1. CASE Good(disk, i)
    <3>1. reader'[r].stage = "loaded"
      BY <1>3, <2>1, Loaded
    <3> QED BY <3>1 DEF Knows
  <2>2. CASE ~Good(disk, i)
    <3>1. damage # 0
      <4> SUFFICES ASSUME damage = 0 PROVE FALSE
        OBVIOUS
      <4>1. reader[r].stage = "read"
        BY <1>3 DEF Read
      <4>2. Present(disk, i)
        BY <1>0, <4>1 DEF Knows
      <4> QED BY <1>0, <2>2, <4>2, Intact
    <3>2. CASE NextCandidate(r, TRUE)
      BY <1>1, <1>3, <2>2, <3>1, <3>2 DEF Read
    <3>3. CASE reader' = [reader EXCEPT ![r].stage = "raised"]
      <4>1. reader'[r].stage = "raised"
        BY <1>0, <3>3 DEF ReaderState, TypeOK
      <4> QED BY <4>1 DEF Knows
    <3> QED BY <1>3, <2>2, <3>2, <3>3 DEF Read
  <2> QED BY <2>1, <2>2
<1> QED BY <1>2, <1>3

(* Every step keeps what the lock is for.                                  *)
LEMMA LockStep == TypeOK /\ Counts /\ Locked /\ [Next]_vars => Locked'
<1> SUFFICES ASSUME TypeOK, Counts, Locked, [Next]_vars, policy'.exclusive
             PROVE  /\ \A v, w \in Saving' : v = w
                    /\ Saving' = {} \/ Loading' = {}
                    /\ \A r \in Readers : Knows(r)'
  BY DEF Locked
<1> DEFINE Goal == /\ \A v, w \in Saving' : v = w
                   /\ Saving' = {} \/ Loading' = {}
                   /\ \A r \in Readers : Knows(r)'
<1> USE StoreAssumption
<1>0. /\ policy' = policy /\ policy.exclusive
      /\ \A v, w \in Saving : v = w
      /\ Saving = {} \/ Loading = {}
      /\ \A r \in Readers : Knows(r)
      /\ damage \in Nat /\ disk \in [Slots -> Content]
  <2>1. policy' = policy
    BY DEF Next, Stage, Rotate, Replace, FailSave, BeginLoad, Exists, Read,
           GiveUp, EndLoad, Crash, DamageFile, vars
  <2> QED BY <2>1 DEF Locked, TypeOK
<1>1. ASSUME UNCHANGED reader, Loading = {} PROVE \A r \in Readers : Knows(r)'
  BY <1>1 DEF Knows, Loading
<1>2. ASSUME NEW w \in Writers, Stage(w) PROVE Goal
  <2>1. Saving = {} /\ Loading = {} /\ reader' = reader
    BY <1>0, <1>2 DEF Stage
  <2>2. Saving' = {w}
    BY <1>2, <2>1, SavingBegins
  <2>3. Loading' = {}
    BY <2>1 DEF Loading
  <2> QED BY <1>1, <2>1, <2>2, <2>3
<1>3. ASSUME NEW w \in Writers, Rotate(w) PROVE Goal
  <2>1. Saving' = Saving /\ w \in Saving /\ reader' = reader
    BY <1>3, SavingRotates DEF Rotate
  <2>2. Loading = {} /\ Loading' = {}
    BY <1>0, <2>1 DEF Loading
  <2> QED BY <1>0, <1>1, <2>1, <2>2
<1>4. ASSUME NEW w \in Writers, Replace(w) PROVE Goal
  <2>1. Saving' = Saving \ {w} /\ w \in Saving /\ reader' = reader
    BY <1>4, SavingEnds DEF Replace
  <2>2. Loading = {} /\ Loading' = {}
    BY <1>0, <2>1 DEF Loading
  <2> QED BY <1>0, <1>1, <2>1, <2>2
<1>5. ASSUME NEW w \in Writers, FailSave(w) PROVE Goal
  <2>1. Saving' = Saving \ {w} /\ w \in Saving /\ reader' = reader
    BY <1>5, SavingEnds DEF FailSave
  <2>2. Loading = {} /\ Loading' = {}
    BY <1>0, <2>1 DEF Loading
  <2> QED BY <1>0, <1>1, <2>1, <2>2
<1>6. ASSUME NEW r \in Readers, LoadStep(r) PROVE Goal
  <2>1. /\ writer' = writer /\ damage' = damage
        /\ \A q \in Readers : q # r => reader'[q] = reader[q]
        /\ disk' # disk => /\ disk'[0] = Absent
                           /\ reader[r].stage = "give_up"
                           /\ \A i \in Slots : i # 0 => disk'[i] = disk[i]
    BY <1>6, LoadFrame
  <2>2. Saving' = Saving
    BY <2>1 DEF Saving
  <2>3. Saving' = {} \/ Loading' = {}
    <3>1. BeginLoad(r) => Saving = {}
      BY <1>0 DEF BeginLoad
    <3>2. ~BeginLoad(r) => Loading' \subseteq Loading
      <4>1. ~BeginLoad(r) => (r \in Loading' => r \in Loading)
        <5>1. Exists(r) \/ Read(r) \/ GiveUp(r) => r \in Loading
          BY DEF Exists, Read, GiveUp, Loading
        <5>2. EndLoad(r) => reader'[r] = IdleReader
          BY DEF EndLoad, TypeOK
        <5>3. EndLoad(r) => r \notin Loading'
          BY <5>2 DEF Loading, IdleReader
        <5> QED BY <1>6, <5>1, <5>3 DEF LoadStep
      <4> QED BY <2>1, <4>1 DEF Loading
    <3> QED BY <1>0, <2>2, <3>1, <3>2
  <2>4. \A i \in Slots : Good(disk, i)' => Good(disk, i)
    BY <1>0, <2>1 DEF Good
  <2>5. ASSUME NEW q \in Readers, q # r PROVE Knows(q)'
    <3>1. reader'[q] = reader[q] /\ Knows(q)
      BY <1>0, <2>1, <2>5
    <3>2. CASE disk' = disk
      BY <2>1, <3>1, <3>2 DEF Knows, Good, Present
    <3>3. CASE disk' # disk
      <4>1. damage # 0
        BY <1>0, <2>1, <3>3 DEF Knows
      <4> QED BY <2>1, <2>4, <3>1, <4>1 DEF Knows
    <3> QED BY <3>2, <3>3
  <2>6. Knows(r)'
    <3>1. CASE BeginLoad(r)
      <4>1. /\ reader'[r].stage = "exists" /\ reader'[r].slot = 0
            /\ reader'[r].present = FALSE
        BY <3>1 DEF BeginLoad, TypeOK
      <4>2. \A i \in Slots : ~(i < 0)
        BY DEF Slots
      <4> QED BY <4>1, <4>2 DEF Knows
    <3>2. CASE Exists(r) \/ Read(r)
      BY <1>0, <3>2, KnowsMore
    <3>3. CASE GiveUp(r) \/ EndLoad(r)
      <4>1. reader'[r].stage \notin {"exists", "read", "give_up"}
        BY <3>3 DEF GiveUp, EndLoad, IdleReader, TypeOK, ReaderState
      <4> QED BY <4>1 DEF Knows
    <3> QED BY <1>6, <3>1, <3>2, <3>3 DEF LoadStep
  <2> QED BY <1>0, <2>2, <2>3, <2>5, <2>6
<1>7. CASE Crash
  <2>1. /\ Saving' = {}
        /\ \A r \in Readers : reader'[r].stage = "idle"
    BY <1>7 DEF Crash, Saving, IdleWriter, IdleReader
  <2>2. \A r \in Readers : Knows(r)'
    BY <2>1 DEF Knows
  <2> QED BY <2>1, <2>2
<1>8. ASSUME NEW i \in Slots, DamageFile(i) PROVE Goal
  <2>1. /\ damage' # 0 /\ writer' = writer /\ reader' = reader
        /\ \A j \in Slots : Good(disk, j)' => Good(disk, j)
    BY <1>0, <1>8 DEF DamageFile, Good
  <2>2. Saving' = Saving /\ Loading' = Loading
    BY <2>1 DEF Saving, Loading
  <2>3. \A r \in Readers : Knows(r)'
    BY <1>0, <2>1 DEF Knows
  <2> QED BY <1>0, <2>2, <2>3
<1>9. CASE UNCHANGED vars
  BY <1>0, <1>9 DEF vars, Saving, Loading, Knows, Good, Present
<1> QED BY <1>2, <1>3, <1>4, <1>5, <1>6, <1>7, <1>8, <1>9, NextCases

---------------------------------------------------------------------------
(* Saves that have still to age a file.                                    *)

(* They are some of the saves under way.                                   *)
LEMMA PendingFinite ==
  ASSUME Counts, NEW q
  PROVE  /\ IsFiniteSet(Pending(q)) /\ Cardinality(Pending(q)) \in Nat
         /\ Pending(q) \subseteq Saving
         /\ Cardinality(Pending(q)) <= Cardinality(Saving)
<1>1. Pending(q) \subseteq Saving
  BY DEF Pending, Saving
<1>2. IsFiniteSet(Pending(q)) /\ Cardinality(Pending(q)) <= Cardinality(Saving)
  BY <1>1, FS_Subset DEF Counts
<1> QED BY <1>1, <1>2, FS_CardinalityType

(* The same after the step.                                                *)
LEMMA PendingAfter ==
  ASSUME Counts', NEW q
  PROVE  Cardinality(Pending(q)') \in Nat
<1>1. Pending(q)' \subseteq Saving'
  BY DEF Pending, Saving
<1>2. IsFiniteSet(Pending(q)')
  BY <1>1, FS_Subset DEF Counts
<1> QED BY <1>2, FS_CardinalityType

(* Fewer of them count for less.                                           *)
LEMMA FewerPending ==
  ASSUME Counts, Counts', NEW q, Pending(q)' \subseteq Pending(q)
  PROVE  Cardinality(Pending(q)') <= Cardinality(Pending(q))
BY PendingFinite, FS_Subset

(* They change only with the saves.                                        *)
LEMMA SamePending ==
  ASSUME NEW q, UNCHANGED writer
  PROVE  Pending(q)' = Pending(q)
BY DEF Pending

(* A save that begins has to age every slot.                               *)
LEMMA StagePending ==
  ASSUME TypeOK, Counts, NEW w \in Writers, Stage(w), NEW q \in Slots
  PROVE  Cardinality(Pending(q)') = Cardinality(Pending(q)) + 1
<1>1. /\ writer'[w] = [stage |-> "rotate", slot |-> Backups]
      /\ \A v \in Writers : v # w => writer'[v] = writer[v]
      /\ writer[w].stage = "idle"
  BY DEF Stage, TypeOK
<1>2. q <= Backups
  BY StoreAssumption DEF Slots
<1>3. Pending(q)' = Pending(q) \cup {w} /\ w \notin Pending(q)
  BY <1>1, <1>2 DEF Pending
<1> QED BY <1>3, PendingFinite, FS_AddElement

(* A rename from slot i: the save has aged slot i, which is i + 1 now.     *)
LEMMA RotatePending ==
  ASSUME TypeOK, Counts, Counts', NEW w \in Writers, Rotate(w),
         NEW i \in Slots, i = writer[w].slot
  PROVE  /\ 1 <= Cardinality(Pending(i))
         /\ \A q \in Slots :
              Cardinality(Pending(q)') <= Cardinality(Pending(q))
         /\ i + 1 \in Slots =>
              Cardinality(Pending(i + 1)') <= Cardinality(Pending(i)) - 1
<1> USE StoreAssumption
<1>1. /\ \A v \in Writers : v # w => writer'[v] = writer[v]
      /\ i = 0 => writer'[w].stage = "replace"
      /\ i # 0 => writer'[w].stage = "rotate" /\ writer'[w].slot = i - 1
      /\ writer[w].stage = "rotate"
  BY SavingRotates DEF Rotate
<1>2. \A v \in Writers : writer[v].slot \in Slots
  BY DEF TypeOK, WriterState
<1>3. w \in Pending(i)
  BY <1>1 DEF Pending, Slots
<1>4. IsFiniteSet(Pending(i) \ {w})
      /\ Cardinality(Pending(i) \ {w}) = Cardinality(Pending(i)) - 1
  BY <1>3, PendingFinite, FS_RemoveElement
<1>5. 1 <= Cardinality(Pending(i))
  <2>1. Cardinality(Pending(i) \ {w}) \in Nat /\ Cardinality(Pending(i)) \in Nat
    BY <1>4, PendingFinite, FS_CardinalityType
  <2> QED BY <1>4, <2>1
<1>6. ASSUME NEW q \in Slots
      PROVE  Cardinality(Pending(q)') <= Cardinality(Pending(q))
  <2>1. \A v \in Writers : writer'[v].stage = "rotate" /\ q <= writer'[v].slot
                             => writer[v].stage = "rotate" /\ q <= writer[v].slot
    BY <1>1, <1>2 DEF Slots
  <2>2. Pending(q)' \subseteq Pending(q)
    BY <2>1 DEF Pending
  <2> QED BY <2>2, FewerPending
<1>7. Cardinality(Pending(i + 1)') <= Cardinality(Pending(i)) - 1
  <2>1. \A v \in Writers :
           writer'[v].stage = "rotate" /\ i + 1 <= writer'[v].slot
             => v # w /\ writer[v].stage = "rotate" /\ i <= writer[v].slot
    BY <1>1, <1>2 DEF Slots
  <2>2. Pending(i + 1)' \subseteq Pending(i) \ {w}
    BY <2>1 DEF Pending
  <2>3. Cardinality(Pending(i + 1)') <= Cardinality(Pending(i) \ {w})
    BY <2>2, <1>4, FS_Subset
  <2> QED BY <1>4, <2>3
<1> QED BY <1>5, <1>6, <1>7

(* A save that completes had no slot left to age.                          *)
LEMMA ReplacePending ==
  ASSUME TypeOK, Counts, Counts', NEW w \in Writers, Replace(w), NEW q \in Slots
  PROVE  /\ Cardinality(Pending(q)') <= Cardinality(Pending(q))
         /\ Cardinality(Pending(q)') <= Cardinality(Saving \ {w})
<1>1. /\ writer'[w].stage = "idle"
      /\ \A v \in Writers : v # w => writer'[v] = writer[v]
  BY DEF Replace, TypeOK, IdleWriter
<1>2. Pending(q)' \subseteq Pending(q) /\ Pending(q)' \subseteq Saving \ {w}
  BY <1>1 DEF Pending, Saving
<1>3. IsFiniteSet(Saving \ {w})
  BY SavingEnds
<1>4. Cardinality(Pending(q)') <= Cardinality(Saving \ {w})
  BY <1>2, <1>3, FS_Subset
<1> QED BY <1>2, <1>4, FewerPending

(* Saves that fail or are killed age nothing any more.                     *)
LEMMA AbandonPending ==
  ASSUME TypeOK, Counts, Counts', NEW q \in Slots,
         Crash \/ \E w \in Writers : FailSave(w)
  PROVE  Cardinality(Pending(q)') <= Cardinality(Pending(q))
<1>1. \A v \in Writers : writer'[v] = writer[v] \/ writer'[v].stage = "idle"
  BY DEF Crash, FailSave, IdleWriter, TypeOK
<1>2. Pending(q)' \subseteq Pending(q)
  BY <1>1 DEF Pending
<1> QED BY <1>2, FewerPending

---------------------------------------------------------------------------
(* Which save wrote which file.                                            *)

(* The numbers stay right while files only disappear or are damaged.       *)
LEMMA KeepNumbers ==
  ASSUME TypeOK, TypeOK', Counts, Counts', committed' = committed,
         \A i \in Slots : Present(disk, i)' => Present(disk, i),
         \A i \in Slots : Good(disk, i)' => disk'[i] = disk[i],
         \A i \in Slots : Cardinality(Pending(i)') - Cardinality(Pending(i))
                            <= issued' - issued,
         NEW g \in [Slots -> Nat], Numbers(g)
  PROVE  Numbers(g)'
<1>1. \A i \in Slots : Good(disk, i)' => g[i] = disk'[i]
  BY DEF Numbers, Good
<1>2. ASSUME NEW i \in Slots, Present(disk, i)'
      PROVE  /\ 0 < g[i] /\ g[i] <= committed'
             /\ i + Cardinality(Pending(i)') <= issued' - g[i]
  <2>1. /\ 0 < g[i] /\ g[i] <= committed
        /\ i + Cardinality(Pending(i)) <= issued - g[i]
    BY <1>2 DEF Numbers
  <2>2. /\ Cardinality(Pending(i)') - Cardinality(Pending(i)) <= issued' - issued
        /\ Cardinality(Pending(i)) \in Nat /\ Cardinality(Pending(i)') \in Nat
        /\ issued \in Nat /\ issued' \in Nat /\ i \in Int /\ g[i] \in Nat
    BY PendingFinite, PendingAfter DEF TypeOK, Slots
  <2> QED BY <2>1, <2>2
<1>3. \A i, j \in Slots :
         i < j /\ Present(disk, i)' /\ Present(disk, j)' => g[i] > g[j]
  BY DEF Numbers
<1> QED BY <1>1, <1>2, <1>3 DEF Numbers

(* Saves begun later overtake a load all the more.                         *)
LEMMA StillOvertaken ==
  ASSUME NEW m \in Nat, NEW n \in Nat, m <= n, NEW b \in Nat,
         b = 0 \/ m - b > Backups
  PROVE  b = 0 \/ n - b > Backups
BY StoreAssumption

(* A search is not disturbed while the same slots are filled.              *)
LEMMA KeepReaches ==
  ASSUME TypeOK, TypeOK', issued <= issued',
         \A i \in Slots : Present(disk, i)' <=> Present(disk, i),
         NEW g \in [Slots -> Nat], NEW b \in Nat, NEW s \in Slots,
         Reaches(g, b, s)
  PROVE  Reaches(g, b, s)'
<1>1. issued \in Nat /\ issued' \in Nat /\ Backups \in Nat
  BY StoreAssumption DEF TypeOK
<1>2. CASE \E q \in Slots : s <= q /\ Present(disk, q) /\ b <= g[q]
  BY <1>2 DEF Reaches
<1>3. CASE /\ \A i \in Slots : Present(disk, i) => b <= g[i]
           /\ b = 0 \/ issued - b > Backups
  <2>1. b = 0 \/ issued' - b > Backups
    BY <1>1, <1>3, StillOvertaken
  <2> QED BY <1>3, <2>1 DEF Reaches
<1> QED BY <1>2, <1>3 DEF Reaches

(* Nor is the last completed save.                                         *)
LEMMA KeepHolds ==
  ASSUME TypeOK, TypeOK', Counts, Counts', committed' = committed,
         \A i \in Slots : Present(disk, i)' <=> Present(disk, i),
         \A i \in Slots : Cardinality(Pending(i)') - Cardinality(Pending(i))
                            <= attempts' - attempts,
         NEW g \in [Slots -> Nat], Holds(g)
  PROVE  Holds(g)'
<1> SUFFICES ASSUME 0 < committed
             PROVE  \E q \in Slots :
                      /\ Present(disk, q)' /\ g[q] = committed'
                      /\ q + Cardinality(Pending(q)') <= attempts'
  BY DEF Holds
<1>1. PICK q \in Slots : /\ Present(disk, q) /\ g[q] = committed
                         /\ q + Cardinality(Pending(q)) <= attempts
  BY DEF Holds
<1>2. /\ Cardinality(Pending(q)') - Cardinality(Pending(q))
           <= attempts' - attempts
      /\ Cardinality(Pending(q)) \in Nat /\ Cardinality(Pending(q)') \in Nat
      /\ attempts \in Nat /\ attempts' \in Nat /\ q \in Int
  BY PendingFinite, PendingAfter DEF TypeOK, Slots
<1>3. q + Cardinality(Pending(q)') <= attempts'
  BY <1>1, <1>2
<1> QED BY <1>1, <1>3

(* A step that neither adds nor removes nor replaces a file.               *)
LEMMA KeepFiles ==
  ASSUME TypeOK, TypeOK', Counts, Counts', committed' = committed,
         issued <= issued', damage <= damage', policy' = policy,
         \A i \in Slots : Present(disk, i)' <=> Present(disk, i),
         \A i \in Slots : Good(disk, i)' => disk'[i] = disk[i],
         \A i \in Slots : Cardinality(Pending(i)') - Cardinality(Pending(i))
                            <= issued' - issued,
         \A i \in Slots : Cardinality(Pending(i)') - Cardinality(Pending(i))
                            <= attempts' - attempts,
         \A r \in Readers : Searching(r)' =>
            /\ Searching(r) /\ reader'[r].slot = reader[r].slot
            /\ reader'[r].base = reader[r].base,
         NEW g \in [Slots -> Nat], Files(g)
  PROVE  Files(g)'
<1>1. Numbers(g)'
  BY KeepNumbers DEF Files
<1>2. /\ damage \in Nat /\ damage' \in Nat /\ committed \in Nat
      /\ damage' = 0 => damage = 0
      /\ Firm' => Firm
  BY DEF TypeOK, Firm
<1>3. ASSUME Firm' PROVE Reaches(g, committed, 0)'
  <2>1. PICK b \in Nat : b = committed /\ b = committed'
    BY <1>2
  <2>2. Reaches(g, b, 0)
    BY <1>2, <1>3, <2>1 DEF Files
  <2>3. 0 \in Slots
    BY StoreAssumption DEF Slots
  <2>4. Reaches(g, b, 0)'
    BY <2>2, <2>3, KeepReaches
  <2> QED BY <2>1, <2>4 DEF Reaches
<1>4. ASSUME Firm', NEW r \in Readers, Searching(r)'
      PROVE  Reaches(g, reader[r].base, reader[r].slot)'
  <2>1. reader[r].base \in Nat /\ reader[r].slot \in Slots
    BY DEF TypeOK, ReaderState
  <2>2. PICK b \in Nat : b = reader[r].base /\ b = reader'[r].base
    BY <1>4, <2>1
  <2>3. PICK s \in Slots : s = reader[r].slot /\ s = reader'[r].slot
    BY <1>4, <2>1
  <2>4. Reaches(g, b, s)
    BY <1>2, <1>4, <2>2, <2>3 DEF Files
  <2>5. Reaches(g, b, s)'
    BY <2>4, KeepReaches
  <2> QED BY <2>2, <2>3, <2>5 DEF Reaches
<1>5. ASSUME Firm', damage' = 0, MaxAttempts <= Backups PROVE Holds(g)'
  <2>1. Holds(g)
    BY <1>2, <1>5 DEF Files
  <2> QED BY <2>1, KeepHolds
<1> QED BY <1>1, <1>3, <1>4, <1>5 DEF Files

(* Beginning a save, abandoning one, and damage from outside.              *)
LEMMA QuietFiles ==
  ASSUME TypeOK, TypeOK', Counts, Counts', NEW g \in [Slots -> Nat], Files(g),
         \/ \E w \in Writers : Stage(w) \/ FailSave(w)
         \/ Crash \/ UNCHANGED vars \/ \E i \in Slots : DamageFile(i)
  PROVE  Files(g)'
<1>0. /\ issued \in Nat /\ attempts \in Nat /\ damage \in Nat
      /\ disk \in [Slots -> Content]
      /\ \A q \in Slots : /\ Cardinality(Pending(q)) \in Nat
                          /\ Cardinality(Pending(q)') \in Nat
  BY PendingFinite, PendingAfter DEF TypeOK
<1>1. \A r \in Readers : Searching(r)' =>
         /\ reader'[r] = reader[r] /\ (damage' = 0 => damage = 0)
  <2>1. UNCHANGED reader \/ \A r \in Readers : reader'[r] = IdleReader
    BY DEF Stage, FailSave, Crash, vars, DamageFile
  <2>2. damage <= damage'
    BY <1>0 DEF Stage, FailSave, Crash, vars, DamageFile
  <2>3. damage' = 0 => damage = 0
    BY <1>0, <2>2 DEF TypeOK
  <2> QED BY <2>1, <2>3 DEF Searching, IdleReader
<1>2. \A r \in Readers : Searching(r)' =>
         /\ Searching(r) /\ reader'[r].slot = reader[r].slot
         /\ reader'[r].base = reader[r].base
  BY <1>1 DEF Searching
<1>3. /\ committed' = committed /\ policy' = policy
      /\ issued <= issued' /\ damage <= damage'
  BY <1>0 DEF Stage, FailSave, Crash, vars, DamageFile
<1>4. /\ \A i \in Slots : Present(disk, i)' <=> Present(disk, i)
      /\ \A i \in Slots : Good(disk, i)' => disk'[i] = disk[i]
  <2>1. CASE UNCHANGED disk
    BY <2>1 DEF Present, Good
  <2>2. ASSUME NEW i \in Slots, DamageFile(i) PROVE <1>4
    BY <1>0, <2>2, StoreAssumption DEF DamageFile, Present, Good
  <2> QED BY <2>1, <2>2 DEF Stage, FailSave, Crash, vars
<1>5. /\ \A i \in Slots : Cardinality(Pending(i)') - Cardinality(Pending(i))
                            <= issued' - issued
      /\ \A i \in Slots : Cardinality(Pending(i)') - Cardinality(Pending(i))
                            <= attempts' - attempts
  <2>1. ASSUME NEW w \in Writers, Stage(w) PROVE <1>5
    <3>1. issued' = issued + 1 /\ attempts' = attempts + 1
      BY <2>1 DEF Stage
    <3>2. \A i \in Slots :
             Cardinality(Pending(i)') = Cardinality(Pending(i)) + 1
      BY <2>1, StagePending
    <3> QED BY <1>0, <3>1, <3>2
  <2>2. CASE Crash \/ \E w \in Writers : FailSave(w)
    <3>1. issued' = issued /\ attempts' = attempts
      BY <2>2 DEF Crash, FailSave
    <3>2. \A i \in Slots : Cardinality(Pending(i)') <= Cardinality(Pending(i))
      BY <2>2, AbandonPending
    <3> QED BY <1>0, <3>1, <3>2
  <2>3. CASE UNCHANGED vars \/ \E i \in Slots : DamageFile(i)
    <3>1. issued' = issued /\ attempts' = attempts /\ writer' = writer
      BY <2>3 DEF vars, DamageFile
    <3>2. \A i \in Slots : Pending(i)' = Pending(i)
      BY <3>1, SamePending
    <3> QED BY <1>0, <3>1, <3>2
  <2> QED BY <2>1, <2>2, <2>3
<1> QED BY <1>2, <1>3, <1>4, <1>5, KeepFiles

(* A rename of the rotation: the file takes its number along.              *)
LEMMA RotateFiles ==
  ASSUME TypeOK, TypeOK', Counts, Counts', NEW w \in Writers, Rotate(w),
         NEW g \in [Slots -> Nat], Files(g)
  PROVE  \E h \in [Slots -> Nat] : Files(h)'
<1> USE StoreAssumption
<1>0. PICK i \in Slots : i = writer[w].slot
  BY SavingRotates
<1>1. /\ \A j \in Slots : j # i /\ j # i + 1 => disk'[j] = disk[j]
      /\ disk'[i] = Absent
      /\ i = Backups => \A j \in Slots : j # i => disk'[j] = disk[j]
      /\ i # Backups /\ Present(disk, i) =>
           i + 1 \in Slots /\ disk'[i + 1] = disk[i]
      /\ i # Backups /\ ~Present(disk, i) => disk' = disk
  BY <1>0, Renamed
<1>2. /\ 1 <= Cardinality(Pending(i))
      /\ \A q \in Slots : Cardinality(Pending(q)') <= Cardinality(Pending(q))
      /\ i + 1 \in Slots =>
           Cardinality(Pending(i + 1)') <= Cardinality(Pending(i)) - 1
  BY <1>0, RotatePending
<1>3. UNCHANGED <<reader, issued, committed, attempts, damage, policy>>
  BY DEF Rotate
<1>4. /\ issued \in Nat /\ attempts \in Nat /\ committed \in Nat
      /\ \A q \in Slots : /\ Cardinality(Pending(q)) \in Nat
                          /\ Cardinality(Pending(q)') \in Nat
  BY PendingFinite, PendingAfter DEF TypeOK
<1>5. (Firm' <=> Firm) /\ \A r \in Readers : Searching(r)' <=> Searching(r)
  BY <1>3 DEF Firm, Searching
<1>6. CASE i # Backups /\ ~Present(disk, i)
  <2>1. disk' = disk
    BY <1>1, <1>6
  <2>2. \A j \in Slots : Present(disk, j)' <=> Present(disk, j)
    BY <2>1 DEF Present
  <2>3. \A j \in Slots : Good(disk, j)' => disk'[j] = disk[j]
    BY <2>1
  <2>4. \A q \in Slots : /\ Cardinality(Pending(q)') - Cardinality(Pending(q))
                              <= issued' - issued
                         /\ Cardinality(Pending(q)') - Cardinality(Pending(q))
                              <= attempts' - attempts
    BY <1>2, <1>3, <1>4
  <2>5. issued <= issued' /\ damage <= damage'
    BY <1>3 DEF TypeOK
  <2>6. Files(g)'
    BY <1>3, <1>5, <2>2, <2>3, <2>4, <2>5, KeepFiles
  <2> QED BY <2>6
<1>7. CASE i = Backups
  <2>1. /\ \A j \in Slots : Present(disk, j)' <=> (Present(disk, j) /\ j # i)
        /\ \A j \in Slots : Good(disk, j)' => disk'[j] = disk[j]
    BY <1>1, <1>7 DEF Present, Good
  <2>2. Numbers(g)'
    <3>1. \A q \in Slots : Cardinality(Pending(q)') - Cardinality(Pending(q))
                             <= issued' - issued
      BY <1>2, <1>3, <1>4
    <3> QED BY <1>3, <2>1, <3>1, KeepNumbers DEF Files
  <2>3. ASSUME NEW b \in Nat, NEW s \in Slots, Reaches(g, b, s)
        PROVE  Reaches(g, b, s)'
    <3>1. CASE \E q \in Slots :
                 s <= q /\ Present(disk, q) /\ b <= g[q] /\ q # Backups
      BY <1>7, <2>1, <3>1 DEF Reaches
    <3>2. CASE Present(disk, Backups) /\ b <= g[Backups] /\ Backups \in Slots
      <4>1. \A j \in Slots : Present(disk, j)' => g[Backups] <= g[j]
        <5>1. \A j \in Slots : j # Backups => j < Backups
          BY DEF Slots
        <5>2. \A j \in Slots : j < Backups /\ Present(disk, j)
                                 => g[j] > g[Backups]
          BY <3>2 DEF Files, Numbers
        <5> QED BY <1>7, <2>1, <3>2, <5>1, <5>2
      <4>2. \A j \in Slots : Present(disk, j)' => b <= g[j]
        BY <3>2, <4>1
      <4>3. Backups + Cardinality(Pending(Backups)) <= issued - g[Backups]
        BY <3>2 DEF Files, Numbers
      <4>4. issued - b > Backups
        BY <1>2, <1>4, <1>7, <3>2, <4>3
      <4> QED BY <1>3, <4>2, <4>4 DEF Reaches
    <3>3. CASE /\ \A j \in Slots : Present(disk, j) => b <= g[j]
               /\ b = 0 \/ issued - b > Backups
      <4>1. issued' = issued
        BY <1>3
      <4> QED BY <2>1, <3>3, <4>1 DEF Reaches
    <3> QED BY <2>3, <3>1, <3>2, <3>3 DEF Reaches
  <2>4. Holds(g) /\ MaxAttempts <= Backups => Holds(g)'
    <3> SUFFICES ASSUME Holds(g), MaxAttempts <= Backups, 0 < committed
                 PROVE  \E q \in Slots :
                          /\ Present(disk, q)' /\ g[q] = committed'
                          /\ q + Cardinality(Pending(q)') <= attempts'
      BY <1>3 DEF Holds
    <3>1. PICK q \in Slots : /\ Present(disk, q) /\ g[q] = committed
                             /\ q + Cardinality(Pending(q)) <= attempts
      BY DEF Holds
    <3>2. attempts <= Backups /\ q \in Int
      BY <1>4 DEF Counts, Slots
    <3>3. q # Backups
      BY <1>2, <1>4, <1>7, <3>1, <3>2
    <3>4. q + Cardinality(Pending(q)') <= attempts'
      BY <1>2, <1>3, <1>4, <3>1, <3>2
    <3> QED BY <1>3, <1>7, <2>1, <3>1, <3>3, <3>4
  <2>5. Files(g)'
    <3>1. ASSUME Firm' PROVE Reaches(g, committed, 0)'
      <4>1. PICK b \in Nat : b = committed /\ b = committed'
        BY <1>3, <1>4
      <4>2. Reaches(g, b, 0)' /\ 0 \in Slots
        BY <1>5, <2>3, <3>1, <4>1 DEF Files, Slots
      <4> QED BY <4>1, <4>2 DEF Reaches
    <3>2. ASSUME Firm', NEW r \in Readers, Searching(r)'
          PROVE  Reaches(g, reader[r].base, reader[r].slot)'
      <4>1. reader[r].base \in Nat /\ reader[r].slot \in Slots
        BY DEF TypeOK, ReaderState
      <4>2. PICK b \in Nat, s \in Slots :
               /\ b = reader[r].base /\ b = reader'[r].base
               /\ s = reader[r].slot /\ s = reader'[r].slot
        BY <1>3, <4>1
      <4>3. Reaches(g, b, s)'
        BY <1>5, <2>3, <3>2, <4>2 DEF Files
      <4> QED BY <4>2, <4>3 DEF Reaches
    <3> QED BY <1>3, <1>5, <2>2, <2>4, <3>1, <3>2 DEF Files
  <2> QED BY <2>5
<1>8. CASE i # Backups /\ Present(disk, i)
  <2>0. i + 1 \in Slots /\ disk'[i + 1] = disk[i] /\ i \in Int /\ i < i + 1
    BY <1>1, <1>8 DEF Slots
  <2>1. PICK h \in [Slots -> Nat] :
           /\ h[i + 1] = g[i] /\ \A j \in Slots : j # i + 1 => h[j] = g[j]
    <3>1. [g EXCEPT ![i + 1] = g[i]] \in [Slots -> Nat]
      OBVIOUS
    <3> QED BY <2>0, <3>1
  <2>2. /\ \A j \in Slots : Present(disk, j)' <=>
             (j = i + 1 \/ (Present(disk, j) /\ j # i))
        /\ \A j \in Slots : Good(disk, j)' =>
             (j = i + 1 /\ disk'[j] = disk[i] /\ Good(disk, i))
               \/ (j # i /\ j # i + 1 /\ disk'[j] = disk[j])
    BY <1>1, <1>8, <2>0 DEF Present, Good
  <2>3. \A j \in Slots : (j < i + 1 <=> j < i \/ j = i) /\ (i + 1 < j => i < j)
    BY DEF Slots
  <2>4. Numbers(h)'
    <3>1. \A j \in Slots : Good(disk, j)' => h[j] = disk'[j]
      BY <2>0, <2>1, <2>2 DEF Files, Numbers, Good
    <3>2. ASSUME NEW j \in Slots, Present(disk, j)'
          PROVE  /\ 0 < h[j] /\ h[j] <= committed'
                 /\ j + Cardinality(Pending(j)') <= issued' - h[j]
      <4>1. CASE j = i + 1
        <5>1. /\ 0 < g[i] /\ g[i] <= committed
              /\ i + Cardinality(Pending(i)) <= issued - g[i]
          BY <1>8 DEF Files, Numbers
        <5>2. Cardinality(Pending(i + 1)') <= Cardinality(Pending(i)) - 1
          BY <1>2, <2>0
        <5>3. Cardinality(Pending(i + 1)') \in Nat
              /\ Cardinality(Pending(i)) \in Nat
          BY <1>4, <2>0
        <5>4. (i + 1) + Cardinality(Pending(i + 1)') <= issued - g[i]
          BY <1>4, <2>0, <5>1, <5>2, <5>3
        <5> QED BY <1>3, <2>1, <4>1, <5>1, <5>4
      <4>2. CASE j # i + 1
        <5>1. /\ 0 < g[j] /\ g[j] <= committed
              /\ j + Cardinality(Pending(j)) <= issued - g[j]
          BY <2>2, <3>2, <4>2 DEF Files, Numbers
        <5>2. j \in Int
          BY DEF Slots
        <5>3. j + Cardinality(Pending(j)') <= issued - g[j]
          BY <1>2, <1>4, <5>1, <5>2
        <5> QED BY <1>3, <2>1, <4>2, <5>1, <5>3
      <4> QED BY <4>1, <4>2
    <3>3. ASSUME NEW j \in Slots, NEW k \in Slots, j < k, Present(disk, j)',
                 Present(disk, k)'
          PROVE  h[j] > h[k]
      <4>1. \A a, b \in Slots : a < b /\ Present(disk, a) /\ Present(disk, b)
                                  => g[a] > g[b]
        BY DEF Files, Numbers
      <4>2. CASE j = i + 1
        BY <1>8, <2>1, <2>2, <2>3, <3>3, <4>1, <4>2 DEF Slots
      <4>3. CASE k = i + 1
        BY <1>8, <2>1, <2>2, <2>3, <3>3, <4>1, <4>3 DEF Slots
      <4>4. CASE j # i + 1 /\ k # i + 1
        BY <2>1, <2>2, <3>3, <4>1, <4>4
      <4> QED BY <4>2, <4>3, <4>4
    <3> QED BY <3>1, <3>2, <3>3 DEF Numbers
  <2>5. ASSUME NEW b \in Nat, NEW s \in Slots, Reaches(g, b, s)
        PROVE  Reaches(h, b, s)'
    <3>1. ASSUME NEW q \in Slots, s <= q, Present(disk, q), b <= g[q]
          PROVE  Reaches(h, b, s)'
      <4>1. CASE q = i \/ q = i + 1
        <5>1. b <= g[i] /\ s <= i + 1
          <6>1. CASE q = i
            BY <3>1, <6>1 DEF Slots
          <6>2. CASE q = i + 1
            <7>1. g[i] > g[i + 1]
              BY <1>8, <2>0, <3>1, <6>2 DEF Files, Numbers
            <7>2. g[i] \in Nat /\ g[i + 1] \in Nat
              BY <2>0
            <7> QED BY <3>1, <6>2, <7>1, <7>2
          <6> QED BY <4>1, <6>1, <6>2
        <5>2. Present(disk, i + 1)' /\ b <= h[i + 1]
          BY <2>0, <2>1, <2>2, <5>1
        <5> QED BY <2>0, <5>1, <5>2 DEF Reaches
      <4>2. CASE q # i /\ q # i + 1
        BY <2>1, <2>2, <3>1, <4>2 DEF Reaches
      <4> QED BY <4>1, <4>2
    <3>2. CASE /\ \A j \in Slots : Present(disk, j) => b <= g[j]
               /\ b = 0 \/ issued - b > Backups
      <4>1. \A j \in Slots : Present(disk, j)' => b <= h[j]
        BY <1>8, <2>0, <2>1, <2>2, <3>2
      <4>2. issued' = issued
        BY <1>3
      <4> QED BY <3>2, <4>1, <4>2 DEF Reaches
    <3> QED BY <2>5, <3>1, <3>2 DEF Reaches
  <2>6. Holds(g) => Holds(h)'
    <3> SUFFICES ASSUME Holds(g), 0 < committed
                 PROVE  \E q \in Slots :
                          /\ Present(disk, q)' /\ h[q] = committed'
                          /\ q + Cardinality(Pending(q)') <= attempts'
      BY <1>3 DEF Holds
    <3>1. PICK q \in Slots : /\ Present(disk, q) /\ g[q] = committed
                             /\ q + Cardinality(Pending(q)) <= attempts
      BY DEF Holds
    <3>2. CASE q = i
      <4>1. Cardinality(Pending(i + 1)') <= Cardinality(Pending(i)) - 1
        BY <1>2, <2>0
      <4>2. Cardinality(Pending(i + 1)') \in Nat
            /\ Cardinality(Pending(i)) \in Nat
        BY <1>4, <2>0
      <4>3. (i + 1) + Cardinality(Pending(i + 1)') <= attempts
        BY <1>4, <2>0, <3>1, <3>2, <4>1, <4>2
      <4> QED BY <1>3, <2>0, <2>1, <2>2, <3>1, <3>2, <4>3
    <3>3. q # i + 1
      <4>1. q = i + 1 => g[i] > g[i + 1] /\ g[i] <= committed
        BY <1>8, <2>0, <3>1 DEF Files, Numbers
      <4> QED BY <1>4, <3>1, <4>1
    <3>4. CASE q # i
      <4>0. q \in Int /\ Cardinality(Pending(q)') <= Cardinality(Pending(q))
            /\ Cardinality(Pending(q)) \in Nat
            /\ Cardinality(Pending(q)') \in Nat
        BY <1>2, <1>4 DEF Slots
      <4>1. q + Cardinality(Pending(q)') <= attempts'
        BY <1>3, <1>4, <3>1, <4>0
      <4> QED BY <1>3, <2>1, <2>2, <3>1, <3>3, <3>4, <4>1
    <3> QED BY <3>2, <3>4
  <2>7. Files(h)'
    <3>1. ASSUME Firm' PROVE Reaches(h, committed, 0)'
      <4>1. PICK b \in Nat : b = committed /\ b = committed'
        BY <1>3, <1>4
      <4>2. Reaches(h, b, 0)' /\ 0 \in Slots
        BY <1>5, <2>5, <3>1, <4>1 DEF Files, Slots
      <4> QED BY <4>1, <4>2 DEF Reaches
    <3>2. ASSUME Firm', NEW r \in Readers, Searching(r)'
          PROVE  Reaches(h, reader[r].base, reader[r].slot)'
      <4>1. reader[r].base \in Nat /\ reader[r].slot \in Slots
        BY DEF TypeOK, ReaderState
      <4>2. PICK b \in Nat, s \in Slots :
               /\ b = reader[r].base /\ b = reader'[r].base
               /\ s = reader[r].slot /\ s = reader'[r].slot
        BY <1>3, <4>1
      <4>3. Reaches(h, b, s)'
        BY <1>5, <2>5, <3>2, <4>2 DEF Files
      <4> QED BY <4>2, <4>3 DEF Reaches
    <3> QED BY <1>3, <1>5, <2>4, <2>6, <3>1, <3>2 DEF Files
  <2> QED BY <2>7
<1> QED BY <1>6, <1>7, <1>8

(* The rename that commits: slot 0 has the newest file.                    *)
LEMMA ReplaceFiles ==
  ASSUME TypeOK, TypeOK', Counts, Counts', NEW w \in Writers, Replace(w),
         \A r \in Readers : reader[r].base <= committed,
         NEW g \in [Slots -> Nat], Files(g)
  PROVE  \E h \in [Slots -> Nat] : Files(h)'
<1> USE StoreAssumption
<1>0. /\ issued \in Nat /\ attempts \in Nat /\ committed \in Nat
      /\ \A q \in Slots : /\ Cardinality(Pending(q)) \in Nat
                          /\ Cardinality(Pending(q)') \in Nat
      /\ Cardinality(Saving) \in Nat
      /\ committed + Cardinality(Saving) <= issued /\ 0 \in Slots
  BY PendingFinite, PendingAfter, FS_CardinalityType, SMTT(30)
  DEF TypeOK, Counts, Slots
<1>1. /\ UNCHANGED <<reader, issued, damage, policy>>
      /\ committed' = committed + 1
      /\ attempts' = Cardinality(Saving \ {w})
      /\ disk' = [disk EXCEPT ![0] = committed + 1]
  BY DEF Replace
<1>2. /\ disk'[0] = committed + 1
      /\ \A j \in Slots : j # 0 => disk'[j] = disk[j]
      /\ Present(disk, 0)'
  BY <1>0, <1>1 DEF TypeOK, Present
<1>3. \A j \in Slots : Present(disk, j)' <=> j = 0 \/ Present(disk, j)
  BY <1>2 DEF Present
<1>4. Cardinality(Saving \ {w}) = Cardinality(Saving) - 1
  BY SavingEnds
<1>5. \A q \in Slots : /\ Cardinality(Pending(q)') <= Cardinality(Pending(q))
                       /\ Cardinality(Pending(q)') <= Cardinality(Saving \ {w})
  BY ReplacePending
<1>6. (Firm' <=> Firm) /\ \A r \in Readers : Searching(r)' <=> Searching(r)
  BY <1>1 DEF Firm, Searching
<1>7. PICK n \in Nat : n = committed + 1 /\ n = committed'
  BY <1>0, <1>1
<1>8. PICK h \in [Slots -> Nat] :
         h[0] = n /\ \A j \in Slots : j # 0 => h[j] = g[j]
  <2>1. [g EXCEPT ![0] = n] \in [Slots -> Nat]
    OBVIOUS
  <2> QED BY <1>0, <2>1
<1>9. \A j \in Slots : Present(disk, j) => 0 < g[j] /\ g[j] <= committed
  BY DEF Files, Numbers
<1>10. Numbers(h)'
  <2>1. \A j \in Slots : Good(disk, j)' => h[j] = disk'[j]
    BY <1>0, <1>2, <1>7, <1>8 DEF Files, Numbers, Good
  <2>2. ASSUME NEW j \in Slots, Present(disk, j)'
        PROVE  /\ 0 < h[j] /\ h[j] <= committed'
               /\ j + Cardinality(Pending(j)') <= issued' - h[j]
    <3>1. CASE j = 0
      <4>1. Cardinality(Pending(0)') <= Cardinality(Saving) - 1
            /\ Cardinality(Pending(0)') \in Nat
        BY <1>0, <1>4, <1>5
      <4>2. 0 + Cardinality(Pending(0)') <= issued - n
        BY <1>0, <1>7, <4>1
      <4> QED BY <1>0, <1>1, <1>7, <1>8, <3>1, <4>2
    <3>2. CASE j # 0
      <4>1. /\ 0 < g[j] /\ g[j] <= committed
            /\ j + Cardinality(Pending(j)) <= issued - g[j]
        BY <1>3, <2>2, <3>2 DEF Files, Numbers
      <4>2. /\ Cardinality(Pending(j)') <= Cardinality(Pending(j)) /\ j \in Int
            /\ Cardinality(Pending(j)) \in Nat
            /\ Cardinality(Pending(j)') \in Nat
        BY <1>0, <1>5 DEF Slots
      <4>3. j + Cardinality(Pending(j)') <= issued - g[j]
        BY <1>0, <4>1, <4>2
      <4>4. g[j] <= committed + 1
        BY <1>0, <4>1
      <4> QED BY <1>1, <1>8, <3>2, <4>1, <4>3, <4>4
    <3> QED BY <3>1, <3>2
  <2>3. ASSUME NEW j \in Slots, NEW k \in Slots, j < k, Present(disk, j)',
               Present(disk, k)'
        PROVE  h[j] > h[k]
    <3>1. k # 0
      BY <2>3 DEF Slots
    <3>2. Present(disk, k) /\ h[k] = g[k] /\ g[k] <= committed
      BY <1>3, <1>8, <1>9, <2>3, <3>1
    <3>3. CASE j = 0
      BY <1>0, <1>7, <1>8, <3>2, <3>3
    <3>4. CASE j # 0
      BY <1>3, <1>8, <2>3, <3>2, <3>4 DEF Files, Numbers
    <3> QED BY <3>3, <3>4
  <2> QED BY <2>1, <2>2, <2>3 DEF Numbers
<1>11. Reaches(h, committed, 0)'
  <2>1. Reaches(h, n, 0)'
    BY <1>0, <1>2, <1>8 DEF Reaches
  <2> QED BY <1>7, <2>1 DEF Reaches
<1>12. ASSUME Firm', NEW r \in Readers, Searching(r)'
       PROVE  Reaches(h, reader[r].base, reader[r].slot)'
  <2>1. reader[r].base \in Nat /\ reader[r].slot \in Slots
    BY DEF TypeOK, ReaderState
  <2>2. PICK b \in Nat, s \in Slots :
           /\ b = reader[r].base /\ b = reader'[r].base
           /\ s = reader[r].slot /\ s = reader'[r].slot
    BY <1>1, <2>1
  <2>3. b <= n
    <3>1. b <= committed
      BY <2>2
    <3> QED BY <1>0, <1>7, <3>1
  <2>4. Reaches(g, b, s)
    BY <1>6, <1>12, <2>2 DEF Files
  <2>5. Reaches(h, b, s)'
    <3>1. ASSUME NEW q \in Slots, s <= q, Present(disk, q), b <= g[q]
          PROVE  Reaches(h, b, s)'
      <4>1. b <= h[q] /\ Present(disk, q)'
        BY <1>3, <1>8, <2>3, <3>1
      <4> QED BY <3>1, <4>1 DEF Reaches
    <3>2. CASE /\ \A j \in Slots : Present(disk, j) => b <= g[j]
               /\ b = 0 \/ issued - b > Backups
      <4>1. \A j \in Slots : Present(disk, j)' => b <= h[j]
        BY <1>3, <1>8, <2>3, <3>2
      <4>2. issued' = issued
        BY <1>1
      <4> QED BY <3>2, <4>1, <4>2 DEF Reaches
    <3> QED BY <2>4, <3>1, <3>2 DEF Reaches
  <2> QED BY <2>2, <2>5 DEF Reaches
<1>13. Holds(h)'
  <2>1. 0 + Cardinality(Pending(0)') <= attempts'
    BY <1>0, <1>1, <1>5
  <2>2. h[0] = committed'
    BY <1>7, <1>8
  <2> QED BY <1>0, <1>2, <2>1, <2>2 DEF Holds
<1> QED BY <1>10, <1>11, <1>12, <1>13 DEF Files

(* What the search of r needs when r begins or goes on to the next slot.   *)
LEMMA SearchGoesOn ==
  ASSUME TypeOK, Counts, NEW g \in [Slots -> Nat], Files(g), Firm,
         NEW r \in Readers, BeginLoad(r) \/ Exists(r) \/ Read(r), Searching(r)'
  PROVE  Reaches(g, reader'[r].base, reader'[r].slot)
<1> USE StoreAssumption
<1> DEFINE i == reader[r].slot
<1>0. /\ reader[r] \in ReaderState /\ i \in Slots /\ damage' = damage
      /\ disk \in [Slots -> Content]
  BY DEF BeginLoad, Exists, Read, TypeOK, ReaderState
<1>1. CASE BeginLoad(r)
  <2>1. reader'[r].base = committed /\ reader'[r].slot = 0
    BY <1>1 DEF BeginLoad, TypeOK
  <2> QED BY <2>1 DEF Files
<1>2. ASSUME NEW p \in BOOLEAN, NextCandidate(r, p), ~Present(disk, i),
             reader[r].stage \in {"exists", "read"}
      PROVE  Reaches(g, reader'[r].base, reader'[r].slot)
  <2>1. i < Backups
    <3>1. ~(i < Backups) => reader'[r].stage \in {"give_up", "defaulted"}
      BY <1>2, Candidate
    <3> QED BY <3>1 DEF Searching
  <2>2. /\ reader'[r].slot = i + 1 /\ reader'[r].base = reader[r].base
        /\ reader'[r].present = (reader[r].present \/ p)
    BY <1>2, <2>1, Candidate
  <2>3. Searching(r)
    BY <1>0, <1>2, <2>2 DEF Searching
  <2>4. Reaches(g, reader[r].base, i)
    BY <2>3 DEF Files
  <2>5. \A q \in Slots : i <= q /\ Present(disk, q) => i + 1 <= q
    BY <1>0, <1>2 DEF Slots
  <2> QED BY <2>2, <2>4, <2>5 DEF Reaches
<1>3. CASE Exists(r)
  <2>1. CASE Present(disk, i)
    <3>1. /\ reader'[r].slot = i /\ reader'[r].base = reader[r].base
          /\ reader'[r].present = reader[r].present
      BY <1>0, <1>3, <2>1 DEF Exists, ReaderState, TypeOK
    <3>2. Searching(r)
      BY <1>0, <1>3, <3>1 DEF Exists, Searching
    <3> QED BY <3>1, <3>2 DEF Files
  <2> QED BY <1>2, <1>3, <2>1 DEF Exists
<1>4. CASE Read(r)
  <2>1. CASE Good(disk, i)
    <3>1. reader'[r].stage = "loaded"
      BY <1>4, <2>1, Loaded
    <3> QED BY <3>1 DEF Searching
  <2>2. CASE ~Good(disk, i)
    <3>1. CASE NextCandidate(r, TRUE)
      <4>1. reader'[r].present
        BY <3>1, Candidate
      <4>2. ~Present(disk, i)
        BY <1>0, <2>2, <4>1, Intact DEF Searching
      <4> QED BY <1>2, <1>4, <3>1, <4>2 DEF Read
    <3>2. CASE reader' = [reader EXCEPT ![r].stage = "raised"]
      <4>1. reader'[r].stage = "raised"
        BY <1>0, <3>2 DEF ReaderState, TypeOK
      <4> QED BY <4>1 DEF Searching
    <3> QED BY <1>4, <2>2, <3>1, <3>2 DEF Read
  <2> QED BY <2>1, <2>2
<1> QED BY <1>1, <1>3, <1>4

(* The steps of a load, which at most moves a wreck aside.                 *)
LEMMA LoadFiles ==
  ASSUME TypeOK, TypeOK', Counts, Counts', Locked, NEW r \in Readers,
         LoadStep(r), NEW g \in [Slots -> Nat], Files(g)
  PROVE  Files(g)'
<1> USE StoreAssumption
<1>0. /\ UNCHANGED <<writer, issued, committed, attempts, damage, policy>>
      /\ \A q \in Readers : q # r => reader'[q] = reader[q]
      /\ disk' # disk => /\ policy.preserve /\ reader[r].stage = "give_up"
                         /\ disk'[0] = Absent
                         /\ \A i \in Slots : i # 0 => disk'[i] = disk[i]
  BY LoadFrame
<1>1. \A q \in Slots : Pending(q)' = Pending(q)
  BY <1>0, SamePending
<1>2. Numbers(g)'
  <2>1. /\ \A i \in Slots : Present(disk, i)' => Present(disk, i)
        /\ \A i \in Slots : Good(disk, i)' => disk'[i] = disk[i]
    BY <1>0 DEF Present, Good
  <2>2. \A i \in Slots : Cardinality(Pending(i)') - Cardinality(Pending(i))
                           <= issued' - issued
    <3>1. /\ issued' = issued /\ issued \in Nat
          /\ \A i \in Slots : Cardinality(Pending(i)) \in Nat
      BY <1>0, PendingFinite DEF TypeOK
    <3> QED BY <1>1, <3>1
  <2> QED BY <1>0, <2>1, <2>2, KeepNumbers DEF Files
<1>3. CASE ~Firm'
  BY <1>2, <1>3 DEF Files
<1>4. CASE Firm'
  <2>1. Firm
    BY <1>0, <1>4 DEF Firm
  <2>2. disk' = disk
    <3>1. ASSUME disk' # disk PROVE FALSE
      <4>1. damage = 0 /\ policy.exclusive
        BY <1>0, <2>1, <3>1 DEF Firm
      <4>2. Knows(r)
        BY <4>1 DEF Locked
      <4> QED BY <1>0, <3>1, <4>1, <4>2 DEF Knows
    <3> QED BY <3>1
  <2>3. Reaches(g, committed, 0)'
    BY <1>0, <2>1, <2>2 DEF Files, Reaches, Present
  <2>4. ASSUME NEW q \in Readers, Searching(q)'
        PROVE  Reaches(g, reader[q].base, reader[q].slot)'
    <3>1. Reaches(g, reader'[q].base, reader'[q].slot)
      <4>1. CASE q # r
        BY <1>0, <2>1, <2>4, <4>1 DEF Files, Searching
      <4>2. CASE q = r
        <5>1. BeginLoad(r) \/ Exists(r) \/ Read(r)
          <6>1. ~(GiveUp(r) \/ EndLoad(r))
            BY <2>4, <4>2 DEF GiveUp, EndLoad, IdleReader, Searching, TypeOK,
                              ReaderState
          <6> QED BY <6>1 DEF LoadStep
        <5> QED BY <2>1, <2>4, <4>2, <5>1, SearchGoesOn
      <4> QED BY <4>1, <4>2
    <3> QED BY <1>0, <2>2, <3>1 DEF Reaches, Present
  <2>5. Holds(g) => Holds(g)'
    BY <1>0, <1>1, <2>2 DEF Holds, Present
  <2> QED BY <1>0, <1>2, <2>1, <2>3, <2>4, <2>5 DEF Files
<1> QED BY <1>3, <1>4

(* Every step leaves the files numbered.                                   *)
LEMMA FilesStep ==
  ASSUME TypeOK, TypeOK', Counts, Counts', Locked, Answers, [Next]_vars,
         NEW g \in [Slots -> Nat], Files(g)
  PROVE  \E h \in [Slots -> Nat] : Files(h)'
<1>1. ASSUME NEW w \in Writers, Stage(w) \/ FailSave(w) PROVE Files(g)'
  BY <1>1, QuietFiles
<1>2. ASSUME NEW w \in Writers, Rotate(w)
      PROVE  \E h \in [Slots -> Nat] : Files(h)'
  BY <1>2, RotateFiles
<1>3. ASSUME NEW w \in Writers, Replace(w)
      PROVE  \E h \in [Slots -> Nat] : Files(h)'
  BY <1>3, ReplaceFiles DEF Answers, Answer
<1>4. ASSUME NEW r \in Readers, LoadStep(r) PROVE Files(g)'
  BY <1>4, LoadFiles
<1>5. CASE Crash \/ UNCHANGED vars \/ \E i \in Slots : DamageFile(i)
  BY <1>5, QuietFiles
<1> QED BY <1>1, <1>2, <1>3, <1>4, <1>5, NextCases

---------------------------------------------------------------------------
(* What the loads answer.                                                  *)

(* A search that has come to the end of the slots without a document was   *)
(* for nothing, or was overtaken.                                          *)
LEMMA NothingLeft ==
  ASSUME TypeOK, Counts, NEW g \in [Slots -> Nat], Files(g), Firm,
         NEW r \in Readers, Searching(r), ~Present(disk, Backups),
         reader[r].slot = Backups
  PROVE  reader[r].base = 0 \/ Overtaken(r)
<1>1. Reaches(g, reader[r].base, Backups)
  BY DEF Files
<1>2. \A q \in Slots : Backups <= q => q = Backups
  BY StoreAssumption DEF Slots
<1> QED BY <1>1, <1>2 DEF Reaches, Overtaken

(* A search that finds a document finds one that is new enough.            *)
LEMMA FoundIsNew ==
  ASSUME TypeOK, NEW g \in [Slots -> Nat], Files(g), Firm,
         NEW r \in Readers, Searching(r), Good(disk, reader[r].slot)
  PROVE  reader[r].base <= disk[reader[r].slot]
<1>1. PICK b \in Nat, s \in Slots : b = reader[r].base /\ s = reader[r].slot
  BY DEF TypeOK, ReaderState
<1>2. Reaches(g, b, s)
  BY <1>1 DEF Files
<1>3. g[s] = disk[s] /\ Present(disk, s)
  BY <1>1, StoreAssumption DEF Files, Numbers, Good, Present
<1>4. ASSUME NEW q \in Slots, s <= q, Present(disk, q), b <= g[q]
      PROVE  b <= g[s]
  <2>1. q # s => g[s] > g[q]
    <3>1. q # s => s < q
      BY <1>4 DEF Slots
    <3> QED BY <1>3, <1>4, <3>1 DEF Files, Numbers
  <2>2. g[s] \in Nat /\ g[q] \in Nat
    OBVIOUS
  <2> QED BY <1>4, <2>1, <2>2
<1> QED BY <1>1, <1>2, <1>3, <1>4 DEF Reaches

(* Every step keeps the answers right.                                     *)
LEMMA AnswerStep ==
  ASSUME TypeOK, TypeOK', Counts, Locked, Answers, [Next]_vars,
         NEW g \in [Slots -> Nat], Files(g)
  PROVE  Answers'
<1> USE StoreAssumption
<1>0. /\ committed \in Nat /\ issued \in Nat /\ damage \in Nat
      /\ disk \in [Slots -> Content]
  BY DEF TypeOK
<1>1. /\ issued <= issued' /\ committed <= committed' /\ policy' = policy
      /\ damage' = 0 => damage = 0
  <2>1. \/ UNCHANGED <<issued, committed, damage, policy>>
        \/ /\ issued' = issued + 1 /\ UNCHANGED <<committed, damage, policy>>
        \/ /\ committed' = committed + 1 /\ UNCHANGED <<issued, damage, policy>>
        \/ /\ damage' = damage + 1 /\ UNCHANGED <<issued, committed, policy>>
    BY DEF Next, Stage, Rotate, Replace, FailSave, BeginLoad, Exists, Read,
           GiveUp, EndLoad, Crash, DamageFile, vars
  <2> QED BY <1>0, <2>1
<1>2. (Firm' => Firm) /\ issued' \in Nat /\ committed' \in Nat
  BY <1>1 DEF Firm, TypeOK
<1>3. ASSUME NEW r \in Readers, reader'[r] = IdleReader PROVE Answer(r)'
  BY <1>2, <1>3 DEF Answer, IdleReader
<1>4. ASSUME NEW r \in Readers, reader'[r].base = reader[r].base
      PROVE  /\ reader'[r].base <= committed'
             /\ reader[r].base = 0 \/ Overtaken(r) =>
                  reader'[r].base = 0 \/ Overtaken(r)'
  <2>1. PICK b \in Nat : b = reader[r].base /\ b = reader'[r].base
    BY <1>4 DEF TypeOK, ReaderState
  <2>2. b <= committed
    BY <2>1 DEF Answers, Answer
  <2>3. b <= committed'
    BY <1>0, <1>1, <1>2, <2>2
  <2>4. b = 0 \/ issued - b > Backups => b = 0 \/ issued' - b > Backups
    BY <1>0, <1>1, <1>2, StillOvertaken
  <2> QED BY <2>1, <2>3, <2>4 DEF Overtaken
<1>5. ASSUME NEW r \in Readers, reader'[r] = reader[r] PROVE Answer(r)'
  BY <1>1, <1>2, <1>4, <1>5 DEF Answers, Answer
<1>6. ASSUME NEW r \in Readers, BeginLoad(r) PROVE Answer(r)'
  <2>1. /\ reader'[r].base = committed /\ committed' = committed
        /\ reader'[r].stage = "exists"
    BY <1>6 DEF BeginLoad, TypeOK
  <2> QED BY <1>0, <2>1 DEF Answer
<1>7. ASSUME NEW r \in Readers, NEW p \in BOOLEAN, NextCandidate(r, p),
             disk' = disk, damage' = damage,
             reader[r].stage \in {"exists", "read"},
             ~Good(disk, reader[r].slot),
             ~p => ~Present(disk, reader[r].slot)
      PROVE  Answer(r)'
  <2>1. /\ reader'[r].base = reader[r].base
        /\ reader'[r].present = (reader[r].present \/ p)
        /\ reader'[r].stage \in {"exists", "give_up", "defaulted"}
        /\ reader'[r].stage # "exists" => reader[r].slot = Backups
        /\ reader'[r].stage = "defaulted" => ~(reader[r].present \/ p)
    BY <1>7, Candidate
  <2>2. ASSUME Firm, reader'[r].stage # "exists",
               damage = 0 \/ reader'[r].stage = "defaulted"
        PROVE  reader[r].base = 0 \/ Overtaken(r)
    <3>1. Searching(r)
      BY <1>7, <2>1, <2>2 DEF Searching
    <3>2. ~Present(disk, Backups)
      BY <1>0, <1>7, <2>1, <2>2, Intact DEF Slots
    <3> QED BY <2>1, <2>2, <3>1, <3>2, NothingLeft
  <2>3. ~policy.preserve => Firm
    BY DEF Firm
  <2> QED BY <1>1, <1>2, <1>4, <1>7, <2>1, <2>2, <2>3 DEF Answer
<1>8. ASSUME NEW r \in Readers, Exists(r) PROVE Answer(r)'
  <2>1. CASE Present(disk, reader[r].slot)
    <3>1. reader'[r].base = reader[r].base /\ reader'[r].stage = "read"
      BY <1>8, <2>1 DEF Exists, TypeOK, ReaderState
    <3> QED BY <1>4, <3>1 DEF Answer
  <2>2. CASE ~Present(disk, reader[r].slot)
    <3>1. ~Good(disk, reader[r].slot)
      BY <2>2 DEF Present, Good
    <3> QED BY <1>7, <1>8, <2>2, <3>1 DEF Exists
  <2> QED BY <2>1, <2>2
<1>9. ASSUME NEW r \in Readers, Read(r) PROVE Answer(r)'
  <2>1. CASE Good(disk, reader[r].slot)
    <3>1. /\ reader'[r].base = reader[r].base /\ reader'[r].stage = "loaded"
          /\ reader'[r].result = disk[reader[r].slot]
          /\ damage' = damage /\ reader[r].stage = "read"
      BY <1>9, <2>1, Loaded DEF Read
    <3>2. Firm /\ damage = 0 => reader[r].base <= disk[reader[r].slot]
      BY <2>1, <3>1, FoundIsNew DEF Searching
    <3> QED BY <1>2, <1>4, <3>1, <3>2 DEF Answer
  <2>2. CASE ~Good(disk, reader[r].slot) /\ NextCandidate(r, TRUE)
    BY <1>7, <1>9, <2>2 DEF Read
  <2>3. CASE /\ disk[reader[r].slot] = Garbled
             /\ reader' = [reader EXCEPT ![r].stage = "raised"]
    <3>1. /\ reader'[r].stage = "raised" /\ damage' = damage
          /\ reader'[r].base = reader[r].base
      BY <1>9, <2>3 DEF Read, TypeOK, ReaderState
    <3>2. damage # 0
      <4>1. reader[r].slot \in Slots
        BY DEF TypeOK, ReaderState
      <4> QED BY <2>3, <4>1 DEF Counts, Damaged
    <3> QED BY <1>1, <1>4, <3>1, <3>2 DEF Answers, Answer
  <2> QED BY <1>9, <2>1, <2>2, <2>3 DEF Read
<1>10. ASSUME NEW r \in Readers, GiveUp(r) PROVE Answer(r)'
  <2>1. /\ reader'[r].base = reader[r].base /\ reader[r].stage = "give_up"
        /\ reader'[r].stage = IF policy.unrecoverable = "default"
                              THEN "defaulted" ELSE "raised"
    BY <1>10 DEF GiveUp, TypeOK, ReaderState
  <2>2. Firm /\ damage = 0 => reader[r].base = 0 \/ Overtaken(r)
    BY <2>1 DEF Answers, Answer
  <2> QED BY <1>1, <1>2, <1>4, <2>1, <2>2 DEF Answer
<1>11. ASSUME NEW r \in Readers, EndLoad(r) PROVE reader'[r] = IdleReader
  BY <1>11 DEF EndLoad, TypeOK
<1>12. ASSUME NEW q \in Readers, LoadStep(q) PROVE Answers'
  <2>1. \A r \in Readers : r # q => Answer(r)'
    BY <1>5, <1>12, LoadFrame
  <2>2. Answer(q)'
    BY <1>3, <1>6, <1>8, <1>9, <1>10, <1>11, <1>12 DEF LoadStep
  <2> QED BY <2>1, <2>2 DEF Answers
<1>13. CASE UNCHANGED reader
  BY <1>5, <1>13 DEF Answers
<1>14. CASE Crash
  BY <1>3, <1>14 DEF Crash, Answers
<1> QED BY <1>12, <1>13, <1>14, NextCases
     DEF Stage, Rotate, Replace, FailSave, DamageFile, vars

---------------------------------------------------------------------------
(* What damage costs.                                                      *)

(* The lost saves can be counted.                                          *)
LEMMA LostFinite ==
  ASSUME TypeOK
  PROVE  IsFiniteSet(Lost) /\ Cardinality(Lost) \in Nat
<1>1. IsFiniteSet(1 .. committed)
  BY FS_Interval DEF TypeOK
<1>2. Lost \subseteq 1 .. committed
  BY DEF Lost
<1> QED BY <1>1, <1>2, FS_Subset, FS_CardinalityType

(* Where saves exclude each other the one under way is the only one.       *)
LEMMA OneSaver ==
  ASSUME Locked, policy.exclusive, NEW w \in Saving
  PROVE  Saving = {w} /\ Cardinality(Saving) = 1
<1>1. Saving = {w}
  BY DEF Locked
<1> QED BY <1>1, FS_Singleton

(* A step that loses no file of a save loses none of those counted.        *)
LEMMA NoneLost ==
  ASSUME TypeOK, FewLost, policy' = policy, interrupted' = interrupted,
         damage' = damage, Lost' \subseteq Lost
  PROVE  FewLost'
<1>1. Cardinality(Lost') <= Cardinality(Lost)
  BY LostFinite, FS_Subset
<1>2. IsFiniteSet(Lost')
  BY LostFinite, FS_Subset
<1>3. /\ Cardinality(Lost) \in Nat /\ Cardinality(Lost') \in Nat
      /\ damage \in Nat
  BY <1>2, LostFinite, FS_CardinalityType DEF TypeOK
<1> QED BY <1>1, <1>3 DEF FewLost

(* Every step keeps the layout, and loses no save but by damage.           *)
LEMMA LayoutStep ==
  ASSUME TypeOK, TypeOK', Counts, Locked, Layout, FewLost, [Next]_vars
  PROVE  Layout' /\ FewLost'
<1> USE StoreAssumption
<1>0. /\ committed \in Nat /\ damage \in Nat /\ 0 \in Slots
      /\ disk \in [Slots -> Content]
      /\ \A i \in Slots : i \in Int /\ 0 <= i /\ i <= Backups
      /\ Cardinality(Saving) \in Nat
  BY FS_CardinalityType DEF TypeOK, Slots, Counts
<1>1. /\ policy' = policy /\ (interrupted => interrupted')
  <2>1. policy' = policy /\ (interrupted' = interrupted \/ interrupted' = TRUE)
    BY DEF Next, Stage, Rotate, Replace, FailSave, BeginLoad, Exists, Read,
           GiveUp, EndLoad, Crash, DamageFile, vars
  <2> QED BY <2>1
<1>2. CASE ~(policy.exclusive /\ ~interrupted /\ ~interrupted')
  BY <1>1, <1>2 DEF Layout, FewLost
<1>3. CASE policy.exclusive /\ ~interrupted /\ ~interrupted'
  <2>0. interrupted' = interrupted
    BY <1>3 DEF TypeOK
  <2>1. ASSUME NEW w \in Writers, Stage(w) PROVE Layout' /\ FewLost'
    <3>1. /\ Saving = {} /\ disk' = disk /\ committed' = committed
          /\ damage' = damage
          /\ writer'[w] = [stage |-> "rotate", slot |-> Backups]
      BY <1>3, <2>1 DEF Stage, TypeOK
    <3>2. Saving' = {w} /\ Cardinality(Saving') = Cardinality(Saving) + 1
      BY <2>1, <3>1, SavingBegins
    <3>3. Upto(w)' = Backups
      BY <3>1 DEF Upto
    <3>4. Layout'
      <4>1. \A i \in Slots : Good(disk, i)' =>
               /\ disk'[i] = committed' - i /\ i <= Upto(w)'
               /\ i # Upto(w)' + 1 /\ ~(i > Upto(w)')
        BY <1>0, <1>3, <3>1, <3>3 DEF Layout, Good
      <4> QED BY <3>2, <4>1 DEF Layout
    <3>5. Lost' \subseteq Lost
      BY <1>0, <3>1, <3>2 DEF Lost
    <3> QED BY <1>1, <2>0, <3>1, <3>4, <3>5, NoneLost
  <2>2. ASSUME NEW w \in Writers, Rotate(w) PROVE Layout' /\ FewLost'
    <3>0. PICK i \in Slots : i = writer[w].slot
      BY <2>2, SavingRotates
    <3>1. /\ \A j \in Slots : j # i /\ j # i + 1 => disk'[j] = disk[j]
          /\ disk'[i] = Absent
          /\ i = Backups => \A j \in Slots : j # i => disk'[j] = disk[j]
          /\ i # Backups /\ Present(disk, i) =>
               i + 1 \in Slots /\ disk'[i + 1] = disk[i]
          /\ i # Backups /\ ~Present(disk, i) => disk' = disk
      BY <2>2, <3>0, Renamed
    <3>2. /\ Saving' = Saving /\ w \in Saving /\ Saving = {w}
          /\ Cardinality(Saving) = 1
          /\ UNCHANGED <<committed, damage>>
      BY <1>3, <2>2, SavingRotates, OneSaver DEF Rotate
    <3>3. Upto(w) = i /\ Upto(w)' = i - 1
      <4>1. /\ writer[w].stage = "rotate"
            /\ i = 0 => writer'[w].stage = "replace"
            /\ i # 0 => /\ writer'[w].stage = "rotate"
                        /\ writer'[w].slot = i - 1
        BY <2>2, <3>0, SavingRotates DEF Rotate
      <4> QED BY <1>0, <3>0, <4>1 DEF Upto
    <3>4. /\ \A j \in Slots : Good(disk, j) /\ j <= i => disk[j] = committed - j
          /\ \A j \in Slots : Good(disk, j) =>
               /\ j # i + 1 /\ (j > i => disk[j] = committed - j + 1)
      BY <1>3, <3>2, <3>3 DEF Layout
    <3>5. \A j \in Slots : Good(disk, j)' =>
             \/ j # i /\ j # i + 1 /\ disk'[j] = disk[j] /\ Good(disk, j)
             \/ j = i + 1 /\ disk'[j] = disk[i] /\ Good(disk, i)
      BY <3>1, <3>4 DEF Good
    <3>6. Layout'
      <4>1. ASSUME NEW j \in Slots, Good(disk, j)'
            PROVE  /\ j <= i - 1 => disk'[j] = committed - j
                   /\ j # (i - 1) + 1
                   /\ j > i - 1 => disk'[j] = committed - j + 1
        <5>1. CASE j # i /\ j # i + 1 /\ disk'[j] = disk[j] /\ Good(disk, j)
          BY <1>0, <3>4, <5>1
        <5>2. CASE j = i + 1 /\ disk'[j] = disk[i] /\ Good(disk, i)
          BY <1>0, <3>4, <5>2
        <5> QED BY <3>5, <4>1, <5>1, <5>2
      <4> QED BY <3>2, <3>3, <4>1 DEF Layout
    <3>7. Lost' \subseteq Lost
      <4>1. ASSUME NEW k \in 1 .. committed, NEW j \in Slots, disk[j] = k,
                   committed - Backups + 1 <= k
            PROVE  \E q \in Slots : disk'[q] = k
        <5>1. Good(disk, j)
          BY <4>1 DEF Good
        <5>2. CASE j # i
          BY <3>1, <3>4, <4>1, <5>1, <5>2
        <5>3. CASE j = i
          <6>1. k = committed - i
            BY <1>0, <3>4, <4>1, <5>1, <5>3
          <6>2. i # Backups
            BY <1>0, <4>1, <6>1
          <6>3. Present(disk, i)
            BY <5>1, <5>3 DEF Good, Present
          <6> QED BY <3>1, <4>1, <5>3, <6>2, <6>3
        <5> QED BY <5>2, <5>3
      <4> QED BY <3>2, <4>1 DEF Lost
    <3> QED BY <1>1, <2>0, <3>2, <3>6, <3>7, NoneLost
  <2>3. ASSUME NEW w \in Writers, Replace(w) PROVE Layout' /\ FewLost'
    <3>1. /\ w \in Saving /\ Saving' = {} /\ Cardinality(Saving) = 1
          /\ damage' = damage /\ committed' = committed + 1
          /\ disk'[0] = committed + 1
          /\ \A j \in Slots : j # 0 => disk'[j] = disk[j]
      <4>1. w \in Saving /\ Saving' = Saving \ {w}
        BY <2>3, SavingEnds
      <4>2. Saving = {w} /\ Cardinality(Saving) = 1
        BY <1>3, <4>1, OneSaver
      <4>3. disk' = [disk EXCEPT ![0] = committed + 1]
        BY <2>3 DEF Replace
      <4> QED BY <1>0, <2>3, <4>1, <4>2, <4>3 DEF Replace
    <3>2. Upto(w) = -1
      BY <2>3 DEF Upto, Replace
    <3>3. \A j \in Slots : Good(disk, j) => j # 0 /\ disk[j] = committed - j + 1
      <4>1. \A j \in Slots : Good(disk, j) =>
               /\ j # Upto(w) + 1
               /\ j > Upto(w) => disk[j] = committed - j + 1
        BY <1>3, <3>1 DEF Layout
      <4> QED BY <1>0, <3>2, <4>1
    <3>4. Layout'
      <4>1. ASSUME NEW j \in Slots, Good(disk, j)'
            PROVE  disk'[j] = committed' - j
        <5>1. CASE j = 0
          BY <1>0, <3>1, <5>1
        <5>2. CASE j # 0
          BY <1>0, <3>1, <3>3, <4>1, <5>2 DEF Good
        <5> QED BY <5>1, <5>2
      <4> QED BY <3>1, <4>1 DEF Layout
    <3>5. Lost' \subseteq Lost
      <4>1. Cardinality(Saving') = 0
        BY <3>1, FS_EmptySet
      <4>2. ASSUME NEW k \in Lost' PROVE k \in Lost
        <5>1. /\ k \in 1 .. (committed + 1)
              /\ (committed + 1) - Backups <= k
              /\ \A j \in Slots : disk'[j] # k
          BY <1>0, <3>1, <4>1 DEF Lost
        <5>2. k # committed + 1
          BY <1>0, <3>1, <5>1
        <5>3. k \in 1 .. committed /\ committed - Backups + 1 <= k
          BY <1>0, <5>1, <5>2
        <5>4. \A j \in Slots : disk[j] # k
          BY <3>1, <3>3, <5>1, <5>3 DEF Good
        <5> QED BY <3>1, <5>3, <5>4 DEF Lost
      <4> QED BY <4>2
    <3> QED BY <1>1, <2>0, <3>1, <3>4, <3>5, NoneLost
  <2>4. ASSUME NEW r \in Readers, LoadStep(r) PROVE Layout' /\ FewLost'
    <3>1. /\ UNCHANGED <<writer, committed, damage>>
          /\ disk' # disk => /\ reader[r].stage = "give_up"
                             /\ disk'[0] = Absent
                             /\ \A i \in Slots : i # 0 => disk'[i] = disk[i]
      BY <2>4, LoadFrame
    <3>2. Saving' = Saving /\ \A w \in Writers : Upto(w)' = Upto(w)
      BY <3>1 DEF Saving, Upto
    <3>3. \A i \in Slots : /\ Good(disk, i)' => Good(disk, i)
                           /\ Good(disk, i) => disk'[i] = disk[i]
                           /\ Good(disk, i)' => disk'[i] = disk[i]
      <4>1. CASE disk' = disk
        BY <4>1 DEF Good
      <4>2. CASE disk' # disk
        <5>1. \A i \in Slots : ~Good(disk, i)
          BY <1>3, <3>1, <4>2 DEF Locked, Knows
        <5> QED BY <3>1, <4>2, <5>1 DEF Good
      <4> QED BY <4>1, <4>2
    <3>4. Layout'
      <4>1. \A w \in Saving : w \in Writers
        BY DEF Saving
      <4> QED BY <1>3, <3>1, <3>2, <3>3, <4>1 DEF Layout
    <3>5. Lost' \subseteq Lost
      BY <3>1, <3>2, <3>3 DEF Lost, Good
    <3> QED BY <1>1, <2>0, <3>1, <3>4, <3>5, NoneLost
  <2>5. ASSUME NEW i \in Slots, DamageFile(i) PROVE Layout' /\ FewLost'
    <3>1. /\ UNCHANGED <<writer, committed>> /\ damage' = damage + 1
          /\ disk'[i] \in Damaged
          /\ \A j \in Slots : j # i => disk'[j] = disk[j]
          /\ disk[i] \in Nat
      BY <1>0, <2>5 DEF DamageFile, Good
    <3>2. Saving' = Saving /\ \A w \in Writers : Upto(w)' = Upto(w)
      BY <3>1 DEF Saving, Upto
    <3>3. \A j \in Slots : Good(disk, j)' =>
             Good(disk, j) /\ disk'[j] = disk[j]
      BY <3>1 DEF Good
    <3>4. Layout'
      <4>1. \A w \in Saving : w \in Writers
        BY DEF Saving
      <4> QED BY <1>3, <3>1, <3>2, <3>3, <4>1 DEF Layout
    <3>5. Lost' \subseteq Lost \cup {disk[i]}
      BY <3>1, <3>2 DEF Lost
    <3>6. Cardinality(Lost') <= Cardinality(Lost) + 1
          /\ Cardinality(Lost') \in Nat
      <4>1. /\ IsFiniteSet(Lost \cup {disk[i]})
            /\ Cardinality(Lost \cup {disk[i]}) =
                 IF disk[i] \in Lost THEN Cardinality(Lost)
                 ELSE Cardinality(Lost) + 1
        BY LostFinite, FS_AddElement
      <4>2. /\ IsFiniteSet(Lost')
            /\ Cardinality(Lost') <= Cardinality(Lost \cup {disk[i]})
        BY <3>5, <4>1, FS_Subset
      <4>3. Cardinality(Lost) \in Nat /\ Cardinality(Lost') \in Nat
        BY <4>2, LostFinite, FS_CardinalityType
      <4> QED BY <4>1, <4>2, <4>3
    <3>7. Cardinality(Lost) <= damage /\ Cardinality(Lost) \in Nat
      BY <1>3, LostFinite DEF FewLost
    <3>8. Cardinality(Lost') <= damage'
      BY <1>0, <3>1, <3>6, <3>7
    <3> QED BY <3>4, <3>8 DEF FewLost
  <2>6. CASE UNCHANGED vars
    <3>1. Saving' = Saving /\ Lost' = Lost
      BY <2>6 DEF vars, Saving, Lost
    <3>2. Layout'
      BY <2>6, <3>1 DEF vars, Layout, Upto, Good
    <3> QED BY <2>6, <3>1, <3>2 DEF vars, FewLost
  <2>7. (Crash \/ \E w \in Writers : FailSave(w)) => interrupted'
    BY DEF Crash, FailSave
  <2> QED BY <1>3, <2>1, <2>2, <2>3, <2>4, <2>5, <2>6, <2>7, NextCases
<1> QED BY <1>2, <1>3

---------------------------------------------------------------------------
(* The inductive invariant.                                                *)

(* It holds at first.                                                      *)
LEMMA InitIInv == Init => IInv
<1> SUFFICES ASSUME Init PROVE IInv
  OBVIOUS
<1> USE StoreAssumption
<1>0. 0 \in Slots
  BY DEF Slots
<1>1. TypeOK
  <2>1. IdleWriter \in WriterState /\ IdleReader \in ReaderState
    BY <1>0 DEF IdleWriter, IdleReader, WriterState, ReaderState
  <2>2. Absent \in Content
    BY DEF Content
  <2> QED BY <2>1, <2>2 DEF Init, TypeOK
<1>2. Saving = {} /\ Loading = {}
  BY DEF Init, Saving, Loading, IdleWriter, IdleReader
<1>3. Counts
  BY <1>2, FS_EmptySet DEF Init, Counts
<1>4. Locked
  BY <1>2 DEF Init, Locked, Knows, IdleReader
<1>5. Answers
  BY DEF Init, Answers, Answer, IdleReader
<1>6. \A i \in Slots : ~Present(disk, i) /\ ~Good(disk, i)
  BY DEF Init, Present, Good
<1>7. PICK g \in [Slots -> Nat] : TRUE
  <2>1. [i \in Slots |-> 0] \in [Slots -> Nat]
    OBVIOUS
  <2> QED BY <2>1
<1>8. Files(g)
  <2>1. Numbers(g)
    BY <1>6 DEF Numbers
  <2>2. Reaches(g, committed, 0)
    BY <1>6 DEF Init, Reaches
  <2>3. \A r \in Readers : ~Searching(r)
    BY DEF Init, Searching, IdleReader
  <2>4. Holds(g)
    BY DEF Init, Holds
  <2> QED BY <2>1, <2>2, <2>3, <2>4 DEF Files
<1>9. Layout
  BY <1>2, <1>6 DEF Layout
<1>10. FewLost
  <2>1. Lost = {}
    BY DEF Init, Lost
  <2> QED BY <2>1, FS_EmptySet DEF Init, FewLost
<1> QED BY <1>1, <1>3, <1>4, <1>5, <1>7, <1>8, <1>9, <1>10 DEF IInv

(* Every step keeps it.                                                    *)
LEMMA NextIInv == IInv /\ [Next]_vars => IInv'
<1> SUFFICES ASSUME IInv, [Next]_vars PROVE IInv'
  OBVIOUS
<1>1. TypeOK /\ Counts /\ Locked /\ Answers /\ Layout /\ FewLost
  BY DEF IInv
<1>2. PICK g \in [Slots -> Nat] : Files(g)
  BY DEF IInv
<1>3. TypeOK' /\ Counts' /\ Locked'
  BY <1>1, TypeStep, CountStep, LockStep
<1>4. Answers'
  BY <1>1, <1>2, <1>3, AnswerStep
<1>5. \E h \in [Slots -> Nat] : Files(h)'
  BY <1>1, <1>2, <1>3, FilesStep
<1>6. Layout' /\ FewLost'
  BY <1>1, <1>3, LayoutStep
<1> QED BY <1>3, <1>4, <1>5, <1>6 DEF IInv

(* So it holds for ever.                                                   *)
LEMMA Invariance == Spec => []IInv
<1> QED BY InitIInv, NextIInv, PTL DEF Spec

---------------------------------------------------------------------------
(* The results.                                                            *)

(* Only loads that exclude saves move a wreck aside.                       *)
PreservesAlone == \A p \in Policies : p.preserve => p.exclusive

(* No more saves in a row are left unfinished than there are backups.      *)
FewAttempts == MaxAttempts <= Backups

(* A set of slots that is not empty has a first one.                       *)
LEMMA FirstSlot ==
  ASSUME NEW G, G \subseteq Nat, G # {}
  PROVE  \E p \in G : \A j \in G : p <= j
<1>1. PICK p \in G : \A j \in G : ~ (<<j, p>> \in OpToRel(<, Nat))
  BY NatLessThanWellFounded, WFMin
<1>2. \A j \in G : ~ (j < p)
  BY <1>1 DEF OpToRel
<1> QED BY <1>2

(* What a load returns is the save that completed last.                    *)
LEMMA RecoveredIsCommitted ==
  ASSUME PreservesAlone, FewAttempts, IInv, damage = 0
  PROVE  Recovered = committed
<1> USE StoreAssumption
<1>1. PICK g \in [Slots -> Nat] : Files(g)
  BY DEF IInv
<1>2. Firm
  BY DEF Firm, PreservesAlone, IInv, TypeOK
<1>3. /\ \A i \in Slots : Present(disk, i) <=> Good(disk, i)
      /\ \A i \in Slots : Good(disk, i) => disk[i] = g[i]
      /\ \A i \in Slots : Good(disk, i) => 0 < g[i] /\ g[i] <= committed
      /\ \A i, j \in Slots : i < j /\ Good(disk, i) /\ Good(disk, j)
                               => g[i] > g[j]
      /\ committed \in Nat
  <2>1. \A i \in Slots : Present(disk, i) <=> Good(disk, i)
    BY Intact DEF IInv
  <2> QED BY <1>1, <2>1 DEF Files, Numbers, Present, Good, IInv, TypeOK
<1>4. CASE committed = 0
  <2>1. \A i \in Slots : ~Good(disk, i)
    BY <1>3, <1>4
  <2> QED BY <1>4, <2>1 DEF Recovered, Document, Default
<1>5. CASE committed # 0
  <2>1. PICK p \in Slots : Good(disk, p) /\ g[p] = committed
    BY <1>1, <1>2, <1>3, <1>5 DEF Files, Holds, FewAttempts
  <2>2. \A j \in Slots : Good(disk, j) => p <= j
    BY <1>3, <2>1 DEF Slots
  <2>3. \A i \in Slots :
           Good(disk, i) /\ (\A j \in Slots : Good(disk, j) => i <= j)
             => i = p
    BY <2>1, <2>2 DEF Slots
  <2>4. Newest(disk) = p
    BY <2>1, <2>2, <2>3 DEF Newest
  <2> QED BY <1>3, <2>1, <2>4 DEF Recovered, Document
<1> QED BY <1>4, <1>5

(* The type invariant.                                                     *)
THEOREM TypeCorrect == Spec => []TypeOK
<1>1. IInv => TypeOK
  BY DEF IInv
<1> QED BY <1>1, Invariance, PTL

(* Whatever is killed, fails or is damaged, and whoever else saves: the    *)
(* generations stay in order of age.                                       *)
THEOREM OrderSurvives == Spec => []GenerationsOrdered
<1>1. IInv => GenerationsOrdered
  BY StoreAssumption
     DEF IInv, Files, Numbers, GenerationsOrdered, Good, Present
<1> QED BY <1>1, Invariance, PTL

(* At every moment until a file is damaged the slots hold the save that    *)
(* completed last, for any number of backups.                              *)
THEOREM CommittedSurvives ==
  ASSUME PreservesAlone, FewAttempts PROVE Spec => []CommittedIsRecovered
<1>1. IInv => CommittedIsRecovered
  BY RecoveredIsCommitted DEF CommittedIsRecovered
<1> QED BY <1>1, Invariance, PTL

(* A load returns a document no older than the one that was current when   *)
(* it started, also while any number of saves rotate the files.            *)
THEOREM LoadsAreNew ==
  ASSUME PreservesAlone PROVE Spec => []LoadsAreNotStale
<1>1. IInv => LoadsAreNotStale
  BY DEF IInv, Answers, Answer, Firm, PreservesAlone, TypeOK,
         LoadsAreNotStale, ReaderState
<1> QED BY <1>1, Invariance, PTL

(* A load answers with the empty default, or raises, only if nothing had   *)
(* been saved when it started or as many saves were begun since as there   *)
(* are slots.                                                              *)
THEOREM LoadsFind ==
  ASSUME PreservesAlone PROVE Spec => []LoadsFindTheDocument
<1>1. IInv => LoadsFindTheDocument
  BY DEF IInv, Answers, Answer, Firm, PreservesAlone, TypeOK,
         LoadsFindTheDocument
<1> QED BY <1>1, Invariance, PTL

(* With damage too, where a document that cannot be read raises and is     *)
(* left where it is, such a load never answers with the empty default.     *)
THEOREM NeverSilent ==
  ASSUME \A p \in Policies : p.unrecoverable = "raise" => ~p.preserve
  PROVE  Spec => []NoSilentDefault
<1>1. IInv => NoSilentDefault
  BY DEF IInv, Answers, Answer, TypeOK, NoSilentDefault
<1> QED BY <1>1, Invariance, PTL

(* Where saves exclude each other and none has failed, d damaged files     *)
(* cost a load at most d generations: as many saves as files were damaged  *)
(* have no file, so one of the last d + 1 has.                             *)
THEOREM DamageIsBounded == Spec => []DamageCostsOneGeneration
<1> USE StoreAssumption
<1>1. ASSUME IInv, policy.exclusive, ~interrupted,
             damage + Cardinality(Saving) <= Backups,
             ~(Recovered >= committed - damage)
      PROVE  FALSE
  <2>0. /\ committed \in Nat /\ damage \in Nat /\ Cardinality(Saving) \in Nat
        /\ disk \in [Slots -> Content] /\ TypeOK
    BY <1>1, FS_CardinalityType DEF IInv, TypeOK, Counts
  <2>1. GenerationsOrdered
    BY <1>1 DEF IInv, Files, Numbers, GenerationsOrdered, Good, Present
  <2>2. Recovered \in Nat /\ \A q \in Slots : Good(disk, q) =>
                                              disk[q] <= Recovered
    <3>1. CASE \A i \in Slots : ~Good(disk, i)
      BY <3>1 DEF Recovered, Document, Default
    <3>2. ASSUME NEW i \in Slots, Good(disk, i) PROVE <2>2
      <4>1. \E p \in Slots : /\ Good(disk, p)
                             /\ \A j \in Slots : Good(disk, j) => p <= j
        <5> DEFINE G == {j \in Slots : Good(disk, j)}
        <5>1. G \subseteq Nat /\ G # {}
          BY <3>2 DEF Slots
        <5>2. PICK p \in G : \A j \in G : p <= j
          BY <5>1, FirstSlot
        <5> QED BY <5>2
      <4>2. /\ Newest(disk) \in Slots /\ Good(disk, Newest(disk))
            /\ \A j \in Slots : Good(disk, j) => Newest(disk) <= j
        BY <4>1 DEF Newest
      <4>3. Recovered = disk[Newest(disk)]
        BY <3>2 DEF Recovered, Document
      <4>4. ASSUME NEW q \in Slots, Good(disk, q)
            PROVE  disk[q] <= disk[Newest(disk)]
        <5>1. Newest(disk) < q \/ Newest(disk) = q
          BY <4>2, <4>4 DEF Slots
        <5>2. disk[q] \in Nat /\ disk[Newest(disk)] \in Nat
          BY <4>2, <4>4 DEF Good
        <5> QED BY <2>1, <4>2, <4>4, <5>1, <5>2 DEF GenerationsOrdered
      <4> QED BY <4>2, <4>3, <4>4 DEF Good
    <3> QED BY <3>1, <3>2
  <2>3. committed - damage .. committed \subseteq Lost
    <3>1. ASSUME NEW k \in committed - damage .. committed PROVE k \in Lost
      <4>1. /\ k \in Int /\ committed - damage <= k /\ k <= committed
            /\ Recovered < committed - damage
        BY <1>1, <2>0, <2>2
      <4>2. k \in 1 .. committed /\ k > Recovered
        BY <2>0, <2>2, <4>1
      <4>3. committed - Backups + Cardinality(Saving) <= k
        BY <1>1, <2>0, <4>1
      <4>4. \A i \in Slots : disk[i] # k
        BY <2>2, <4>2 DEF Good
      <4> QED BY <4>2, <4>3, <4>4 DEF Lost
    <3> QED BY <3>1
  <2>4. Cardinality(committed - damage .. committed) = damage + 1
    BY <2>0, FS_Interval
  <2>5. Cardinality(committed - damage .. committed) <= Cardinality(Lost)
    BY <2>0, <2>3, LostFinite, FS_Subset
  <2>6. Cardinality(Lost) <= damage /\ Cardinality(Lost) \in Nat
    BY <1>1, <2>0, LostFinite DEF IInv, FewLost
  <2> QED BY <2>0, <2>4, <2>5, <2>6
<1>2. IInv => DamageCostsOneGeneration
  BY <1>1 DEF DamageCostsOneGeneration
<1> QED BY <1>2, Invariance, PTL

(* Step simulation: asking for a save is a request, the last rename is the *)
(* save, everything else leaves the abstract document alone.               *)
LEMMA StepSimulation ==
  ASSUME PreservesAlone, FewAttempts, IInv, IInv', [Next]_vars
  PROVE  [Durable!Next]_<<IF damage = 0 THEN Recovered ELSE committed, issued>>
<1> DEFINE Doc == IF damage = 0 THEN Recovered ELSE committed
<1>1. Doc = committed /\ Doc' = committed'
  <2>1. Doc = committed
    BY RecoveredIsCommitted
  <2>2. (IInv /\ damage = 0 => Recovered = committed)'
    BY RecoveredIsCommitted, PTL
  <2> QED BY <2>1, <2>2
<1> HIDE DEF Doc
<1>2. ASSUME NEW w \in Writers, Stage(w) PROVE Doc' = Doc /\ issued' = issued + 1
  BY <1>1, <1>2 DEF Stage
<1>3. ASSUME NEW w \in Writers, Replace(w)
      PROVE  Doc < issued /\ Doc' = Doc + 1 /\ issued' = issued
  <2>1. committed' = committed + 1 /\ issued' = issued
    BY <1>3 DEF Replace
  <2>2. /\ Cardinality(Saving) \in Nat /\ Cardinality(Saving) # 0
        /\ committed + Cardinality(Saving) <= issued
        /\ committed \in Nat /\ issued \in Nat
    <3>1. w \in Saving /\ IsFiniteSet(Saving)
      BY <1>3 DEF Replace, Saving, IInv, Counts
    <3> QED BY <3>1, FS_EmptySet, FS_CardinalityType DEF IInv, Counts, TypeOK
  <2>3. committed < issued
    BY <2>2
  <2> QED BY <1>1, <2>1, <2>3
<1>4. CASE UNCHANGED <<committed, issued>>
  BY <1>1, <1>4 DEF Doc
<1>5. Next => \/ \E w \in Writers : Stage(w) \/ Replace(w)
              \/ UNCHANGED <<committed, issued>>
  BY DEF Next, Rotate, FailSave, BeginLoad, Exists, Read, GiveUp, EndLoad,
         Crash, DamageFile
<1> QED BY <1>2, <1>3, <1>4, <1>5
     DEF Durable!Next, Durable!Request, Durable!Save, vars, Doc

(* Renames one by one implement the replacement of a document in one step. *)
THEOREM Refinement ==
  ASSUME PreservesAlone, FewAttempts PROVE Spec => ImplementsDurableDocument
<1>1. Init => Durable!Init
  <2>1. Init => Recovered = 0
    BY InitIInv, RecoveredIsCommitted DEF Init
  <2> QED BY <2>1 DEF Init, Durable!Init
<1>2. IInv /\ IInv' /\ [Next]_vars =>
        [Durable!Next]_<<IF damage = 0 THEN Recovered ELSE committed, issued>>
  BY StepSimulation
<1> QED BY <1>1, <1>2, Invariance, PTL
     DEF Spec, Durable!Spec, ImplementsDurableDocument
=============================================================================
