---------------------- MODULE ExecutionHistoryProofs ----------------------
(***************************************************************************)
(* ExecutionHistory for any tasks, branches and limits and however many    *)
(* saves fail or kills happen: the ledger stays in order, knows whatever   *)
(* the execution file says, and replays and snapshots rest on it.          *)
(***************************************************************************)
EXTENDS ExecutionHistory, TLAPS, SequenceTheorems

(* Among the indices in I there is a first one, if there is any.           *)
HasFirst(I) == I # {} => \E i \in I : IsFirst(I, i)

(* One entry: what was there when it was made is older than it, and the    *)
(* first of a branch in the list has the branch's number.                  *)
EntryInv(led, i, now) ==
  LET e == led.entries[i] IN
  /\ e.id \in 1 .. now - 1 /\ e.time \in 1 .. led.next - 1
  /\ e.parent < e.id /\ e.opSeq <= e.id
  /\ led.branches[e.branch].known
  /\ e.seq <= led.branches[e.branch].count
  /\ \/ e.seq = led.branches[e.branch].count
     \/ \E k \in 1 .. i - 1 : led.entries[k].branch = e.branch

(* A ledger, be it the one in memory or the one on file.                   *)
LedgerInv(led, now) ==
  /\ led \in Ledger
  /\ Len(led.entries) <= MaxEntries /\ Len(led.entries) < led.next
  /\ led.next <= now
  /\ \A b \in Branches : led.branches[b].count < now
  /\ \A i \in DOMAIN led.entries : EntryInv(led, i, now)
  /\ \A t \in Tasks : HasFirst(OfOperation(led.entries, t))
  /\ \A b \in Branches : HasFirst(OfBranch(led.entries, b))
  /\ InOrder(led)

---------------------------------------------------------------------------
(* The operators of the ledger.                                            *)

(* When something is put before a list, whatever was first is next to it.  *)
LEMMA FirstShifts ==
  ASSUME NEW n \in Nat, NEW J \in SUBSET (1 .. n), NEW I \in SUBSET (Nat \ {0}),
         HasFirst(I),
         \/ 1 \in J
         \/ /\ \A i \in J : i - 1 \in I
            /\ \A f \in I : f + 1 \in 1 .. n => f + 1 \in J
  PROVE  HasFirst(J)
<1>1. CASE 1 \in J
  BY <1>1 DEF HasFirst, IsFirst
<1>2. ASSUME NEW j \in J, \A i \in J : i - 1 \in I,
             \A f \in I : f + 1 \in 1 .. n => f + 1 \in J
      PROVE  HasFirst(J)
  <2>1. PICK f \in I : \A i \in I : f <= i
    BY <1>2 DEF HasFirst, IsFirst
  <2>2. f + 1 \in J
    BY <1>2, <2>1
  <2>3. \A i \in J : f + 1 <= i
    BY <1>2, <2>1
  <2> QED BY <2>2, <2>3 DEF HasFirst, IsFirst
<1> QED BY <1>1, <1>2 DEF HasFirst

LEMMA EntryOf ==
  ASSUME NEW S, NEW es \in Seq(S)
  PROVE  \A i \in DOMAIN es : es[i] \in S /\ i \in Nat \ {0}
BY LenProperties, ElementOfSeq

(* Newest answers an entry of the list, the first at I, or none.           *)
LEMMA NewestIsFirst ==
  ASSUME NEW es \in Seq(Entry), NEW I, I \subseteq DOMAIN es, HasFirst(I)
  PROVE  \/ I = {} /\ Newest(es, I) = NoEntry
         \/ \E i \in I : IsFirst(I, i) /\ Newest(es, I) = es[i]
BY DEF Newest, HasFirst

LEMMA NewestType ==
  ASSUME NEW es \in Seq(Entry), NEW I, I \subseteq DOMAIN es, HasFirst(I)
  PROVE  /\ Newest(es, I) \in Entry \cup {NoEntry}
         /\ Newest(es, I).id \in Ids /\ Newest(es, I).time \in Ids
         /\ Newest(es, I).opSeq \in Ids /\ Newest(es, I).depth \in Nat
         /\ Newest(es, I).branch \in Branches \cup {NoBranch}
<1>1. CASE I = {}
  BY <1>1, HistoryAssumption DEF Newest, NoEntry, Ids
<1>2. ASSUME NEW i \in I, Newest(es, I) = es[i] PROVE Newest(es, I) \in Entry
  BY <1>2, ElementOfSeq
<1> QED BY <1>1, <1>2, NewestIsFirst DEF Entry

LEMMA NewBranchType ==
  ASSUME NEW bs \in [Branches -> Branch], NEW b,
         NEW p \in Branches \cup {NoBranch}
  PROVE  NewBranch(bs, b, p) \in Branch /\ NewBranch(bs, b, p).known
         /\ NewBranch(bs, b, p).count = 0
<1> DEFINE d == CASE p # NoBranch -> bs[p].depth + 1
                  [] p = NoBranch /\ b # Main -> 1
                  [] OTHER -> 0
<1>1. d \in Nat
  BY DEF Branch
<1>2. NewBranch(bs, b, p) =
        [known |-> TRUE, parent |-> p, count |-> 0, depth |-> d]
  BY DEF NewBranch
<1>3. 0 \in Ids
  BY HistoryAssumption DEF Ids
<1> HIDE DEF d
<1> QED BY <1>1, <1>2, <1>3 DEF Branch

(* The branches after _ensure_branch: no count changes, none is forgotten  *)
(* and the branch itself is known.                                         *)
BranchesKept(old, new) ==
  /\ new \in [Branches -> Branch]
  /\ \A c \in Branches : old[c].known =>
       new[c].known /\ new[c].count = old[c].count
  /\ \A c \in Branches : new[c].count \in {0, old[c].count}

LEMMA EnsureBranchKeeps ==
  ASSUME NEW bs \in [Branches -> Branch], NEW b \in Branches,
         NEW p \in Branches \cup {NoBranch}
  PROVE  BranchesKept(bs, EnsureBranch(bs, b, p))
         /\ EnsureBranch(bs, b, p)[b].known
<1> DEFINE with == IF p = NoBranch \/ bs[p].known THEN bs
                   ELSE [bs EXCEPT ![p] = NewBranch(bs, p, NoBranch)]
           new == EnsureBranch(bs, b, p)
<1>1. BranchesKept(bs, with)
  BY NewBranchType DEF BranchesKept
<1> HIDE DEF with
<1>2. CASE ~with[b].known
  <2>1. new = [with EXCEPT ![b] = NewBranch(with, b, p)]
    BY <1>2 DEF EnsureBranch, with
  <2> QED BY <1>1, <1>2, <2>1, NewBranchType DEF BranchesKept
<1>3. CASE with[b].known /\ p # NoBranch /\ with[b].parent = NoBranch
  <2> DEFINE r == [known |-> TRUE, parent |-> p, count |-> with[b].count,
                   depth |-> with[p].depth + 1]
  <2>1. new = [with EXCEPT ![b] = r]
    BY <1>3 DEF EnsureBranch, with
  <2>2. p \in Branches /\ with[p].depth + 1 \in Nat
    BY <1>1, <1>3 DEF BranchesKept, Branch
  <2>3. r \in Branch
    BY <1>1, <2>2 DEF BranchesKept, Branch
  <2> QED BY <1>1, <1>3, <2>1, <2>3 DEF BranchesKept
<1>4. CASE with[b].known /\ ~(p # NoBranch /\ with[b].parent = NoBranch)
  <2>1. new = with
    BY <1>4 DEF EnsureBranch, with
  <2> QED BY <1>1, <1>4, <2>1
<1> QED BY <1>2, <1>3, <1>4

(* What is kept of a list with an entry put before it.                     *)
LEMMA KeptFacts ==
  ASSUME NEW S, NEW es \in Seq(S), NEW e \in S, Len(es) <= MaxEntries
  PROVE  LET k == Kept(<<e>> \o es) IN
         /\ k \in Seq(S) /\ Len(k) <= MaxEntries
         /\ Len(k) = Len(es) + 1 \/ (Len(k) = MaxEntries /\ Len(es) = Len(k))
         /\ k[1] = e /\ 1 \in DOMAIN k
         /\ \A i \in DOMAIN k \ {1} : i - 1 \in DOMAIN es /\ k[i] = es[i - 1]
         /\ DOMAIN k = 1 .. Len(k)
         /\ \A i \in DOMAIN es : i + 1 \in DOMAIN k
                               \/ (i = Len(es) /\ Len(k) = Len(es))
<1> DEFINE c == <<e>> \o es
           m == IF Len(c) <= MaxEntries THEN Len(c) ELSE MaxEntries
<1>1. c \in Seq(S) /\ Len(c) = Len(es) + 1 /\ c[1] = e
      /\ \A i \in 2 .. Len(es) + 1 : c[i] = es[i - 1]
  BY ConcatProperties
<1>2. Len(es) \in Nat /\ DOMAIN es = 1 .. Len(es)
  BY LenProperties
<1>3. m \in 1 .. Len(c)
  BY <1>1, <1>2, LedgerAssumption
<1> HIDE DEF c
<1>4. SubSeq(c, 1, m) \in Seq(S) /\ Len(SubSeq(c, 1, m)) = m
      /\ \A i \in 1 .. m : SubSeq(c, 1, m)[i] = c[i]
  BY <1>1, <1>3, SubSeqProperties
<1>5. Kept(c) = SubSeq(c, 1, m)
  BY DEF Kept
<1>6. DOMAIN Kept(c) = 1 .. m
  BY <1>4, <1>5, LenProperties
<1>7. m = Len(es) + 1 \/ (m = MaxEntries /\ Len(es) = m)
  <2>1. MaxEntries \in Nat /\ Len(c) = Len(es) + 1 /\ Len(es) \in Nat
    BY <1>1, <1>2, LedgerAssumption
  <2>2. CASE Len(c) <= MaxEntries
    BY <2>1, <2>2
  <2>3. CASE ~(Len(c) <= MaxEntries)
    <3>1. Len(es) = MaxEntries
      BY <2>1, <2>3
    <3> QED BY <2>3, <3>1
  <2> QED BY <2>2, <2>3
<1>8. m \in Nat /\ m <= MaxEntries /\ m <= Len(es) + 1
  BY <1>1, <1>2, LedgerAssumption
<1> HIDE DEF m
<1>9. \A i \in 1 .. m : Kept(c)[i] = c[i]
  BY <1>4, <1>5
<1> QED
  <2>1. Kept(c) \in Seq(S) /\ Len(Kept(c)) = m
    BY <1>4, <1>5
  <2>2. Kept(c)[1] = e /\ 1 \in DOMAIN Kept(c)
    BY <1>1, <1>3, <1>6, <1>8, <1>9
  <2>3. \A i \in DOMAIN Kept(c) \ {1} :
          i - 1 \in DOMAIN es /\ Kept(c)[i] = es[i - 1]
    BY <1>1, <1>2, <1>6, <1>8, <1>9
  <2>4. \A i \in DOMAIN es : i + 1 \in DOMAIN Kept(c)
                            \/ (i = Len(es) /\ m = Len(es))
    <3> TAKE i \in DOMAIN es
    <3>1. i \in Nat /\ 1 <= i /\ i <= Len(es) /\ Len(es) \in Nat
      BY <1>2
    <3>2. i + 1 \in 1 .. m \/ (i = Len(es) /\ m = Len(es))
      BY <1>7, <1>8, <3>1
    <3> QED BY <1>6, <3>2
  <2> QED BY <1>6, <1>7, <1>8, <2>1, <2>2, <2>3, <2>4 DEF c

LEMMA ParentBranchType ==
  ASSUME NEW led, NEW now, LedgerInv(led, now), NEW t \in Tasks
  PROVE  ParentBranch(led.entries, t) \in Branches \cup {NoBranch}
<1> DEFINE es == led.entries
           inherited == NewestOf(es, ParentOf[t]).branch
<1>1. inherited \in Branches \cup {NoBranch}
  <2>1. es \in Seq(Entry) /\ OfOperation(es, ParentOf[t]) \subseteq DOMAIN es
    BY DEF LedgerInv, Ledger, OfOperation
  <2>2. HasFirst(OfOperation(es, ParentOf[t]))
    <3>1. CASE ParentOf[t] \in Tasks
      BY <3>1 DEF LedgerInv
    <3>2. CASE ParentOf[t] \notin Tasks
      <4>1. \A i \in DOMAIN es : es[i].op \in Tasks
        <5>1. \A i \in DOMAIN es : es[i] \in Entry
          BY <2>1, EntryOf
        <5> QED BY <5>1 DEF Entry
      <4> QED BY <3>2, <4>1 DEF OfOperation, HasFirst
    <3> QED BY <3>1, <3>2
  <2> QED BY <2>1, <2>2, NewestType DEF NewestOf
<1> HIDE DEF inherited
<1>2. DeclaredParent[t] \in Branches \cup {NoBranch} /\ Main \in Branches
  BY LedgerAssumption
<1> QED BY <1>1, <1>2 DEF ParentBranch, inherited

(* The first entry of an operation, as record_event finds it: no younger   *)
(* one of the operation is in the list.                                    *)
LEMMA PreviousFacts ==
  ASSUME NEW led, NEW now \in 1 .. MaxStamps, LedgerInv(led, now), NEW t \in Tasks
  PROVE  LET previous == NewestOf(led.entries, t) IN
         /\ previous.id \in 0 .. now - 1 /\ previous.opSeq \in 0 .. previous.id
         /\ previous.depth \in Nat
         /\ \A i \in DOMAIN led.entries : led.entries[i].op = t =>
              /\ previous.id # 0
              /\ led.entries[i].opSeq <= previous.opSeq
              /\ led.entries[i].depth <= previous.depth
<1> DEFINE es == led.entries
           I == OfOperation(es, t)
<1>1. es \in Seq(Entry) /\ I \subseteq DOMAIN es /\ HasFirst(I)
  BY DEF LedgerInv, Ledger, OfOperation
<1>2. CASE I = {}
  <2>1. NewestOf(es, t) = NoEntry
    BY <1>2 DEF NewestOf, Newest
  <2> QED BY <1>2, <2>1 DEF NoEntry, OfOperation
<1>3. CASE I # {}
  <2>1. PICK f \in I : IsFirst(I, f) /\ NewestOf(es, t) = es[f]
    BY <1>1, <1>3, NewestIsFirst DEF NewestOf
  <2>2. es[f] \in Entry /\ EntryInv(led, f, now) /\ f \in DOMAIN es
    BY <1>1, <2>1, ElementOfSeq DEF LedgerInv
  <2>3. es[f].id \in 1 .. now - 1 /\ es[f].opSeq \in 0 .. es[f].id
        /\ es[f].depth \in Nat
    BY <2>2 DEF EntryInv, Entry, Ids
  <2>4. ASSUME NEW i \in DOMAIN es, es[i].op = t
        PROVE  es[i].opSeq <= es[f].opSeq /\ es[i].depth <= es[f].depth
    <3>1. i \in I /\ f <= i /\ es[f].op = t
      BY <2>1, <2>4 DEF IsFirst, OfOperation
    <3>2. es[i] \in Entry /\ i \in Nat /\ f \in Nat
      BY <1>1, <2>2, ElementOfSeq, LenProperties
    <3>3. CASE f = i
      BY <3>2, <3>3 DEF Entry, Ids
    <3>4. CASE f < i
      <4>1. es[f].opSeq > es[i].opSeq /\ es[f].depth > es[i].depth
        BY <2>2, <2>4, <3>1, <3>4 DEF LedgerInv, InOrder, Ordered
      <4> QED BY <2>2, <3>2, <4>1 DEF Entry, Ids
    <3> QED BY <3>1, <3>2, <3>3, <3>4
  <2> QED BY <2>1, <2>3, <2>4
<1> QED BY <1>2, <1>3

(* The entry that record_event writes, among those it finds.               *)
LEMMA NewEntryFacts ==
  ASSUME NEW led, NEW now \in 1 .. MaxStamps, LedgerInv(led, now),
         NEW t \in Tasks, NEW op \in Operation,
         NEW bs \in [Branches -> Branch],
         bs[BranchOf[t]].count \in 0 .. now - 1
  PROVE  LET e == NewEntry(led, bs, now, t, op) IN
         /\ e \in Entry /\ e.id = now /\ e.time = led.next /\ e.is = op
         /\ e.op = t /\ e.branch = BranchOf[t] /\ e.parent < now
         /\ e.opSeq <= now /\ e.seq = bs[BranchOf[t]].count + 1
         /\ \A i \in DOMAIN led.entries : led.entries[i].op = t =>
              led.entries[i].opSeq < e.opSeq /\ led.entries[i].depth < e.depth
<1> DEFINE es == led.entries
           b == BranchOf[t]
           previous == NewestOf(es, t)
           caller == NewestOf(es, ParentOf[t])
           neighbour == NewestIn(es, b)
           above == CASE previous.id # 0 -> previous
                      [] OTHER -> caller
           parent == IF above.id # 0 THEN above.id ELSE neighbour.id
           depth == CASE above.id = 0 -> bs[b].depth
                      [] above.depth = 0 -> bs[b].depth + 1
                      [] OTHER -> above.depth + 1
           e == NewEntry(led, bs, now, t, op)
<1>1. es \in Seq(Entry) /\ b \in Branches /\ bs[b].depth \in Nat
      /\ led.next \in 1 .. now /\ MaxStamps \in Nat
  BY LedgerAssumption, HistoryAssumption DEF LedgerInv, Ledger, Branch
<1>2. caller.id \in 0 .. now - 1 /\ caller.depth \in Nat
  <2>1. CASE ParentOf[t] \in Tasks
    BY <2>1, PreviousFacts
  <2>2. CASE ParentOf[t] \notin Tasks
    <3>1. OfOperation(es, ParentOf[t]) = {}
      <4>1. \A i \in DOMAIN es : es[i].op \in Tasks
        <5>1. \A i \in DOMAIN es : es[i] \in Entry
          BY <1>1, EntryOf
        <5> QED BY <5>1 DEF Entry
      <4> QED BY <2>2, <4>1 DEF OfOperation
    <3> QED BY <3>1 DEF NewestOf, Newest, NoEntry
  <2> QED BY <2>1, <2>2
<1>3. neighbour.id \in 0 .. now - 1
  <2>1. OfBranch(es, b) \subseteq DOMAIN es /\ HasFirst(OfBranch(es, b))
    BY <1>1 DEF LedgerInv, OfBranch
  <2>2. CASE neighbour = NoEntry
    BY <2>2 DEF NoEntry
  <2>3. ASSUME NEW i \in DOMAIN es, neighbour = es[i]
        PROVE neighbour.id \in 0 .. now - 1
    BY <2>3 DEF LedgerInv, EntryInv
  <2> QED BY <1>1, <2>1, <2>2, <2>3, NewestIsFirst DEF NewestIn
<1>4. previous.id \in 0 .. now - 1 /\ previous.opSeq \in 0 .. previous.id
      /\ previous.depth \in Nat
      /\ \A i \in DOMAIN es : es[i].op = t =>
           previous.id # 0 /\ es[i].opSeq <= previous.opSeq
             /\ es[i].depth <= previous.depth
  BY PreviousFacts
<1>5. above.id \in 0 .. now - 1 /\ above.depth \in Nat
  BY <1>2, <1>4
<1>6. parent \in 0 .. now - 1 /\ depth \in Nat
  BY <1>1, <1>3, <1>5, SMTT(30)
<1>7. previous.id # 0 => depth > previous.depth
  BY <1>1, <1>4
<1>8. ParentBranch(es, t) \in Branches \cup {NoBranch}
  BY ParentBranchType DEF LedgerInv
<1>9. e = [id |-> now, time |-> led.next, op |-> t, branch |-> b,
           parentBranch |-> ParentBranch(es, t), seq |-> bs[b].count + 1,
           opSeq |-> previous.opSeq + 1, parent |-> parent, depth |-> depth,
           is |-> op]
  BY DEF NewEntry
<1> HIDE DEF previous, parent, depth, e
<1>10. e \in Entry
  <2>1. now \in Ids /\ led.next \in Ids /\ parent \in Ids
    BY <1>1, <1>6 DEF Ids
  <2>2. bs[b].count + 1 \in Ids
    BY <1>1 DEF Ids
  <2>3. previous.opSeq + 1 \in Ids
    BY <1>1, <1>4 DEF Ids
  <2> QED BY <1>1, <1>6, <1>8, <1>9, <2>1, <2>2, <2>3 DEF Entry
<1>11. \A i \in DOMAIN es : es[i].op = t =>
         es[i].opSeq < e.opSeq /\ es[i].depth < e.depth
  <2> TAKE i \in DOMAIN es
  <2>1. es[i] \in Entry
    BY <1>1, ElementOfSeq
  <2>2. es[i].opSeq \in Nat /\ es[i].depth \in Nat
    BY <2>1 DEF Entry, Ids
  <2> QED BY <1>4, <1>6, <1>7, <1>9, <2>2
<1> QED BY <1>1, <1>4, <1>6, <1>9, <1>10, <1>11 DEF e

(* What record_event makes of a ledger: a new entry e before the others    *)
(* and one more in the count of its branch, among branches bs that are     *)
(* those of before or more.                                                *)
Records(led, now, t, op, bs, e, new) ==
  /\ bs \in [Branches -> Branch] /\ bs[BranchOf[t]].known
  /\ BranchesKept(led.branches, bs)
  /\ \A c \in Branches : bs[c].count \in 0 .. now - 1
  /\ e \in Entry /\ e.id = now /\ e.time = led.next /\ e.is = op
  /\ e.op = t /\ e.branch = BranchOf[t] /\ e.parent < now
  /\ e.opSeq <= now /\ e.seq = bs[BranchOf[t]].count + 1
  /\ \A i \in DOMAIN led.entries : led.entries[i].op = t =>
       led.entries[i].opSeq < e.opSeq /\ led.entries[i].depth < e.depth
  /\ new = [entries |-> Kept(<<e>> \o led.entries),
            branches |-> [bs EXCEPT ![BranchOf[t]].count = @ + 1],
            next |-> led.next + 1]

LEMMA RecordedShape ==
  ASSUME NEW led, NEW now \in 1 .. MaxStamps, LedgerInv(led, now),
         NEW t \in Tasks, NEW op \in Operation
  PROVE  \E bs, e : Records(led, now, t, op, bs, e, Recorded(led, now, t, op))
<1> DEFINE b == BranchOf[t]
           p == ParentBranch(led.entries, t)
           bs == EnsureBranch(led.branches, b, p)
           e == NewEntry(led, bs, now, t, op)
<1>1. b \in Branches /\ led.branches \in [Branches -> Branch]
      /\ MaxStamps \in Nat /\ now \in Nat
  BY LedgerAssumption, HistoryAssumption DEF LedgerInv, Ledger
<1>2. BranchesKept(led.branches, bs) /\ bs[b].known
  BY <1>1, ParentBranchType, EnsureBranchKeeps
<1>3. \A c \in Branches : led.branches[c].count \in 0 .. now - 1
  BY <1>1 DEF LedgerInv, Branch, Ids
<1>4. \A c \in Branches : bs[c].count \in 0 .. now - 1
  BY <1>1, <1>2, <1>3 DEF BranchesKept
<1>5. e \in Entry /\ e.id = now /\ e.time = led.next /\ e.is = op
      /\ e.op = t /\ e.branch = b /\ e.parent < now /\ e.opSeq <= now
      /\ e.seq = bs[b].count + 1
      /\ \A i \in DOMAIN led.entries : led.entries[i].op = t =>
           led.entries[i].opSeq < e.opSeq /\ led.entries[i].depth < e.depth
  BY <1>1, <1>2, <1>4, NewEntryFacts DEF BranchesKept
<1>6. Recorded(led, now, t, op) =
        [entries |-> Kept(<<e>> \o led.entries),
         branches |-> [bs EXCEPT ![b].count = @ + 1], next |-> led.next + 1]
  BY DEF Recorded
<1> HIDE DEF p, bs, e
<1>7. Records(led, now, t, op, bs, e, Recorded(led, now, t, op))
  BY <1>2, <1>4, <1>5, <1>6 DEF Records, BranchesKept
<1> QED BY <1>7

(* record_event keeps the ledger in order.                                 *)
LEMMA RecordedInv ==
  ASSUME NEW led, NEW now \in 1 .. MaxStamps, LedgerInv(led, now),
         NEW t \in Tasks, NEW op \in Operation
  PROVE  LedgerInv(Recorded(led, now, t, op), now + 1)
<1> DEFINE es == led.entries
           b == BranchOf[t]
           new == Recorded(led, now, t, op)
<1>1. es \in Seq(Entry) /\ b \in Branches /\ led.branches \in [Branches -> Branch]
      /\ led.next \in 1 .. now /\ MaxStamps \in Nat /\ Len(es) <= MaxEntries
      /\ Len(es) < led.next /\ Len(es) \in Nat /\ MaxEntries \in Nat \ {0}
  BY LenProperties, LedgerAssumption, HistoryAssumption DEF LedgerInv, Ledger
<1> PICK bs, e : Records(led, now, t, op, bs, e, new)
  BY RecordedShape
<1> DEFINE k == Kept(<<e>> \o es)
           cs == [bs EXCEPT ![b].count = @ + 1]
<1>2. BranchesKept(led.branches, bs) /\ bs[b].known
  BY DEF Records
<1>4. \A c \in Branches : bs[c].count \in 0 .. now - 1
  BY DEF Records
<1>5. e \in Entry /\ e.id = now /\ e.time = led.next /\ e.op = t
      /\ e.branch = b /\ e.parent < now /\ e.opSeq <= now
      /\ e.seq = bs[b].count + 1
      /\ \A i \in DOMAIN es : es[i].op = t =>
           es[i].opSeq < e.opSeq /\ es[i].depth < e.depth
  BY DEF Records
<1>6. new = [entries |-> k, branches |-> cs, next |-> led.next + 1]
  BY DEF Records
<1> HIDE DEF k
<1>7. /\ k \in Seq(Entry) /\ Len(k) <= MaxEntries /\ Len(k) \in Nat
      /\ Len(k) = Len(es) + 1 \/ (Len(k) = MaxEntries /\ Len(es) = Len(k))
      /\ DOMAIN k = 1 .. Len(k) /\ k[1] = e /\ 1 \in DOMAIN k
  BY <1>1, <1>5, KeptFacts, LenProperties DEF k
<1>15. \A i \in DOMAIN k \ {1} : i - 1 \in DOMAIN es /\ k[i] = es[i - 1]
  BY <1>1, <1>5, KeptFacts, SMTT(30) DEF k
<1>8. /\ cs \in [Branches -> Branch] /\ cs[b].known
      /\ cs[b].count = bs[b].count + 1
      /\ \A c \in Branches : led.branches[c].known => cs[c].known
      /\ \A c \in Branches \ {b} : cs[c].count = bs[c].count
      /\ \A c \in Branches : cs[c].count < now + 1
  <2> DEFINE r == [bs[b] EXCEPT !.count = @ + 1]
  <2>1. bs[b] \in Branch /\ bs[b].count + 1 \in Ids
    BY <1>1, <1>2, <1>4 DEF BranchesKept, Ids
  <2>2. r \in Branch /\ r.count = bs[b].count + 1 /\ r.known = bs[b].known
    BY <2>1 DEF Branch
  <2>3. cs = [bs EXCEPT ![b] = r]
    BY <1>1, <1>2 DEF BranchesKept
  <2> HIDE DEF r, cs
  <2>4. /\ cs \in [Branches -> Branch] /\ cs[b] = r
        /\ \A c \in Branches \ {b} : cs[c] = bs[c]
    BY <1>1, <1>2, <2>2, <2>3 DEF BranchesKept
  <2>5. \A c \in Branches : cs[c].count < now + 1
    BY <1>1, <1>4, <2>2, <2>4
  <2> QED BY <1>2, <2>2, <2>4, <2>5 DEF BranchesKept
<1> HIDE DEF cs, new
<1>17. new.entries = k /\ new.branches = cs /\ new.next = led.next + 1
  BY <1>6
<1>18. now \in Nat /\ led.next \in Nat \ {0} /\ led.next <= now /\ Len(es) \in Nat
       /\ Len(es) < led.next
  BY <1>1
<1>19. Len(k) \in Nat /\ Len(k) <= Len(es) + 1
  <2>1. CASE Len(k) = Len(es) + 1
    BY <1>7, <1>18, <2>1
  <2>2. CASE Len(k) = Len(es)
    BY <1>18, <2>2
  <2> QED BY <1>7, <2>1, <2>2
<1>9. new \in Ledger /\ Len(k) < led.next + 1 /\ led.next + 1 <= now + 1
  <2>1. led.next + 1 \in 1 .. MaxStamps + 1 /\ led.next + 1 <= now + 1
    BY <1>1
  <2>2. Len(k) < led.next + 1
    BY <1>18, <1>19
  <2>3. new \in Ledger
    BY <1>6, <1>7, <1>8, <2>1 DEF Ledger
  <2> QED BY <2>1, <2>2, <2>3
<1>10. \A i \in DOMAIN es : es[i] \in Entry /\ i \in Nat \ {0}
                           /\ EntryInv(led, i, now)
  BY <1>1, EntryOf DEF LedgerInv
<1>25. DOMAIN k = 1 .. Len(k) /\ Len(k) \in Nat /\ 1 \in DOMAIN k
  BY <1>7
<1>26. k[1] = e /\ e.op = t /\ e.branch = b
  BY <1>5, <1>7
<1>11. \A i \in DOMAIN k : EntryInv(new, i, now + 1)
  <2> TAKE i \in DOMAIN k
  <2>1. CASE i = 1
    <3>1. k[i] = e /\ e.time \in 1 .. led.next + 1 - 1 /\ e.id \in 1 .. now + 1 - 1
      <4>1. led.next \in 1 .. led.next + 1 - 1 /\ now \in 1 .. now + 1 - 1
        BY <1>1, <1>18
      <4> QED BY <1>5, <1>7, <2>1, <4>1
    <3>2. e.seq = cs[b].count /\ e.seq <= cs[b].count
      BY <1>4, <1>5, <1>8, <1>1
    <3> QED BY <1>5, <1>8, <1>17, <3>1, <3>2 DEF EntryInv
  <2>2. CASE i # 1
    <3>1. i - 1 \in DOMAIN es /\ k[i] = es[i - 1] /\ i \in 2 .. Len(k)
      <4>1. i \in 1 .. Len(k) /\ Len(k) \in Nat
        BY <1>7, <1>19
      <4>2. i \in 2 .. Len(k)
        BY <2>2, <4>1
      <4> QED BY <1>15, <2>2, <4>2
    <3>2. EntryInv(led, i - 1, now) /\ es[i - 1] \in Entry
      BY <1>10, <3>1
    <3>3. /\ k[i].id \in 1 .. now + 1 - 1 /\ k[i].time \in 1 .. led.next + 1 - 1
          /\ k[i].parent < k[i].id /\ k[i].opSeq <= k[i].id
      BY <1>18, <3>1, <3>2 DEF EntryInv
    <3> DEFINE d == k[i].branch
    <3>4. d \in Branches /\ k[i].seq \in Nat /\ led.branches[d].known
          /\ k[i].seq <= led.branches[d].count
          /\ \/ k[i].seq = led.branches[d].count
             \/ \E h \in 1 .. i - 1 - 1 : es[h].branch = d
      <4>1. d \in Branches /\ k[i].seq \in Nat
        BY <3>1, <3>2 DEF Entry, Ids
      <4> QED BY <3>1, <3>2, <4>1, ZenonT(40) DEF EntryInv
    <3>5. cs[d].known /\ bs[d].count = led.branches[d].count
      BY <1>2, <1>8, <3>4 DEF BranchesKept
    <3>6. k[i].seq <= cs[d].count
      <4>1. bs[d].count \in Nat /\ k[i].seq <= bs[d].count
        BY <1>4, <3>4, <3>5
      <4> QED BY <1>8, <3>4, <4>1
    <3>7. k[i].seq = cs[d].count \/ \E h \in 1 .. i - 1 : k[h].branch = d
      <4>1. CASE d = b
        <5>1. 1 \in 1 .. i - 1 /\ k[1].branch = d
          BY <1>26, <3>1, <4>1
        <5> QED BY <5>1
      <4>2. CASE d # b /\ k[i].seq = led.branches[d].count
        BY <1>8, <3>4, <3>5, <4>2
      <4>3. ASSUME NEW h \in 1 .. i - 1 - 1, es[h].branch = d
            PROVE  \E g \in 1 .. i - 1 : k[g].branch = d
        <5>1. h + 1 \in DOMAIN k \ {1} /\ h + 1 \in 1 .. i - 1 /\ h + 1 - 1 = h
          BY <1>25, <3>1
        <5>2. k[h + 1] = es[h]
          BY <1>15, <5>1
        <5> QED BY <4>3, <5>1, <5>2
      <4> QED BY <3>4, <4>1, <4>2, <4>3
    <3> HIDE DEF d
    <3>8. /\ new.entries[i].id \in 1 .. now + 1 - 1
          /\ new.entries[i].time \in 1 .. new.next - 1
          /\ new.entries[i].parent < new.entries[i].id
          /\ new.entries[i].opSeq <= new.entries[i].id
      <4>1. new.next - 1 = led.next + 1 - 1
        BY <1>17, <1>18
      <4> QED BY <1>17, <3>3, <4>1
    <3>9. /\ new.branches[new.entries[i].branch].known
          /\ new.entries[i].seq <= new.branches[new.entries[i].branch].count
          /\ \/ new.entries[i].seq = new.branches[new.entries[i].branch].count
             \/ \E h \in 1 .. i - 1 :
                  new.entries[h].branch = new.entries[i].branch
      BY <1>17, <3>5, <3>6, <3>7 DEF d
    <3> QED BY <3>8, <3>9 DEF EntryInv
  <2> QED BY <2>1, <2>2
<1>12. \A u \in Tasks : HasFirst(OfOperation(k, u))
  <2> TAKE u \in Tasks
  <2>1. OfOperation(k, u) \in SUBSET (1 .. Len(k))
          /\ OfOperation(es, u) \in SUBSET (Nat \ {0})
        /\ HasFirst(OfOperation(es, u))
    BY <1>10, <1>25 DEF OfOperation, LedgerInv
  <2>2. u = t => 1 \in OfOperation(k, u)
    BY <1>25, <1>26 DEF OfOperation
  <2>3. ASSUME u # t, NEW i \in OfOperation(k, u) PROVE i - 1 \in OfOperation(es, u)
    BY <1>15, <1>26, <2>3 DEF OfOperation
  <2>4. ASSUME NEW f \in OfOperation(es, u), f + 1 \in 1 .. Len(k)
        PROVE  f + 1 \in OfOperation(k, u)
    <3>1. f \in Nat \ {0} /\ f + 1 \in DOMAIN k \ {1} /\ f + 1 - 1 = f
      BY <1>25, <2>1, <2>4
    <3>2. k[f + 1] = es[f]
      BY <1>15, <3>1
    <3> QED BY <3>1, <3>2 DEF OfOperation
  <2> QED BY <1>25, <2>1, <2>2, <2>3, <2>4, FirstShifts
<1>13. \A c \in Branches : HasFirst(OfBranch(k, c))
  <2> TAKE c \in Branches
  <2>1. OfBranch(k, c) \in SUBSET (1 .. Len(k))
          /\ OfBranch(es, c) \in SUBSET (Nat \ {0})
        /\ HasFirst(OfBranch(es, c))
    BY <1>10, <1>25 DEF OfBranch, LedgerInv
  <2>2. c = b => 1 \in OfBranch(k, c)
    BY <1>25, <1>26 DEF OfBranch
  <2>3. ASSUME c # b, NEW i \in OfBranch(k, c) PROVE i - 1 \in OfBranch(es, c)
    BY <1>15, <1>26, <2>3 DEF OfBranch
  <2>4. ASSUME NEW f \in OfBranch(es, c), f + 1 \in 1 .. Len(k)
        PROVE  f + 1 \in OfBranch(k, c)
    <3>1. f \in Nat \ {0} /\ f + 1 \in DOMAIN k \ {1} /\ f + 1 - 1 = f
      BY <1>25, <2>1, <2>4
    <3>2. k[f + 1] = es[f]
      BY <1>15, <3>1
    <3> QED BY <3>1, <3>2 DEF OfBranch
  <2> QED BY <1>25, <2>1, <2>2, <2>3, <2>4, FirstShifts
<1>14. InOrder(new)
  <2> SUFFICES ASSUME NEW i \in DOMAIN k, NEW j \in DOMAIN k
               PROVE  Ordered(k, i, j)
    BY <1>17 DEF InOrder
  <2>1. i \in Nat \ {0} /\ j \in Nat \ {0}
    BY <1>25
  <2>2. ASSUME NEW h \in DOMAIN k, h # 1
        PROVE  /\ h - 1 \in DOMAIN es /\ k[h] = es[h - 1] /\ k[h] \in Entry
               /\ k[h].id \in 1 .. now - 1 /\ k[h].time \in 1 .. led.next - 1
               /\ k[h].parent < k[h].id
    <3>1. h - 1 \in DOMAIN es /\ k[h] = es[h - 1]
      BY <1>15, <2>2
    <3> QED BY <1>10, <3>1 DEF EntryInv
  <2>3. CASE i = 1 /\ j = 1
    <3>1. e.parent # e.id /\ ~(i < j)
      BY <1>5, <2>3 DEF Entry, Ids
    <3> QED BY <1>26, <2>3, <3>1 DEF Ordered
  <2>4. CASE i # 1 /\ j = 1
    <3>1. k[i].parent # e.id /\ ~(i < j)
      BY <1>5, <1>18, <2>1, <2>2, <2>4, SMTT(30) DEF Entry, Ids
    <3> QED BY <1>26, <2>4, <3>1 DEF Ordered
  <2>5. CASE i = 1 /\ j # 1
    <3>1. i < j /\ j - 1 \in DOMAIN es /\ k[j] = es[j - 1] /\ k[j] \in Entry
      BY <2>1, <2>2, <2>5
    <3>2. e.id > k[j].id /\ e.time > k[j].time
      BY <1>5, <1>18, <2>2, <2>5
    <3>3. ASSUME k[j].branch = b
          PROVE  e.seq = k[j].seq + 1 \/ \E h \in 2 .. j - 1 : k[h].branch = b
      <4>1. EntryInv(led, j - 1, now)
        BY <1>10, <3>1
      <4>2. CASE k[j].seq = led.branches[b].count
        <5>1. led.branches[b].known
          BY <3>1, <3>3, <4>1 DEF EntryInv
        <5> QED BY <1>1, <1>2, <1>5, <4>2, <5>1 DEF BranchesKept
      <4>3. ASSUME NEW h \in 1 .. j - 1 - 1, es[h].branch = b
            PROVE  \E g \in 2 .. j - 1 : k[g].branch = b
        <5>1. h + 1 \in DOMAIN k \ {1} /\ h + 1 \in 2 .. j - 1 /\ h + 1 - 1 = h
          BY <1>25, <2>1, <3>1
        <5>2. k[h + 1] = es[h]
          BY <1>15, <5>1
        <5> QED BY <4>3, <5>1, <5>2
      <4> QED BY <3>1, <3>3, <4>1, <4>2, <4>3 DEF EntryInv
    <3>4. k[j].op = t => e.opSeq > k[j].opSeq /\ e.depth > k[j].depth
      <4>1. e.opSeq \in Nat /\ e.depth \in Nat /\ k[j].opSeq \in Nat
            /\ k[j].depth \in Nat
        BY <1>5, <3>1 DEF Entry, Ids
      <4> QED BY <1>5, <3>1, <4>1
    <3> QED BY <1>26, <2>5, <3>1, <3>2, <3>3, <3>4 DEF Ordered
  <2>6. CASE i # 1 /\ j # 1
    <3>1. /\ i - 1 \in DOMAIN es /\ k[i] = es[i - 1]
          /\ j - 1 \in DOMAIN es /\ k[j] = es[j - 1]
      BY <2>2, <2>6
    <3>2. Ordered(es, i - 1, j - 1)
      BY <3>1 DEF LedgerInv, InOrder
    <3>3. i - 1 < j - 1 <=> i < j
      BY <2>1
    <3>4. ASSUME NEW h \in i - 1 + 1 .. j - 1 - 1, es[h].branch = k[i].branch
          PROVE  \E g \in i + 1 .. j - 1 : k[g].branch = k[i].branch
      <4>1. h + 1 \in DOMAIN k \ {1} /\ h + 1 \in i + 1 .. j - 1 /\ h + 1 - 1 = h
        BY <1>25, <2>1, <3>1
      <4>2. k[h + 1] = es[h]
        BY <1>15, <4>1
      <4> QED BY <3>4, <4>1, <4>2
    <3> QED BY <3>1, <3>2, <3>3, <3>4 DEF Ordered
  <2> QED BY <2>3, <2>4, <2>5, <2>6
<1>20. Len(k) <= MaxEntries
  BY <1>7
<1>21. \A c \in Branches : cs[c].count < now + 1
  BY <1>8
<1>22. /\ Len(new.entries) <= MaxEntries /\ Len(new.entries) < new.next
       /\ new.next <= now + 1
  BY <1>9, <1>17, <1>20
<1>23. /\ \A c \in Branches : new.branches[c].count < now + 1
       /\ \A i \in DOMAIN new.entries : EntryInv(new, i, now + 1)
       /\ \A u \in Tasks : HasFirst(OfOperation(new.entries, u))
       /\ \A c \in Branches : HasFirst(OfBranch(new.entries, c))
  BY <1>11, <1>12, <1>13, <1>17, <1>21
<1>24. LedgerInv(new, now + 1)
  BY <1>9, <1>14, <1>22, <1>23 DEF LedgerInv
<1> QED BY <1>24 DEF new

(* A ledger that stays the same while the clock goes on.                   *)
LEMMA LaterInv ==
  ASSUME NEW led, NEW now \in Nat, LedgerInv(led, now)
  PROVE  LedgerInv(led, now + 1)
<1>1. led.next \in Nat /\ led.next <= now + 1
  BY DEF LedgerInv, Ledger
<1>2. \A b \in Branches : led.branches[b].count < now + 1
  BY DEF LedgerInv, Ledger, Branch, Ids
<1>3. \A i \in DOMAIN led.entries : EntryInv(led, i, now + 1)
  BY DEF LedgerInv, EntryInv
<1> QED BY <1>1, <1>2, <1>3 DEF LedgerInv

(* A restart leaves entries and index as they were.                        *)
LEMMA LoadedInv ==
  ASSUME NEW led, NEW now \in 1 .. MaxStamps + 1, LedgerInv(led, now)
  PROVE  /\ LedgerInv(Loaded(led), now)
         /\ Loaded(led).entries = led.entries /\ Loaded(led).next = led.next
<1> DEFINE new == Loaded(led)
           main == IF led.entries # << >> /\ ~led.branches[Main].known
                   THEN NewBranch(led.branches, Main, NoBranch)
                   ELSE led.branches[Main]
           bs == [led.branches EXCEPT ![Main] = main]
<1>1. led.entries \in Seq(Entry) /\ led.branches \in [Branches -> Branch]
      /\ led.next \in 1 .. MaxStamps + 1 /\ Len(led.entries) < led.next
      /\ Len(led.entries) \in Nat /\ Main \in Branches /\ MaxStamps \in Nat
      /\ DOMAIN led.entries = 1 .. Len(led.entries)
  BY LenProperties, LedgerAssumption, HistoryAssumption DEF LedgerInv, Ledger
<1>3. new.entries = led.entries /\ new.next = led.next
      /\ new.branches = bs
      /\ new = [entries |-> led.entries, branches |-> bs, next |-> led.next]
  BY <1>1 DEF Loaded
<1>4. main \in Branch /\ main.count \in {0, led.branches[Main].count}
      /\ (led.branches[Main].known =>
             main.known /\ main.count = led.branches[Main].count)
  BY <1>1, NewBranchType
<1> HIDE DEF main, new
<1>5. /\ bs \in [Branches -> Branch]
      /\ \A b \in Branches : bs[b].count \in {0, led.branches[b].count}
      /\ \A b \in Branches : led.branches[b].known =>
           bs[b].known /\ bs[b].count = led.branches[b].count
  BY <1>1, <1>4
<1> HIDE DEF bs
<1>6. new \in Ledger
  BY <1>1, <1>3, <1>5 DEF Ledger
<1>7. \A b \in Branches : bs[b].count < now
  BY <1>1, <1>5 DEF LedgerInv
<1>8. \A i \in DOMAIN led.entries : EntryInv(new, i, now)
  <2> TAKE i \in DOMAIN led.entries
  <2>1. led.entries[i] \in Entry /\ EntryInv(led, i, now)
    BY <1>1, EntryOf DEF LedgerInv
  <2> DEFINE d == led.entries[i].branch
  <2>2. d \in Branches /\ led.branches[d].known
    BY <2>1 DEF EntryInv, Entry
  <2>3. bs[d].known /\ bs[d].count = led.branches[d].count
    BY <1>5, <2>2
  <2> QED BY <1>3, <2>1, <2>3 DEF EntryInv
<1>9. LedgerInv(new, now)
  BY <1>3, <1>6, <1>7, <1>8 DEF LedgerInv, InOrder
<1> QED BY <1>3, <1>9 DEF new

(* What was told stays told.                                               *)
LEMMA RecordedTells ==
  ASSUME NEW led, NEW now \in 1 .. MaxStamps, LedgerInv(led, now),
         NEW t \in Tasks, NEW op \in Operation
  PROVE  LET new == Recorded(led, now, t, op) IN
         /\ Told(new, t, op) /\ new.next = led.next + 1
         /\ \A u \in Tasks, o \in Operation : Told(led, u, o) => Told(new, u, o)
         /\ \A i \in DOMAIN new.entries :
              \/ new.entries[i].id = now /\ new.entries[i].time = led.next
              \/ \E j \in DOMAIN led.entries : new.entries[i] = led.entries[j]
<1> DEFINE new == Recorded(led, now, t, op)
           es == led.entries
<1> PICK bs, e : Records(led, now, t, op, bs, e, new)
  BY RecordedShape
<1> DEFINE k == Kept(<<e>> \o es)
<1>1. es \in Seq(Entry) /\ Len(es) <= MaxEntries /\ MaxEntries \in Nat
      /\ DOMAIN es = 1 .. Len(es) /\ Len(es) \in Nat
  BY LenProperties, LedgerAssumption DEF LedgerInv, Ledger
<1>2. e \in Entry /\ e.op = t /\ e.is = op /\ e.id = now /\ e.time = led.next
      /\ new.entries = k /\ new.next = led.next + 1
  BY DEF Records
<1> HIDE DEF new, k
<1>9. es \in Seq(Entry) /\ e \in Entry /\ Len(es) <= MaxEntries
  BY <1>1, <1>2
<1>3. k[1] = e /\ 1 \in DOMAIN k
  BY <1>9, KeptFacts DEF k
<1>10. \A i \in DOMAIN k \ {1} : i - 1 \in DOMAIN es /\ k[i] = es[i - 1]
  BY <1>9, KeptFacts, SMTT(30) DEF k
<1>4. \A i \in DOMAIN es : i + 1 \in DOMAIN k
                        \/ (i = Len(es) /\ Len(k) = Len(es))
  BY <1>9, KeptFacts DEF k
<1>8. Len(k) = Len(es) + 1 \/ (Len(k) = MaxEntries /\ Len(es) = Len(k))
  BY <1>9, KeptFacts DEF k
<1>5. Told(new, t, op)
  BY <1>2, <1>3 DEF Told
<1>6. ASSUME NEW u \in Tasks, NEW o \in Operation, Told(led, u, o)
      PROVE  Told(new, u, o)
  <2>1. CASE Len(k) = MaxEntries
    BY <1>2, <2>1 DEF Told
  <2>2. CASE Len(k) = Len(es) + 1 /\ Len(k) # MaxEntries
    <3>1. Len(k) \in Nat /\ Len(k) # Len(es)
      BY <1>1, <2>2
    <3>2. ASSUME Len(es) = MaxEntries PROVE Len(k) <= MaxEntries
      BY <1>1, <1>2, KeptFacts DEF k
    <3>3. Len(es) # MaxEntries
      BY <1>1, <2>2, <3>1, <3>2
    <3>4. PICK i \in DOMAIN es : es[i].op = u /\ es[i].is = o
      BY <1>6, <3>3 DEF Told
    <3>5. i \in Nat \ {0} /\ i + 1 \in DOMAIN k \ {1} /\ i + 1 - 1 = i
      BY <1>1, <1>4, <3>1
    <3>6. k[i + 1] = es[i]
      BY <1>10, <3>5
    <3> QED BY <1>2, <3>4, <3>5, <3>6 DEF Told
  <2> QED BY <1>8, <2>1, <2>2
<1>7. \A i \in DOMAIN k : \/ k[i].id = now /\ k[i].time = led.next
                         \/ \E j \in DOMAIN es : k[i] = es[j]
  BY <1>2, <1>3, <1>10
<1> QED BY <1>2, <1>5, <1>6, <1>7 DEF new

---------------------------------------------------------------------------
(* The registry and the whole state.                                       *)

(* A list of snapshots, be it the one in memory or the one on file.        *)
SnapshotsInv(ss, now) ==
  /\ ss \in Seq(Snapshot)
  /\ \A i \in DOMAIN ss : ss[i].id \in 1 .. now - 1
  /\ \A b \in Branches : HasFirst(OfBranch(ss, b))
  /\ Tree(ss)

(* Where the index is never used again, an entry younger than a snapshot   *)
(* has a later time than the snapshot's.                                   *)
AnchorsInv ==
  \A m \in DOMAIN snapshots :
    /\ snapshots[m].time < ledger.next
    /\ \A i \in DOMAIN ledger.entries :
         ledger.entries[i].id > snapshots[m].id =>
           ledger.entries[i].time > snapshots[m].time

IInv ==
  /\ TypeOK
  /\ LedgerInv(ledger, stamp) /\ LedgerInv(savedLedger, stamp)
  /\ SnapshotsInv(snapshots, stamp) /\ SnapshotsInv(savedSnapshots, stamp)
  /\ \A t \in Tasks :
       /\ Known(ops, t) => Told(ledger, t, ops[t])
       /\ Known(savedOps, t) => Told(ledger, t, savedOps[t])
  /\ NothingUnrecorded
  /\ saving # NoThread => savedLedger = ledger
  /\ source # NoSource => source.time < ledger.next
  /\ env # {"crash", "fault"} => AnchorsInv
  /\ ~Faulty => savedLedger.entries = ledger.entries
                /\ savedLedger.next = ledger.next
                /\ savedSnapshots = snapshots

(* A change of one operation, as its method makes it.                      *)
LEMMA ChangesType ==
  ASSUME NEW th, NEW t \in Tasks, ops \in [Tasks -> Operation],
         NEW new \in Changes(th, t)
  PROVE  /\ new \in [Tasks -> Operation]
         /\ \A u \in Tasks : u # t => new[u] = ops[u]
BY DEF Changes, Registered, Claimed, Released, Completed, Compensated,
       Operation, NoOperation

(* The latest snapshot of a branch is one of the list, or there is none.   *)
LEMMA LatestType ==
  ASSUME snapshots \in Seq(Snapshot), NEW b \in Branches \cup {NoBranch},
         \A c \in Branches : HasFirst(OfBranch(snapshots, c))
  PROVE  \/ LatestIn(b).id = 0
         \/ \E m \in DOMAIN snapshots : LatestIn(b) = snapshots[m]
<1>1. b \notin Branches => OfBranch(snapshots, b) = {}
  <2>1. \A i \in DOMAIN snapshots : snapshots[i] \in Snapshot
    BY EntryOf
  <2> QED BY <2>1 DEF OfBranch, Snapshot
<1>2. CASE OfBranch(snapshots, b) = {}
  BY <1>2 DEF LatestIn, Latest, NoSnapshot
<1>3. CASE OfBranch(snapshots, b) # {}
  <2>1. \E i \in OfBranch(snapshots, b) : IsFirst(OfBranch(snapshots, b), i)
    BY <1>1, <1>3 DEF HasFirst
  <2> QED BY <1>3, <2>1 DEF LatestIn, Latest, OfBranch
<1> QED BY <1>2, <1>3

LEMMA InitIInv == Init => IInv
<1> SUFFICES ASSUME Init PROVE IInv
  OBVIOUS
<1>1. stamp = 1 /\ MaxStamps \in Nat /\ MaxEntries \in Nat \ {0}
      /\ saving = NoThread /\ source = NoSource /\ env \in Envs
  BY LedgerAssumption, HistoryAssumption DEF Init
<1>2. ops \in [Tasks -> Operation] /\ savedOps = ops
      /\ \A t \in Tasks : ~Known(ops, t)
  BY DEF Init, NoOperation, Operation, Known
<1>3. ledger = EmptyLedger /\ savedLedger = ledger
      /\ snapshots = << >> /\ savedSnapshots = << >>
  BY DEF Init
<1>4. /\ ledger.entries = << >> /\ ledger.next = 1
      /\ ledger.branches = [b \in Branches |-> UnknownBranch]
      /\ ledger = [entries |-> ledger.entries, branches |-> ledger.branches,
                   next |-> ledger.next]
  BY <1>3 DEF EmptyLedger
<1>5. << >> \in Seq(Entry) /\ Len(<< >>) = 0 /\ << >> \in Seq(Snapshot)
      /\ DOMAIN << >> = {}
  BY EmptySeq
<1>6. UnknownBranch \in Branch /\ UnknownBranch.count = 0
  BY <1>1 DEF UnknownBranch, Branch, Ids
<1>7. ledger \in Ledger
  <2>1. ledger.next \in 1 .. MaxStamps + 1
    BY <1>1, <1>4
  <2>2. ledger.branches \in [Branches -> Branch]
    BY <1>4, <1>6
  <2>3. ledger.entries \in Seq(Entry)
    BY <1>4, <1>5
  <2> QED BY <1>4, <2>1, <2>2, <2>3 DEF Ledger
<1>8. LedgerInv(ledger, stamp)
  <2>1. \A t : OfOperation(<< >>, t) = {}
        /\ \A b : OfBranch(<< >>, b) = {}
    BY <1>5 DEF OfOperation, OfBranch
  <2>2. /\ \A t \in Tasks : HasFirst(OfOperation(ledger.entries, t))
        /\ \A b \in Branches : HasFirst(OfBranch(ledger.entries, b))
    BY <1>4, <2>1 DEF HasFirst
  <2>3. /\ Len(ledger.entries) <= MaxEntries /\ Len(ledger.entries) < ledger.next
        /\ ledger.next <= stamp
        /\ \A b \in Branches : ledger.branches[b].count < stamp
    BY <1>1, <1>4, <1>5, <1>6
  <2>4. (\A i \in DOMAIN ledger.entries : EntryInv(ledger, i, stamp))
        /\ InOrder(ledger)
    BY <1>4, <1>5 DEF InOrder
  <2> QED BY <1>7, <2>2, <2>3, <2>4 DEF LedgerInv
<1>9. SnapshotsInv(<< >>, stamp)
  BY <1>5 DEF SnapshotsInv, HasFirst, OfBranch, Tree
<1>10. TypeOK
  BY <1>1, <1>2, <1>3, <1>4, <1>5, <1>7 DEF TypeOK
<1>11. AnchorsInv
  BY <1>3, <1>5 DEF AnchorsInv
<1>12. NothingUnrecorded
  BY <1>2 DEF NothingUnrecorded
<1> QED BY <1>1, <1>2, <1>3, <1>8, <1>9, <1>10, <1>11, <1>12 DEF IInv

(* A list of snapshots that stays the same while the clock goes on.        *)
LEMMA SnapshotsLater ==
  ASSUME NEW ss, NEW now \in Nat, SnapshotsInv(ss, now)
  PROVE  SnapshotsInv(ss, now + 1)
BY DEF SnapshotsInv

LEMMA ChangeIInv ==
  ASSUME IInv, NEW th \in Threads, NEW t \in Tasks, Change(th, t) PROVE IInv'
<1>1. stamp \in 1 .. MaxStamps /\ stamp' = stamp + 1 /\ stamp \in Nat
      /\ saving = NoThread /\ MaxStamps \in Nat
  BY HistoryAssumption DEF Change, IInv, TypeOK
<1>2. ops' \in [Tasks -> Operation] /\ \A u \in Tasks : u # t => ops'[u] = ops[u]
  BY ChangesType DEF Change, IInv, TypeOK
<1>3. ops'[t] \in Operation /\ LedgerInv(ledger, stamp)
      /\ LedgerInv(savedLedger, stamp)
  BY <1>2 DEF IInv
<1>4. ledger' = Recorded(ledger, stamp, t, ops'[t])
      /\ UNCHANGED <<snapshots, source, savedOps, savedSnapshots, env>>
      /\ \/ savedLedger' = ledger' /\ saving' = th
         \/ Faulty /\ UNCHANGED <<savedLedger, saving>>
  BY DEF Change
<1>5. LedgerInv(ledger', stamp')
  BY <1>1, <1>3, <1>4, RecordedInv
<1>6. LedgerInv(savedLedger, stamp')
  BY <1>1, <1>3, LaterInv
<1>7. LedgerInv(savedLedger', stamp')
  BY <1>4, <1>5, <1>6
<1>8. SnapshotsInv(snapshots', stamp') /\ SnapshotsInv(savedSnapshots', stamp')
  BY <1>1, <1>4, SnapshotsLater DEF IInv
<1>9. Told(ledger', t, ops'[t]) /\ ledger'.next = ledger.next + 1
  BY <1>1, <1>3, <1>4, RecordedTells
<1>10. \A u \in Tasks, o \in Operation : Told(ledger, u, o) => Told(ledger', u, o)
  BY <1>1, <1>3, <1>4, RecordedTells
<1>11. \A i \in DOMAIN ledger'.entries :
         \/ ledger'.entries[i].id = stamp /\ ledger'.entries[i].time = ledger.next
         \/ \E j \in DOMAIN ledger.entries : ledger'.entries[i] = ledger.entries[j]
  BY <1>1, <1>3, <1>4, RecordedTells
<1>12. \A u \in Tasks : Known(ops, u)' => Told(ledger', u, ops'[u])
  <2> SUFFICES ASSUME NEW u \in Tasks, Known(ops, u)', u # t
               PROVE  Told(ledger', u, ops'[u])
    BY <1>9
  <2>1. ops'[u] = ops[u] /\ Known(ops, u) /\ ops[u] \in Operation
    BY <1>2 DEF Known
  <2>2. Told(ledger, u, ops[u])
    BY <2>1 DEF IInv
  <2> QED BY <1>10, <2>1, <2>2
<1>20. \A u \in Tasks : Known(savedOps, u) => Told(ledger', u, savedOps[u])
  BY <1>10 DEF IInv, TypeOK
<1>13. NothingUnrecorded'
  <2>1. SUFFICES ASSUME NEW u \in Tasks, Known(savedOps, u)
                 PROVE  Told(savedLedger', u, savedOps[u])
    BY <1>4 DEF NothingUnrecorded, Known
  <2>2. savedOps[u] \in Operation /\ Told(savedLedger, u, savedOps[u])
        /\ Told(ledger, u, savedOps[u])
    BY <2>1 DEF NothingUnrecorded, IInv, TypeOK
  <2>3. CASE savedLedger' = savedLedger
    BY <2>2, <2>3
  <2>4. CASE savedLedger' = ledger'
    BY <1>10, <2>2, <2>4
  <2> QED BY <1>4, <2>3, <2>4
<1>14. ledger.next \in Nat
  BY <1>3 DEF LedgerInv, Ledger
<1>15. source' # NoSource => source'.time < ledger'.next
  <2>1. CASE source = NoSource
    BY <1>4, <2>1
  <2>2. CASE source # NoSource
    <3>1. source.time \in Nat /\ source.time < ledger.next
      BY <2>2 DEF IInv, TypeOK, Source, Ids
    <3> QED BY <1>4, <1>9, <1>14, <3>1
  <2> QED BY <2>1, <2>2
<1>16. AnchorsInv => AnchorsInv'
  <2> SUFFICES ASSUME AnchorsInv, NEW m \in DOMAIN snapshots
               PROVE  /\ snapshots[m].time < ledger'.next
                      /\ \A i \in DOMAIN ledger'.entries :
                           ledger'.entries[i].id > snapshots[m].id =>
                             ledger'.entries[i].time > snapshots[m].time
    BY <1>4 DEF AnchorsInv
  <2>1. snapshots[m] \in Snapshot
    BY EntryOf DEF IInv, TypeOK
  <2>2. snapshots[m].time \in Nat /\ snapshots[m].time < ledger.next
    BY <2>1 DEF AnchorsInv, Snapshot, Ids
  <2>3. ASSUME NEW i \in DOMAIN ledger'.entries,
               ledger'.entries[i].id > snapshots[m].id
        PROVE  ledger'.entries[i].time > snapshots[m].time
    <3>1. CASE ledger'.entries[i].time = ledger.next
      BY <1>14, <2>2, <3>1
    <3>2. ASSUME NEW j \in DOMAIN ledger.entries,
                 ledger'.entries[i] = ledger.entries[j]
          PROVE  ledger'.entries[i].time > snapshots[m].time
      BY <2>3, <3>2 DEF AnchorsInv
    <3> QED BY <1>11, <3>1, <3>2
  <2> QED BY <1>9, <1>14, <2>2, <2>3
<1>17. TypeOK'
  <2>1. stamp' \in 1 .. MaxStamps + 1
    BY <1>1
  <2>2. saving' \in {Server, Loop, NoThread}
    BY <1>1, <1>4 DEF Threads
  <2>3. ledger' \in Ledger /\ savedLedger' \in Ledger
        /\ Len(ledger'.entries) <= MaxEntries
    BY <1>5, <1>7 DEF LedgerInv
  <2> QED BY <1>2, <1>4, <2>1, <2>2, <2>3 DEF IInv, TypeOK
<1>18. saving' # NoThread => savedLedger' = ledger'
  BY <1>1, <1>4
<1>19. ~Faulty' => savedLedger'.entries = ledger'.entries
                   /\ savedLedger'.next = ledger'.next
                   /\ savedSnapshots' = snapshots'
  BY <1>4 DEF Faulty, IInv
<1>21. \A u \in Tasks :
         /\ Known(ops, u)' => Told(ledger', u, ops'[u])
         /\ Known(savedOps, u)' => Told(ledger', u, savedOps'[u])
  BY <1>4, <1>12, <1>20 DEF Known
<1> QED BY <1>4, <1>5, <1>7, <1>8, <1>13, <1>15, <1>16, <1>17, <1>18, <1>19,
           <1>21 DEF IInv

LEMMA SaveOpsIInv ==
  ASSUME IInv, NEW th \in Threads, SaveOps(th) PROVE IInv'
<1>1. saving = th /\ saving' = NoThread
      /\ UNCHANGED <<ops, ledger, snapshots, stamp, source, savedLedger,
                     savedSnapshots, env>>
      /\ (savedOps' = ops \/ UNCHANGED savedOps)
  BY DEF SaveOps
<1>2. savedLedger = ledger
  BY <1>1, HistoryAssumption DEF IInv, Threads
<1>3. NothingUnrecorded'
  BY <1>1, <1>2 DEF IInv, NothingUnrecorded
<1>4. TypeOK'
  BY <1>1 DEF IInv, TypeOK
<1> QED BY <1>1, <1>3, <1>4 DEF IInv, AnchorsInv, Faulty

LEMMA ReadSourceIInv ==
  ASSUME IInv, NEW b \in Branches, ReadSource(b) PROVE IInv'
<1>1. UNCHANGED <<ops, ledger, snapshots, stamp, saving, savedOps, savedLedger,
                  savedSnapshots, env>>
  BY DEF ReadSource
<1>2. PICK e \in Sources(b) :
        source' = [stage |-> "read", branch |-> b, entry |-> e.id,
                   time |-> e.time, above |-> ledger.branches[b].parent]
  BY DEF ReadSource
<1>3. ledger.entries \in Seq(Entry) /\ ledger.next \in 1 .. MaxStamps + 1
      /\ MaxStamps \in Nat
  BY HistoryAssumption DEF IInv, TypeOK, Ledger
<1>4. \A i \in DOMAIN ledger.entries :
        ledger.entries[i].id \in Ids /\ ledger.entries[i].time \in Ids
        /\ ledger.entries[i].time < ledger.next
  <2> TAKE i \in DOMAIN ledger.entries
  <2>1. ledger.entries[i] \in Entry /\ EntryInv(ledger, i, stamp)
    BY <1>3, EntryOf DEF IInv, LedgerInv
  <2> QED BY <1>3, <2>1 DEF Entry, EntryInv
<1>5. NoEntry.id \in Ids /\ NoEntry.time \in Ids /\ NoEntry.time < ledger.next
  BY <1>3 DEF NoEntry, Ids
<1>6. NewestIn(ledger.entries, b) = NoEntry
      \/ \E i \in DOMAIN ledger.entries :
           NewestIn(ledger.entries, b) = ledger.entries[i]
  <2>1. OfBranch(ledger.entries, b) \subseteq DOMAIN ledger.entries
        /\ HasFirst(OfBranch(ledger.entries, b))
    BY DEF OfBranch, IInv, LedgerInv
  <2> QED BY <1>3, <2>1, NewestIsFirst DEF NewestIn
<1>7. e.id \in Ids /\ e.time \in Ids /\ e.time < ledger.next
  BY <1>4, <1>5, <1>6 DEF Sources
<1>8. source' \in Source /\ source'.time < ledger.next
  <2>1. ledger.branches[b].parent \in Branches \cup {NoBranch}
    BY DEF IInv, TypeOK, Ledger, Branch
  <2> QED BY <1>2, <1>7, <2>1 DEF Source
<1>9. TypeOK'
  BY <1>1, <1>8 DEF IInv, TypeOK
<1> QED BY <1>1, <1>8, <1>9 DEF IInv, AnchorsInv, NothingUnrecorded, Faulty

LEMMA RegisterIInv == ASSUME IInv, Register PROVE IInv'
<1>1. /\ source # NoSource /\ stamp \in 1 .. MaxStamps /\ stamp' = stamp + 1
      /\ source' = NoSource /\ MaxStamps \in Nat
      /\ UNCHANGED <<ops, ledger, saving, savedOps, savedLedger, env>>
      /\ savedSnapshots' = snapshots' \/ (Faulty /\ UNCHANGED savedSnapshots)
  BY HistoryAssumption DEF Register, IInv, TypeOK
<1>2. source \in Source /\ source.time < ledger.next
  BY <1>1 DEF IInv, TypeOK
<1> DEFINE b == source.branch
<1>3. b \in Branches /\ source.entry \in Ids /\ source.time \in Ids
      /\ source.above \in Branches \cup {NoBranch}
  BY <1>2 DEF Source
<1>4. snapshots \in Seq(Snapshot) /\ SnapshotsInv(snapshots, stamp)
      /\ DOMAIN snapshots = 1 .. Len(snapshots) /\ Len(snapshots) \in Nat
  BY LenProperties DEF IInv, TypeOK
<1>5. PICK p \in Parents :
        snapshots' = <<[id |-> stamp, branch |-> b,
                        parent |-> p.id, named |-> p.named,
                        entry |-> source.entry, time |-> source.time]>>
                     \o snapshots
  BY DEF Register
<1>6. ~p.named =>
        p.id = 0 \/ \E j \in DOMAIN snapshots : p.id = snapshots[j].id
  <2> SUFFICES ASSUME ~p.named
               PROVE  p.id = 0 \/ \E j \in DOMAIN snapshots : p.id = snapshots[j].id
    OBVIOUS
  <2>1. p \notin Named
    BY DEF Named
  <2>2. \A c \in Branches \cup {NoBranch} :
          LatestIn(c).id = 0
          \/ \E j \in DOMAIN snapshots : LatestIn(c).id = snapshots[j].id
    BY <1>4, LatestType DEF SnapshotsInv
  <2>3. p.id \in {LatestIn(b).id, LatestIn(source.above).id}
    BY <2>1 DEF Parents
  <2> QED BY <1>3, <2>2, <2>3
<1>7. p.id \in Ids /\ p.named \in BOOLEAN
  <2>1. CASE p \in Named
    BY <2>1 DEF Named
  <2>2. CASE p \notin Named
    <3>1. p.named = FALSE
      BY <2>2 DEF Parents
    <3>2. \A j \in DOMAIN snapshots : snapshots[j].id \in Ids
      <4>1. \A j \in DOMAIN snapshots : snapshots[j] \in Snapshot
        BY <1>4, EntryOf
      <4> QED BY <4>1 DEF Snapshot
    <3>3. p.id = 0 \/ \E j \in DOMAIN snapshots : p.id = snapshots[j].id
      BY <1>6, <3>1
    <3>4. 0 \in Ids
      BY <1>1 DEF Ids
    <3>5. p.id \in Ids
      BY <3>2, <3>3, <3>4
    <3> QED BY <3>1, <3>5
  <2> QED BY <2>1, <2>2
<1> DEFINE s == [id |-> stamp, branch |-> b, parent |-> p.id, named |-> p.named,
                 entry |-> source.entry, time |-> source.time]
           new == <<s>> \o snapshots
<1>8. s \in Snapshot /\ s.id = stamp /\ s.branch = b /\ s.parent = p.id
      /\ s.named = p.named /\ s.time = source.time
  BY <1>1, <1>3, <1>7 DEF Snapshot, Ids
<1>9. snapshots' = new
  BY <1>5
<1> HIDE DEF s
<1>10. new \in Seq(Snapshot) /\ Len(new) = Len(snapshots) + 1 /\ new[1] = s
       /\ \A i \in 2 .. Len(snapshots) + 1 : new[i] = snapshots[i - 1]
  BY <1>4, <1>8, ConcatProperties
<1> HIDE DEF new, b
<1>11. DOMAIN new = 1 .. Len(snapshots) + 1 /\ 1 \in DOMAIN new
  BY <1>4, <1>10, LenProperties
<1>12. \A i \in DOMAIN new : i = 1
         \/ (i - 1 \in DOMAIN snapshots /\ new[i] = snapshots[i - 1])
  BY <1>4, <1>10, <1>11
<1>13. \A j \in DOMAIN snapshots :
         j + 1 \in DOMAIN new /\ new[j + 1] = snapshots[j] /\ j + 1 > 1
  BY <1>4, <1>10, <1>11
<1>14. SnapshotsInv(new, stamp')
  <2>1. \A i \in DOMAIN new : new[i].id \in 1 .. stamp' - 1
    <3>1. \A j \in DOMAIN snapshots : snapshots[j].id \in 1 .. stamp - 1
      BY <1>4 DEF SnapshotsInv
    <3> QED BY <1>1, <1>8, <1>10, <1>12, <3>1
  <2>2. ASSUME NEW c \in Branches PROVE HasFirst(OfBranch(new, c))
    <3>1. OfBranch(new, c) \in SUBSET (1 .. Len(snapshots) + 1)
          /\ OfBranch(snapshots, c) \in SUBSET (Nat \ {0})
          /\ HasFirst(OfBranch(snapshots, c))
      BY <1>4, <1>11 DEF OfBranch, SnapshotsInv
    <3>2. c = b => 1 \in OfBranch(new, c)
      BY <1>8, <1>10, <1>11 DEF OfBranch
    <3>3. ASSUME c # b, NEW i \in OfBranch(new, c)
          PROVE  i - 1 \in OfBranch(snapshots, c)
      BY <1>8, <1>10, <1>12, <3>3 DEF OfBranch
    <3>4. ASSUME NEW f \in OfBranch(snapshots, c)
          PROVE  f + 1 \in OfBranch(new, c)
      BY <1>13, <3>4 DEF OfBranch
    <3>5. Len(snapshots) + 1 \in Nat
      BY <1>4
    <3> QED BY <3>1, <3>2, <3>3, <3>4, <3>5, FirstShifts
  <2>3. Tree(new)
    <3> SUFFICES ASSUME NEW i \in DOMAIN new, ~new[i].named,
                        new[i].parent # 0
                 PROVE  \E j \in DOMAIN new : j > i /\ new[j].id = new[i].parent
      BY DEF Tree
    <3>1. CASE i = 1
      <4>1. PICK j \in DOMAIN snapshots : p.id = snapshots[j].id
        BY <1>6, <1>8, <1>10, <3>1
      <4> QED BY <1>8, <1>10, <1>13, <3>1, <4>1
    <3>2. CASE i # 1
      <4>1. i - 1 \in DOMAIN snapshots /\ new[i] = snapshots[i - 1] /\ i \in Nat
        BY <1>4, <1>11, <1>12, <3>2
      <4>2. PICK j \in DOMAIN snapshots :
              j > i - 1 /\ snapshots[j].id = snapshots[i - 1].parent
        BY <1>4, <4>1 DEF SnapshotsInv, Tree
      <4>3. j \in Nat
        BY <1>4
      <4> QED BY <1>13, <4>1, <4>2, <4>3
    <3> QED BY <3>1, <3>2
  <2> QED BY <1>10, <2>1, <2>2, <2>3 DEF SnapshotsInv
<1>15. SnapshotsInv(snapshots', stamp') /\ SnapshotsInv(savedSnapshots', stamp')
  <2>1. SnapshotsInv(savedSnapshots, stamp')
    BY <1>1, SnapshotsLater DEF IInv
  <2> QED BY <1>1, <1>9, <1>14, <2>1
<1>16. LedgerInv(ledger', stamp') /\ LedgerInv(savedLedger', stamp')
  BY <1>1, LaterInv DEF IInv
<1>17. TypeOK'
  <2>1. snapshots' \in Seq(Snapshot) /\ savedSnapshots' \in Seq(Snapshot)
    BY <1>15 DEF SnapshotsInv
  <2>2. stamp' \in 1 .. MaxStamps + 1
    BY <1>1
  <2> QED BY <1>1, <2>1, <2>2 DEF IInv, TypeOK
<1>18. AnchorsInv => AnchorsInv'
  <2> SUFFICES ASSUME AnchorsInv, NEW m \in DOMAIN new
               PROVE  /\ new[m].time < ledger.next
                      /\ \A i \in DOMAIN ledger.entries :
                           ledger.entries[i].id > new[m].id =>
                             ledger.entries[i].time > new[m].time
    BY <1>1, <1>9 DEF AnchorsInv
  <2>1. CASE m = 1
    <3>1. \A i \in DOMAIN ledger.entries : ledger.entries[i].id \in 1 .. stamp - 1
      BY DEF IInv, LedgerInv, EntryInv
    <3> QED BY <1>1, <1>2, <1>8, <1>10, <2>1, <3>1
  <2>2. CASE m # 1
    BY <1>12, <2>2 DEF AnchorsInv
  <2> QED BY <2>1, <2>2
<1>19. NothingUnrecorded'
  BY <1>1 DEF IInv, NothingUnrecorded
<1>20. ~Faulty' => savedSnapshots' = snapshots'
  BY <1>1 DEF Faulty
<1> QED BY <1>1, <1>15, <1>16, <1>17, <1>18, <1>19, <1>20 DEF IInv, Faulty

LEMMA CrashIInv == ASSUME IInv, Crash PROVE IInv'
<1>1. /\ ops' = savedOps /\ ledger' = Loaded(savedLedger)
      /\ snapshots' = savedSnapshots /\ saving' = NoThread
      /\ source' = NoSource /\ "crash" \in env
      /\ UNCHANGED <<stamp, savedOps, savedLedger, savedSnapshots, env>>
  BY DEF Crash
<1>2. stamp \in 1 .. MaxStamps + 1 /\ LedgerInv(savedLedger, stamp)
  BY DEF IInv, TypeOK
<1>3. LedgerInv(ledger', stamp') /\ ledger'.entries = savedLedger.entries
      /\ ledger'.next = savedLedger.next
  BY <1>1, <1>2, LoadedInv
<1>4. TypeOK'
  <2>1. ledger' \in Ledger /\ Len(ledger'.entries) <= MaxEntries
    BY <1>3 DEF LedgerInv
  <2> QED BY <1>1, <2>1 DEF IInv, TypeOK
<1>5. \A t \in Tasks : Known(savedOps, t) => Told(ledger', t, savedOps[t])
  BY <1>3 DEF IInv, NothingUnrecorded, Told
<1>6. NothingUnrecorded'
  BY <1>1 DEF IInv, NothingUnrecorded
<1>7. env' # {"crash", "fault"} => AnchorsInv'
  <2> SUFFICES ASSUME env # {"crash", "fault"} PROVE AnchorsInv'
    BY <1>1
  <2>1. ~Faulty /\ AnchorsInv
    <3>1. env \subseteq {"crash", "fault"}
      BY HistoryAssumption DEF IInv, TypeOK
    <3> QED BY <1>1, <3>1 DEF Faulty, IInv
  <2>2. snapshots' = snapshots /\ ledger'.entries = ledger.entries
        /\ ledger'.next = ledger.next
    BY <1>1, <1>3, <2>1 DEF IInv
  <2> QED BY <2>1, <2>2 DEF AnchorsInv
<1>8. /\ LedgerInv(savedLedger', stamp') /\ SnapshotsInv(snapshots', stamp')
      /\ SnapshotsInv(savedSnapshots', stamp')
  BY <1>1 DEF IInv
<1>9. \A t \in Tasks :
        /\ Known(ops, t)' => Told(ledger', t, ops'[t])
        /\ Known(savedOps, t)' => Told(ledger', t, savedOps'[t])
  BY <1>1, <1>5 DEF Known
<1> QED BY <1>1, <1>3, <1>4, <1>6, <1>7, <1>8, <1>9 DEF IInv, Faulty

LEMMA NextIInv == IInv /\ [Next]_vars => IInv'
<1> SUFFICES ASSUME IInv, [Next]_vars PROVE IInv'
  OBVIOUS
<1>1. CASE UNCHANGED vars
  BY <1>1 DEF vars, IInv, TypeOK, AnchorsInv, NothingUnrecorded, Faulty
<1> QED BY <1>1, ChangeIInv, SaveOpsIInv, ReadSourceIInv, RegisterIInv, CrashIInv
        DEF Next

LEMMA Invariance == Spec => []IInv
BY InitIInv, NextIInv, PTL DEF Spec

---------------------------------------------------------------------------
(* The type invariant.                                                     *)
THEOREM TypeCorrect == Spec => []TypeOK
BY Invariance, PTL DEF IInv

(* The ledger is in the order of what happened, however often a save       *)
(* failed or the process was killed.                                       *)
THEOREM LedgerKeepsOrder == Spec => []LedgerInOrder
BY Invariance, PTL DEF IInv, LedgerInv, LedgerInOrder

(* The execution file says nothing that the ledger's file does not know.   *)
THEOREM HistoryIsRecorded == Spec => []NothingUnrecorded
BY Invariance, PTL DEF IInv

(* Unless saves fail and the process is killed, a replay misses nothing    *)
(* that happened on the branch after its snapshot.                         *)
THEOREM ReplayMissesNothing == Spec => []ReplayComplete
<1>1. IInv => ReplayComplete
  <2> SUFFICES ASSUME IInv, AnchorsInv, NEW b \in Branches, LatestIn(b).id # 0,
                      NEW i \in Within(b),
                      ledger.entries[i].id > LatestIn(b).id
               PROVE  i \in Replay(b)
    BY DEF IInv, ReplayComplete
  <2>1. PICK m \in DOMAIN snapshots : LatestIn(b) = snapshots[m]
    BY LatestType DEF IInv, SnapshotsInv
  <2>2. i \in DOMAIN ledger.entries
    BY DEF Within, OfBranch
  <2>3. ledger.entries[i].time > LatestIn(b).time
    BY <2>1, <2>2 DEF AnchorsInv
  <2> QED BY <2>3 DEF Replay
<1> QED BY <1>1, Invariance, PTL

(* Where the registry chooses the parents, snapshots form a tree, in       *)
(* memory and on file.                                                     *)
THEOREM LineageIsATree == Spec => []SnapshotsFormATree
BY Invariance, PTL DEF IInv, SnapshotsInv, SnapshotsFormATree
=============================================================================
