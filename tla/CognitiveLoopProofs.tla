------------------------ MODULE CognitiveLoopProofs ------------------------
(***************************************************************************)
(* CognitiveLoop for any number of runners, outcomes, edits and faults:    *)
(* there is one runner, the flag says what it does, and the memory         *)
(* document has each outcome once although nobody locks it.                *)
(***************************************************************************)
EXTENDS CognitiveLoop, TLAPS, SequenceTheorems

(* DocumentInOrder of any document.                                        *)
Ordered(d) ==
  \A i \in DOMAIN d :
    /\ d[i].id = i
    /\ d[i].what # Note => \A j \in DOMAIN d \ {i} : d[j].what # d[i].what

(* A server's pending copy has no outcome the document lacks, and the copy *)
(* of a cycle none that its todo still has: so nothing todo names can      *)
(* turn up in the document before the cycle writes it.                     *)
CopiesInv ==
  /\ Ordered(doc) /\ \A th \in Threads : Ordered(copy[th])
  /\ pc[Server] \in {"adding", "deleting", "graphing"} =>
       Learned(copy[Server]) \subseteq Learned(doc)
  /\ \A th \in Threads :
       /\ pc[th] \in {"learn", "learning"} => todo[th] \cap Learned(doc) = {}
       /\ pc[th] = "learning" =>
            /\ Learned(doc) \subseteq Learned(copy[th])
            /\ todo[th] \cap Learned(copy[th]) = {}

(* Who may be where: the server handles requests, runners run.             *)
PlacesInv ==
  /\ pc[Server] \notin {"dead", "new", "check", "waiting", "ending"}
  /\ \A r \in Runners : pc[r] \notin Request \cup {"idle", "joining"}

(* A runner that is about to end was told to.                              *)
LoopInv ==
  /\ LoopIsTold
  /\ Alive(thread) /\ pc[thread] = "ending" => stop

IInv == TypeOK /\ PlacesInv /\ LoopInv /\ CopiesInv

---------------------------------------------------------------------------
(* The document's operators.                                               *)

LEMMA SeqFacts ==
  ASSUME NEW d \in Seq(Block)
  PROVE  /\ Len(d) \in Nat /\ DOMAIN d = 1 .. Len(d)
         /\ \A i \in DOMAIN d : d[i] \in Block /\ i \in Nat \ {0}
         /\ \A i \in DOMAIN d : d[i].what \in Outcomes \cup {Note}
<1>1. Len(d) \in Nat /\ DOMAIN d = 1 .. Len(d)
  BY LenProperties
<1>2. \A i \in DOMAIN d : d[i] \in Block
  BY ElementOfSeq, <1>1
<1> QED BY <1>1, <1>2 DEF Block

LEMMA LearnedType ==
  ASSUME NEW d \in Seq(Block) PROVE Learned(d) \subseteq Outcomes
BY SeqFacts DEF Learned

(* A block put at the end.                                                 *)
LEMMA AddedFacts ==
  ASSUME NEW d \in Seq(Block), Ordered(d), NEW w \in Outcomes \cup {Note},
         w \notin Learned(d)
  PROVE  /\ Added(d, w) \in Seq(Block) /\ Ordered(Added(d, w))
         /\ Learned(Added(d, w)) = Learned(d) \cup ({w} \ {Note})
<1> DEFINE b == [id |-> Len(d) + 1, what |-> w]
           e == Added(d, w)
           n == Len(d)
<1>1. n \in Nat /\ DOMAIN d = 1 .. n
  BY SeqFacts
<1>2. b \in Block /\ b.id = n + 1 /\ b.what = w
  BY <1>1 DEF Block
<1> HIDE DEF b
<1>3. e = Append(d, b)
  BY DEF Added, b
<1>4. /\ e \in Seq(Block) /\ Len(e) = n + 1
      /\ \A i \in 1 .. n : e[i] = d[i]
      /\ e[n + 1] = b
  BY <1>1, <1>2, <1>3, AppendProperties
<1> HIDE DEF e
<1>5. DOMAIN e = 1 .. n + 1
  BY <1>4, LenProperties
<1> HIDE DEF n
<1>6. \A i \in DOMAIN e : i = n + 1 \/ i \in DOMAIN d
  BY <1>1, <1>5
<1>7. \A i \in DOMAIN d : i \in DOMAIN e /\ i # n + 1 /\ e[i] = d[i]
  BY <1>1, <1>4, <1>5
<1>8. n + 1 \in DOMAIN e
  BY <1>1, <1>5
<1>9. Learned(e) = Learned(d) \cup ({w} \ {Note})
  <2>1. e[n + 1].what = w
    BY <1>2, <1>4
  <2>2. ASSUME NEW x PROVE (\E i \in DOMAIN e : e[i].what = x)
                           <=> (\E i \in DOMAIN d : d[i].what = x) \/ x = w
    BY <1>6, <1>7, <1>8, <2>1
  <2>3. \A x : x \in Learned(e) <=> x # Note /\ \E i \in DOMAIN e : e[i].what = x
    BY DEF Learned
  <2>4. \A x : x \in Learned(d) <=> x # Note /\ \E i \in DOMAIN d : d[i].what = x
    BY DEF Learned
  <2>5. \A x : x \in Learned(e) <=> x \in Learned(d) \cup ({w} \ {Note})
    BY <2>2, <2>3, <2>4
  <2> QED BY <2>5
<1>10. \A i \in DOMAIN d : d[i].what # w \/ w = Note
  BY DEF Learned
<1>11. Ordered(e)
  <2> SUFFICES ASSUME NEW i \in DOMAIN e
               PROVE  /\ e[i].id = i
                      /\ e[i].what # Note =>
                           \A j \in DOMAIN e \ {i} : e[j].what # e[i].what
    BY DEF Ordered
  <2>3. e[n + 1].what = w /\ e[n + 1].id = n + 1
    BY <1>2, <1>4
  <2>1. CASE i = n + 1
    <3>1. ASSUME NEW j \in DOMAIN e \ {i}, w # Note PROVE e[j].what # w
      BY <1>6, <1>7, <1>10, <2>1, <3>1
    <3> QED BY <2>1, <2>3, <3>1
  <2>2. CASE i \in DOMAIN d
    <3>1. e[i].id = i /\ e[i] = d[i]
      BY <1>7, <2>2 DEF Ordered
    <3>2. ASSUME NEW j \in DOMAIN e \ {i}, d[i].what # Note
          PROVE  e[j].what # d[i].what
      <4>1. CASE j = n + 1
        BY <1>10, <2>2, <2>3, <3>2, <4>1
      <4>2. CASE j \in DOMAIN d
        BY <1>7, <2>2, <3>2, <4>2 DEF Ordered
      <4> QED BY <1>6, <4>1, <4>2
    <3> QED BY <3>1, <3>2
  <2> QED BY <1>6, <2>1, <2>2
<1> QED BY <1>4, <1>9, <1>11 DEF e

(* A block taken out.                                                      *)
LEMMA WithoutFacts ==
  ASSUME NEW d \in Seq(Block), Ordered(d), NEW k \in DOMAIN d
  PROVE  /\ Without(d, k) \in Seq(Block) /\ Ordered(Without(d, k))
         /\ Learned(Without(d, k)) \subseteq Learned(d)
<1> DEFINE e == Without(d, k)
           n == Len(d)
           from(j) == IF j < k THEN j ELSE j + 1
<1>1. n \in Nat /\ DOMAIN d = 1 .. n /\ n - 1 \in Nat /\ k \in Nat
  BY SeqFacts
<1>2. e = [j \in 1 .. n - 1 |-> [id |-> j, what |-> d[from(j)].what]]
  BY DEF Without
<1>3. \A j \in 1 .. n - 1 : from(j) \in DOMAIN d /\ j \in Nat
  BY <1>1
<1>4. \A i, j \in 1 .. n - 1 : i # j => from(i) # from(j)
  BY <1>1
<1> HIDE DEF from, e
<1>5. \A j \in 1 .. n - 1 : e[j] \in Block /\ e[j].id = j
                            /\ e[j].what = d[from(j)].what
  BY <1>2, <1>3, SeqFacts DEF Block
<1>6. DOMAIN e = 1 .. n - 1
  BY <1>2
<1>7. e \in Seq(Block)
  <2>1. e \in [1 .. n - 1 -> Block]
    BY <1>2, <1>5
  <2> HIDE DEF n
  <2> QED BY <1>1, <2>1, SeqDef
<1>8. Ordered(e)
  <2> SUFFICES ASSUME NEW i \in 1 .. n - 1, e[i].what # Note,
                      NEW j \in 1 .. n - 1, j # i
               PROVE  e[j].what # e[i].what
    BY <1>5, <1>6 DEF Ordered
  <2> QED BY <1>3, <1>4, <1>5 DEF Ordered
<1>9. Learned(e) \subseteq Learned(d)
  BY <1>3, <1>5, <1>6 DEF Learned
<1> QED BY <1>7, <1>8, <1>9 DEF e

LEMMA NoBlocks ==
  << >> \in Seq(Block) /\ Ordered(<< >>) /\ Learned(<< >>) = {}
BY EmptySeq DEF Ordered, Learned

---------------------------------------------------------------------------
(* The steps.                                                              *)

LEMMA InitIInv == Init => IInv
<1> SUFFICES ASSUME Init PROVE IInv
  OBVIOUS
<1>1. \A th \in Threads : pc[th] = Off(th) /\ copy[th] = << >> /\ todo[th] = {}
  BY DEF Init
<1>2. pc[Server] = "idle" /\ \A r \in Runners : pc[r] = "dead"
  BY <1>1, LoopAssumption DEF Off, Threads
<1>3. TypeOK
  <2>1. /\ stop \in BOOLEAN /\ running \in BOOLEAN /\ finished \subseteq Outcomes
        /\ thread \in Runners \cup {NoThread} /\ lock \in Threads \cup {NoThread}
    BY DEF Init
  <2>4. edits \in 0 .. MaxEdits /\ faults \in 0 .. MaxFaults
    BY LoopAssumption DEF Init
  <2>2. /\ todo \in [Threads -> SUBSET Outcomes]
        /\ copy \in [Threads -> Seq(Block)] /\ doc \in Seq(Block)
    BY NoBlocks DEF Init
  <2>3. /\ pc \in [Threads -> InCycle \cup Request \cup
             {"idle", "joining", "dead", "new", "check", "waiting", "ending"}]
        /\ \A th \in Threads : lock = th <=> pc[th] \in InCycle
    BY LoopAssumption DEF Init, Off, Threads, InCycle
  <2> QED BY <2>1, <2>2, <2>3, <2>4 DEF TypeOK
<1>4. PlacesInv
  BY <1>2 DEF PlacesInv, Request
<1>5. LoopInv
  BY <1>2 DEF LoopInv, LoopIsTold, Alive, Init
<1>6. CopiesInv
  BY <1>1, <1>2, NoBlocks DEF CopiesInv, Init
<1> QED BY <1>3, <1>4, <1>5, <1>6 DEF IInv

(* What each step does to the threads and the loop.                        *)
LEMMA ControlKept ==
  ASSUME IInv, Next PROVE TypeOK' /\ PlacesInv' /\ LoopInv'
<1> USE LoopAssumption
<1> DEFINE Goal == TypeOK' /\ PlacesInv' /\ LoopInv'
<1> USE DEF IInv, TypeOK, PlacesInv, LoopInv, LoopIsTold, Alive, Goes, Threads,
            InCycle, Request, loopVars, docVars
<1>1. CASE Start
  BY <1>1, ZenonT(40) DEF Start
<1>2. CASE Stop
  BY <1>2, ZenonT(40) DEF Stop
<1>3. CASE Joined
  BY <1>3 DEF Joined
<1>4. CASE RunByHand
  BY <1>4 DEF RunByHand
<1>5. ASSUME NEW r \in Runners, Begin(r) PROVE Goal
  BY <1>5 DEF Begin
<1>6. ASSUME NEW r \in Runners, Check(r) PROVE Goal
  <2>1. /\ pc[r] = "check" /\ r = thread
        /\ UNCHANGED <<stop, running, thread, docVars, finished, edits, faults>>
    BY <1>6 DEF Check
  <2>2. CASE stop /\ Goes(r, "ending") /\ UNCHANGED lock
    BY <2>1, <2>2
  <2>3. CASE ~stop /\ lock = NoThread /\ lock' = r /\ Goes(r, "cycle")
    BY <2>1, <2>3
  <2>4. CASE ~stop /\ lock # NoThread /\ Goes(r, "waiting") /\ UNCHANGED lock
    BY <2>1, <2>4
  <2> QED BY <1>6, <2>2, <2>3, <2>4 DEF Check
<1>7. ASSUME NEW r \in Runners, Wake(r) PROVE Goal
  BY <1>7 DEF Wake
<1>8. ASSUME NEW r \in Runners, End(r) PROVE Goal
  BY <1>8 DEF End
<1>9. ASSUME NEW th \in Threads, Snapshot(th) PROVE Goal
  BY <1>9 DEF Snapshot
<1>10. ASSUME NEW th \in Threads, ReadKnown(th) PROVE Goal
  BY <1>10 DEF ReadKnown
<1>11. ASSUME NEW th \in Threads, Learn(th) PROVE Goal
  <2>1. PICK o \in todo[th] : copy' = [copy EXCEPT ![th] = Added(doc, o)]
                              /\ todo' = [todo EXCEPT ![th] = @ \ {o}]
    BY <1>11 DEF Learn, Loads
  <2>2. Added(doc, o) \in Seq(Block)
    BY <1>11, <2>1, AddedFacts DEF Learn, CopiesInv
  <2> QED BY <1>11, <2>1, <2>2 DEF Learn, Loads
<1>12. ASSUME NEW th \in Threads, SaveLearned(th) PROVE Goal
  BY <1>12, NoBlocks DEF SaveLearned, Saves
<1>13. ASSUME NEW th \in Threads, Finish(th) PROVE Goal
  BY <1>13, NoBlocks DEF Finish, Release, Home
<1>14. ASSUME NEW th \in Threads, Fail(th) PROVE Goal
  BY <1>14, NoBlocks DEF Fail, Release, Home
<1>15. CASE Edit
  <2>1. Added(doc, Note) \in Seq(Block)
    BY AddedFacts DEF CopiesInv, Learned
  <2>2. \A i \in DOMAIN doc : Without(doc, i) \in Seq(Block)
    BY WithoutFacts DEF CopiesInv
  <2>3. copy' \in [Threads -> Seq(Block)]
    <3>1. CASE UNCHANGED copy
      BY <3>1
    <3>2. ASSUME NEW d \in Seq(Block), copy' = [copy EXCEPT ![Server] = d]
          PROVE  copy' \in [Threads -> Seq(Block)]
      BY <3>2
    <3> QED BY <1>15, <2>1, <2>2, <3>1, <3>2 DEF Edit, Loads
  <2>4. /\ edits' \in 0 .. MaxEdits
        /\ UNCHANGED <<loopVars, todo, doc, finished, faults>>
    BY <1>15 DEF Edit
  <2>5. \E to \in {"adding", "deleting", "graph"} :
          pc[Server] = "idle" /\ pc' = [pc EXCEPT ![Server] = to]
    BY <1>15 DEF Edit, Loads
  <2> QED BY <2>3, <2>4, <2>5
<1>16. CASE LoadForGraph
  BY <1>16 DEF LoadForGraph, Loads
<1>17. CASE SaveEdit
  BY <1>17, NoBlocks DEF SaveEdit, Saves
<1>18. CASE EditFails
  BY <1>18, NoBlocks DEF EditFails
<1>19. ASSUME NEW o \in Outcomes, Closes(o) PROVE Goal
  BY <1>19 DEF Closes
<1>20. CASE Crash
  BY <1>20, NoBlocks, ZenonT(40) DEF Crash, Off
<1> QED BY <1>1, <1>2, <1>3, <1>4, <1>5, <1>6, <1>7, <1>8, <1>9, <1>10, <1>11,
           <1>12, <1>13, <1>14, <1>15, <1>16, <1>17, <1>18, <1>19, <1>20
        DEF Next, ServerStep, RunnerStep, CycleStep

(* What each step does to the document and its copies.                     *)
LEMMA CopiesKept ==
  ASSUME IInv, Next, TypeOK' PROVE CopiesInv'
<1> DEFINE Fine(th) ==
      /\ pc[th] \in {"learn", "learning"} => todo[th] \cap Learned(doc) = {}
      /\ pc[th] = "learning" =>
           /\ Learned(doc) \subseteq Learned(copy[th])
           /\ todo[th] \cap Learned(copy[th]) = {}
<1>1. /\ pc \in [Threads -> InCycle \cup Request \cup
             {"idle", "joining", "dead", "new", "check", "waiting", "ending"}]
      /\ todo \in [Threads -> SUBSET Outcomes]
      /\ copy \in [Threads -> Seq(Block)] /\ doc \in Seq(Block)
      /\ Server \in Threads /\ Server \notin Runners
  BY LoopAssumption DEF IInv, TypeOK, Threads
<1>2. /\ Ordered(doc) /\ \A th \in Threads : Ordered(copy[th])
      /\ pc[Server] \in {"adding", "deleting", "graphing"} =>
           Learned(copy[Server]) \subseteq Learned(doc)
      /\ \A th \in Threads : Fine(th)
  BY DEF IInv, CopiesInv
<1>3. \A th, u \in Threads : pc[th] \in InCycle /\ pc[u] \in InCycle => th = u
  BY DEF IInv, TypeOK
(* No document changes and nobody comes to a place CopiesInv speaks of.    *)
<1>4. ASSUME UNCHANGED docVars,
             \A th \in Threads : pc'[th] = pc[th]
               \/ pc'[th] \notin {"learn", "learning", "adding", "deleting",
                                  "graphing"}
      PROVE  CopiesInv'
  BY <1>1, <1>2, <1>4 DEF CopiesInv, docVars
<1>5. CASE Start \/ Stop \/ Joined \/ RunByHand \/ \E o \in Outcomes : Closes(o)
  BY <1>1, <1>4, <1>5 DEF Start, Stop, Joined, RunByHand, Closes, Goes
<1>6. ASSUME NEW r \in Runners, Begin(r) \/ Check(r) \/ Wake(r) \/ End(r)
      PROVE  CopiesInv'
  BY <1>1, <1>4, <1>6 DEF Begin, Check, Wake, End, Goes, Threads
<1>7. ASSUME NEW th \in Threads, Snapshot(th) PROVE CopiesInv'
  BY <1>1, <1>2, <1>7 DEF Snapshot, Goes, CopiesInv, InCycle
<1>8. ASSUME NEW th \in Threads, ReadKnown(th) PROVE CopiesInv'
  BY <1>1, <1>2, <1>8 DEF ReadKnown, Goes, CopiesInv, InCycle
<1>9. ASSUME NEW th \in Threads, Learn(th) PROVE CopiesInv'
  <2>1. PICK o \in todo[th] : copy' = [copy EXCEPT ![th] = Added(doc, o)]
                              /\ todo' = [todo EXCEPT ![th] = @ \ {o}]
    BY <1>9 DEF Learn, Loads
  <2>2. /\ pc[th] = "learn" /\ pc' = [pc EXCEPT ![th] = "learning"]
        /\ doc' = doc
    BY <1>9 DEF Learn, Loads, Goes
  <2>3. o \notin Learned(doc) /\ o \in Outcomes /\ o # Note
        /\ todo[th] \cap Learned(doc) = {}
    BY <1>1, <1>2, <2>1, <2>2, LoopAssumption
  <2>4. Ordered(Added(doc, o)) /\ Learned(Added(doc, o)) = Learned(doc) \cup {o}
    BY <1>1, <1>2, <2>3, AddedFacts
  <2>5. \A u \in Threads : u # th => pc[u] \notin {"learn", "learning"}
    BY <1>3, <2>2 DEF InCycle
  <2>6. \A u \in Threads : Ordered(copy'[u])
    BY <1>1, <1>2, <2>1, <2>4
  <2>7. \A u \in Threads : u # th => pc'[u] = pc[u] /\ copy'[u] = copy[u]
    BY <1>1, <2>1, <2>2
  <2>8. /\ pc'[th] = "learning" /\ copy'[th] = Added(doc, o)
        /\ todo'[th] = todo[th] \ {o}
    BY <1>1, <2>1, <2>2
  <2>9. \A u \in Threads : Fine(u)'
    BY <2>2, <2>3, <2>4, <2>5, <2>7, <2>8
  <2>10. pc'[Server] \in {"adding", "deleting", "graphing"} =>
           Learned(copy'[Server]) \subseteq Learned(doc')
    BY <1>1, <1>2, <2>2, <2>7, <2>8
  <2> QED BY <1>2, <2>2, <2>6, <2>9, <2>10 DEF CopiesInv
<1>10. ASSUME NEW th \in Threads, SaveLearned(th) PROVE CopiesInv'
  <2>1. /\ pc[th] = "learning" /\ pc' = [pc EXCEPT ![th] = "learn"]
        /\ doc' = copy[th] /\ copy' = [copy EXCEPT ![th] = << >>]
        /\ todo' = todo
    BY <1>10 DEF SaveLearned, Saves, Goes
  <2>2. \A u \in Threads : u # th => pc[u] \notin {"learn", "learning"}
    BY <1>3, <2>1 DEF InCycle
  <2>3. /\ Learned(doc) \subseteq Learned(copy[th])
        /\ todo[th] \cap Learned(copy[th]) = {}
    BY <1>2, <2>1
  <2>4. \A u \in Threads : u # th => pc'[u] = pc[u] /\ copy'[u] = copy[u]
    BY <1>1, <2>1
  <2>5. pc'[th] = "learn" /\ copy'[th] = << >>
    BY <1>1, <2>1
  <2>6. \A u \in Threads : Ordered(copy'[u])
    BY <1>2, <2>4, <2>5, NoBlocks
  <2>7. \A u \in Threads : Fine(u)'
    BY <2>1, <2>2, <2>3, <2>4, <2>5
  <2>8. pc'[Server] \in {"adding", "deleting", "graphing"} =>
           Learned(copy'[Server]) \subseteq Learned(doc')
    BY <1>1, <1>2, <2>1, <2>3, <2>4, <2>5
  <2> QED BY <1>2, <2>1, <2>6, <2>7, <2>8 DEF CopiesInv
<1>11. ASSUME NEW th \in Threads, Finish(th) \/ Fail(th) PROVE CopiesInv'
  <2>1. /\ pc' = [pc EXCEPT ![th] = Home(th)] /\ doc' = doc
        /\ copy' = [copy EXCEPT ![th] = << >>]
        /\ todo' = [todo EXCEPT ![th] = {}]
    BY <1>11 DEF Finish, Fail, Release, Goes
  <2>2. Home(th) \in {"idle", "waiting"}
    BY DEF Home
  <2> QED BY <1>1, <1>2, <2>1, <2>2, NoBlocks DEF CopiesInv
<1>12. ASSUME NEW d \in Seq(Block), NEW to \in {"adding", "deleting", "graphing"},
              Ordered(d), Learned(d) \subseteq Learned(doc),
              copy' = [copy EXCEPT ![Server] = d],
              pc' = [pc EXCEPT ![Server] = to], UNCHANGED <<todo, doc>>
       PROVE  CopiesInv'
  BY <1>1, <1>2, <1>12 DEF CopiesInv
<1>13. CASE Edit
  <2>1. CASE Loads(Server, Added(doc, Note), "adding")
    <3>1. Note \notin Learned(doc)
      BY DEF Learned
    <3>2. /\ Added(doc, Note) \in Seq(Block) /\ Ordered(Added(doc, Note))
          /\ Learned(Added(doc, Note)) \subseteq Learned(doc)
      BY <1>1, <1>2, <3>1, AddedFacts
    <3> QED BY <1>12, <1>13, <2>1, <3>2 DEF Edit, Loads, Goes
  <2>2. ASSUME NEW i \in DOMAIN doc, Loads(Server, Without(doc, i), "deleting")
        PROVE  CopiesInv'
    <3>1. /\ Without(doc, i) \in Seq(Block) /\ Ordered(Without(doc, i))
          /\ Learned(Without(doc, i)) \subseteq Learned(doc)
      BY <1>1, <1>2, WithoutFacts
    <3> QED BY <1>12, <1>13, <2>2, <3>1 DEF Edit, Loads, Goes
  <2>3. CASE Goes(Server, "graph") /\ UNCHANGED copy
    BY <1>1, <1>4, <1>13, <2>3 DEF Edit, Goes, docVars
  <2> QED BY <1>13, <2>1, <2>2, <2>3 DEF Edit
<1>14. CASE LoadForGraph
  BY <1>1, <1>2, <1>12, <1>14 DEF LoadForGraph, Loads, Goes
<1>15. CASE SaveEdit
  <2>1. /\ pc[Server] \in {"adding", "deleting", "graphing"}
        /\ doc' = copy[Server] /\ copy' = [copy EXCEPT ![Server] = << >>]
        /\ todo' = todo
        /\ \E to \in {"graph", "idle"} : pc' = [pc EXCEPT ![Server] = to]
    BY <1>15 DEF SaveEdit, Saves, Goes
  <2>2. Learned(copy[Server]) \subseteq Learned(doc)
    BY <1>2, <2>1
  <2>3. \A u \in Threads : u # Server => pc'[u] = pc[u] /\ copy'[u] = copy[u]
    BY <1>1, <2>1
  <2>4. pc'[Server] \in {"graph", "idle"} /\ copy'[Server] = << >>
    BY <1>1, <2>1
  <2>5. \A u \in Threads : Ordered(copy'[u])
    BY <1>2, <2>3, <2>4, NoBlocks
  <2>6. \A u \in Threads : Fine(u)'
    BY <1>2, <2>1, <2>2, <2>3, <2>4
  <2> QED BY <1>1, <1>2, <2>1, <2>4, <2>5, <2>6 DEF CopiesInv
<1>16. CASE EditFails
  BY <1>1, <1>2, <1>16, NoBlocks DEF EditFails, Goes, CopiesInv
<1>17. CASE Crash
  <2>1. \A u \in Threads : pc'[u] \in {"idle", "dead"} /\ copy'[u] = << >>
    BY <1>17 DEF Crash, Off
  <2>2. doc' = doc
    BY <1>17 DEF Crash
  <2> QED BY <1>1, <1>2, <2>1, <2>2, NoBlocks DEF CopiesInv
<1> QED BY <1>5, <1>6, <1>7, <1>8, <1>9, <1>10, <1>11, <1>13, <1>14, <1>15,
           <1>16, <1>17
        DEF Next, ServerStep, RunnerStep, CycleStep, Threads

LEMMA Invariance == Spec => []IInv
<1>1. IInv /\ UNCHANGED vars => IInv'
  BY DEF IInv, TypeOK, PlacesInv, LoopInv, LoopIsTold, Alive, CopiesInv, vars,
         loopVars, docVars
<1>2. IInv /\ [Next]_vars => IInv'
  BY <1>1, ControlKept, CopiesKept DEF IInv
<1> QED BY InitIInv, <1>2, PTL DEF Spec

---------------------------------------------------------------------------
(* The type invariant: among others, the lock is held exactly in a cycle,  *)
(* whatever raises.                                                        *)
THEOREM TypeCorrect == Spec => []TypeOK
BY Invariance, PTL DEF IInv

(* There is at most one runner, and the flag says what it does.            *)
THEOREM OneRunner == Spec => []LoopIsTold
BY Invariance, PTL DEF IInv, LoopInv

(* The document has each outcome at most once, its blocks in order.        *)
THEOREM LearnedOnce == Spec => []DocumentInOrder
BY Invariance, PTL DEF IInv, CopiesInv, Ordered, DocumentInOrder
=============================================================================
