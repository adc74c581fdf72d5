--------------------------- MODULE CognitiveLoop ---------------------------
(***************************************************************************)
(* The cognitive loop (ai_os/cognitive_loop.py) and the memory document    *)
(* it shares with the HTTP server (core/memory_engine.py, graph_engine.py, *)
(* scripts/runtime_store.py).                                              *)
(*                                                                         *)
(* start creates a thread that runs cycles until the stop event is set;    *)
(* the server may run a cycle by hand; a lock, only tried, keeps cycles    *)
(* apart.  The last part of a cycle writes the outcomes of finished        *)
(* stabilization plans into the memory document, once each.  Nobody locks  *)
(* that document: each writer loads it, changes its copy and saves all of  *)
(* it, so that the saves of the server and of the loop undo each other.    *)
(*                                                                         *)
(* What a cycle thinks and plans is left out (PlannerRuntime has what it   *)
(* does to plans), and so are its history and its log of errors.           *)
(***************************************************************************)
EXTENDS Integers, Sequences

CONSTANTS
  Server,    \* the HTTP server's thread, which handles one request at a time
  Runners,   \* threads that start may create: one more than may be alive
  NoThread,
  Outcomes,  \* final results of stabilization plans: (plan_id, status)
  Note,      \* a block that a client adds
  MaxEdits,  \* bound: requests that change the document
  MaxFaults  \* bound: cycles and requests that end with an exception

ASSUME LoopAssumption ==
  /\ Server \notin Runners /\ NoThread \notin Runners \cup {Server}
  /\ Note \notin Outcomes /\ MaxEdits \in Nat /\ MaxFaults \in Nat

VARIABLES
  stop,      \* _stop_event
  running,   \* the flag running
  thread,    \* _thread, which may be dead
  lock,      \* the holder of _cycle_lock
  pc,        \* where each thread is
  todo,      \* per thread, outcomes its cycle still has to write
  copy,      \* per thread, the document it is about to save
  doc,       \* the blocks of the memory document
  finished,  \* outcomes the planner's snapshot shows
  edits, faults

loopVars == <<stop, running, thread, lock>>
docVars == <<todo, copy, doc>>
vars == <<loopVars, pc, docVars, finished, edits, faults>>

Threads == Runners \cup {Server}
InCycle == {"cycle", "known", "learn", "learning"}
Request == {"adding", "deleting", "graph", "graphing"}
Block == [id : Nat, what : Outcomes \cup {Note}]

Alive(r) == r # NoThread /\ pc[r] # "dead"
Goes(th, to) == pc' = [pc EXCEPT ![th] = to]
(* Where a thread is when its cycle is over.                               *)
Home(th) == IF th = Server THEN "idle" ELSE "waiting"
Learned(d) == {d[i].what : i \in DOMAIN d} \ {Note}

(* Type invariant.  The lock is held exactly during a cycle.               *)
TypeOK ==
  /\ stop \in BOOLEAN /\ running \in BOOLEAN
  /\ thread \in Runners \cup {NoThread}
  /\ lock \in Threads \cup {NoThread}
  /\ pc \in [Threads -> InCycle \cup Request \cup
             {"idle", "joining", "dead", "new", "check", "waiting", "ending"}]
  /\ todo \in [Threads -> SUBSET Outcomes]
  /\ copy \in [Threads -> Seq(Block)] /\ doc \in Seq(Block)
  /\ finished \subseteq Outcomes
  /\ edits \in 0 .. MaxEdits /\ faults \in 0 .. MaxFaults
  /\ \A th \in Threads : lock = th <=> pc[th] \in InCycle

Off(th) == IF th = Server THEN "idle" ELSE "dead"

Init ==
  /\ stop = FALSE /\ running = FALSE /\ thread = NoThread /\ lock = NoThread
  /\ pc = [th \in Threads |-> Off(th)]
  /\ todo = [th \in Threads |-> {}] /\ copy = [th \in Threads |-> << >>]
  /\ doc = << >> /\ finished = {} /\ edits = 0 /\ faults = 0

---------------------------------------------------------------------------
(* Starting and stopping.                                                  *)

(* Mutant of Start: the event is cleared before the thread is looked at.   *)
StartClearsFirst ==
  /\ pc[Server] = "idle" /\ stop' = FALSE
  /\ IF Alive(thread) THEN UNCHANGED <<thread, pc>>
     ELSE \E r \in Runners : pc[r] = "dead" /\ thread' = r /\ Goes(r, "new")
  /\ UNCHANGED <<running, lock, docVars, finished, edits, faults>>

(* start.  While the thread is alive, stopped or not, it does nothing.     *)
Start ==
  /\ pc[Server] = "idle" /\ ~Alive(thread)
  /\ stop' = FALSE
  /\ \E r \in Runners : pc[r] = "dead" /\ thread' = r /\ Goes(r, "new")
  /\ UNCHANGED <<running, lock, docVars, finished, edits, faults>>

(* stop, which waits for the thread, and at most for a second.             *)
Stop ==
  /\ pc[Server] = "idle"
  /\ stop' = TRUE /\ running' = FALSE
  /\ IF Alive(thread) THEN Goes(Server, "joining") ELSE UNCHANGED pc
  /\ UNCHANGED <<thread, lock, docVars, finished, edits, faults>>
Joined ==
  /\ pc[Server] = "joining" /\ Goes(Server, "idle")
  /\ UNCHANGED <<loopVars, docVars, finished, edits, faults>>

(* _loop_runner                                                            *)
Begin(r) ==
  /\ pc[r] = "new" /\ running' = TRUE /\ Goes(r, "check")
  /\ UNCHANGED <<stop, thread, lock, docVars, finished, edits, faults>>

(* Mutant of Check: the event is only looked at before the first cycle.    *)
CheckDeaf(r) ==
  /\ pc[r] = "check"
  /\ \/ lock = NoThread /\ lock' = r /\ Goes(r, "cycle")
     \/ lock # NoThread /\ Goes(r, "waiting") /\ UNCHANGED lock
  /\ UNCHANGED <<stop, running, thread, docVars, finished, edits, faults>>

(* Mutant of Check: the lock of run_cycle is left out.                     *)
CheckUnlocked(r) ==
  /\ pc[r] = "check"
  /\ \/ stop /\ Goes(r, "ending")
     \/ ~stop /\ Goes(r, "cycle")
  /\ UNCHANGED <<loopVars, docVars, finished, edits, faults>>

(* The loop looks at the event and calls run_cycle, which may be busy.     *)
Check(r) ==
  /\ pc[r] = "check"
  /\ \/ stop /\ Goes(r, "ending") /\ UNCHANGED lock
     \/ ~stop /\ lock = NoThread /\ lock' = r /\ Goes(r, "cycle")
     \/ ~stop /\ lock # NoThread /\ Goes(r, "waiting") /\ UNCHANGED lock
  /\ UNCHANGED <<stop, running, thread, docVars, finished, edits, faults>>
Wake(r) ==
  /\ pc[r] = "waiting" /\ Goes(r, "check")
  /\ UNCHANGED <<loopVars, docVars, finished, edits, faults>>
End(r) ==
  /\ pc[r] = "ending" /\ running' = FALSE /\ Goes(r, "dead")
  /\ UNCHANGED <<stop, thread, lock, docVars, finished, edits, faults>>

(* POST /cognitive/run; when the lock is held it answers "busy".           *)
RunByHand ==
  /\ pc[Server] = "idle" /\ lock = NoThread
  /\ lock' = Server /\ Goes(Server, "cycle")
  /\ UNCHANGED <<stop, running, thread, docVars, finished, edits, faults>>

---------------------------------------------------------------------------
(* The document.                                                           *)

Added(d, what) == Append(d, [id |-> Len(d) + 1, what |-> what])

(* delete, which numbers the blocks that are left anew                     *)
Without(d, i) ==
  [j \in 1 .. Len(d) - 1 |->
     [id |-> j, what |-> IF j < i THEN d[j].what ELSE d[j + 1].what]]

(* A thread has loaded the document and holds its changed copy.            *)
Loads(th, changed, to) ==
  copy' = [copy EXCEPT ![th] = changed] /\ Goes(th, to)
Saves(th) == doc' = copy[th] /\ copy' = [copy EXCEPT ![th] = << >>]

---------------------------------------------------------------------------
(* A cycle: the planner's snapshot, what the document has, what is new.    *)

Snapshot(th) ==
  /\ pc[th] = "cycle"
  /\ todo' = [todo EXCEPT ![th] = finished]
  /\ Goes(th, "known")
  /\ UNCHANGED <<loopVars, copy, doc, finished, edits, faults>>

(* Mutant of ReadKnown: outcomes are known by their plan, whatever its     *)
(* status (the outcomes here are the two of one plan).                     *)
ReadKnownByPlan(th) ==
  /\ pc[th] = "known"
  /\ todo' = [todo EXCEPT ![th] = IF Learned(doc) = {} THEN @ ELSE {}]
  /\ Goes(th, "learn")
  /\ UNCHANGED <<loopVars, copy, doc, finished, edits, faults>>

(* known_plan_states                                                       *)
ReadKnown(th) ==
  /\ pc[th] = "known"
  /\ todo' = [todo EXCEPT ![th] = @ \ Learned(doc)]
  /\ Goes(th, "learn")
  /\ UNCHANGED <<loopVars, copy, doc, finished, edits, faults>>

(* memory_engine.add: load and save                                        *)
Learn(th) ==
  /\ pc[th] = "learn"
  /\ \E o \in todo[th] :
       /\ todo' = [todo EXCEPT ![th] = @ \ {o}]
       /\ Loads(th, Added(doc, o), "learning")
  /\ UNCHANGED <<loopVars, doc, finished, edits, faults>>
SaveLearned(th) ==
  /\ pc[th] = "learning" /\ Saves(th) /\ Goes(th, "learn")
  /\ UNCHANGED <<loopVars, todo, finished, edits, faults>>

Release(th) ==
  /\ lock' = NoThread /\ Goes(th, Home(th))
  /\ todo' = [todo EXCEPT ![th] = {}] /\ copy' = [copy EXCEPT ![th] = << >>]
Finish(th) ==
  /\ pc[th] = "learn" /\ todo[th] = {} /\ Release(th)
  /\ UNCHANGED <<stop, running, thread, doc, finished, edits, faults>>

(* Anything in a cycle raises, the save of the document included.          *)
Fail(th) ==
  /\ pc[th] \in InCycle /\ faults < MaxFaults /\ faults' = faults + 1
  /\ Release(th)
  /\ UNCHANGED <<stop, running, thread, doc, finished, edits>>

---------------------------------------------------------------------------
(* Requests that change the document.                                      *)

Edit ==
  /\ pc[Server] = "idle" /\ edits < MaxEdits /\ edits' = edits + 1
  /\ \/ Loads(Server, Added(doc, Note), "adding")
     \/ \E i \in DOMAIN doc : Loads(Server, Without(doc, i), "deleting")
     \/ Goes(Server, "graph") /\ UNCHANGED copy
  /\ UNCHANGED <<loopVars, todo, doc, finished, faults>>

(* save_graph: it loads the document, has the graph built and saves the    *)
(* document it loaded with the graph put into it.  A deletion ends with it.*)
LoadForGraph ==
  /\ pc[Server] = "graph" /\ Loads(Server, doc, "graphing")
  /\ UNCHANGED <<loopVars, todo, doc, finished, edits, faults>>
SaveEdit ==
  /\ pc[Server] \in {"adding", "deleting", "graphing"} /\ Saves(Server)
  /\ Goes(Server, IF pc[Server] = "deleting" THEN "graph" ELSE "idle")
  /\ UNCHANGED <<loopVars, todo, finished, edits, faults>>
EditFails ==
  /\ pc[Server] \in Request /\ faults < MaxFaults /\ faults' = faults + 1
  /\ Goes(Server, "idle") /\ copy' = [copy EXCEPT ![Server] = << >>]
  /\ UNCHANGED <<loopVars, todo, doc, finished, edits>>

---------------------------------------------------------------------------
(* The planner closes a stabilization plan.                                *)
Closes(o) ==
  /\ o \notin finished /\ finished' = finished \cup {o}
  /\ UNCHANGED <<loopVars, pc, docVars, edits, faults>>

(* The process is killed and started again: no loop runs until start.      *)
Crash ==
  /\ stop' = FALSE /\ running' = FALSE /\ thread' = NoThread
  /\ lock' = NoThread /\ pc' = [th \in Threads |-> Off(th)]
  /\ todo' = [th \in Threads |-> {}] /\ copy' = [th \in Threads |-> << >>]
  /\ UNCHANGED <<doc, finished, edits, faults>>

CycleStep(th) ==
  \/ Snapshot(th) \/ ReadKnown(th) \/ Learn(th) \/ SaveLearned(th)
  \/ Finish(th) \/ Fail(th)
RunnerStep(r) == Begin(r) \/ Check(r) \/ Wake(r) \/ End(r) \/ CycleStep(r)
(* A request, once begun, goes on.                                         *)
ServerStep == CycleStep(Server) \/ LoadForGraph \/ SaveEdit \/ EditFails \/ Joined

Next ==
  \/ Start \/ Stop \/ RunByHand \/ Edit \/ ServerStep
  \/ \E r \in Runners : RunnerStep(r)
  \/ \E o \in Outcomes : Closes(o)
  \/ Crash

Spec == Init /\ [][Next]_vars

(* Threads go on: the runner, whose wait ends after the interval, and the  *)
(* server with the request it has begun.  No request need ever come.       *)
FairSpec ==
  Spec /\ WF_vars(ServerStep) /\ \A r \in Runners : WF_vars(RunnerStep(r))

---------------------------------------------------------------------------
(* Properties.                                                             *)

(* However start and stop are called while a thread is still ending, there *)
(* is one runner, and the flag says what it does: it is up exactly when    *)
(* the runner is at work and has not been told to stop.                    *)
LoopIsTold ==
  /\ \A r \in Runners : Alive(r) => r = thread
  /\ Alive(thread) /\ ~stop /\ pc[thread] # "new" => running
  /\ running => Alive(thread)

(* Whatever saves undo each other, the blocks are numbered as they stand   *)
(* and no outcome is in the document twice.                                *)
DocumentInOrder ==
  \A i \in DOMAIN doc :
    /\ doc[i].id = i
    /\ doc[i].what # Note =>
         \A j \in DOMAIN doc \ {i} : doc[j].what # doc[i].what

(* A runner that is told to stop ends, whatever is requested meanwhile.    *)
StopEnds ==
  \A r \in Runners : (thread = r /\ stop) ~> (pc[r] = "dead")

(* As long as the loop is on, an outcome that a stale save or a client     *)
(* took out of the document is learned again once edits and faults end.    *)
LoopOn == Alive(thread) /\ ~stop
LearnedAgain ==
  <>[]LoopOn => \A o \in Outcomes : <>[](o \in finished => o \in Learned(doc))
=============================================================================
