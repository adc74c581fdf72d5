----------------------------- MODULE TaskBoard -----------------------------
(***************************************************************************)
(* What ai_os/agent_runtime.py promises about its queue: a task is waiting,*)
(* with exactly one agent, or finished; an agent has at most one task; and *)
(* a task leaves its agent only by being finished or by going back into    *)
(* the queue.                                                              *)
(***************************************************************************)
EXTENDS FiniteSets

CONSTANTS Agents, Tasks

VARIABLES
  posted,   \* tasks waiting
  holder,   \* the agent of each task being worked on
  finished  \* tasks finished

vars == <<posted, holder, finished>>

Held == DOMAIN holder
Without(S) == [t \in Held \ S |-> holder[t]]

Init == posted = {} /\ holder = << >> /\ finished = {}

Post(t) ==
  /\ t \notin posted \cup Held \cup finished
  /\ posted' = posted \cup {t}
  /\ UNCHANGED <<holder, finished>>

Take(t, a) ==
  /\ t \in posted /\ \A u \in Held : holder[u] # a
  /\ posted' = posted \ {t}
  /\ holder' = [u \in Held \cup {t} |-> IF u = t THEN a ELSE holder[u]]
  /\ UNCHANGED finished

Finish(t) ==
  /\ t \in Held
  /\ finished' = finished \cup {t} /\ holder' = Without({t})
  /\ UNCHANGED posted

(* A retired agent returns its task, a restart returns them all.           *)
Return(S) ==
  /\ S \subseteq Held
  /\ posted' = posted \cup S /\ holder' = Without(S)
  /\ UNCHANGED finished

Next ==
  \/ \E t \in Tasks :
       Post(t) \/ Finish(t) \/ \E a \in Agents : Take(t, a)
  \/ \E S \in SUBSET Held : Return(S)

Spec == Init /\ [][Next]_vars
=============================================================================
