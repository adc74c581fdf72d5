----------------------------- MODULE PlanGraph -----------------------------
(***************************************************************************)
(* What planning/runtime.py promises about the order of work: a plan's     *)
(* steps and what each of them waits for never change once the plan is     *)
(* there, a step is started only when everything it waits for is settled,  *)
(* and what is settled stays settled.                                      *)
(***************************************************************************)

VARIABLES
  needs,   \* per step of every plan, the steps it waits for
  started, \* steps some agent was given to do
  settled  \* steps that were done, or undone where that is as good

vars == <<needs, started, settled>>

Init == needs = << >> /\ started = {} /\ settled = {}

Publish ==
  /\ DOMAIN needs \subseteq DOMAIN needs'
  /\ \A x \in DOMAIN needs : needs'[x] = needs[x]
  /\ UNCHANGED <<started, settled>>

Start(x) ==
  /\ needs[x] \subseteq settled
  /\ started' = started \cup {x}
  /\ UNCHANGED <<needs, settled>>

Settle(S) ==
  /\ settled' = settled \cup S
  /\ UNCHANGED <<needs, started>>

Next ==
  \/ Publish
  \/ \E x \in DOMAIN needs \ started : Start(x)
  \/ \E S \in SUBSET (started \ settled) : Settle(S)

Spec == Init /\ [][Next]_vars
=============================================================================
