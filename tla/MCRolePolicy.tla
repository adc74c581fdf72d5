---------------------------- MODULE MCRolePolicy ----------------------------
EXTENDS RolePolicy

CONSTANTS boss, dev, mem, p1, p2, main, side

RosterOf == <<boss, dev, mem>>
ProfileOf ==
  boss :> [role |-> "manager", words |-> {"research", "manager"},
           capabilities |-> {"analysis", "synthesis", "planning"}]
  @@ dev :> [role |-> "worker", words |-> {"coding", "agent"},
             capabilities |-> {"runtime", "api", "dashboard"}]
  @@ mem :> [role |-> "worker", words |-> {"memory", "agent"},
             capabilities |-> {"memory-ingestion", "graph-build", "vector-memory"}]

ReportersOf == {boss}
SteadyOf == {boss, mem}

Job(plan, kind, role, branch, mode) ==
  [plan |-> plan, kind |-> kind, role |-> role, branch |-> branch, mode |-> mode,
   owner |-> None, wanted |-> None, topics |-> {}, allow |-> None, cap |-> None]

(* A task nobody may do, one that is urgent but late, one for a manager,   *)
(* and a branch that takes one task of one plan and two of another.        *)
WorkOf ==
  << Job(p1, "operational", None, main, "restricted"),
     [Job(p1, "operational", None, side, "guarded") EXCEPT !.owner = mem],
     [Job(p2, "branch_stabilization", "manager", side, "open") EXCEPT !.cap = 2],
     [Job(p2, "recovery", "worker", side, "restricted")
        EXCEPT !.topics = {"memory-core", "vector-memory"}, !.wanted = mem] >>
=============================================================================
