SPECIFICATION Spec
CONSTANTS
  c1 = c1
  c2 = c2
  supports = supports
  e1 = e1
  Invalid = Invalid
  NotAList = NotAList
  NotAnObject = NotAnObject
  Concepts = {c1, c2}
  Types = {supports}
  Refs = {e1}
  MaxRelations = 2
  Payloads <- PayloadsOf
  Foreign <- ForeignOf
  Envs <- EnvsOf
  MaxCompared = 1
INVARIANTS MeshPointsBack Accepted
CHECK_DEADLOCK FALSE
