-------------------------- MODULE MCConceptMemory ---------------------------
EXTENDS ConceptMemory

CONSTANTS c1, c2, supports, e1

R(fields, version, type, target, ref) ==
  [fields |-> fields, version |-> version, type |-> type, target |-> target, ref |-> ref]
Sound(c) == R(Required, "v1", supports, c, e1)
Old(c) == R({"type", "target"}, "other", supports, c, e1)

PayloadsOf ==
  { NotAList, << >>, <<Sound(c2)>>, <<Old(c2)>>, <<Sound(c2), Sound(c2)>>,
    <<Sound(c2), Sound(Padded(c1)), Old(c2)>>,
    <<NotAnObject, Sound(c2)>>,
    <<R(Required, "other", supports, c2, e1)>>, <<R(Required, "v1", Invalid, c2, e1)>> }
ForeignOf == {NotAList, <<Old(c1)>>, <<NotAnObject, Sound(c1)>>}
EnvsOf == {[blocks |-> 2, taken |-> 0], [blocks |-> 1, taken |-> 2]}
=============================================================================
