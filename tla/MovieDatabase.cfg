SPECIFICATION Spec
CONSTANTS
  Requests = {q1, q2, q3, q4}
  FirstId = 1
SYMMETRY Alike
INVARIANTS
  TypeOK
  IdsBelowMax
  AloneIsStored
CHECK_DEADLOCK FALSE
