SPECIFICATION Spec
CONSTANTS
  Requests = {q1, q2}
  FirstId = 1
INVARIANT AddedIsStored
CHECK_DEADLOCK FALSE
