\* A final request that is sent again.
CONSTANTS
  None = None
  Session = {s1}
  Request = {q1, q2}
  Length = 2
  Unit = 2
  MaxFailures = 1
SPECIFICATION Spec
INVARIANTS RetriedSame
CHECK_DEADLOCK FALSE
