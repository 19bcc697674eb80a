\* A blob of three pieces, two sessions and two requests at once.
CONSTANTS
  None = None
  Session = {s1, s2}
  Request = {q1, q2}
  Length = 3
  Unit = 2
  MaxFailures = 1
SPECIFICATION FairSpec
INVARIANTS Inv SessionsInOrder CreatedStored EmptyRetriedSame RightIsTaken CalmOnCourse
PROPERTIES Ends
CHECK_DEADLOCK FALSE
