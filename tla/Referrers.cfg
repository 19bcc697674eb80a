CONSTANTS
  r1 = r1
  c1 = c1
  c2 = c2
  None = None
  Referrer = {r1}
  Valid = {r1}
  Client = {c1, c2}
  TTL = 1
  MaxStale = 1
  Keep = 0
  MaxTime = 2
SPECIFICATION Spec
INVARIANTS Inv ListsRecent AdmissionJustified
PROPERTY UnlistedOmitted
CHECK_DEADLOCK FALSE
SYMMETRY Symmetry
