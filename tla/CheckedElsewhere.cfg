\* What the time of a check says of where the tag points.
CONSTANTS
  None = None
  Digest = {d1, d2}
  Replica = {r1, r2}
  Fill = {f1, f2}
  Client = {c1}
  TagTTL = 1
  TagMaxStale = 1
  JoinTimeout = 1
  MaxTime = 2
  MaxVersion = 1
SYMMETRY Interchangeable
SPECIFICATION Spec
INVARIANTS
  CheckedOfDigest
CHECK_DEADLOCK FALSE
