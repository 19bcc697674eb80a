CONSTANTS
  t1 = t1
  t2 = t2
  d1 = d1
  newest = newest
  first = first
  fixed = fixed
  None = None
  Process = {p1}
  Tag <- Tags
  Digest = {d1, d2}
  Rule <- Rules
  KindOf <- KindsOf
  Over <- OverTags
  Matching <- NoMatching
  Count <- Counts
  File = {fixed}
  Database = {newest, first}
  Initial = {newest, fixed}
  Seed <- Seeded
  Begun = 2
  MaxTime = 3
  MaxRuns = 2
  MaxEdits = 1
  MaxFaults = 1
SPECIFICATION Spec
INVARIANTS Inv PolicyWhole
PROPERTIES KeepsNewest ImmutableStays
CHECK_DEADLOCK FALSE
