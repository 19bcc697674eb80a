\* One replica, whose requests come, leave and join what runs.
CONSTANTS
  None = None
  Digest = {d1, d2}
  Replica = {r1}
  Fill = {f1, f2}
  Client = {c1}
  TagTTL = 1
  TagMaxStale = 1
  JoinTimeout = 1
  MaxTime = 4
  MaxVersion = 1
SPECIFICATION FairSpec
INVARIANTS
  Inv
  CheckedOfDigest
  AloneSound
PROPERTIES
  AnswersRecent
  NeverBack
  ImplementsCache
  Answered
CHECK_DEADLOCK FALSE
