\* Two clients and a keeper, at an image with one layer,
\* with the fairness of the scheduling.
CONSTANTS
  b1 = b1
  b2 = b2
  m1 = m1
  m2 = m2
  m3 = m3
  None = None
  Blob = {b1}
  Manifest = {m1}
  Tag = {t1}
  Layers <- OneLayers
  Holds <- OneHolds
  Subject <- NoSubject
  WellKnown = {}
  Client = {c1, c2}
  Keeper = {k1}
  ChunkSize = 1
  Aged = TRUE
  MaxFailures = 1
SPECIFICATION FairSpec
INVARIANTS
  Inv
  BlobsPresent
  TagsResolve
PROPERTIES
  NoLoss
  ImplementsRegistry
  Reclaimed
CHECK_DEADLOCK FALSE
