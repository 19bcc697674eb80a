\* An import and a rebuild, a client and a keeper, at one image.
CONSTANTS
  b1 = b1
  m1 = m1
  t1 = t1
  None = None
  Blob = {b1}
  Manifest = {m1}
  Tag = {t1}
  Layers <- OneLayers
  Holds <- OneHolds
  Subject <- NoSubject
  WellKnown = {}
  Layout = {m1}
  LayoutTags <- OneTag
  Client = {c1}
  Keeper = {k1}
  ChunkSize = 1
  Aged = TRUE
  MaxFailures = 1
SPECIFICATION RestoreSpec
INVARIANTS
  RestoreInv
PROPERTIES
  ImplementsRestored
CHECK_DEADLOCK FALSE
