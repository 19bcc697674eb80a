\* A client and a keeper, at three manifests that share, hold and sign.
CONSTANTS
  b1 = b1
  b2 = b2
  m1 = m1
  m2 = m2
  m3 = m3
  None = None
  Blob = {b1}
  Manifest = {m1, m2, m3}
  Tag = {}
  Layers <- FamilyLayers
  Holds <- FamilyHolds
  Subject <- FamilySubject
  WellKnown = {b1}
  Client = {c1}
  Keeper = {k1}
  ChunkSize = 1
  Aged = FALSE
  MaxFailures = 1
SPECIFICATION Spec
INVARIANTS
  ChildrenPresent
PROPERTIES
  ImplementsRegistry
CHECK_DEADLOCK FALSE
