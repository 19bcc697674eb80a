\* Two clients at one image: a push of a manifest, and a delete of it.
CONSTANTS
  b1 = b1
  b2 = b2
  m1 = m1
  m2 = m2
  m3 = m3
  None = None
  Blob = {b1}
  Manifest = {m1}
  Tag = {t1}
  Layers <- OneLayers
  Holds <- OneHolds
  Subject <- NoSubject
  WellKnown = {}
  Client = {c1, c2}
  Keeper = {}
  ChunkSize = 1
  Aged = TRUE
  MaxFailures = 0
SPECIFICATION Spec
INVARIANTS
  ManifestBytesPresent
CHECK_DEADLOCK FALSE
