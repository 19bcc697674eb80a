\* An image, a signature of it and two collectors, with the fairness of the scheduling.
CONSTANTS
  None = None
  Blob = {}
  Manifest = {1, 2}
  Tag = {}
  Layers <- NoLayers
  Holds <- NoLayers
  Subject <- PairSubject
  WellKnown = {}
  Collector = {c1, c2}
  Batch = 1
  Grace = 1
  MaxTime = 3
SPECIFICATION FairSpec
INVARIANTS
  Inv
  Scheduled
PROPERTIES
  GraceKept
  Reaped
CHECK_DEADLOCK FALSE
