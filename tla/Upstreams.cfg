\* Three origins, a blob of three bytes and a seek.
CONSTANTS
  None = None
  Digest = {d1, d2}
  Last = 3
  Length = 3
  MaxPages = 2
  MaxMoves = 2
  MaxSeeks = 1
SPECIFICATION FairSpec
INVARIANTS Inv OfOneOrigin BytesInOrder
PROPERTIES Ends
CHECK_DEADLOCK FALSE
