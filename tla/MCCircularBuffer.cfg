SPECIFICATION Spec
CONSTANTS
  MAX = 3
  NULL = NULL
  Ptr = {p1, p2}
  Sizes = {0, 1, 2}
INVARIANTS
  TypeOK
  RingInv
  SizeIsSum
  FindMatchesConcatenation
PROPERTIES
  KeepsLastEntries
