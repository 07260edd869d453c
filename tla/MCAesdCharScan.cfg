SPECIFICATION ScanSpec
CONSTANTS
  MAX = 3
  NULL = NULL
  Task = {t1, t2}
  Ptr = {p1, p2, p3, p4, p5}
  a = a
  nl = nl
  Byte <- MCByte
  NL = nl
  Payload <- MCLengths
  SeekArg <- MCSeekArg
  Offset <- None
  MaxPos = 0
  MaxPartial = 0
  MaxUnloads = 0
SYMMETRY Symmetry
INVARIANTS
  ScanSeesOneBuffer
