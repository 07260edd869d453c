SPECIFICATION FairSpec
CONSTANTS
  MAX = 1
  NULL = NULL
  Task = {t1, t2}
  Ptr = {p1, p2}
  a = a
  nl = nl
  Byte <- MCByte
  NL = nl
  Payload <- MCEmpty
  SeekArg <- OneSeekArg
  Offset <- MCOffset
  MaxPos = 0
  MaxPartial = 1
  MaxUnloads = 1
PROPERTIES
  CallsReturn
