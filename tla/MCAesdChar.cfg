SPECIFICATION SessionSpec
CONSTANTS
  MAX = 2
  NULL = NULL
  Task = {t1, t2}
  Ptr = {p1, p2, p3, p4}
  a = a
  nl = nl
  Byte <- MCByte
  NL = nl
  Payload <- MCPayload
  SeekArg <- OneSeekArg
  Offset <- MCOffset
  MaxPos = 0
  MaxPartial = 1
  MaxUnloads = 1
SYMMETRY Symmetry
INVARIANTS
  TypeOK
  MemorySafe
  LeakBound
  CommandsTerminated
  ReadsFollowTheLog
PROPERTIES
  ImplementsCommandLog
  SeekFindsCommandUnwrapped
