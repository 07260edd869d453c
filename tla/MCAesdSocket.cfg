SPECIFICATION Spec
CONSTANTS
  MAX = 1
  NULL = NULL
  c1 = c1
  c2 = c2
  c3 = c3
  Conn = {c1, c2, c3}
  Script <- OneSeek
  Arg <- AnyArg
  SeekArg <- MCSeekArg
  Shuts = {}
  Hangs = {c1}
  Picked = {c1}
  MAXDATASIZE = 2
  SENDSIZE = 2
  BACKLOG = 1
  USE_AESD_CHAR_DEVICE = 1
  MayFail = FALSE
INVARIANTS
  TypeOK
  NoUseAfterFree
  CleanExit
  AnswerEndsWithOwnText
  ListIsExact
PROPERTIES
  ServesOneByOne
