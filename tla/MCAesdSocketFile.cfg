SPECIFICATION FairSpec
CONSTANTS
  MAX = 2
  NULL = NULL
  c1 = c1
  c2 = c2
  c3 = c3
  Conn = {c1, c2}
  Script <- TwoLines
  Arg <- AnyArg
  SeekArg <- MCSeekArg
  Shuts = {c1}
  Hangs = {c1}
  Picked = {}
  MAXDATASIZE = 2
  SENDSIZE = 2
  BACKLOG = 1
  USE_AESD_CHAR_DEVICE = 0
  MayFail = TRUE
INVARIANTS
  ConnectionsDoNotMix
  AnswerEndsWithOwnText
  CleanExit
  ShortAnswersAreSurvived
PROPERTIES
  ServesOneByOne
  ShutdownCompletes
  ConnectedAreAnswered
  FinishedAreReaped
