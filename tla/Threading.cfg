SPECIFICATION FairSpec
CONSTANTS
  Thread = {t1, t2, t3}
  Addr = {a1, a2, a3}
  NULL = NULL
  Waits = {0, 1}
  US_PER_MS = 1
INVARIANTS
  TypeOK
  DataIsPrivate
  NoDataLost
  SuccessIsHonest
PROPERTIES
  ThreadReturns
CHECK_DEADLOCK FALSE
