SPECIFICATION FairSpec
CONSTANTS
  Proc = {p0, p1, p2}
  Root = p0
  NULL = NULL
  OPEN_MAX = 1
INVARIANTS
  TypeOK
  ExecTellsTheTruth
  NoChildLeft
  OneCaller
PROPERTIES
  CallReturns
