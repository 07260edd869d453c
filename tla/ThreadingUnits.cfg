SPECIFICATION Spec
CONSTANTS
  Thread = {t1, t2}
  Addr = {a1, a2}
  NULL = NULL
  Waits = {0, 1, 2}
  US_PER_MS = 1000
INVARIANTS
  WaitsMilliseconds
CHECK_DEADLOCK FALSE
