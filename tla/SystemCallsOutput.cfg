SPECIFICATION Spec
CONSTANTS
  Proc = {p0, p1}
  Root = p0
  NULL = NULL
  OPEN_MAX = 1
INVARIANTS
  OutputClosed
