SPECIFICATION Spec
CONSTANTS
  Worker = {w1, w2}
  Caller = {c1, c2}
  NULL = NULL
  InitialSize = 1
  Attributes = {TRUE, FALSE}
  Spurious = TRUE
  DestroyWhen = "any"
SYMMETRY Symmetry
CHECK_DEADLOCK FALSE
INVARIANTS
  PoolSound
  PoolFreedAfterThreads
