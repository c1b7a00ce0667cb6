SPECIFICATION FairSpec
CONSTANTS
  Worker = {w1, w2}
  Caller = {c1, c2}
  NULL = NULL
  InitialSize = 1
  Attributes = {TRUE, FALSE}
  Spurious = FALSE
  DestroyWhen = "never"
INVARIANTS
  NothingCarriedOver
PROPERTIES
  TasksServed
