SPECIFICATION FairSpec
CONSTANTS
  Producer = {p1, p2}
  Consumer = {c1, c2}
  Entry = {e1, e2}
  NULL = NULL
  MaxPush = 2
  EarlyDestroy = TRUE
CHECK_DEADLOCK FALSE
INVARIANTS
  QueueSound
  NobodyInsideWhenFreed
PROPERTIES
  ImplementsFifo
  PolledPopReturns
