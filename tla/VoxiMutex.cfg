SPECIFICATION FairSpec
CONSTANTS
  Thread = {t1, t2}
  NoThread = NoThread
  Where = {w1}
  NULL = NULL
  MaxDepth = 3
INVARIANTS
  MutualExclusion
  AssertionsHold
  NoLostWakeup
  CountIsDepth
PROPERTIES
  ImplementsMonitor
  LockProgress
