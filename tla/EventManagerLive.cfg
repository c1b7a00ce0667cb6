SPECIFICATION FairSpec
CONSTANTS
  Client = {c1}
  Event = {e1, e2}
  Key = {k1}
  Listener = {l1, l2}
  NewThread = {l2}
  Reposts = {l2}
  OneShot = {l1}
  NULL = NULL
  MaxEvents = 4
  MaxListeners = 2
  Blocking = {TRUE}
  ThreadsMayFail = TRUE
  MayShutdown = FALSE
CHECK_DEADLOCK FALSE
PROPERTIES
  BlockingPostReturns
