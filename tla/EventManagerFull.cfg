SPECIFICATION Spec
CONSTANTS
  Client = {c1, c2}
  Event = {e1, e2, e3}
  Key = {k1}
  Listener = {}
  NewThread = {}
  Reposts = {}
  OneShot = {}
  NULL = NULL
  MaxEvents = 2
  MaxListeners = 1
  Blocking = {FALSE}
  ThreadsMayFail = FALSE
  MayShutdown = FALSE
CHECK_DEADLOCK FALSE
INVARIANTS
  EqualMeansEmpty
