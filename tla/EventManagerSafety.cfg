SPECIFICATION Spec
CONSTANTS
  Client = {c1, c2}
  Event = {e1, e2}
  Key = {k1}
  Listener = {l1, l2}
  NewThread = {l2}
  Reposts = {l1}
  OneShot = {l1}
  NULL = NULL
  MaxEvents = 3
  MaxListeners = 2
  Blocking = {TRUE, FALSE}
  ThreadsMayFail = TRUE
  MayShutdown = TRUE
SYMMETRY Symmetry
CHECK_DEADLOCK FALSE
INVARIANTS
  EventsFreedInTime
  NotCalledAfterRemove
  RingSound
PROPERTIES
  ImplementsFifo
