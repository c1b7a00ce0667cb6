SPECIFICATION Spec
CHECK_DEADLOCK FALSE
CONSTANTS
  TimerEvent = {"e1", "e2", "e3"}
  TimerClient = {"c1", "c2"}
  TimerSleepers = {"c2"}
  callbackInterval = 1
  TimerMaxInterval = 2
  TimerDelays <- MCDelays
  TimerKinds <- MCKinds
INVARIANTS
  TimerListSound
PROPERTIES
  SleepersWake
