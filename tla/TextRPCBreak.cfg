SPECIFICATION Spec
CONSTANTS
  c1 = c1
  s1 = s1
  Caller = {c1, s1}
  Home <- BothSides
  Latest <- ServerIsNewer
  MaxCalls = 1
  Callbacks = TRUE
  MayBreak = TRUE
  SpuriousWakeups = TRUE
CHECK_DEADLOCK FALSE
INVARIANTS
  VersionsAgree
PROPERTIES
  ExecutedOnce
