SPECIFICATION FairSpec
CONSTANTS
  c1 = c1
  s1 = s1
  Caller = {c1, s1}
  Home <- BothSides
  Latest <- ClientIsNewer
  MaxCalls = 2
  Callbacks = TRUE
  MayBreak = FALSE
  SpuriousWakeups = FALSE
CHECK_DEADLOCK FALSE
INVARIANTS
  NoCallDropped
  AnswerIsOwn
  CallsTracked
PROPERTIES
  CallReturns
