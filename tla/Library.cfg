SPECIFICATION Spec
CHECK_DEADLOCK FALSE
SYMMETRY MCSymmetry
CONSTANTS
  HashCursor = {"c1", "c2", "c3"}
  calcIndx <- MCcalcIndx
  WordName = {"b", "c"}
  WordNumber = {1, 2}
  WordMapCursors <- MCCursors
  DefaultHashtableSize = 2
  VectorThread = {"t1", "t2"}
  VectorElement = {"v1", "v2", "v3"}
  VectorCapacity = 1
  VectorIncrement = 1
  VectorMaxRefs = 3
  CircElement = {"i1", "i2", "i3", "i4"}
  CircSize = 3
  BagElement = {"b1", "b2"}
  BagCapacity = 0
  BagIncrement = 0
  BagMaxElements = 3
  IdtElement = {"e1", "e2"}
  IdtPointerSizes = {4, 8}
  IdtInitialCount = 2
  IdtMaxIndex = 3
  IdtMaxLoaded = 2
  MemThread = {"m1", "m2"}
  MemCapacity = 3
  MemMaxDepth = 2
  LogThread = {"l1", "l2"}
  LogDestination = {"app", "other"}
  LogRetention = 2
  LogMaxDay = 5
  LogMaxLines = 2
  StateMachines = {"sm1"}
  MachineStates = {"s1", "s2"}
  StateClasses = {"k1", "k2"}
  StrBufLengths = {1, 2, 4}
  StrBufPieces = {1, 5}
  StrBufMax = 12
  BtValues = {1, 2, 3, 4}
  BtMaxRemovals = 2
  SockConn = {conn1, conn2}
  SockMaxPieces = 2
INVARIANTS
  SearchedSound
  SharedSound
  SockSound
  LogKept
  ContainersSound
PROPERTIES
  ImplementsDictionary
  CircImplementsRecentItems
  IdtImplementsIdMap
  StateMachineSound
