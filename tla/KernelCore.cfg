SPECIFICATION Spec
CONSTANTS
  NProc = 4
  NSem = 2
  Quantum = 1
  Prios = {1, 2}
  Delays = {1, 2}
  HasMsgMod = 3
  MaxCount = 1
  MaxDefer = 2
  MaxLate = 2
  Workloads <- SafetyWorkloads
INVARIANTS
  TypeOK
  ListsMatchStates
  ReadySorted
  CurrentIsHighest
  NullEligible
  CountIsQueue
  SltopIsHead
  NumprocCounts
  MessagesDelivered
PROPERTIES
  ReleaseOnlyBySignal
  Death
  NeverEarly
  SemaphoreRefinement
VIEW View
CHECK_DEADLOCK FALSE
