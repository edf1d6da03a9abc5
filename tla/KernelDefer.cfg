SPECIFICATION Spec
CONSTANTS
  NProc = 4
  NSem = 1
  Quantum = 1
  Prios = {1}
  Delays = {1, 2, 3}
  HasMsgMod = 3
  MaxCount = 1
  MaxDefer = 3
  MaxLate = 3
  Workloads <- DeferWorkload
PROPERTIES
  SleepLowerBound
VIEW View
CHECK_DEADLOCK FALSE
