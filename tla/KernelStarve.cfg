SPECIFICATION LiveSpec
CONSTANTS
  NProc = 3
  NSem = 1
  Quantum = 2
  Prios = {1}
  Delays = {0, 2}
  HasMsgMod = 3
  MaxCount = 1
  MaxDefer = 0
  MaxLate = 0
  Workloads <- SleepWorkload
PROPERTIES
  SleepersWake
