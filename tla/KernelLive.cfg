SPECIFICATION LiveSpec
CONSTANTS
  NProc = 4
  NSem = 1
  Quantum = 1
  Prios = {0, 1}
  Delays = {1, 2}
  HasMsgMod = 3
  MaxCount = 1
  MaxDefer = 0
  MaxLate = 0
  Workloads <- LiveWorkloads
PROPERTIES
  SleepersWake
  RoundRobin
