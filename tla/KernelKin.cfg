SPECIFICATION Spec
CONSTANTS
  NProc = 4
  NSem = 1
  Quantum = 1
  Prios = {1, 2}
  Delays = {1}
  HasMsgMod = 3
  MaxCount = 1
  MaxDefer = 0
  MaxLate = 0
  Workloads <- KinWorkload
INVARIANTS
  XdoneAtLastExit
VIEW View
