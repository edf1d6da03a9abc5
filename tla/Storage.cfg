SPECIFICATION StorageSpec
CONSTANTS
  Procs = {p1, p2, p3}
  FreeSems = {3, 4}
  MaxKills = 1
  Workloads <- StorageWorkloads
  NBPools = 2
  NBufs = 3
  NPorts = 2
  MaxMsgs = 2
  Counts = {1, 2}
  MaxSeq = 3
  HeapLens = {7, 8}
  NullStk = 2
  Requests = {1, 2, 3}
  MaxTaken = 4
SYMMETRY Perms
INVARIANTS
  RoomAccounted
  PoolAccounted
  NodesSuffice
  NobodyForgotten
  BuffersInOnePlace
  FreeListSound
  WordsPartitioned
PROPERTIES
  PortRefinement
CHECK_DEADLOCK FALSE
