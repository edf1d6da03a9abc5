SPECIFICATION Spec
CONSTANTS
  Procs = {p1, p2, p3}
  Nobody = Nobody
  IBUFLEN = 3
  OBUFLEN = 4
  EBUFLEN = 3
  OBMINSP = 2
  Texts <- Written
  MaxCalls = 3
  MaxKeys = 4
  Reads = {0, 1, 3}
  Workloads <- TtyWorkloads
SYMMETRY Perms
INVARIANTS
  TypeOK
  InputAccounted
  OutputAccounted
  OutputDue
PROPERTIES
  TtyRefinement
CHECK_DEADLOCK FALSE
