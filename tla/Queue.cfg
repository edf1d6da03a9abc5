SPECIFICATION Spec
CONSTANTS
  NProc = 3
  NQueues = 2
  Keys <- QueueKeys
INVARIANTS
  TypeOK
  LinksInverse
  SearchStops
PROPERTIES
  QueueRefinement
CONSTRAINT KeysNearEnds
VIEW View
