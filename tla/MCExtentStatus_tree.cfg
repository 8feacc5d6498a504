SPECIFICATION FairSpec
CONSTANTS
  Inodes = {"i1"}
  Procs = {"p1"}
  Kswapds = {}
  NBlocks = 3
  Types <- SomeTypes
  Places = {0}
  NoMemory = TRUE
  ScanMax = 2
  Precached = {}
INVARIANTS
  TypeOK
  TreeCanonical
  CacheValid
PROPERTIES
  ImplementsExtentMap
  CallReturns
CHECK_DEADLOCK FALSE
