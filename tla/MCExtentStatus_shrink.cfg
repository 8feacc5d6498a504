SPECIFICATION Spec
CONSTANTS
  Inodes = {"i1", "i2"}
  Procs = {"p1"}
  Kswapds = {"kswapd"}
  NBlocks = 1
  Types <- MappedTypes
  Places = {0}
  NoMemory = TRUE
  ScanMax = 2
  Precached = {"i1"}
INVARIANTS
  CountersAgree
  ShrinkerOnLiveInodes
CHECK_DEADLOCK FALSE
