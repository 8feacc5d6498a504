SPECIFICATION Spec
CONSTANTS
  MaxOrder = 2
  Clusters = 6
  NGroups = 2
  MaxMoves = 1
  LowGroups = 1
  Metadata <- MCMetadata
  Requests <- MCRequests
  Order2Reqs = 2
  MaxToScan = 2
  MinToScan = 1
  Stripe = 3
  FlexSize = 2
  DirAllocScheme = 2
  NClusters = 3
  NBlocks = 2
  Large = {1}
  Small = {2}
  p1 = p1
  p2 = p2
  Procs = {p1, p2}
  Pas = {1, 2}
  Windows = {2}
  GroupPrealloc = 2
  MaxLen = 2
  LgMax = 1
  LgKeep = 1
  Writeback = {2}
  MaxCalls = 3
  Files <- MCFiles
SYMMETRY Symmetric
INVARIANTS
  SearchedBuddyCanonical
  FailsOnlyWhenFull
  InCoreExact
  CommittedBitmapExact
  NoReuseBeforeCommit
  PreallocationsExact
  CountersExact
PROPERTIES
  TakesFreeClusters
