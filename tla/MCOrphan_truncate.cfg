SPECIFICATION FairSpec
CONSTANTS
  NIno = 2
  Procs = {p1}
  Mixes <- TruncateMixes
  LinkMax = 1
  MaxBlocks = 2
  MaxCrashes = 1
INVARIANTS
  CommittedOrphansListed
PROPERTIES
  RecoveryLeavesNothing
  UnlinkedEventuallyFreed
