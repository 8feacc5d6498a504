SPECIFICATION Spec
CONSTANTS
  NIno = 2
  Procs = {p1}
  Mixes <- FailedWriteMixes
  LinkMax = 1
  MaxBlocks = 1
  MaxCrashes = 1
INVARIANTS
  CommittedOrphansListed
