SPECIFICATION Spec
CONSTANTS
  NIno = 2
  Procs = {p1, p2}
  Mixes <- CallMixes
  LinkMax = 2
  MaxBlocks = 2
  MaxCrashes = 1
SYMMETRY ProcSymmetry
INVARIANTS
  OrphansListed
  ListMirrorsDisk
  CommittedLinkCounts
  OrphanListEmptyAtUmount
  NoDanglingOrphan
PROPERTIES
  NamedInodeNeverFreed
