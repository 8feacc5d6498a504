SPECIFICATION Spec
CONSTANTS
  NBlocks = 2
  b1 = b1
  b2 = b2
  Phys = {b1, b2}
  Setups <- MCSetups
SYMMETRY Symmetric
INVARIANTS
  NoStaleData
  TailCovered
  FsyncDurable
  ReservationsExact
  WritesKept
