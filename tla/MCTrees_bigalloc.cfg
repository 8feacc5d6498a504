SPECIFICATION Spec
CONSTANTS
  Parts = {"extents"}
  Setups <- ClusterSetups
  IndSetups <- IndirectSetups
INVARIANT
  MappedBlocksHeld
