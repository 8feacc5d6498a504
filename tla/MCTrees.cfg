SPECIFICATION Spec
CONSTANTS
  Parts = {"extents", "indirect"}
  Setups <- ExtentSetups
  IndSetups <- IndirectSetups
INVARIANTS
  TreesWellFormed
  ContractsKept
  BlocksExact
