SPECIFICATION NamesSpec
INVARIANTS
  NamesFound
  ReaddirExact
  AttributesExact
  
  WaitingMountExcludes
CHECK_DEADLOCK FALSE
