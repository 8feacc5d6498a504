SPECIFICATION MountsSpec
CONSTANTS
  Nodes = {"n1", "n2"}
  UpdateInterval = 1
  MinCheck = 1
  MaxCheck = 2
  WaitCap = 60
  SeqMax = 3
  Delay = 1
  FirstSeqs <- CrashedSeqs
  Stall = TRUE
  LazyFs = {"a", "b"}
  LazyGroups = 1
  LazyMax = 2
  LazyOps = 3
PROPERTIES
  TakeoverDetected
  MountDecided
  LazyInitServed
CHECK_DEADLOCK FALSE
