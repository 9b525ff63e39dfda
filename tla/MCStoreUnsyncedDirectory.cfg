SPECIFICATION Spec
CONSTANTS
  s1 = s1
  Server = {s1}
  Nil = Nil
  World <- BothWorld
  MaxTerm = 2
  MaxIndex = 2
  MaxRecords = 4
  MaxCrashes = 2
CHECK_DEADLOCK FALSE
INVARIANT FenceOnDisk
