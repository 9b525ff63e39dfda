SPECIFICATION Spec
CONSTANTS
  s1 = s1
  Server = {s1}
  Nil = Nil
  World <- Worlds
  MaxTerm = 2
  MaxIndex = 2
  MaxRecords = 4
  MaxCrashes = 3
CHECK_DEADLOCK FALSE
INVARIANT StoreInv

