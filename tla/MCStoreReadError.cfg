SPECIFICATION ReadErrorSpec
CONSTANTS
  s1 = s1
  Server = {s1}
  Nil = Nil
  World <- KilledWorld
  MaxTerm = 2
  MaxIndex = 2
  MaxRecords = 4
  MaxCrashes = 2
CHECK_DEADLOCK FALSE
PROPERTY NothingErased
