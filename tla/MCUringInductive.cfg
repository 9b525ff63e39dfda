SPECIFICATION Spec
CONSTANTS
  Entries = 2
  Wrap = 4
  MaxRecords = 6
  MaxCrashes = 3
CHECK_DEADLOCK FALSE
INVARIANT DeviceInv
