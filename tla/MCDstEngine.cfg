SPECIFICATION Spec
CONSTANTS
  Node = {1, 2, 3}
  MaxDelay = 2
  MaxSends = 2
  Setup <- Setups
CHECK_DEADLOCK FALSE
INVARIANT FaultsDoNotShift
PROPERTY ImplementsSchedule
