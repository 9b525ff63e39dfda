SPECIFICATION ScenarioSpec
CONSTANTS
  s1 = s1
  s2 = s2
  s3 = s3
  Server = {s1, s2, s3}
  Nil = Nil
  Key = {1}
  Client = {1}
  Call = {1}
  Request <- TwoWrites
  SnapshotEntries = 3
  Shift = 10
  Scenario <- SnapshotScenarios
  MaxTerm = 1
CONSTRAINT Bounds
INVARIANT MachineFollowsLog
