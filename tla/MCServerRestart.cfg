SPECIFICATION ScenarioSpec
CONSTANTS
  s1 = s1
  s2 = s2
  s3 = s3
  Server = {s1}
  Nil = Nil
  Key = {1}
  Client = {1}
  Call = {1, 2, 3, 4}
  Request <- ManyWrites
  SnapshotEntries = 2
  Shift = 10
  Scenario <- RestartScenarios
  MaxTerm = 3
CONSTRAINT Bounds
INVARIANTS MachineFollowsLog Reopens
