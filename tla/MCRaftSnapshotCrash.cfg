SPECIFICATION ScenarioSpec
CONSTANTS
  s1 = s1
  s2 = s2
  s3 = s3
  cmd = cmd
  Server = {s1, s2, s3}
  Nil = Nil
  Scenario <- SnapshotCrashScenarios
  MaxTerm = 1
CONSTRAINT Bounds
INVARIANT Recoverable
