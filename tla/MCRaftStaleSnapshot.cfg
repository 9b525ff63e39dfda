SPECIFICATION ScenarioSpec
CONSTANTS
  s1 = s1
  s2 = s2
  s3 = s3
  cmd = cmd
  Server = {s1, s2, s3}
  Nil = Nil
  Scenario <- StaleSnapshotScenarios
  MaxTerm = 1
CONSTRAINT Bounds
INVARIANT CommittedVotersAgree
