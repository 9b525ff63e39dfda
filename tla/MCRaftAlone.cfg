SPECIFICATION ScenarioSpec
CONSTANTS
  s1 = s1
  s2 = s2
  s3 = s3
  cmd = cmd
  Server = {s1}
  Nil = Nil
  Scenario <- AloneScenarios
  MaxTerm = 1
CONSTRAINT Bounds
INVARIANT PendingUncommitted
