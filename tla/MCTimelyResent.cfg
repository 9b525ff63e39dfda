SPECIFICATION TimelySpec
CONSTANTS
  s1 = s1
  s2 = s2
  s3 = s3
  cmd = cmd
  Server = {s1, s2, s3}
  Nil = Nil
  Scenario <- ResentScenarios
  MaxTerm = 1
CONSTRAINT Bounds
PROPERTY CatchesUp
