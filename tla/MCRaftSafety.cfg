SPECIFICATION ScenarioSpec
CONSTANTS
  s1 = s1
  s2 = s2
  s3 = s3
  cmd = cmd
  Server = {s1, s2, s3}
  Nil = Nil
  Scenario <- SafetyScenarios
  MaxTerm = 4
CONSTRAINT Bounds
INVARIANTS ElectionSafety LogMatching LeaderCompleteness CommittedAgree CommittedVotersAgree AcceptedDurable Recoverable ReadIndexFresh NoSpuriousFault
PROPERTIES CommittedNeverRewritten ImplementsElection
