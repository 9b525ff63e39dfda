SPECIFICATION Spec
CONSTANTS
  Server = {s1, s2, s3}
  Nil = Nil
  MaxTerm = 2
  MaxMessages = 12
  MaxFaulted = 1
SYMMETRY Symmetry
CONSTRAINT Bounds
INVARIANTS TypeOK ElectionSafety VoteOnce TermNeedsPreVoteMajority
PROPERTY HardStateNeverRegresses
