SPECIFICATION Spec
CONSTANTS
  N = 3
  Value = {a, b}
  Nil = Nil
  MaxRound = 2
  MaxMessages = 12
CHECK_DEADLOCK FALSE
SYMMETRY Symmetry
CONSTRAINT Bounds
INVARIANTS SingleChoice HistoryMonotonic DecidedChosen AcceptedOnce
