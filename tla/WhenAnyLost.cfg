CONSTANTS
  N = 2
  Rounds = 1
SPECIFICATION Spec
INVARIANTS
  SuspendsOnlyIfNoneFinished
