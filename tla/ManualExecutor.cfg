CONSTANTS
  N = 2
  Users = {u1, u2, u3}
  MaxCalls = 5
SPECIFICATION Spec
INVARIANTS
  NoTaskLost
PROPERTIES
  KeepsContract
  WaitersGoOn
CHECK_DEADLOCK FALSE
