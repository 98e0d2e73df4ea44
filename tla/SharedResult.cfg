CONSTANTS
  Users = {a, b, c}
  Maker = a
  Nil = Nil
  Outcomes = {value}
  Idle = Idle
  Permits = 3
SPECIFICATION Spec
INVARIANTS
  ListHoldsSuspended
  OneSideActs
  DeletedExactlyOnce
PROPERTIES
  EveryoneGoesOn
