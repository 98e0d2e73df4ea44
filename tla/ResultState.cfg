CONSTANTS
  Outcomes = {value, exception}
  Idle = Idle
SPECIFICATION Spec
INVARIANTS
  DeletedExactlyOnce
  ResumedExactlyOnce
  NoContextRace
PROPERTIES
  WaitersGoOn
  ImplementsContract
