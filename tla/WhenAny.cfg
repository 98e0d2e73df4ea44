CONSTANTS
  N = 3
  Rounds = 3
SPECIFICATION Spec
INVARIANTS
  ReturnsFinished
  NoContextRace
  SuspendedIsRegistered
PROPERTIES
  ResumesOnlySuspended
  RegisteredIsResumed
