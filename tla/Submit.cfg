CONSTANTS
  N = 3
  Callers = {c1}
  Closers = {s1}
SPECIFICATION Spec
INVARIANTS SuspendedIsInOneTask ResultsTellTheTruth QuietAfterShutDown
PROPERTIES ImplementsContract EveryJobEnds
CHECK_DEADLOCK FALSE
