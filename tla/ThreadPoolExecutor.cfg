CONSTANTS
  N = 3
  W = 3
  Producers = {p1}
  MayTimeOut = TRUE
SPECIFICATION Spec
INVARIANTS
  QueuesHoldOpenTasks
  NoLostWakeup
  AssertsHold
PROPERTIES
  KeepsContract
