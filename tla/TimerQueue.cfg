CONSTANTS
  Timers = {t1, t2}
  Reentrant = {t1}
  Closers = {s1}
  DueTimes = {1}
  Frequencies = {1}
  MaxTime = 2
SPECIFICATION Spec
INVARIANTS
  NoTimerForgotten
  AssertsHold
  InterruptedOnlyByShutDown
  QuietAfterShutDown
PROPERTIES
  EveryoneGoesOn
CHECK_DEADLOCK FALSE
