CONSTANTS
  N = 2
  W = 1
  Producers = {p1}
  MayTimeOut = TRUE
SPECIFICATION Spec
PROPERTIES
  TasksProgress
