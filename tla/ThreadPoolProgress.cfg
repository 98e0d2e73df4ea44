CONSTANTS
  N = 3
  W = 2
  Producers = {p1}
  MayTimeOut = FALSE
SPECIFICATION Spec
PROPERTIES
  ImplementsContract
