CONSTANTS
  N = 5
  MaxBatch = 2
  Producers = {p1, p2}
  Closers = {s1, s2}
SPECIFICATION Spec
INVARIANTS
  NoTaskLost
PROPERTIES
  ForeignInOrder
  ImplementsContract
