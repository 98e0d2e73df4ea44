CONSTANTS
  Coroutines = {c1, c2, c3}
  Nobody = Nobody
  MaxCalls = 2
  Executors = {"posts", "inline", "closed"}
SPECIFICATION CondSpec
INVARIANTS
  MutualExclusion
  ListHoldsSuspended
  NoStrandedAwaiter
  NoLostNotification
PROPERTIES
  AwaitersGoOn
CHECK_DEADLOCK FALSE
