SPECIFICATION HealthySpec
CONSTANTS
  l1 = l1
  r1 = r1
  Loop = Loop
  NoTask = NoTask
  NoSpec = NoSpec
  Loader = {l1}
  Refresher = {r1}
  Interval = 5
  MaxVersion = 2
INVARIANTS
  CacheTypeOK
  LockNotLeaked
  SuccessMeansReadable
PROPERTIES
  NeverTornDown
  EveryLoadEnds
  Convergence
CHECK_DEADLOCK FALSE
