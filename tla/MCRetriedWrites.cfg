SPECIFICATION WFairSpec
CONSTANTS
  c1 = c1
  c2 = c2
  Absent = Absent
  Call = {c1, c2}
  Method <- MCMethod
  Status <- MCStatus
  RetryAfter <- MCRetryAfter
  MaxRetries = 1
  BackoffBase = 1
  BackoffMax = 1
  MaxConnections = 1
INVARIANTS
  TypeOK
  NonIdempotentOnce
  SettledUntouched
  SleepBudget
  DuplicateNeedsInterference
PROPERTIES
  ImplementsContract
  EveryCallEnds
CHECK_DEADLOCK FALSE
