SPECIFICATION OSpec
CONSTANTS
  c1 = c1
  c2 = c2
  u1 = u1
  u2 = u2
  x = x
  y = y
  NoCredential = NoCredential
  FallbackCredential = FallbackCredential
  Call = {c1, c2}
  Method <- MCMethod
  Status <- MCStatus
  RetryAfter <- MCRetryAfter
  MaxRetries = 0
  BackoffBase = 0
  BackoffMax = 0
  MaxConnections = 1
  User <- MCUser
  Part <- MCPart
  Id <- MCId
  Claims <- MCClaims
  Prefixes <- MCPrefixes
INVARIANTS
  OTypeOK
  OwnCredential
  NoSpuriousMiss
PROPERTIES
  ImplementsClient
SYMMETRY MCSymmetry
CHECK_DEADLOCK FALSE
