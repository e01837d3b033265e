SPECIFICATION Spec
CONSTANTS
  r1 = r1
  r2 = r2
  u1 = u1
  u2 = u2
  t1 = t1
  t2 = t2
  admin = admin
  guest = guest
  a1 = a1
  a2 = a2
  p1 = p1
  p2 = p2
  NoClaim = NoClaim
  NoToken = NoToken
  Stdio = Stdio
  Request = {r1, r2}
  Subject = {u1, u2}
  Tenant = {t1, t2}
  Role = {admin, guest}
  Claims <- MCClaims
  Settings <- MCSettings
  Address = {a1, a2, p1, p2}
  Header <- MCHeader
  Burst = 1
  Refill = 1
  MaxClock = 1
SYMMETRY RequestSymmetry
INVARIANTS
  TypeOK
  BudgetHolds
  LimitedForOwnUse
  JudgedIsCharged
  DispatchedIsAllowed
CHECK_DEADLOCK FALSE
