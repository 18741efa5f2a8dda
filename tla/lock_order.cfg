SPECIFICATION Spec
CONSTANTS
  r1 = r1
  r2 = r2
  r3 = r3
  t1 = t1
  t2 = t2
  u1 = u1
  u2 = u2
  None = None
  TenantOf <- OwnTenants
  UserOf <- OneUser
  Size <- Unit
  Cost <- Unit
  Policy <- Narrow
  Runs = {r1}
  Tenants = {t1}
  Users = {u1, u2}
  Clusters = {k1}
  Workers = {w1, w2}
  Callers = {}
  Suspendable = {}
  Reports = {2}
  TTL = 1
  DayLength = 1
  MaxAttempts = 1
  MaxLag = 0
  MaxClock = 0
  MaxReservations = 3
  MaxReports = 1
  Recovery = {}
INVARIANT
  NoLockCycle
CHECK_DEADLOCK FALSE
