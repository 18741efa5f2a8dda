SPECIFICATION Spec
CONSTANTS
  r1 = r1
  r2 = r2
  r3 = r3
  t1 = t1
  t2 = t2
  u1 = u1
  u2 = u2
  None = None
  TenantOf <- OwnTenants
  UserOf <- OneUser
  Size <- Large
  Cost <- Unit
  Policy <- Narrow
  Runs = {r1, r2, r3}
  Tenants = {t1, t2}
  Users = {u1, u2}
  Clusters = {k1}
  Workers = {w1, w2}
  Callers = {c1}
  Suspendable = {r3}
  Reports = {2}
  TTL = 1
  DayLength = 1
  MaxAttempts = 1
  MaxLag = 0
  MaxClock = 0
  MaxReservations = 2
  MaxReports = 1
  Recovery = {}
SYMMETRY WorkerSymmetry
INVARIANTS
  QuotaRespected
  CapacityRespected
CHECK_DEADLOCK FALSE
