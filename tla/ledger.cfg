SPECIFICATION Spec
CONSTANTS
  r1 = r1
  r2 = r2
  r3 = r3
  t1 = t1
  t2 = t2
  u1 = u1
  u2 = u2
  None = None
  TenantOf <- OwnTenants
  UserOf <- TwoUsers
  Size <- Unit
  Cost <- Unit
  Policy <- Tight
  Runs = {r1}
  Tenants = {t1}
  Users = {u1, u2}
  Clusters = {k1}
  Workers = {w1}
  Callers = {c1}
  Suspendable = {}
  Reports = {2}
  TTL = 1
  DayLength = 1
  MaxAttempts = 2
  MaxLag = 1
  MaxClock = 1
  MaxReservations = 3
  MaxReports = 2
  Recovery = {"RELEASED", "SETTLED", "EXPIRED"}
INVARIANTS
  LedgerBalanced
  BudgetRespected
CHECK_DEADLOCK FALSE
