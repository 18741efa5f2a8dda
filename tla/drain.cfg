SPECIFICATION DrainSpec
CONSTANTS
  r1 = r1
  r2 = r2
  r3 = r3
  r4 = r4
  t1 = t1
  t2 = t2
  Runs = {r1, r2, r3, r4}
  Tenants = {t1, t2}
  TenantOf <- TwoTenants
  Size <- Oversized
  Priority <- High
  Older <- InOrder
  MaxRuns = 1
  MaxQueued = 3
  MaxSize = 2
  BatchSize = 2
  WorkQueueSize = 2
  DeferralPolls = 2
  LeasePolls = 2
  AgingInterval = 2
  MaximumAgingBoost = 1
  MaxLosses = 1
PROPERTIES
  
  
  TenantsInterleave
