SPECIFICATION Spec
CONSTANTS
  e1 = e1
  e2 = e2
  Runs = {r1}
  Engines = {e1, e2}
  Commands = {c1}
  NoOwner = NoOwner
  MaxAttempts = 2
  LeaseDuration = 2
  PolicyDeferral = 1
  DeferralDuration = 1
  BatchSize = 1
  WorkQueueSize = 1
  WorkerCount = 1
  Skew <- SkewOfOne
  MaxDelay = 0
  MaxClock = 2
  MaxDrafts = 1
  RunTargets = {"PROVISIONING", "RUNNING", "TESTING", "CANCELLED", "SUCCEEDED", "PROVISIONING_FAILED", "TIMED_OUT"}
  AttemptTargets = {"FAILED"}
INVARIANTS
  TypeOK
  ClaimsFenced
  RowsConsistent
  AttemptAssignedOnce
  WorkloadMatchesStatus
  OneEventPerVersion
  DraftsFenced
PROPERTIES
  CancellationSticks
  ImplementsContract
  LeaseExclusive
CHECK_DEADLOCK FALSE
