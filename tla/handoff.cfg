SPECIFICATION Spec
CONSTANTS
  v1 = v1
  v2 = v2
  bad = bad
  None = None
  Events = {v2, bad}
  Kind <- Requested
  RunOf <- Runs
  Version <- Versions
  Refused = {}
  Unpublishable = {}
  Relays = {p1, p2}
  Replicas = {c1, c2}
  BatchSize = 2
  Tiers = 1
  MaxFaults = 2
CHECK_DEADLOCK FALSE
INVARIANTS
  NoEventLost
  AcknowledgedIsSettled
  MarkedHasAgentRun
  
  DeadLetterIsExhausted
