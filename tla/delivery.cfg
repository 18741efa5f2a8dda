SPECIFICATION FairSpec
CONSTANTS
  v1 = v1
  v2 = v2
  bad = bad
  None = None
  Events = {v1, v2, bad}
  Kind <- Scheduled
  RunOf <- Runs
  Version <- Versions
  Refused = {v1}
  Unpublishable = {bad}
  Relays = {p1}
  Replicas = {c1}
  BatchSize = 1
  Tiers = 1
  MaxFaults = 2
CHECK_DEADLOCK FALSE
PROPERTIES
  EveryEventSettles
