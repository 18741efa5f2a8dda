SPECIFICATION FairSpec
CONSTANTS
  k1 = k1
  padded = padded
  b1 = b1
  None = None
  Clients = {c1, c2}
  Administrators = {c1, c2}
  Keys = {k1, padded}
  TrimSpace <- Trimmed
  Bodies = {b1, b2}
  Ids = {1, 3}
  Times = {1, 2}
  History <- Earlier
  Limits = {None, 1, 3}
  DefaultLimit = 2
  MaximumLimit = 2
  Artifacts = {a1, a2}
  Archived = {a2}
  Stores = {"filesystem", "s3", "none"}
  MaxFaults = 1
INVARIANTS
  
  PagesCoverHistory
  TombstonesAreTrue
PROPERTIES
  DeletionReconciles
CHECK_DEADLOCK FALSE
