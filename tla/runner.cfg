SPECIFICATION FairSpec
CONSTANTS
  Executions <- SameNumber
  Signed <- Numbers
  Backends = {"filesystem", "s3"}
  Tests = 1
  Children = {"none", "holding"}
  MaxRunning = 2
  MaxBeats = 1
  MaxFaults = 3
  None = None
  Other = Other
INVARIANTS
  ManifestIsLast
  EvidenceIsDurable
  ExitMatchesEvidence
  EvidenceIsEarned
PROPERTIES
  RunEnds
CHECK_DEADLOCK FALSE
