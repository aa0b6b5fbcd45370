SPECIFICATION MCSpec
CONSTANTS
  c1 = c1
  c2 = c2
  p1 = p1
  p2 = p2
  p3 = p3
  Root = root
  Descendants = {p1, p2, p3}
  Foreign = {p3}
  QuietPeriod = 2
  HardTimeout = 4
  MaxDelay = 1
  MaxTime = 6
  Commands = {c1, c2}
  Kinds = {"start", "stop", "scan", "disconnect", "connect", "link"}
  Companions = {p1, p2, p3}
  MaxIssued = 4
  MaxCrashes = 1
  MaxRestarts = 1
  None = None
CHECK_DEADLOCK FALSE
INVARIANTS
  TypeOK
  DrainCanFinish
  CheckpointIsEvidence
  NoOrphan
  ClaimIsTrue
PROPERTIES
  NothingMissed
  EndsWhenTold
