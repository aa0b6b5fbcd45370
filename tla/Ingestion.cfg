SPECIFICATION Spec
CONSTANTS
  Events = {e1, e2, e3}
  Batches <- Fork
  Requests = {r1, r2}
  e1 = e1
  e2 = e2
  e3 = e3
  MaxKey = 2
  MaxSeals = 6
  MaxFailures = 1
  MaxRetries = 0
SYMMETRY Symmetry
CHECK_DEADLOCK FALSE
INVARIANTS
  TypeOK
  OneChain
  NothingDangles
PROPERTIES
  EvidenceIsKept
