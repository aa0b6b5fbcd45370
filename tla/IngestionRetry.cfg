SPECIFICATION FairSpec
CONSTANTS
  Events = {e1, e2, e3}
  Batches <- Single
  Requests = {r1, r2}
  e1 = e1
  e2 = e2
  e3 = e3
  MaxKey = 1
  MaxSeals = 3
  MaxFailures = 1
  MaxRetries = 1
PROPERTIES
  RetriesSucceed
