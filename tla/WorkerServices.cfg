SPECIFICATION MCSpec
CONSTANTS
  e = e
  d1 = d1
  d2 = d2
  d3 = d3
  None = None
  Deliveries = {d1, d2, d3}
  MaxRunFaults = 2
  OutboxRows = {"r1", "r2"}
  Drains = {d1, d2}
  BatchSize = 2
  MaximumAttempts = 2
  MaxDrainFaults = 2
  MaxVersion = 2
  MaxRuns = 2
  MaxPollFailures = 2
  PartialAt = {1}
  Events = {e}
  Batches <- MCBatches
  Requests = {d1, d2}
  MaxKey = 1
  MaxSeals = 3
  MaxFailures = 2
  MaxRetries = 1
CHECK_DEADLOCK FALSE
INVARIANTS
  TypeOK
  Accounted
  VerdictIsEarned
  OutcomesTrue
PROPERTIES
  Settles
  CommittedIsProcessed
