SPECIFICATION Spec
CONSTANTS
  EventIds = {e1, e2, e3}
  Callers = {c1, c2}
  ReceiptIds = {r1, r2, r3}
  small = small
  large = large
  NoEvent = NoEvent
  NoBatch = NoBatch
  Payloads <- MCPayloads
  EstimateBytes <- MCEstimateBytes
  EnvelopeBytes <- MCEnvelopeBytes
  Times <- MCTimes
  Delays <- MCDelays
  MaxPending = 3
  MaxBytes = 3
  MaxBatch = 2
  MaxVersion = 2
  MaxAttempts = 1
SYMMETRY Symmetry
INVARIANTS
  TypeOK
  ChainIntact
  BatchesUpload
  ReceiptsExact
  WithinLimits
PROPERTIES
  HistoryIsKept
  SpoolIsEventLog
