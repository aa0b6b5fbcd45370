SPECIFICATION Spec
CONSTANTS
  Operations = {"verified"}
  RequestOf <- MCRequestOf
  Workers = {w1}
  MaxPushes = 1
  MaxCommits = 2
  None = None
CHECK_DEADLOCK FALSE
INVARIANT RetriesReconcile
