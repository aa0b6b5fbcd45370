SPECIFICATION Spec
CONSTANTS
  Users = {u1, u2}
  InitialRoles <- MCInitialRoles
  AskedRoles = {"owner", "observer"}
  Devices = {}
  Requests = {q1, q2}
  MaxIssued = 2
  MaxFaults = 0
  None = None
CHECK_DEADLOCK FALSE
INVARIANT LastOwner
