SPECIFICATION Spec
CONSTANTS
  Callers = {c1, c2}
  SignIns = {s1}
  AccessLife = 1
  RefreshLife = 3
  LeaseSeconds = 9
  Leeway = 0
  MaxTime = 1
  MaxFaults = 0
  None = None
CHECK_DEADLOCK FALSE
PROPERTIES RevokedOnlyWhenInvalid
