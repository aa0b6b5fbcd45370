SPECIFICATION Spec
CONSTANTS
  Commands = {c1}
  Kinds = {"start", "stop", "link"}
  Processes = {p1, p2}
  MaxIssued = 3
  MaxCrashes = 0
  MaxRestarts = 0
  None = None
CHECK_DEADLOCK FALSE
PROPERTY LinkLeavesPaused
