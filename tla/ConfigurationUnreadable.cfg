SPECIFICATION Spec
CONSTANTS
  RoleOf <- MCRoleOf
  Steps = {"build"}
  Checks = {"build"}
  Edits = {e1}
  Candidate = "candidate"
  Callers = {}
  Keys = {"k"}
  MaxRevisions = 2
  MaxChanges = 1
  AllSound = FALSE
  None = None
CHECK_DEADLOCK FALSE
INVARIANT EditsStayReadable
