SPECIFICATION MCSpec
CONSTANTS
  c1 = c1
  c2 = c2
  n1 = n1
  n2 = n2
  None = None
  Callers = {c1, c2}
  Users = {"owner", "other"}
  SignIns = {n1, n2}
  AccessLife = 1
  RefreshLife = 3
  LeaseSeconds = 1
  Leeway = 0
  MaxTime = 4
  MaxLosses = 2
  Deliveries = {"deleted", "created", "push", "unsigned"}
  Content <- MCContent
  AppInstallations = {1, 2}
  Linked = {1}
  Archived = {}
  Workers = {c1, c2}
  Operations = {"verified", "changed"}
  RequestOf <- MCRequestOf
  MaxPushes = 1
  MaxCommits = 3
  Installations = {1, 2}
  Repositories = {1, 2, 3}
  PageSize = 1
  MaxPages = 2
  MaxChanges = 2
  Owner = "owner"
  Sessions = {"b"}
  Enrollments = {"e"}
  Invitations = {"i"}
  MaxNow = 2
  MaxCalls = 4
  Clients = {"informed", "stranger"}
  Informed = {"informed"}
  PathFits = TRUE
  MaxAttempts = 2
  Devices = {"d"}
  AskedRoles = {"owner", "observer"}
  InitialRoles <- MCInitialRoles
  Requests = {c1, c2}
  MaxIssued = 3
  MaxFaults = 1
SYMMETRY Symmetric
CHECK_DEADLOCK FALSE
INVARIANTS
  TypeOK
  RotationIsKept
  DealtWith
  OnlyTheVerified
  OutIsOut
  RedeemedOnce
  OutcomesTellTruth
  DecisionsHonoured
PROPERTIES
  CredentialsAreKept
