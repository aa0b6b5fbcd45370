SPECIFICATION MCSpec
CONSTANTS
  None = None
  Callers = {c1, c2}
  Workers = {c1, c2}
  Objects = {"candidate", "job", "recommendation"}
  KindOf <- MCKindOf
  TransitionKeys = {"k1", "k2"}
  MaxTransitions = 2
  Writers = {c1, c2}
  OperationKeys = {"k"}
  Ids = {"i1", "i2"}
  Bindings = {"b1", "b2"}
  RoleOf <- MCRoleOf
  Steps = {"build"}
  Checks = {"build"}
  Edits = {c1, c2}
  Candidate = "candidate"
  CandidateCallers = {c1}
  CandidateKeys = {"k"}
  MaxRevisions = 2
  MaxChanges = 1
  AllSound = TRUE
  Checkpoints = {"c1", "c2"}
  Found <- MCFound
  Runs = {c1, c2}
  CandidateRequests = {"q1", "q2"}
  PacketOf <- MCPacketOf
  Files = {"manifest", "lock"}
  Plans <- MCPlans
  MaxGenerations = 2
  MaxTransportAttempts = 3
  ModelVersions = {"v1", "v2"}
  Templates = {"a", "b"}
  MaxPromotions = 2
  Headers <- MCHeaders
  MaxHeaders = 4
  MaxEntries = 2
  MaxFile = 1
  MaxBytes = 2
  Packages = {"p", "other"}
  PackageVersions = {"2"}
  Operation <- MCOperation
  t1 = t1
  t2 = t2
  Targets = {t1, t2}
  CodeUnitOrder <- MCOrder
  LocaleOrder <- MCOrder
  TargetRequests <- MCTargetRequests
  Faults <- MCFaults
  MaxActive = 1
  MaxCost = 2
  MaxAttempts = 1
  MaxVersion = 2
SYMMETRY MCSymmetry
CHECK_DEADLOCK FALSE
INVARIANTS
  TypeOK
  AnswersTrue
  EditsHold
  GuardedAndEvaluated
  OnlyTheOperation
  VerifiedIsEarned
PROPERTIES
  NothingIsUndone
