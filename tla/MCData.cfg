SPECIFICATION Spec
CONSTANTS
  Machines = {"fence", "takeover", "subject", "keys", "split", "pull", "hlc", "scheduler", "writes", "listener", "draft", "editors"}
  ErasureRequests = {q1, q2}
  ErasureKeys = {k1, k2}
  ErasureKeyOf <- OwnKeys
  Operators = {o1}
  Visits = {a1}
  ErasureWorkers = {w1}
  ErasureRetain = FALSE
  ErasureMaxAttempts = 1
  LastTime = 1
  None = None
  SubjectRequests = {r1}
  SubjectWorkers = {b1, b2}
  Subjects = {s1, s2}
  SubjectKeyOf <- OneKeyOf
  BodyOf <- OneBodyOf
  KindOf <- OneKindOf
  SubjectsOf <- OneSubjectsOf
  SubjectRetain = FALSE
  SubjectMaxAttempts = 2
  LeaseTime = 2
  DeletionTimeout = 3
  ExportRetention = 2
  OperationRetention = 3
  MaxDelay = 4
  Exports <- MCExports
  Limits <- MCLimits
  Ids = {a, b, c}
  Writers = {b1, b2}
  PullMaxRevision = 4
  PullMaxFailures = 1
  PageSize = 1
  Limit = 2
  Devices = {b1, b2}
  PerMs = 2
  MaxStamp = 6
  MaxPhysical = 2
  HlcMaxFailures = 2
  MaxRetries = 2
  MaxEvents = 6
  WritesMaxEdits = 3
  MaxForeign = 1
  MaxGeneration = 2
  Reentrant = FALSE
  DraftKeys = {k1}
  DraftMaxEdits = 2
  MaxSessions = 2
  MaxQueue = 1
  DraftMaxRevision = 2
  Leases = FALSE
  Bad = Bad
  q1 = q1
  q2 = q2
  k1 = k1
  k2 = k2
  r1 = r1
  r2 = r2
  r3 = r3
  s1 = s1
  s2 = s2
  o1 = o1
  b1 = b1
  b2 = b2
SYMMETRY Symmetry
PROPERTY ErasureHolds
INVARIANT ExportsComplete
PROPERTY ReplicaSeesAll
PROPERTY EditsSurvive
CHECK_DEADLOCK FALSE
