SPECIFICATION Spec
CONSTANTS
  Machines = {"shutdown", "readiness", "pool", "config", "slots", "scaffold", "fresh", "ports"}
  Tasks = {t1, t2}
  Hooks = {h1, h2}
  MaxRestarts = 1
  OpsOutlivesApi = TRUE
  MayPanic = FALSE
  DrainTimeout = 1
  LatestStart = 1
  None = None
  OpsNames = {"db", "cache"}
  Messages <- MCMessages
  Timeouts <- MCTimeouts
  MaxChecks = 2
  MAX_ERROR_LENGTH = 3
  PoolCallers = {c1, c2}
  MaxConnections = 2
  MaxTimeouts = 2
  U32 = 8
  ConfigFiles <- MCFiles
  Variables <- MCVariables
  Dotenvs <- MCDotenvs
  ConfigRegistered = {"tags"}
  MaxLoads = 3
  U64 = 4
  Replicas = {r1, r2}
  Interval = 2
  JitterNum = 1
  JitterDen = 1
  Hash = 5
  Skew = 1
  Lease = 1
  MaxAttempts = 2
  Retention = 2
  LastTime = 4
  Options <- OneProduct
  MaxRuns = 3
  MaxUserSteps = 1
  MaxCrashes = 1
  MaxReports = 1
  LastTemplate = 7
  MaxPort = 5
  MaxOffset = 4
  MaxEdits = 3
  FreshOptions <- EveryProduct
SYMMETRY Symmetry
INVARIANT StopsInOrder
INVARIANT OneNextSlot
PROPERTY OperatorsSeeTheTruth
PROPERTY StartsAsConfigured
CHECK_DEADLOCK FALSE
