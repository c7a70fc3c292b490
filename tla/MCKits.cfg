SPECIFICATION Spec
CONSTANTS
  Machines = {"target", "receipts", "cases", "erasure", "cap", "purge", "replay", "probe", "inbox", "limits", "ops"}
  Tokens <- AllTokens
  ClientOf <- ClientNames
  ScopesOf <- ScopeSets
  Keys <- KeysAndNone
  Bodies <- BodySet
  Outcomes <- OutcomeSet
  Faults = {}
  ExportRetention = 1
  OperationRetention = 2
  MaxOps = 2
  MaxTimes = 0
  MaxScripts = 1
  MaxKeys = 1
  MaxTime = 2
  None = None
  AllFaults <- EverySubjectFault
  Advertised <- Both
  Restricts = TRUE
  Limit = 2
  Strategies <- MCStrategies
  Defects <- MCDefects
  MaxAttempts = 3
  CapMaxFailures = 2
  PurgeFaults <- EveryPurgeFault
  PurgePairedFaults = {"HorizonRegresses", "NoHorizon", "KeepsRows", "ReadCommitted", "Deadlocks"}
  PurgeMaxFailures = 1
  BatchTombstones = 5
  BatchLimit = 2
  ReplayFaults <- EveryReplayFault
  ReplayPairedFaults = {"NoRecord", "OwnerUnscoped", "NoUniqueKey", "SwallowsRollback", "IgnoresExpiry"}
  ReplayMaxFailures = 1
  CleanupRecords = 5
  CleanupLimit = 2
  ProbeFaults <- EveryProbeFault
  InboxFaults <- EveryInboxFault
  LimitsFaults <- EveryLimitFault
  Limits = {0, 1, 2, 3}
  MaxLimit = 3
  OpsCasesRuns = {r1, r2, r3}
  Services <- MCServices
  full = full
  half = half
  barred = barred
  k = k
  b1 = b1
  b2 = b2
PROPERTY KitsTellApart
CHECK_DEADLOCK FALSE
