SPECIFICATION Spec
CONSTANTS
  j1 = j1
  j2 = j2
  w1 = w1
  w2 = w2
  email = email
  k1 = k1
  None = None
  Jobs = {j1, j2}
  Workers = {w1}
  JobTypes = {email}
  Keys = {k1}
  Lease = 1
  Handles <- MCHandles
  NewJobs <- MCNewJobs
  RetryDelays = {1}
  Retention <- MCRetention
  RetainedTypes = {}
  RetainedFailedTypes = {}
  BatchSizes = {1, 2}
  Lag = 1
  MaxTime = 2
INVARIANT TypeOK
INVARIANT RefusedOnlyIfEarly
INVARIANT HeldLeaseStable
INVARIANT PendingKeyBeforeFirstClaim
INVARIANT ReasonMatchesAttempts
PROPERTY NeverSucceedsOnceCancelled
PROPERTY ImplementsLifecycle
CHECK_DEADLOCK FALSE
