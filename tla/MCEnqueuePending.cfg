SPECIFICATION FairSpec
CONSTANTS
  None = None
  Updates = {u1, u2, u3}
  Mode = "pending"
  MaxAttempts = 2
INVARIANT JobSeesUpdate
INVARIANT ReturnedRowKept
PROPERTY EnqueueReturns
PROPERTY UpdateReachesHandler
CHECK_DEADLOCK FALSE
