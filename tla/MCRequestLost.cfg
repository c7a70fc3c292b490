SPECIFICATION Spec
CONSTANTS
  j1 = j1
  j2 = j2
  w1 = w1
  w2 = w2
  s1 = s1
  s2 = s2
  email = email
  None = None
  Jobs = {j1}
  Workers = {w1}
  Slots = {s1}
  JobTypes = {email}
  Keys = {}
  Lease = 4
  JobTimeout = 1
  RetryDelay = 1
  MaxDelay = 1
  NewJobs <- TwoAttempts
  MaxFaults = 1
  MaxRequests = 1
PROPERTY RequestEndsInCancelled
