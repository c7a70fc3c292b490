SPECIFICATION Spec
CONSTANTS
  Machines = {"runner", "shutdown", "erasure", "subject", "link", "reward", "pull", "scheduler", "delivery"}
  None = None
  NoRequest = NoRequest
  Nobody = Nobody
  email = email
  j1 = j1
  w1 = w1
  w2 = w2
  s1 = s1
  t1 = t1
  h1 = h1
  q1 = q1
  k1 = k1
  b1 = b1
  b2 = b2
  c1 = c1
  c2 = c2
PROPERTY WorkEnds
PROPERTY ChangesArrive
CHECK_DEADLOCK FALSE
