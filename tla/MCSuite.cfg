SPECIFICATION Spec
CONSTANTS
  Machines = {"link", "sends", "reward", "circuit", "plan", "events", "hub", "ticket"}
  Requests = {a1, a2}
  Codes = {b1, b2}
  Completers = {c1, c2}
  Senders = {}
  MaxLinks = 2
  NoRequest = NoRequest
  RewardEvents = {e1}
  RewardWorkers = {a1, a2}
  Failures = 1
  MaxAttempts = 2
  Nobody = Nobody
  PlanCallers = {c1, c2}
  PlanWorkers = {w1}
  Bodies = {b1}
  Life = 2
  FreeLife = 1
  MaxRev = 2
  PlanMaxTime = 1
  PlanMaxFaults = 0
  MaxForgets = 0
  MaxPurges = 0
  None = None
  Denied = Denied
  HubCallers = {c1, c2}
  Lifetime = 3
  Margin = 1
  Deadline = 1
  HubMaxTime = 4
  MaxTokens = 3
  HubMaxCalls = 3
  HubMaxFaults = 1
  MaxRevocations = 1
  HubAnswer = Answer
  Unauthorized = Unauthorized
  Unavailable = Unavailable
  Refused = Refused
  TicketCallers = {c1, c2}
  Keys = {k1, k2}
  Claims = {"good"}
  Forged = Forged
  Ttl = 3
  Cooldown = 2
  TicketMaxTime = 4
  TicketMaxCalls = 3
  TicketMaxFaults = 1
  MaxRotations = 1
  TicketAccepted = Accepted
  Invalid = Invalid
  Expired = Expired
  WrongAudience = WrongAudience
  KeysUnavailable = KeysUnavailable
  a1 = a1
  p1 = p1
  b1 = b1
  b2 = b2
  w1 = w1
  c1 = c1
  w2 = w2
SYMMETRY Symmetry
PROPERTY LinksPair
PROPERTY CountedOnce
PROPERTY PlatformStaysCurrent
CHECK_DEADLOCK FALSE
