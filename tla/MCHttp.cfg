SPECIFICATION Spec
CONSTANTS
  Machines = {"pipeline", "guard", "body", "upstream", "capped", "conditional", "header", "keyed", "rate", "full", "budget", "serving", "locks", "pages", "media", "csv"}
  Slots = {1, 2}
  Endpoints = {"read", "write"}
  Inputs <- MCInputs
  Built <- Serving
  DefaultBody = 2
  CondClients = {c1, c2}
  Base = 2
  Max = 2
  Required = TRUE
  MaxHeader = 0
  None = None
  KeyedClients = {c1, c2}
  KeyedKeys <- AllKeys
  Length <- KeyLength
  Graphic <- GraphicKeys
  MinBytes = 2
  MaxBytes = 4
  LongestKey = 6
  KeyRequired = FALSE
  MaxCrashes = 2
  MaxLost = 2
  W = 4
  NON_PUBLIC <- NonPublic
  ALLOWLISTABLE_NETWORKS <- MCAllowlistable
  CLOUD_METADATA = {7, 10}
  LOOPBACK = {8, 9}
  GlobalV6 = {1}
  GuardAddresses <- MCAddresses
  Policies <- MCPolicies
  Urls <- MCUrls
  Kind <- MCKind
  MaxBody = 4
  BodyMaxLimit = 3
  RequestTimeout = 2
  DefaultLimit = 2
  Cap = None
  FirstField = TRUE
  Forbidden = TRUE
  Backoff = 1
  MaxAttempts = 3
  UpstreamMaxTime = 5
  UpstreamMaxWindow = 4
  MaxBlocks = 2
  Healthy = Healthy
  Degraded = Degraded
  NeedsReconnect = NeedsReconnect
  Failed = Failed
  UpstreamRetryAfter = RetryAfter
  UpstreamRateLimited = RateLimited
  Unavailable = Unavailable
  UpstreamTimeout = Timeout
  Revoked = Revoked
  Permanent = Permanent
  TransportFailed = TransportFailed
  TransportTimeout = TransportTimeout
  Subjects = {s1}
  RateAddresses = {a1}
  RateCallers = {c1,c2}
  RequestsPerPeriod = 2
  Period = 3
  Burst = 1
  MaxEntries = 2
  FailOpen = FALSE
  BudgetCallers = {c1, c2}
  BudgetLimit = 2
  BudgetMaxWindow = 1
  FailModes = {TRUE, FALSE}
  MaxSlipped = 2
  HttpLinks = {"l1", "l2"}
  Unknown = {"l2"}
  Peers = {"hub"}
  Strangers = {"other"}
  UnknownLimit = 1
  LinkLimit = 2
  FailureLimit = 1
  Window = 2
  Sessions = {1, 2, 3}
  Plays <- MCPlays
  Owners = {1, 2}
  LocksLinks = {1, 2, 3}
  Jobs = {1, 2, 3}
  OwnerOf <- MCOwnerOf
  LinkOf <- MCLinkOf
  Existing = {2, 3}
  Queued = {2, 3}
  PagesIds <- MCIds
  Values <- MCValues
  Filters <- MCFilters
  Limits <- MCLimits
  PagesMaxLimit = 3
  Versions <- MCVersions
  MaxWrites = 2
  MaxPages = 3
  InvalidLimit = InvalidLimit
  InvalidCursor = InvalidCursor
  Edges = {e1}
  Paths = {p1, Bad}
  BadPath = Bad
  MediaIds = {i1, i2}
  Secrets = {s1, s2}
  Lifetime = 2
  Skew = 1
  MaxExpires = 6
  MediaMaxTime = 5
  MaxGrants = 2
  MaxRotations = 1
  MediaGranted = Granted
  InvalidMethod = InvalidMethod
  InvalidPath = InvalidPath
  InvalidQuery = InvalidQuery
  MediaExpired = Expired
  ExpiryTooFar = ExpiryTooFar
  UnknownKey = UnknownKey
  InvalidSignature = InvalidSignature
  Chars <- MCChars
  MaxChars = 2
  MaxCells = 2
  MaxRecords = 1
  empty = empty
  short = short
  atMin = atMin
  atMax = atMax
  long = long
  spaced = spaced
  c1 = c1
  a1 = a1
  a2 = a2
SYMMETRY Symmetry
PROPERTY RequestsAnsweredWhole
INVARIANT ServedUnderLoad
PROPERTY WritesOnce
PROPERTY LimitsHold
PROPERTY ListsReadBack
CHECK_DEADLOCK FALSE
