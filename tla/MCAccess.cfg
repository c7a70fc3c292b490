SPECIFICATION Spec
CONSTANTS
  Machines = {"jwks", "api", "format", "claims", "introspection", "live", "gate", "cancel", "definitions", "links", "device", "profiles", "web", "native", "silent"}
  Kids = {b1, b2}
  JwksRequests = {a1, a2}
  CacheTtl = 2
  UnknownTtl = 1
  FetchTimeout = 1
  MaxUnknown = 1
  None = None
  TokenIds = {b1, b2}
  ApiRequests = {a1, a2}
  ApiMaxTime = 2
  ApiLimit = 1
  Base62 <- MCBase62
  Others <- MCOthers
  ByteValues = 5
  SecretLength = 2
  DisplayPrefixLength = 1
  MaxMarker = 3
  MaxName = 2
  MaxGrants = 1
  MaxGrantLength = 1
  MaxDetails = 2
  MaxValue = 1
  Skew = 1
  Huge = 7
  ClaimsMaxTime = 2
  Altered = 2
  GateRequests = {1}
  Identities = {"alice", "bob"}
  GateScopes <- MCScopes
  GateVerified <- MCVerified
  Key <- MCKey
  Wanted <- MCWanted
  Tools <- MCTools
  Resources <- MCResources
  Templates <- MCTemplates
  Prompts <- MCPrompts
  Messages <- GateMessages
  Quota = 3
  IntrospectionRequests = {1, 2}
  Tokens = {"late", "soon", "foreign", "pat"}
  IntrospectionScopes = {"read", "write", "admin"}
  cache_ttl = 2
  timeout = 1
  cache_capacity = 1
  Exp <- MCExp
  Granted <- MCGranted
  IntrospectionVerified = {"read", "write"}
  IntrospectionForeign = {"foreign"}
  PAT = {"pat"}
  Revocable = {"late"}
  IntrospectionMaxTime = 3
  Segments = {"", "a", "?"}
  DefinitionsMarked = {"?"}
  Vars = {"{x}", "{y}", "{"}
  MaxLen = 2
  DefinitionsGrants <- MCGrants
  MaxDefs = 2
  Ids = {1, 2, 3, 4, 5}
  LinkPagesForeign = {9}
  PAGE_SIZE = 2
  MaxChanges = 2
  Callers = {c1, c2}
  Processes = {p1, p2}
  ProcessOf <- MCProcessOf
  Profiles = {f1}
  ProfileOf <- OneProfile
  DeviceMaxTokens = 2
  MaxCrashes = 1
  DeviceRejected = Rejected
  Dead = Dead
  Tabs = {t1, t2}
  WebMaxTokens = 3
  WebMaxEpoch = 2
  MaxPages = 2
  Subjects = {s1, s2}
  MaxSessions = 3
  NativeMaxEpoch = 2
  MaxStarts = 2
  Overlapping = FALSE
  Products = {q1, q2}
  MaxLife = 2
  SilentMaxTime = 1
  MaxOpened = 4
  c1 = c1
  c2 = c2
  p1 = p1
  p2 = p2
  f1 = f1
  f2 = f2
  a1 = a1
  a2 = a2
SYMMETRY Symmetry
PROPERTY OnlyLiveTokens
PROPERTY OnlyGrantedRuns
PROPERTY SessionsStayEnded
CHECK_DEADLOCK FALSE
