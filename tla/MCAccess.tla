------------------------------ MODULE MCAccess -------------------------------
(***************************************************************************)
(* Small instances of the machines that decide who may do what: tokens, the*)
(* MCP server and the sessions of clients. A behaviour is of one machine,  *)
(* named by part; the variables of the others stay 0.                      *)
(***************************************************************************)
EXTENDS TLC

CONSTANTS
  Machines,  \* the machines a run starts
  Kids, JwksRequests, CacheTtl, UnknownTtl, FetchTimeout, MaxUnknown, None,
  TokenIds, ApiRequests, ApiMaxTime, ApiLimit, Base62, Others, ByteValues,
  SecretLength, DisplayPrefixLength, MaxMarker, MaxName, MaxGrants,
  MaxGrantLength, MaxDetails, MaxValue, Skew, Huge, ClaimsMaxTime, Altered,
  GateRequests, Identities, GateScopes, GateVerified, Key, Wanted, Tools,
  Resources, Templates, Prompts, Messages, Quota, IntrospectionRequests,
  Tokens, IntrospectionScopes, cache_ttl, timeout, cache_capacity, Exp,
  Granted, IntrospectionVerified, IntrospectionForeign, PAT, Revocable,
  IntrospectionMaxTime, Segments, DefinitionsMarked, Vars, MaxLen,
  DefinitionsGrants, MaxDefs, Ids, LinkPagesForeign, PAGE_SIZE, MaxChanges,
  Callers, Processes, ProcessOf, Profiles, ProfileOf, DeviceMaxTokens,
  MaxCrashes, DeviceRejected, Dead, Tabs, WebMaxTokens, WebMaxEpoch, MaxPages,
  Subjects, MaxSessions, NativeMaxEpoch, MaxStarts, Overlapping, Products,
  MaxLife, SilentMaxTime, MaxOpened, c1, c2, p1, p2, f1, f2, a1, a2

VARIABLES
  part,  \* the machine this behaviour is of
  published, since, jwksCache, unknown, jwksRequest, fetch,
  clock, row, apiRequest, apiLock, accepted,
  markers, formatStage, issuer, secret, status, formatAnswer, details,
  config, key, kind, token, claimsNow, verdicts,
  revoked, used, gateReq, active,
  now, revokedAt, introspectionCache, introspectionReq,
  resources, templates, definitionsStatus, read,
  links, stable, call, cursor, walk, changes,
  doc, deviceLock, pc, op, obs, pair, copy, flight, sent, answer, usable,
  deviceStale, deviceCount, lost, reused, left, crashes,
  tokens, webMarker, tab, webCount, webEpoch, ended, erased, exchanged,
  current, ready, disk, nativeMarker, nativeSignin, refresh, ender,
  leaving, nativeCount, starts, nativeEpoch, done, owed,
  silentCache, pending, failure, disposed, opened, latched, given

jwksState == <<published, since, jwksCache, unknown, jwksRequest, fetch>>
apiState == <<clock, row, apiRequest, apiLock, accepted>>
formatState == <<markers, formatStage, issuer, secret, status, formatAnswer,
    details>>
claimsState == <<config, key, kind, token, claimsNow, verdicts>>
gateState == <<revoked, used, gateReq, active>>
introspectionState == <<now, revokedAt, introspectionCache, introspectionReq>>
definitionsState == <<resources, templates, definitionsStatus, read>>
linkPagesState == <<links, stable, call, cursor, walk, changes>>
deviceState == <<doc, deviceLock, pc, op, obs, pair, copy, flight, sent,
    answer, usable, deviceStale, deviceCount, lost, reused, left, crashes>>
webState == <<tokens, webMarker, tab, webCount, webEpoch, ended, erased,
    exchanged>>
nativeState == <<current, ready, disk, nativeMarker, nativeSignin, refresh,
    ender, leaving, nativeCount, starts, nativeEpoch, done, owed>>
silentState == <<silentCache, pending, failure, disposed, opened, latched,
    given>>
vars == <<part, jwksState, apiState, formatState, claimsState, gateState,
    introspectionState, definitionsState, linkPagesState, deviceState,
    webState, nativeState, silentState>>

(* Tokens of two symbols, and the separators a token may not hold.             *)
MCBase62 == <<"a", "b">>
MCOthers == {"_", "-"}

(* Two callers on two ordinary tokens, one foreign one and an API token.       *)
TokenNames == {"late", "soon", "foreign", "pat"}
MCExp == [t \in TokenNames |-> IF t = "late" THEN 9 ELSE 3]
MCGranted == [t \in TokenNames |-> IF t = "late" THEN {"read", "admin"} ELSE {"read"}]

(* A tool and a prompt for each scope and one resource that a stricter         *)
(* template also matches: every message with one caller, then calls and        *)
(* cancellations with two.                                                     *)
MCScopes == {"read", "write"}
MCVerified == ("alice" :> MCScopes) @@ ("bob" :> {"read"})
MCKey == ("alice" :> "alice") @@ ("bob" :> "bob")
MCWanted == SUBSET MCScopes
MCTools == {[name |-> "look", scopes |-> {"read"}], [name |-> "change", scopes |-> {"write"}]}
MCResources == {[name |-> "item/1", scopes |-> {"read"}], [name |-> "about", scopes |-> {"read"}]}
MCTemplates == {[name |-> "item/{id}", uris |-> {"item/1", "item/2"}, scopes |-> {"write"}]}
MCPrompts == {[name |-> "ask", scopes |-> {"read", "write"}]}
Msg(k, targets, ids) == [kind : {k}, target : targets, id : ids]
GateMessages ==
  UNION {Msg("tools/call", {"look", "change", "gone"}, {1}),
         Msg("resources/read", {"item/1", "item/2", "about", "gone"}, {1}),
         Msg("prompts/get", {"ask", "gone"}, {1}),
         UNION {Msg(each, {""}, {1}) : each \in {"tools/list", "resources/list", "templates/list",
                                           "prompts/list", "large", "batch", "cancelled"}}}
CancelMessages ==
  Msg("tools/call", {"look"}, {1}) \cup Msg("resources/read", {"about"}, {2})
    \cup Msg("cancelled", {""}, {1})
OneWanted == {{"read"}}
MCGrants == {{}, {"s"}}

(* Two callers of different processes, on one profile and on two.              *)
MCProcessOf == (c1 :> p1) @@ (c2 :> p2)
OneProfile == (c1 :> f1) @@ (c2 :> f1)
TwoProfiles == (c1 :> f1) @@ (c2 :> f2)

Token == INSTANCE Auth WITH cache <- jwksCache, lock <- apiLock
Server == INSTANCE Mcp WITH cache <- introspectionCache,
  MaxTime <- IntrospectionMaxTime, Marked <- DefinitionsMarked
ServerLive == INSTANCE Mcp WITH cache <- introspectionCache,
  MaxTime <- IntrospectionMaxTime, Marked <- DefinitionsMarked, cache_ttl <- 0
ServerCancel == INSTANCE Mcp WITH cache <- introspectionCache,
  MaxTime <- IntrospectionMaxTime, Marked <- DefinitionsMarked,
  GateRequests <- {a1, a2}, Wanted <- OneWanted, Messages <- CancelMessages,
  Quota <- 2
Sessions == INSTANCE ClientSessions WITH lock <- deviceLock,
  cache <- silentCache, MaxTime <- SilentMaxTime
SessionsProfiles == INSTANCE ClientSessions WITH lock <- deviceLock,
  cache <- silentCache, MaxTime <- SilentMaxTime, Profiles <- {f1, f2},
  ProfileOf <- TwoProfiles

ASSUME AccessAssumption ==
  /\ Token!JwksCacheAssumption
  /\ Token!ApiTokensAssumption
  /\ Token!TokenFormatAssumption
  /\ Server!McpIntrospectionAssumption
  /\ ServerLive!McpIntrospectionAssumption
  /\ Server!McpGateAssumption
  /\ ServerCancel!McpGateAssumption
  /\ Server!McpLinkPagesAssumption
  /\ Sessions!CallersAssumption
  /\ SessionsProfiles!CallersAssumption
  /\ Sessions!OverlappingAssumption

JwksOff ==
  /\ published = 0 /\ since = 0 /\ jwksCache = 0 /\ unknown = 0
  /\ jwksRequest = 0 /\ fetch = 0
ApiOff ==
  /\ clock = 0 /\ row = 0 /\ apiRequest = 0 /\ apiLock = 0 /\ accepted = 0
FormatOff ==
  /\ markers = 0 /\ formatStage = 0 /\ issuer = 0 /\ secret = 0
  /\ status = 0 /\ formatAnswer = 0 /\ details = 0
ClaimsOff ==
  /\ config = 0 /\ key = 0 /\ kind = 0 /\ token = 0 /\ claimsNow = 0
  /\ verdicts = 0
GateOff ==
  /\ revoked = 0 /\ used = 0 /\ gateReq = 0 /\ active = 0
IntrospectionOff ==
  /\ now = 0 /\ revokedAt = 0 /\ introspectionCache = 0
  /\ introspectionReq = 0
DefinitionsOff ==
  /\ resources = 0 /\ templates = 0 /\ definitionsStatus = 0 /\ read = 0
LinkPagesOff ==
  /\ links = 0 /\ stable = 0 /\ call = 0 /\ cursor = 0 /\ walk = 0
  /\ changes = 0
DeviceOff ==
  /\ doc = 0 /\ deviceLock = 0 /\ pc = 0 /\ op = 0 /\ obs = 0
  /\ pair = 0 /\ copy = 0 /\ flight = 0 /\ sent = 0 /\ answer = 0
  /\ usable = 0 /\ deviceStale = 0 /\ deviceCount = 0 /\ lost = 0
  /\ reused = 0 /\ left = 0 /\ crashes = 0
WebOff ==
  /\ tokens = 0 /\ webMarker = 0 /\ tab = 0 /\ webCount = 0
  /\ webEpoch = 0 /\ ended = 0 /\ erased = 0 /\ exchanged = 0
NativeOff ==
  /\ current = 0 /\ ready = 0 /\ disk = 0 /\ nativeMarker = 0
  /\ nativeSignin = 0 /\ refresh = 0 /\ ender = 0 /\ leaving = 0
  /\ nativeCount = 0 /\ starts = 0 /\ nativeEpoch = 0 /\ done = 0
  /\ owed = 0
SilentOff ==
  /\ silentCache = 0 /\ pending = 0 /\ failure = 0 /\ disposed = 0
  /\ opened = 0 /\ latched = 0 /\ given = 0

JwksStarts ==
  /\ part = "jwks" /\ Token!JwksInit
  /\ ApiOff /\ FormatOff /\ ClaimsOff /\ GateOff /\ IntrospectionOff /\
     DefinitionsOff /\ LinkPagesOff /\ DeviceOff /\ WebOff /\
     NativeOff /\ SilentOff
ApiStarts ==
  /\ part = "api" /\ Token!ApiInit
  /\ JwksOff /\ FormatOff /\ ClaimsOff /\ GateOff /\ IntrospectionOff /\
     DefinitionsOff /\ LinkPagesOff /\ DeviceOff /\ WebOff /\
     NativeOff /\ SilentOff
FormatStarts ==
  /\ part = "format" /\ Token!FormatInit
  /\ JwksOff /\ ApiOff /\ ClaimsOff /\ GateOff /\ IntrospectionOff /\
     DefinitionsOff /\ LinkPagesOff /\ DeviceOff /\ WebOff /\
     NativeOff /\ SilentOff
ClaimsStarts ==
  /\ part = "claims" /\ Token!ClaimsInit
  /\ JwksOff /\ ApiOff /\ FormatOff /\ GateOff /\ IntrospectionOff /\
     DefinitionsOff /\ LinkPagesOff /\ DeviceOff /\ WebOff /\
     NativeOff /\ SilentOff
GateStarts ==
  /\ \/ part = "gate" /\ Server!GateInit
     \/ part = "cancel" /\ ServerCancel!GateInit
  /\ JwksOff /\ ApiOff /\ FormatOff /\ ClaimsOff /\ IntrospectionOff /\
     DefinitionsOff /\ LinkPagesOff /\ DeviceOff /\ WebOff /\
     NativeOff /\ SilentOff
IntrospectionStarts ==
  /\ \/ part = "introspection" /\ Server!IntrospectionInit
     \/ part = "live" /\ ServerLive!IntrospectionInit
  /\ JwksOff /\ ApiOff /\ FormatOff /\ ClaimsOff /\ GateOff /\
     DefinitionsOff /\ LinkPagesOff /\ DeviceOff /\ WebOff /\
     NativeOff /\ SilentOff
DefinitionsStarts ==
  /\ part = "definitions" /\ Server!DefinitionsInit
  /\ JwksOff /\ ApiOff /\ FormatOff /\ ClaimsOff /\ GateOff /\
     IntrospectionOff /\ LinkPagesOff /\ DeviceOff /\ WebOff /\
     NativeOff /\ SilentOff
LinkPagesStarts ==
  /\ part = "links" /\ Server!LinkPagesInit
  /\ JwksOff /\ ApiOff /\ FormatOff /\ ClaimsOff /\ GateOff /\
     IntrospectionOff /\ DefinitionsOff /\ DeviceOff /\ WebOff /\
     NativeOff /\ SilentOff
DeviceStarts ==
  /\ \/ part = "device" /\ Sessions!DeviceInit
     \/ part = "profiles" /\ SessionsProfiles!DeviceInit
  /\ JwksOff /\ ApiOff /\ FormatOff /\ ClaimsOff /\ GateOff /\
     IntrospectionOff /\ DefinitionsOff /\ LinkPagesOff /\ WebOff /\
     NativeOff /\ SilentOff
WebStarts ==
  /\ part = "web" /\ Sessions!WebInit
  /\ JwksOff /\ ApiOff /\ FormatOff /\ ClaimsOff /\ GateOff /\
     IntrospectionOff /\ DefinitionsOff /\ LinkPagesOff /\ DeviceOff /\
     NativeOff /\ SilentOff
NativeStarts ==
  /\ part = "native" /\ Sessions!NativeInit
  /\ JwksOff /\ ApiOff /\ FormatOff /\ ClaimsOff /\ GateOff /\
     IntrospectionOff /\ DefinitionsOff /\ LinkPagesOff /\ DeviceOff /\
     WebOff /\ SilentOff
SilentStarts ==
  /\ part = "silent" /\ Sessions!SilentInit
  /\ JwksOff /\ ApiOff /\ FormatOff /\ ClaimsOff /\ GateOff /\
     IntrospectionOff /\ DefinitionsOff /\ LinkPagesOff /\ DeviceOff /\
     WebOff /\ NativeOff

Init ==
  /\ part \in Machines
  /\ \/ JwksStarts \/ ApiStarts \/ FormatStarts \/ ClaimsStarts
     \/ GateStarts \/ IntrospectionStarts \/ DefinitionsStarts
     \/ LinkPagesStarts \/ DeviceStarts \/ WebStarts \/ NativeStarts
     \/ SilentStarts

JwksMoves ==
  /\ part = "jwks" /\ Token!JwksNext
  /\ UNCHANGED <<part, apiState, formatState, claimsState, gateState,
       introspectionState, definitionsState, linkPagesState, deviceState,
       webState, nativeState, silentState>>
ApiMoves ==
  /\ part = "api" /\ Token!ApiNext
  /\ UNCHANGED <<part, jwksState, formatState, claimsState, gateState,
       introspectionState, definitionsState, linkPagesState, deviceState,
       webState, nativeState, silentState>>
FormatMoves ==
  /\ part = "format" /\ Token!FormatNext
  /\ UNCHANGED <<part, jwksState, apiState, claimsState, gateState,
       introspectionState, definitionsState, linkPagesState, deviceState,
       webState, nativeState, silentState>>
ClaimsMoves ==
  /\ part = "claims" /\ Token!ClaimsNext
  /\ UNCHANGED <<part, jwksState, apiState, formatState, gateState,
       introspectionState, definitionsState, linkPagesState, deviceState,
       webState, nativeState, silentState>>
GateMoves ==
  /\ \/ part = "gate" /\ Server!GateNext
     \/ part = "cancel" /\ ServerCancel!GateNext
  /\ UNCHANGED <<part, jwksState, apiState, formatState, claimsState,
       introspectionState, definitionsState, linkPagesState, deviceState,
       webState, nativeState, silentState>>
IntrospectionMoves ==
  /\ \/ part = "introspection" /\ Server!IntrospectionNext
     \/ part = "live" /\ ServerLive!IntrospectionNext
  /\ UNCHANGED <<part, jwksState, apiState, formatState, claimsState,
       gateState, definitionsState, linkPagesState, deviceState, webState,
       nativeState, silentState>>
DefinitionsMoves ==
  /\ part = "definitions" /\ Server!DefinitionsNext
  /\ UNCHANGED <<part, jwksState, apiState, formatState, claimsState,
       gateState, introspectionState, linkPagesState, deviceState, webState,
       nativeState, silentState>>
LinkPagesMoves ==
  /\ part = "links" /\ Server!LinkPagesNext
  /\ UNCHANGED <<part, jwksState, apiState, formatState, claimsState,
       gateState, introspectionState, definitionsState, deviceState, webState,
       nativeState, silentState>>
DeviceMoves ==
  /\ \/ part = "device" /\ Sessions!DeviceNext
     \/ part = "profiles" /\ SessionsProfiles!DeviceNext
  /\ UNCHANGED <<part, jwksState, apiState, formatState, claimsState,
       gateState, introspectionState, definitionsState, linkPagesState,
       webState, nativeState, silentState>>
WebMoves ==
  /\ part = "web" /\ Sessions!WebNext
  /\ UNCHANGED <<part, jwksState, apiState, formatState, claimsState,
       gateState, introspectionState, definitionsState, linkPagesState,
       deviceState, nativeState, silentState>>
NativeMoves ==
  /\ part = "native" /\ Sessions!NativeNext
  /\ UNCHANGED <<part, jwksState, apiState, formatState, claimsState,
       gateState, introspectionState, definitionsState, linkPagesState,
       deviceState, webState, silentState>>
SilentMoves ==
  /\ part = "silent" /\ Sessions!SilentNext
  /\ UNCHANGED <<part, jwksState, apiState, formatState, claimsState,
       gateState, introspectionState, definitionsState, linkPagesState,
       deviceState, webState, nativeState>>

Next ==
  \/ JwksMoves \/ ApiMoves \/ FormatMoves \/ ClaimsMoves \/ GateMoves
  \/ IntrospectionMoves \/ DefinitionsMoves \/ LinkPagesMoves
  \/ DeviceMoves \/ WebMoves \/ NativeMoves \/ SilentMoves

Spec == Init /\ [][Next]_vars

-----------------------------------------------------------------------------
Symmetry == Permutations(JwksRequests) \cup Permutations(Kids) \cup Permutations(Tabs)

(* Verifications that overlap with key rotations, revocations, uses and    *)
(* failing lookups admit a token only while it is live: fetches are bounded,*)
(* a retired key and a revoked token end, a token is what its issuer signed,*)
(* and a cached introspection outlives its grant by no more than its bound *)
(* (baukit-auth, baukit-mcp introspection).                                *)
OnlyLiveTokensHolds ==
  /\ part = "jwks" =>
       /\ Token!JwksTypeOK /\ Token!UnknownBounded
  /\ part = "api" =>
       /\ Token!ApiTypeOK /\ Token!ActiveLimit
       /\ Token!LastUsedIsLatest
  /\ part = "format" =>
       /\ Token!Unbiased /\ Token!IssuedWellFormed
       /\ Token!OwnTokenOnly /\ Token!ClaimedStaysLocal
       /\ Token!PreparedIsStorable
  /\ part = "claims" =>
       /\ Token!IssuerSigned /\ Token!KindsSeparated
       /\ Token!IdTokenOfTheLogin /\ Token!Lifetime
  /\ part = "introspection" =>
       /\ Server!IntrospectionTypeOK
       /\ Server!RevocationBounded /\ Server!AdmitsOnlyLiveMatching
       /\ Server!CacheBounded
  /\ part = "live" =>
       /\ ServerLive!IntrospectionTypeOK
       /\ ServerLive!ChecksEachRequest /\ ServerLive!AdmitsOnlyLiveMatching

OnlyLiveTokensSteps ==
  /\ part = "jwks" =>
       /\ Token!RetiredKeyRefused
       /\ Token!NewKeyFetched
  /\ part = "api" => Token!DeadTokenRefused
  /\ part = "format" => Token!DetailsKept

OnlyLiveTokens == []OnlyLiveTokensHolds /\ [][OnlyLiveTokensSteps]_vars

(* An MCP request reaches a handler only with the scopes it needs, whatever*)
(* was listed or cancelled around it; the registry of running requests is  *)
(* exact, definitions never overlap, and pages of links walk the owner's   *)
(* links once (baukit-mcp).                                                *)
OnlyGrantedRunsHolds ==
  /\ part = "gate" =>
       /\ Server!GateTypeOK /\ Server!RunsOnlyGranted
       /\ Server!ChallengedAtTheGate /\ Server!ListedIsUsable
       /\ Server!RevokedNeverHandled
  /\ part = "cancel" => ServerCancel!RegistryIsExact
  /\ part = "definitions" =>
       /\ Server!DefinitionsTypeOK
       /\ Server!MatchIsExpansion /\ Server!ServedNeedsGrant
       /\ Server!OneDefinitionEach
  /\ part = "links" =>
       /\ Server!LinkPagesTypeOK
       /\ Server!EachLinkOnce /\ Server!OwnerOnly

OnlyGrantedRunsSteps ==
  /\ part = "cancel" => ServerCancel!CancelledByOwnKey

OnlyGrantedRuns == []OnlyGrantedRunsHolds /\ [][OnlyGrantedRunsSteps]_vars

(* However calls refresh, log out and restart around each other, nothing a  *)
(* process, or a browser's tab, sent before it ended a session brings it    *)
(* back, in an app no refresh does, a refresh token is reused only after its*)
(* answer was lost, and one window opens (the TypeScript auth packages).    *)
SessionsStayEndedHolds ==
  /\ part = "device" =>
       /\ Sessions!DeviceTypeOK
       /\ Sessions!ReuseOnlyAfterLoss /\ Sessions!LogoutStays
       /\ Sessions!RefreshReplacesWhatItSent
  /\ part = "profiles" => SessionsProfiles!LogoutStays
  /\ part = "web" =>
       /\ Sessions!WebTypeOK /\ Sessions!WebEndedStays
       /\ Sessions!WebMarkerStays /\ Sessions!CodeOnce
  /\ part = "native" =>
       /\ Sessions!NativeTypeOK
       /\ Sessions!NativeEndedStays /\ Sessions!NativeMarkerStays
  /\ part = "silent" =>
       /\ Sessions!SilentTypeOK
       /\ Sessions!GivenIsGood

SessionsStayEndedSteps ==
  /\ part = "profiles" => SessionsProfiles!OtherProfilesKept
  /\ part = "web" => Sessions!WebNoLateExpiry
  /\ part = "native" =>
       /\ Sessions!SubjectKept
       /\ Sessions!NativeNoLateExpiry
  /\ part = "silent" =>
       /\ Sessions!NoSilentStorm
       /\ Sessions!OneWindow /\ Sessions!EarlierFailureKept

SessionsStayEnded == []SessionsStayEndedHolds /\ [][SessionsStayEndedSteps]_vars
==============================================================================
