------------------------------- MODULE MCHttp --------------------------------
(***************************************************************************)
(* Small instances of the machines around an HTTP request and the calls it *)
(* makes. A behaviour is of one machine, named by part; the variables of   *)
(* the others stay 0.                                                      *)
(***************************************************************************)
EXTENDS TLC, Integers

CONSTANTS
  Machines,  \* the machines a run starts
  Slots, Endpoints, Inputs, Built, DefaultBody, CondClients, Base, Max,
  Required, MaxHeader, None, KeyedClients, KeyedKeys, Length, Graphic,
  MinBytes, MaxBytes, LongestKey, KeyRequired, MaxCrashes, MaxLost, W,
  NON_PUBLIC, ALLOWLISTABLE_NETWORKS, CLOUD_METADATA, LOOPBACK, GlobalV6,
  GuardAddresses, Policies, Urls, Kind, MaxBody, BodyMaxLimit, RequestTimeout,
  DefaultLimit, Cap, FirstField, Forbidden, Backoff, MaxAttempts,
  UpstreamMaxTime, UpstreamMaxWindow, MaxBlocks, Healthy, Degraded,
  NeedsReconnect, Failed, UpstreamRetryAfter, UpstreamRateLimited,
  Unavailable, UpstreamTimeout, Revoked, Permanent, TransportFailed,
  TransportTimeout, Subjects, RateAddresses, RateCallers, RequestsPerPeriod,
  Period, Burst, MaxEntries, FailOpen, BudgetCallers, BudgetLimit,
  BudgetMaxWindow, FailModes, MaxSlipped, HttpLinks, Unknown, Peers, Strangers, UnknownLimit,
  LinkLimit, FailureLimit, Window, Sessions, Plays, Owners, LocksLinks, Jobs,
  OwnerOf, LinkOf, Existing, Queued, PagesIds, Values, Filters, Limits,
  PagesMaxLimit, Versions, MaxWrites, MaxPages, InvalidLimit, InvalidCursor,
  Edges, Paths, BadPath, MediaIds, Secrets, Lifetime, Skew, MaxExpires,
  MediaMaxTime, MaxGrants, MaxRotations, MediaGranted, InvalidMethod,
  InvalidPath, InvalidQuery, MediaExpired, ExpiryTooFar, UnknownKey,
  InvalidSignature, Chars, MaxChars, MaxCells, MaxRecords, empty, short,
  atMin, atMax, long, spaced, c1, a1, a2

VARIABLES
  part,  \* the machine this behaviour is of
  pipelineOptions, phase, input, id, pipelineAnswer, permits, gauge, counted,
  revision, content, seen, headers, condAnswer, edits,
  chosen, stage, records, effects, crashes, lost,
  policy, pool, guardRequest,
  bodyOptions, bodyRequest, server, sent, bodyGot, open, clock, outcome,
  upstreamNow, until, upstreamGranted, broken, blocks, status, upstreamTold,
  entries, caller, wait,
  window, counter, call, held, budgetGranted, slipped,
  revoked, spent, httpNow, answer, asked, httpTold,
  people, links, used, requests, codes, locksInbound, job, tx, holds,
  rows, build, cursor, list, pagesGot, steady, reply, writes, pages,
  mediaNow, lag, signer, ring, target, grants, left,
  csvOptions, given, output, failed

pipelineState == <<pipelineOptions, phase, input, id, pipelineAnswer, permits,
    gauge, counted>>
condState == <<revision, content, seen, headers, condAnswer, edits>>
keyedState == <<chosen, stage, records, effects, crashes, lost>>
guardState == <<policy, pool, guardRequest>>
bodyState == <<bodyOptions, bodyRequest, server, sent, bodyGot, open, clock,
    outcome>>
upstreamState == <<upstreamNow, until, upstreamGranted, broken, blocks,
    status, upstreamTold>>
rateState == <<entries, caller, wait>>
budgetState == <<window, counter, call, held, budgetGranted, slipped>>
httpState == <<revoked, spent, httpNow, answer, asked, httpTold>>
locksState == <<people, links, used, requests, codes, locksInbound, job, tx,
    holds>>
pagesState == <<rows, build, cursor, list, pagesGot, steady, reply, writes,
    pages>>
mediaState == <<mediaNow, lag, signer, ring, target, grants, left>>
csvState == <<csvOptions, given, output, failed>>
vars == <<part, pipelineState, condState, keyedState, guardState, bodyState,
    upstreamState, rateState, budgetState, httpState, locksState, pagesState,
    mediaState, csvState>>

Pipe == INSTANCE HttpServer WITH options <- pipelineOptions, Keys <- KeyedKeys
Out == INSTANCE Outbound WITH options <- bodyOptions, got <- bodyGot,
  now <- upstreamNow, granted <- upstreamGranted, told <- upstreamTold,
  Addresses <- GuardAddresses, MaxLimit <- BodyMaxLimit,
  MaxTime <- UpstreamMaxTime, MaxWindow <- UpstreamMaxWindow,
  RetryAfter <- UpstreamRetryAfter, RateLimited <- UpstreamRateLimited,
  Timeout <- UpstreamTimeout
OutCapped == INSTANCE Outbound WITH options <- bodyOptions, got <- bodyGot,
  now <- upstreamNow, granted <- upstreamGranted, told <- upstreamTold,
  Addresses <- GuardAddresses, MaxLimit <- BodyMaxLimit,
  MaxTime <- UpstreamMaxTime, MaxWindow <- UpstreamMaxWindow,
  RetryAfter <- UpstreamRetryAfter, RateLimited <- UpstreamRateLimited,
  Timeout <- UpstreamTimeout, Cap <- 2, FirstField <- FALSE,
  Forbidden <- FALSE
PipeHeader == INSTANCE HttpServer WITH options <- pipelineOptions,
  Keys <- KeyedKeys, CondClients <- {c1}, MaxHeader <- 4
Limiter == INSTANCE RateLimit WITH granted <- budgetGranted,
  Addresses <- RateAddresses, Limit <- BudgetLimit,
  MaxWindow <- BudgetMaxWindow
LimiterFull == INSTANCE RateLimit WITH granted <- budgetGranted,
  Limit <- BudgetLimit, MaxWindow <- BudgetMaxWindow, Addresses <- {a1,a2},
  Period <- 2, FailOpen <- TRUE
Serve == INSTANCE SuiteServer WITH now <- httpNow, told <- httpTold
Lists == INSTANCE CoreLists WITH got <- pagesGot, now <- mediaNow,
  options <- csvOptions, MaxLimit <- PagesMaxLimit, MaxTime <- MediaMaxTime,
  Granted <- MediaGranted, Expired <- MediaExpired

ASSUME HttpAssumption ==
  /\ Pipe!KeyedAssumption
  /\ Out!UpstreamAssumption
  /\ OutCapped!UpstreamAssumption
  /\ Limiter!RateLimitAssumption
  /\ LimiterFull!RateLimitAssumption
  /\ Limiter!AmountBudgetAssumption
  /\ Serve!ServeAssumption
  /\ Lists!FiltersAssumption
  /\ Lists!CharsAssumption

(* Two requests at a time, a limit of one, and options of every construction.  *)
Own == [large |-> "body_too_big", content |-> "wrong_type", syntax |-> "not_json", shape |-> "wrong_shape"]
Preset == [large |-> "payload_too_large", content |-> "unsupported_media_type",
           syntax |-> "invalid_json", shape |-> "validation_failed"]
ASSUME PresetCodes == Preset = Pipe!JsonRejectionCodes
HttpOptions(t, b, c, o, kept, table) ==
  [timeout |-> t, body |-> b, concurrency |-> c, origins |-> o, cache |-> kept, codes |-> table]
Serving ==
  {HttpOptions(1, 1, 1, {"app"}, "private", Own), HttpOptions(1, 2, 1, {"app"}, "handler", Preset),
   HttpOptions(1, 1, 0, {"app"}, "private", Own), HttpOptions(1, 1, 1, {"*"}, "private", Own),
   HttpOptions(1, 1, 1, {"app"}, "private", [Own EXCEPT !.syntax = "Not Snake"])}
In1(e, o, i, size, declared, bad, pre) ==
  [endpoint |-> e, origin |-> o, id |-> i, size |-> size, declared |-> declared, bad |-> bad, preflight |-> pre]
MCInputs ==
  {In1("write", o, "given", 0, TRUE, "none", FALSE) : o \in {"app", "other"}}
  \cup {In1("write", "app", "none", 1, TRUE, bad, FALSE) : bad \in {"none", "syntax", "content", "shape"}}
  \cup {In1("write", "app", "not ascii", 3, d, "none", FALSE) : d \in BOOLEAN}
  \cup {In1("read", "none", "none", 0, TRUE, "page", FALSE), In1("read", "app", "none", 0, TRUE, "none", TRUE),
        In1("unmatched", "app", "given", 0, TRUE, "none", FALSE),
        In1("wrong method", "app", "none", 0, TRUE, "none", FALSE)}

(* Four-bit addresses: 0 and 1 are reserved, 4 to 7 may be listed, with cloud  *)
(* metadata inside at 7, 8 and 9 are loopback, 10 and 11 link-local with cloud *)
(* metadata at 10; the others are public. Two lookups with up to two answers;  *)
(* every network there is, valid or not, and every policy.                     *)
Address(form, bits) == [form |-> form, bits |-> bits]
MCAddresses == {Address("v4", b) : b \in {0, 4, 6, 7, 8, 10, 12}} \cup {Address("mapped", b) : b \in {6, 8}}
               \cup {Address("nat64", b) : b \in {6, 12}} \cup {Address("v6", 1), Address("v6", 2)}
MCKind == [b \in 0..15 |-> CASE b \in {7, 10} -> "metadata" [] b \in {4, 5, 6} -> "private" [] b \in {8, 9} -> "loopback"
                             [] b \in {0, 1, 11} -> "reserved" [] OTHER -> "public"]
NonPublic == {<<0, 3>>, <<4, 2>>, <<8, 3>>, <<10, 3>>}
MCAllowlistable == {<<4, 2>>}
Host(n) == [name |-> n, address |-> Address("v4", 0)]
At(a) == [name |-> "none", address |-> a]
Policy(kind, networks, plain) ==
  [kind |-> kind, networks |-> networks, http |-> plain, host |-> Host("a"), port |-> 1]
MCPolicies == {Policy(k, {}, FALSE) : k \in {"PublicOnly", "PublicHttp", "AllowLoopback"}}
              \cup {Policy("AllowPrivate", {<<n, p>>}, FALSE) : n \in {0, 4, 7}, p \in {2, 4}}
              \cup {Policy("OnlyEndpoint", {}, plain) : plain \in BOOLEAN}
Url(scheme, host, port) == [scheme |-> scheme, host |-> host, port |-> port, credentials |-> FALSE, fragment |-> FALSE]
MCUrls == {Url(s, Host("a"), p) : s \in {"http", "https"}, p \in {1, 2}}
          \cup {Url(s, Host("b"), 1) : s \in {"http", "https"}}
          \cup {Url(s, At(a), 1) : s \in {"http", "https"}, a \in MCAddresses}
          \cup {[Url("https", Host("a"), 1) EXCEPT !.credentials = TRUE],
                [Url("https", Host("a"), 1) EXCEPT !.fragment = TRUE], Url("ftp", Host("a"), 1)}

(* Keys at both ends of the rule, one byte outside them, and with a space.     *)
AllKeys == {empty, short, atMin, atMax, long, spaced}
KeyLength == (empty :> 0) @@ (short :> 1) @@ (atMin :> 2) @@ (atMax :> 4) @@ (long :> 5) @@ (spaced :> 3)
GraphicKeys == AllKeys \ {empty, spaced}

(* Two owners, one with two links; every kind of transaction against every     *)
(* other, and a third session that writes to both owners or cleans up.          *)
Every == {"start", "authorize", "exchange", "complete", "update", "refresh", "revoke", "deliver", "replay", "test",
          "ingest", "write", "writeUnfenced", "erase", "cleanup", "fail"}
MCPlays == <<Every, {"exchange", "deliver", "replay", "ingest", "writeUnfenced", "erase"}, {"writeAll", "cleanup"}>>
MCOwnerOf == <<1, 1, 2>>
MCLinkOf == <<2, 2, 3>>

MCIds == 1..3
MCValues == 1..2
MCFilters == {{1}, {1, 2}}
MCLimits == {0, 1, 2, 4}
MCVersions == {1, 2}
MCChars == {"c", "\"", ",", "=", "r"}

PipelineOff ==
  /\ pipelineOptions = 0 /\ phase = 0 /\ input = 0 /\ id = 0
  /\ pipelineAnswer = 0 /\ permits = 0 /\ gauge = 0 /\ counted = 0
CondOff ==
  /\ revision = 0 /\ content = 0 /\ seen = 0 /\ headers = 0
  /\ condAnswer = 0 /\ edits = 0
KeyedOff ==
  /\ chosen = 0 /\ stage = 0 /\ records = 0 /\ effects = 0 /\ crashes = 0
  /\ lost = 0
GuardOff ==
  /\ policy = 0 /\ pool = 0 /\ guardRequest = 0
BodyOff ==
  /\ bodyOptions = 0 /\ bodyRequest = 0 /\ server = 0 /\ sent = 0
  /\ bodyGot = 0 /\ open = 0 /\ clock = 0 /\ outcome = 0
UpstreamOff ==
  /\ upstreamNow = 0 /\ until = 0 /\ upstreamGranted = 0 /\ broken = 0
  /\ blocks = 0 /\ status = 0 /\ upstreamTold = 0
RateOff ==
  /\ entries = 0 /\ caller = 0 /\ wait = 0
BudgetOff ==
  /\ window = 0 /\ counter = 0 /\ call = 0 /\ held = 0
  /\ budgetGranted = 0 /\ slipped = 0
HttpOff ==
  /\ revoked = 0 /\ spent = 0 /\ httpNow = 0 /\ answer = 0 /\ asked = 0
  /\ httpTold = 0
LocksOff ==
  /\ people = 0 /\ links = 0 /\ used = 0 /\ requests = 0 /\ codes = 0
  /\ locksInbound = 0 /\ job = 0 /\ tx = 0 /\ holds = 0
PagesOff ==
  /\ rows = 0 /\ build = 0 /\ cursor = 0 /\ list = 0 /\ pagesGot = 0
  /\ steady = 0 /\ reply = 0 /\ writes = 0 /\ pages = 0
MediaOff ==
  /\ mediaNow = 0 /\ lag = 0 /\ signer = 0 /\ ring = 0 /\ target = 0
  /\ grants = 0 /\ left = 0
CsvOff ==
  /\ csvOptions = 0 /\ given = 0 /\ output = 0 /\ failed = 0

PipelineStarts ==
  /\ part = "pipeline" /\ Pipe!PipelineInit
  /\ CondOff /\ KeyedOff /\ GuardOff /\ BodyOff /\ UpstreamOff /\
     RateOff /\ BudgetOff /\ HttpOff /\ LocksOff /\ PagesOff /\
     MediaOff /\ CsvOff
CondStarts ==
  /\ \/ part = "conditional" /\ Pipe!CondInit
     \/ part = "header" /\ PipeHeader!CondInit
  /\ PipelineOff /\ KeyedOff /\ GuardOff /\ BodyOff /\ UpstreamOff /\
     RateOff /\ BudgetOff /\ HttpOff /\ LocksOff /\ PagesOff /\
     MediaOff /\ CsvOff
KeyedStarts ==
  /\ part = "keyed" /\ Pipe!KeyedInit
  /\ PipelineOff /\ CondOff /\ GuardOff /\ BodyOff /\ UpstreamOff /\
     RateOff /\ BudgetOff /\ HttpOff /\ LocksOff /\ PagesOff /\
     MediaOff /\ CsvOff
GuardStarts ==
  /\ part = "guard" /\ Out!GuardInit
  /\ PipelineOff /\ CondOff /\ KeyedOff /\ BodyOff /\ UpstreamOff /\
     RateOff /\ BudgetOff /\ HttpOff /\ LocksOff /\ PagesOff /\
     MediaOff /\ CsvOff
BodyStarts ==
  /\ part = "body" /\ Out!BodyInit
  /\ PipelineOff /\ CondOff /\ KeyedOff /\ GuardOff /\ UpstreamOff /\
     RateOff /\ BudgetOff /\ HttpOff /\ LocksOff /\ PagesOff /\
     MediaOff /\ CsvOff
UpstreamStarts ==
  /\ \/ part = "upstream" /\ Out!UpstreamInit
     \/ part = "capped" /\ OutCapped!UpstreamInit
  /\ PipelineOff /\ CondOff /\ KeyedOff /\ GuardOff /\ BodyOff /\
     RateOff /\ BudgetOff /\ HttpOff /\ LocksOff /\ PagesOff /\
     MediaOff /\ CsvOff
RateStarts ==
  /\ \/ part = "rate" /\ Limiter!RateInit
     \/ part = "full" /\ LimiterFull!RateInit
  /\ PipelineOff /\ CondOff /\ KeyedOff /\ GuardOff /\ BodyOff /\
     UpstreamOff /\ BudgetOff /\ HttpOff /\ LocksOff /\ PagesOff /\
     MediaOff /\ CsvOff
BudgetStarts ==
  /\ part = "budget" /\ Limiter!BudgetInit
  /\ PipelineOff /\ CondOff /\ KeyedOff /\ GuardOff /\ BodyOff /\
     UpstreamOff /\ RateOff /\ HttpOff /\ LocksOff /\ PagesOff /\
     MediaOff /\ CsvOff
HttpStarts ==
  /\ part = "serving" /\ Serve!HttpInit
  /\ PipelineOff /\ CondOff /\ KeyedOff /\ GuardOff /\ BodyOff /\
     UpstreamOff /\ RateOff /\ BudgetOff /\ LocksOff /\ PagesOff /\
     MediaOff /\ CsvOff
LocksStarts ==
  /\ part = "locks" /\ Serve!LocksInit
  /\ PipelineOff /\ CondOff /\ KeyedOff /\ GuardOff /\ BodyOff /\
     UpstreamOff /\ RateOff /\ BudgetOff /\ HttpOff /\ PagesOff /\
     MediaOff /\ CsvOff
PagesStarts ==
  /\ part = "pages" /\ Lists!PagesInit
  /\ PipelineOff /\ CondOff /\ KeyedOff /\ GuardOff /\ BodyOff /\
     UpstreamOff /\ RateOff /\ BudgetOff /\ HttpOff /\ LocksOff /\
     MediaOff /\ CsvOff
MediaStarts ==
  /\ part = "media" /\ Lists!MediaInit
  /\ PipelineOff /\ CondOff /\ KeyedOff /\ GuardOff /\ BodyOff /\
     UpstreamOff /\ RateOff /\ BudgetOff /\ HttpOff /\ LocksOff /\
     PagesOff /\ CsvOff
CsvStarts ==
  /\ part = "csv" /\ Lists!CsvInit
  /\ PipelineOff /\ CondOff /\ KeyedOff /\ GuardOff /\ BodyOff /\
     UpstreamOff /\ RateOff /\ BudgetOff /\ HttpOff /\ LocksOff /\
     PagesOff /\ MediaOff

Init ==
  /\ part \in Machines
  /\ \/ PipelineStarts \/ CondStarts \/ KeyedStarts \/ GuardStarts
     \/ BodyStarts \/ UpstreamStarts \/ RateStarts \/ BudgetStarts
     \/ HttpStarts \/ LocksStarts \/ PagesStarts \/ MediaStarts
     \/ CsvStarts

PipelineMoves ==
  /\ part = "pipeline" /\ Pipe!PipelineNext
  /\ UNCHANGED <<part, condState, keyedState, guardState, bodyState,
       upstreamState, rateState, budgetState, httpState, locksState,
       pagesState, mediaState, csvState>>
CondMoves ==
  /\ \/ part = "conditional" /\ Pipe!CondNext
     \/ part = "header" /\ PipeHeader!CondNext
  /\ UNCHANGED <<part, pipelineState, keyedState, guardState, bodyState,
       upstreamState, rateState, budgetState, httpState, locksState,
       pagesState, mediaState, csvState>>
KeyedMoves ==
  /\ part = "keyed" /\ Pipe!KeyedNext
  /\ UNCHANGED <<part, pipelineState, condState, guardState, bodyState,
       upstreamState, rateState, budgetState, httpState, locksState,
       pagesState, mediaState, csvState>>
GuardMoves ==
  /\ part = "guard" /\ Out!GuardNext
  /\ UNCHANGED <<part, pipelineState, condState, keyedState, bodyState,
       upstreamState, rateState, budgetState, httpState, locksState,
       pagesState, mediaState, csvState>>
BodyMoves ==
  /\ part = "body" /\ Out!BodyNext
  /\ UNCHANGED <<part, pipelineState, condState, keyedState, guardState,
       upstreamState, rateState, budgetState, httpState, locksState,
       pagesState, mediaState, csvState>>
UpstreamMoves ==
  /\ \/ part = "upstream" /\ Out!UpstreamNext
     \/ part = "capped" /\ OutCapped!UpstreamNext
  /\ UNCHANGED <<part, pipelineState, condState, keyedState, guardState,
       bodyState, rateState, budgetState, httpState, locksState, pagesState,
       mediaState, csvState>>
RateMoves ==
  /\ \/ part = "rate" /\ Limiter!RateNext
     \/ part = "full" /\ LimiterFull!RateNext
  /\ UNCHANGED <<part, pipelineState, condState, keyedState, guardState,
       bodyState, upstreamState, budgetState, httpState, locksState,
       pagesState, mediaState, csvState>>
BudgetMoves ==
  /\ part = "budget" /\ Limiter!BudgetNext
  /\ UNCHANGED <<part, pipelineState, condState, keyedState, guardState,
       bodyState, upstreamState, rateState, httpState, locksState, pagesState,
       mediaState, csvState>>
HttpMoves ==
  /\ part = "serving" /\ Serve!HttpNext
  /\ UNCHANGED <<part, pipelineState, condState, keyedState, guardState,
       bodyState, upstreamState, rateState, budgetState, locksState,
       pagesState, mediaState, csvState>>
LocksMoves ==
  /\ part = "locks" /\ Serve!LocksNext
  /\ UNCHANGED <<part, pipelineState, condState, keyedState, guardState,
       bodyState, upstreamState, rateState, budgetState, httpState,
       pagesState, mediaState, csvState>>
PagesMoves ==
  /\ part = "pages" /\ Lists!PagesNext
  /\ UNCHANGED <<part, pipelineState, condState, keyedState, guardState,
       bodyState, upstreamState, rateState, budgetState, httpState,
       locksState, mediaState, csvState>>
MediaMoves ==
  /\ part = "media" /\ Lists!MediaNext
  /\ UNCHANGED <<part, pipelineState, condState, keyedState, guardState,
       bodyState, upstreamState, rateState, budgetState, httpState,
       locksState, pagesState, csvState>>
CsvMoves ==
  /\ part = "csv" /\ Lists!CsvNext
  /\ UNCHANGED <<part, pipelineState, condState, keyedState, guardState,
       bodyState, upstreamState, rateState, budgetState, httpState,
       locksState, pagesState, mediaState>>

Next ==
  \/ PipelineMoves \/ CondMoves \/ KeyedMoves \/ GuardMoves \/ BodyMoves
  \/ UpstreamMoves \/ RateMoves \/ BudgetMoves \/ HttpMoves \/ LocksMoves
  \/ PagesMoves \/ MediaMoves \/ CsvMoves

Spec == Init /\ [][Next]_vars

Symmetry == Permutations(RateCallers) \cup Permutations(MediaIds)

-----------------------------------------------------------------------------
(* Requests under timeouts, body limits and concurrency limits are answered*)
(* whole and leak nothing; an outgoing call connects only to an address its*)
(* policy permits, at every lookup and redirect, and reads a body whole or *)
(* not at all; transactions never wait in a circle, an emission waits for  *)
(* no owner and an erasure leaves nothing (baukit-http pipeline,           *)
(* baukit-egress, baukit-suite postgres).                                  *)
RequestsAnsweredWholeHolds ==
  /\ part = "pipeline" =>
       /\ Pipe!PipelineTypeOK /\ Pipe!NothingLeaks
       /\ Pipe!AnswersAreWhole /\ Pipe!BrowsersRead /\ Pipe!LargeBodyCode
  /\ part = "guard" =>
       /\ Out!PolicyHolds /\ Out!NoTaintedLookup
       /\ Out!OneEndpoint /\ Out!GrantedIsReached /\ Out!RefusalIsPermanent
  /\ part = "body" =>
       /\ Out!WithinLimit /\ Out!WholeOrError
       /\ Out!FittingIsRead /\ Out!StatusSurvives /\ Out!UnmarkedIsWhole
  /\ part = "locks" =>
       /\ Serve!LocksTypeOK /\ Serve!NoDeadlock
       /\ Serve!ErasedLeavesNothing /\ Serve!EmissionWaitsForNoOwner
       /\ Serve!FencedWritesEmit

RequestsAnsweredWholeSteps ==
  /\ part = "body" => Out!NothingAfterAnError

RequestsAnsweredWhole == []RequestsAnsweredWholeHolds /\ [][RequestsAnsweredWholeSteps]_vars

(* Requests interleaved with the clock are answered as documented, leave   *)
(* every known link its budget, bound guesses and keys and hint a wait that*)
(* suffices (baukit-suite adapters).                                       *)
ServedUnderLoad ==
  /\ part = "serving" =>
       /\ Serve!Documented
       /\ Serve!LinksKeepTheirBudget /\ Serve!ValidCodesPass
       /\ Serve!GuessesAreBounded /\ Serve!KeysAreBounded
       /\ Serve!WaitIsEnough

(* A mutation retried under its key takes effect once, a cleanup spares a  *)
(* link that is used meanwhile, and an upstream is retried no sooner than  *)
(* it told (baukit-http idempotency and retry, baukit-integrations,        *)
(* baukit-suite postgres).                                                 *)
WritesOnceHolds ==
  /\ part = "keyed" =>
       /\ Pipe!OncePerMutation
       /\ Pipe!ReusedMeansNoEffect
  /\ part = "upstream" =>
       /\ Out!UpstreamTypeOK /\ Out!StatusCoherent
  /\ part = "capped" =>
       /\ OutCapped!UpstreamTypeOK
       /\ OutCapped!StatusCoherent

WritesOnceSteps ==
  /\ part = "upstream" =>
       /\ Out!NotBeforeTold
       /\ Out!ReconnectMeansRevoked
  /\ part = "capped" =>
       /\ OutCapped!NotBeforeTold
       /\ OutCapped!ReconnectMeansRevoked
  /\ part = "locks" => Serve!CleanupSparesUsed

WritesOnce == []WritesOnceHolds /\ [][WritesOnceSteps]_vars

(* Concurrent callers draw from their buckets as from ideal token buckets  *)
(* that are forgotten only for want of room, a wait that is hinted suffices,*)
(* and a budget grants no more than its window allows and what slipped past *)
(* its counter (baukit-ratelimit).                                         *)
LimitsHoldHolds ==
  /\ part = "rate" =>
       /\ Limiter!RateTypeOK
       /\ Limiter!RetryAfterSuffices
  /\ part = "full" => LimiterFull!RetryAfterSuffices
  /\ part = "budget" =>
       /\ Limiter!BudgetTypeOK
       /\ Limiter!WindowLimit /\ Limiter!CounterCoversGranted

LimitsHoldSteps ==
  /\ part = "rate" => Limiter!ImplementsTokenBucket
  /\ part = "full" => LimiterFull!ImplementsTokenBucket

LimitsHold == []LimitsHoldHolds /\ [][LimitsHoldSteps]_vars

(* Pages walked while rows change list everything once and in order, only  *)
(* grants that were issued are accepted while keys rotate, what is exported*)
(* reads back and is no formula, and the tag of a revision reads back as   *)
(* that revision, so that clients that write the same resource lose no     *)
(* update (baukit-core, baukit-suite media, baukit-http preconditions).    *)
ListsReadBackHolds ==
  /\ part = "conditional" =>
       /\ Pipe!CondTypeOK
       /\ Pipe!RefusedForAReason
  /\ part = "pages" =>
       /\ Lists!PagesTypeOK /\ Lists!InOrderOnce
       /\ Lists!EndIsComplete /\ Lists!OneFilterPerList
  /\ part = "media" =>
       /\ Lists!MediaTypeOK
       /\ Lists!IssuedGrantAccepted /\ Lists!OnlyIssuedAccepted
  /\ part = "csv" =>
       /\ Lists!CsvTypeOK /\ Lists!ReadsBack
       /\ Lists!NoFormula /\ Lists!MarkerIsEmpty

ListsReadBackSteps ==
  /\ part = "pages" => Lists!NextMeansMore
  /\ part = "conditional" => Pipe!NoLostUpdate
  /\ part = "header" => PipeHeader!OnlyOwnTag

ListsReadBack == []ListsReadBackHolds /\ [][ListsReadBackSteps]_vars
==============================================================================
