------------------------------ MODULE Outbound -------------------------------
(***************************************************************************)
(* Calls a product makes: which address baukit-egress lets it reach        *)
(* (Guard...), how much of a body it reads (Body...), and how baukit-      *)
(* integrations records a failing upstream (Upstream...).                  *)
(***************************************************************************)
EXTENDS Integers, FiniteSets

-----------------------------------------------------------------------------
(* baukit-egress: which destinations a GuardedClient connects to. Addresses are  *)
(* W bits wide; IPv6 forms carry an IPv4 address or are of their own.            *)

CONSTANTS W,                                     \* bits of an address
          NON_PUBLIC, ALLOWLISTABLE_NETWORKS,    \* {<<network, prefix>>}
          CLOUD_METADATA, LOOPBACK,              \* addresses
          GlobalV6,                              \* global unicast IPv6 addresses outside the reserved blocks
          Addresses, Policies, Urls                         \* what is configured, what is asked for

VARIABLES policy,
          pool,       \* connections there are, or were
          guardRequest     \* the one under way
guardVars == <<policy, pool, guardRequest>>

(* Addresses. [form |-> "v4", "mapped", "nat64" or "v6", bits |-> n]            *)
In(bits, network) == bits \div 2^(W - network[2]) = network[1] \div 2^(W - network[2])
to_canonical(a) == IF a.form = "mapped" THEN [a EXCEPT !.form = "v4"] ELSE a
is_public_ipv4(bits) == \A n \in NON_PUBLIC : ~In(bits, n)
is_public_address(a) ==
  IF a.form \in {"v4", "mapped", "nat64"} THEN is_public_ipv4(a.bits) ELSE a.bits \in GlobalV6
IsMetadata(a) == LET c == to_canonical(a) IN c.form = "v4" /\ c.bits \in CLOUD_METADATA
is_loopback(a) == LET c == to_canonical(a) IN c.form = "v4" /\ c.bits \in LOOPBACK
Listed(networks, a) == LET c == to_canonical(a) IN c.form = "v4" /\ \E n \in networks : In(c.bits, n)
\* A network that may be listed: no host bits, inside one range.
PrivateNetwork(network) ==
  /\ network[1] % 2^(W - network[2]) = 0
  /\ \E range \in ALLOWLISTABLE_NETWORKS : network[2] >= range[2] /\ In(network[1], range)
NetworksPermit(networks, a) == ~IsMetadata(a) /\ Listed(networks, a)
is_endpoint_address(a) ==
  ~IsMetadata(a) /\ (is_public_address(a) \/ is_loopback(a) \/ Listed(ALLOWLISTABLE_NETWORKS, a))

permits(a) ==
  /\ ~IsMetadata(a)
  /\ \/ is_public_address(a)
     \/ policy.kind = "AllowLoopback" /\ is_loopback(a)
     \/ policy.kind = "AllowPrivate" /\ NetworksPermit(policy.networks, a)
     \/ policy.kind = "OnlyEndpoint" /\ is_endpoint_address(a)
permits_all(answers) == answers # {} /\ \A a \in answers : permits(a)
allows_plain_http ==
  policy.kind \in {"PublicHttp", "AllowLoopback", "AllowPrivate"} \/ (policy.kind = "OnlyEndpoint" /\ policy.http)
permits_plain_http(a) ==
  CASE policy.kind = "PublicOnly" -> FALSE
    [] policy.kind = "PublicHttp" -> permits(a)
    [] policy.kind = "AllowLoopback" -> is_loopback(a)
    [] policy.kind = "AllowPrivate" -> NetworksPermit(policy.networks, a)
    [] policy.kind = "OnlyEndpoint" -> policy.http /\ is_endpoint_address(a)
EndpointMatches(url) ==
  policy.kind = "OnlyEndpoint" =>
    /\ url.scheme = (IF policy.http THEN "http" ELSE "https")
    /\ url.host = policy.host /\ url.port = policy.port
IsName(host) == host.name # "none"
Literal(host) == host.address
validate_destination(url) ==
  CASE ~EndpointMatches(url) -> "Destination"
    [] ~(url.scheme = "https" \/ (url.scheme = "http" /\ allows_plain_http)) -> "Destination"
    [] url.credentials \/ url.fragment -> "Destination"
    [] ~IsName(url.host) /\ ~permits(Literal(url.host)) -> "BlockedAddress"
    [] ~IsName(url.host) /\ url.scheme = "http" /\ ~permits_plain_http(Literal(url.host)) -> "Destination"
    [] OTHER -> "ok"
\* What a lookup that answered tells the connector.
resolve_destination(url, answers) ==
  CASE answers = {} -> "Resolve"
    [] ~permits_all(answers) -> "BlockedAddress"
    [] url.scheme = "http" /\ \E a \in answers : ~permits_plain_http(to_canonical(a)) -> "Destination"
    [] OTHER -> "ok"

Idle == [phase |-> "none"]
Asked(phase, url, error, answers) == guardRequest' = [phase |-> phase, url |-> url, error |-> error, answers |-> answers]
guard_execute(url) ==
  /\ guardRequest.phase \in {"none", "failed", "sent"}
  /\ IF validate_destination(url) # "ok" THEN Asked("failed", url, validate_destination(url), {}) /\ pool' = {}
     ELSE Asked("open", url, "none", {}) /\ UNCHANGED pool
  /\ UNCHANGED policy
Transport(url) == url.scheme
SamePool(c, url) == c.transport = Transport(url) /\ c.host = url.host /\ c.port = url.port
\* (Bound: earlier connections are closed then, or when a request fails, as idle ones may be at any time.)
Send(c) == Asked("sent", guardRequest.url, "none", c.answers) /\ pool' = {c}
Connection(url, a, answers) ==
  [transport |-> Transport(url), host |-> url.host, port |-> url.port, address |-> a, answers |-> answers]
\* A connection of an earlier request to the same place is used again.
Reuse ==
  /\ guardRequest.phase = "open"
  /\ \E c \in pool : SamePool(c, guardRequest.url) /\ Send(c)
  /\ UNCHANGED policy
ConnectLiteral ==
  /\ guardRequest.phase = "open" /\ ~IsName(guardRequest.url.host)
  /\ LET a == Literal(guardRequest.url.host) IN Send(Connection(guardRequest.url, to_canonical(a), {a}))
  /\ UNCHANGED policy
\* The connector wraps the resolver's errors; a refusal or a timeout is found again in the chain.
send_error(error) == error
\* Each lookup has answers of its own: what a name resolves to changes at any time.
Lookup(answers) ==
  /\ guardRequest.phase = "open" /\ IsName(guardRequest.url.host)
  /\ LET verdict == resolve_destination(guardRequest.url, answers) IN
     IF verdict = "ok"
     THEN \E a \in answers : Send(Connection(guardRequest.url, to_canonical(a), answers))
     ELSE Asked("failed", guardRequest.url, send_error(verdict), answers) /\ pool' = {}
  /\ UNCHANGED policy
LookupFails ==
  /\ guardRequest.phase = "open" /\ IsName(guardRequest.url.host)
  /\ \E error \in {"Resolve", "Timeout"} : Asked("failed", guardRequest.url, send_error(error), {})
  /\ pool' = {} /\ UNCHANGED policy
retry_class(error) == IF error \in {"Destination", "BlockedAddress"} THEN "Permanent" ELSE "Retryable"

GuardInit ==
  /\ policy \in {p \in Policies : p.kind = "AllowPrivate" => \A n \in p.networks : PrivateNetwork(n)}
  /\ pool = {} /\ guardRequest = Idle
GuardNext ==
  \/ \E url \in Urls : guard_execute(url)
  \/ Reuse \/ ConnectLiteral \/ LookupFails
  \/ \E answers \in {S \in SUBSET Addresses : Cardinality(S) <= 2} : Lookup(answers)
GuardSpec == GuardInit /\ [][GuardNext]_guardVars

(* The policies as their documentation tells them, over what each address is.    *)
CONSTANT Kind      \* of each IPv4 address: "public", "private", "loopback", "reserved" or "metadata"
KindOf(a) == CASE a.form \in {"v4", "mapped"} -> Kind[a.bits]
               [] a.form = "nat64" -> IF Kind[a.bits] = "public" THEN "public" ELSE "reserved"
               [] a.form = "v6" -> IF a.bits \in GlobalV6 THEN "public" ELSE "reserved"
Granted(transport, a) ==
  LET kind == KindOf(a)
      listed == kind = "private" /\ policy.kind = "AllowPrivate" /\ a.form \in {"v4", "mapped"}
                /\ \E n \in policy.networks : a.bits \in n[1]..(n[1] + 2^(W - n[2]) - 1)
  IN CASE policy.kind = "PublicOnly" -> transport = "https" /\ kind = "public"
       [] policy.kind = "PublicHttp" -> kind = "public"
       [] policy.kind = "AllowLoopback" -> kind = "loopback" \/ (kind = "public" /\ transport = "https")
       [] policy.kind = "AllowPrivate" -> listed \/ (kind = "public" /\ transport = "https")
       [] policy.kind = "OnlyEndpoint" -> kind \in {"public", "private", "loopback"}
\* Every connection is to an address the policy grants its scheme.
PolicyHolds == \A c \in pool : Granted(c.transport, c.address)
\* One answer that is not granted keeps its whole lookup from being used, whichever was picked.
NoTaintedLookup == \A c \in pool : \A a \in c.answers : Granted(c.transport, a)
\* Under OnlyEndpoint no other scheme, name or port is ever connected to.
OneEndpoint ==
  policy.kind = "OnlyEndpoint" =>
    \A c \in pool : /\ c.host = policy.host /\ c.port = policy.port
                    /\ c.transport = (IF policy.http THEN "http" ELSE "https")
\* What the policy grants is reached: no lookup fails whose answers are all granted.
GrantedIsReached ==
  guardRequest.phase = "failed" /\ guardRequest.answers # {} =>
    \E a \in guardRequest.answers : ~Granted(guardRequest.url.scheme, a)
\* What was refused by policy is never tried again.
RefusalIsPermanent ==
  guardRequest.phase = "failed" /\ (\E a \in guardRequest.answers : ~Granted(guardRequest.url.scheme, a)) =>
    retry_class(guardRequest.error) = "Permanent"
-----------------------------------------------------------------------------
(* baukit-egress: the options a client is built with and what it makes of a      *)
(* response: the body's limits, the error's body and the deadline.               *)

CONSTANTS MaxBody,      \* bound: bytes of a body the server sends
          MaxLimit,     \* bound: of a configured limit
          RequestTimeout, DefaultLimit

VARIABLES options,      \* EgressOptions
          bodyRequest,      \* [body] "Read", "Stream" or "Discard", and whether it was sent
          server,       \* what the peer answers
          sent,         \* bytes that came off the wire
          got,          \* bytes handed on to the caller or to the error
          open,         \* EgressStreamResponse.response
          clock, outcome
bodyVars == <<options, bodyRequest, server, sent, got, open, clock, outcome>>

BodyNone == -1
(* EgressOptions: setters in any order, of which one that refuses ends the build. *)
Unset(limit) == limit = BodyNone
with_max_response_bytes(limit) ==
  /\ limit # 0 /\ options.error <= limit
  /\ options' = [options EXCEPT !.max = limit]
with_error_body_limit(limit) ==
  /\ limit # 0 /\ limit <= options.max
  /\ options' = [options EXCEPT !.error = limit]
with_redirect_responses == options' = [options EXCEPT !.redirects = TRUE]
Build ==
  /\ bodyRequest.phase = "building"
  /\ \/ \E limit \in 0..MaxLimit : with_max_response_bytes(limit) \/ with_error_body_limit(limit)
     \/ with_redirect_responses
  /\ UNCHANGED <<bodyRequest, server, sent, got, open, clock, outcome>>

(* One request. The server sends size bytes, in chunks, declared or not.         *)
body_execute(body) ==
  /\ bodyRequest.phase = "building"
  /\ bodyRequest' = [phase |-> "waiting", body |-> body]
  /\ UNCHANGED <<options, server, sent, got, open, clock, outcome>>
Done(result) == outcome' = result /\ bodyRequest' = [bodyRequest EXCEPT !.phase = "done"]
TooLarge(bytes, limit) == bytes > limit
BodyHeaders(answer) ==
  /\ bodyRequest.phase = "waiting"
  /\ server' = answer
  /\ LET success == answer.status = "success" \/ (answer.status = "redirect" /\ options.redirects)
         bodiless == bodyRequest.body = "Discard" \/ answer.status = "redirect"
     IN CASE success /\ bodiless -> Done("ok") /\ UNCHANGED open
          [] success /\ ~bodiless /\ answer.declared /\ TooLarge(answer.size, options.max) ->
               Done("ResponseTooLarge") /\ UNCHANGED open
          [] success /\ ~bodiless /\ ~(answer.declared /\ TooLarge(answer.size, options.max)) ->
               open' = TRUE /\ bodyRequest' = [bodyRequest EXCEPT !.phase = "reading"] /\ UNCHANGED outcome
          [] ~success /\ Unset(options.error) -> Done("Status") /\ UNCHANGED open
          [] OTHER -> open' = TRUE /\ bodyRequest' = [bodyRequest EXCEPT !.phase = "error"] /\ UNCHANGED outcome
  /\ UNCHANGED <<options, sent, got, clock>>
\* Mutant: the response stays open after a refused chunk.
ClosedUnlessRefused(result) == result = "ResponseTooLarge"
Closed(result) == FALSE
remaining == options.max - got
chunk(n) ==
  /\ bodyRequest.phase = "reading" /\ open /\ n \in 1..(server.size - sent)
  /\ sent' = sent + n
  /\ IF TooLarge(n, remaining)
     THEN outcome' = "ResponseTooLarge" /\ open' = Closed("ResponseTooLarge") /\ UNCHANGED got
     ELSE got' = got + n /\ UNCHANGED <<open, outcome>>
  /\ UNCHANGED <<options, bodyRequest, server, clock>>
End ==
  /\ bodyRequest.phase = "reading" /\ open /\ sent = server.size
  /\ outcome' = (IF outcome = "none" THEN "ok" ELSE outcome) /\ open' = Closed("ok")
  /\ UNCHANGED <<options, bodyRequest, server, sent, got, clock>>
\* The connection breaks, or nothing more comes in time.
BodyFail(result) ==
  /\ bodyRequest.phase = "reading" /\ open
  /\ outcome' = result /\ open' = Closed(result)
  /\ UNCHANGED <<options, bodyRequest, server, sent, got, clock>>
\* After the end, or an error, chunk returns None; execute hands on what the first error was.
Finish ==
  /\ bodyRequest.phase = "reading" /\ (~open \/ (bodyRequest.body = "Read" /\ outcome # "none"))
  /\ Done(outcome)
  /\ UNCHANGED <<options, server, sent, got, open, clock>>

complete == server.declared /\ server.size = options.error
ErrorChunk(n) ==
  /\ bodyRequest.phase = "error" /\ n \in 1..(server.size - sent)
  /\ sent' = sent + n
  /\ LET room == options.error - got
         taken == IF n < room THEN n ELSE room
     IN /\ got' = got + taken
        /\ IF got' = options.error
           THEN Done(IF complete THEN "StatusBody" ELSE "StatusTruncated") /\ open' = FALSE
           ELSE UNCHANGED <<bodyRequest, outcome, open>>
  /\ UNCHANGED <<options, server, clock>>
ErrorEnd ==
  /\ bodyRequest.phase = "error" /\ sent = server.size
  /\ Done("StatusBody") /\ open' = FALSE
  /\ UNCHANGED <<options, server, sent, got, clock>>
ErrorUnread(result) == "Status"
ErrorFail(result) ==
  /\ bodyRequest.phase = "error"
  /\ Done(ErrorUnread(result)) /\ open' = FALSE /\ got' = 0
  /\ UNCHANGED <<options, server, sent, clock>>

Pending == bodyRequest.phase \in {"waiting", "reading", "error"} /\ (open \/ bodyRequest.phase = "waiting")
BodyTick == Pending /\ clock < RequestTimeout /\ clock' = clock + 1
            /\ UNCHANGED <<options, bodyRequest, server, sent, got, open, outcome>>
\* The whole request, with its body, has one timeout; lookups, connects and the connection fail sooner.
NoAnswer(result) == bodyRequest.phase = "waiting" /\ Done(result)
                    /\ UNCHANGED <<options, server, sent, got, open, clock>>
Fault == \/ \E fault \in {"Transport", "Resolve"} : NoAnswer(fault)
         \/ BodyFail("Transport") \/ ErrorFail("Transport")
TimeOut == clock = RequestTimeout /\ (NoAnswer("Timeout") \/ BodyFail("Timeout") \/ ErrorFail("Timeout"))
Answers == [status : {"success", "redirect", "failure"}, size : 0..MaxBody, declared : BOOLEAN]
Serve == \/ \E answer \in Answers : BodyHeaders(answer)
         \/ \E n \in 1..MaxBody : chunk(n) \/ ErrorChunk(n)
         \/ End \/ ErrorEnd \/ Finish
BodyInit ==
  /\ options = [max |-> DefaultLimit, error |-> BodyNone, redirects |-> FALSE]
  /\ bodyRequest = [phase |-> "building", body |-> "Read"]
  /\ server = [status |-> "none", size |-> 0, declared |-> FALSE]
  /\ sent = 0 /\ got = 0 /\ open = FALSE /\ clock = 0 /\ outcome = "none"
BodyNext == Build \/ (\E body \in {"Read", "Stream", "Discard"} : body_execute(body)) \/ Serve \/ Fault \/ BodyTick \/ TimeOut
BodySpec == BodyInit /\ [][BodyNext]_bodyVars

\* No more is held or handed on than the limit that applies, whatever the server declared.
WithinLimit == /\ bodyRequest.phase = "error" \/ outcome \in {"StatusBody", "StatusTruncated"} => got <= options.error
               /\ got <= options.max
\* A successful body is whole: never cut at the limit, never a part before a broken connection.
WholeOrError ==
  bodyRequest.phase = "done" /\ outcome = "ok" /\ bodyRequest.body # "Discard" /\ server.status = "success" =>
    got = server.size
\* A body within the limit is only refused when the connection or the time failed it.
FittingIsRead == outcome = "ResponseTooLarge" => server.size > options.max
\* Once a read failed nothing more is handed on.
NothingAfterAnError == outcome # "none" => got' <= got

\* A failure status is reported as that whatever becomes of its body.
StatusSurvives ==
  bodyRequest.phase = "done" /\ (server.status = "failure" \/ (server.status = "redirect" /\ ~options.redirects)) =>
    outcome \in {"Status", "StatusBody", "StatusTruncated"}
\* A body that is not marked truncated is all of it.
UnmarkedIsWhole == outcome = "StatusBody" => got = server.size
-----------------------------------------------------------------------------
(* A product's importer against a provider that limits it: the response is    *)
(* classified (baukit-http retry.rs) and the class moves the connection's     *)
(* status (baukit-integrations health.rs, port.rs), which the runner obeys.   *)

CONSTANTS Cap,          \* with_max_retry_after, or None
          FirstField,   \* with_first_field
          Forbidden,    \* with_forbidden_rate_limit
          Backoff,      \* the runner's own delay
          MaxAttempts,  \* the runner's attempt cap
          MaxTime, MaxWindow, MaxBlocks,   \* bounds
          None, Healthy, Degraded, NeedsReconnect, Failed,
          RetryAfter, RateLimited, Unavailable, Timeout, Revoked, Permanent,
          TransportFailed, TransportTimeout

VARIABLES now,
          until,     \* the provider refuses requests before this time
          granted,   \* the provider accepts the credential
          broken,    \* the provider refuses this request for good
          blocks,    \* how often the provider turned against the importer
          status,    \* ConnectionStatus
          told       \* when the last response said to come back, or None (history)

upstreamVars == <<now, until, granted, broken, blocks, status, told>>

\* The classes and the kinds of health are different, and None and what a
\* transport reports are no number and no header value.
HeaderValues == [kind : {"seconds", "date", "list", "junk"}, n : Int]
UpstreamAssumption ==
  /\ Cap \in Nat \cup {None} /\ FirstField \in BOOLEAN /\ Forbidden \in BOOLEAN
  /\ Backoff \in Nat /\ MaxAttempts \in Nat \ {0}
  /\ MaxTime \in Nat /\ MaxWindow \in Nat /\ MaxBlocks \in Nat
  /\ Healthy \notin {Degraded, NeedsReconnect, Failed} /\ Failed \notin {Degraded, NeedsReconnect}
  /\ Degraded # NeedsReconnect /\ Revoked # Permanent
  /\ {Revoked, Permanent} \cap {RetryAfter, RateLimited, Unavailable, Timeout} = {}
  /\ RetryAfter \notin {RateLimited, Unavailable, Timeout} /\ TransportFailed # TransportTimeout
  /\ {None, TransportFailed, TransportTimeout} \cap Nat = {} /\ None \notin HeaderValues

UpstreamInit ==
  /\ now = 0 /\ until = 0 /\ blocks = 0
  /\ granted = TRUE /\ broken = FALSE
  /\ status = [health |-> Healthy, success |-> None, attempt |-> None,
               retry |-> None, failed |-> 0]
  /\ told = None

\* Header values: delay seconds, an HTTP date, a quota list whose first field
\* is active, or text that is neither.
Seconds(n) == [kind |-> "seconds", n |-> n]
Date(t) == [kind |-> "date", n |-> t]
List(n) == [kind |-> "list", n |-> n]
Junk == [kind |-> "junk", n |-> 0]

AtLeastZero(n) == IF n < 0 THEN 0 ELSE n
Capped(d) == IF Cap # None /\ d > Cap THEN Cap ELSE d

\* parse_retry_after
Parsed(v) ==
  IF v = None THEN None
  ELSE CASE v.kind = "seconds" -> v.n
         [] v.kind = "date"    -> AtLeastZero(v.n - now)
         [] OTHER              -> None
\* The vendor header, whose list is split only when asked to.
Vendor(v) ==
  IF v # None /\ v.kind = "list" /\ FirstField THEN Parsed(Seconds(v.n)) ELSE Parsed(v)

\* retry_after_from_headers_with_options_at
HeaderDelay(r) ==
  LET d == IF Vendor(r.vendor) # None THEN Vendor(r.vendor) ELSE Parsed(r.standard)
  IN  IF d = None THEN None ELSE Capped(d)

Class(kind, delay) == [kind |-> kind, delay |-> delay]
Delayed(d, fallback) == IF d = None THEN Class(fallback, 0) ELSE Class(RetryAfter, d)

\* Mutant: a 403 without a usable reset is a revoked credential.
ForbiddenClassNeedsReset(r) ==
  IF HeaderDelay(r) # None THEN Class(RetryAfter, HeaderDelay(r))
  ELSE IF r.remaining # 0 \/ r.reset = None THEN Class(Revoked, 0)
  ELSE Class(RetryAfter, Capped(AtLeastZero(r.reset - now)))

\* classify_forbidden_rate_limit
ForbiddenClass(r) ==
  IF HeaderDelay(r) # None THEN Class(RetryAfter, HeaderDelay(r))
  ELSE IF r.remaining # 0 THEN Class(Revoked, 0)
  ELSE IF r.reset = None THEN Class(RateLimited, 0)
  ELSE Class(RetryAfter, Capped(AtLeastZero(r.reset - now)))

\* classify_http_status_with_options_at and classify_transport_error.
Classify(r) ==
  CASE r.code = TransportTimeout -> Class(Timeout, 0)
    [] r.code = TransportFailed         -> Class(Unavailable, 0)
    [] r.code = 403 /\ Forbidden    -> ForbiddenClass(r)
    [] r.code = 401 \/ (r.code = 403 /\ ~Forbidden) -> Class(Revoked, 0)
    [] r.code = 408                 -> Class(Timeout, 0)
    [] r.code = 425                 -> Class(Unavailable, 0)
    [] r.code = 429                 -> Delayed(HeaderDelay(r), RateLimited)
    [] r.code = 504                 -> Delayed(HeaderDelay(r), Timeout)
    [] r.code \in {500, 503}        -> Delayed(HeaderDelay(r), Unavailable)
    [] OTHER                        -> Class(Permanent, 0)

\* RetryClass::is_retryable and ConnectionHealth::after_failure.
Retryable(c) == c.kind \in {RetryAfter, RateLimited, Unavailable, Timeout}
AfterFailure(c) ==
  CASE c.kind = Revoked   -> NeedsReconnect
    [] c.kind = Permanent -> Failed
    [] OTHER              -> Degraded

\* The provider says when to come back in one of the headers it may use, beside
\* values that are no delay; it never names an earlier time than it means.
Silent == [vendor : {None, Junk}, standard : {None, Junk}, remaining : {None, 1}, reset : {None}]
UpstreamHeaders ==
  LET wait == AtLeastZero(until - now)
      vendor == [vendor : {Seconds(wait), List(wait)}, standard : {None, Date(until)},
                 remaining : {None}, reset : {None}]
      standard == [vendor : {None, Junk}, standard : {Seconds(wait), Date(until)},
                   remaining : {None, 0}, reset : {None}]
      github == [vendor : {None}, standard : {None}, remaining : {0}, reset : {None, until}]
  IN  Silent \cup vendor \cup standard \cup github
\* Codes of a provider in each of its states; a 403 that is a rate limit says so
\* in its headers, and one that is not does not.
Codes(h) ==
  IF ~granted THEN {401} \cup (IF h \in Silent THEN {403} ELSE {})
  ELSE IF broken THEN {400, 404}
  ELSE IF now < until
  THEN {429, 500, 503, 504} \cup (IF Forbidden /\ h.remaining = 0 THEN {403} ELSE {})
  ELSE {TransportFailed, TransportTimeout, 408, 425, 500, 504}
Response(code, h) ==
  [code |-> code, vendor |-> h.vendor, standard |-> h.standard,
   remaining |-> h.remaining, reset |-> h.reset]

\* Whether a response names a time the importer's options can read.
Names(r) ==
  \/ r.vendor # None /\ (r.vendor.kind = "seconds" \/ (r.vendor.kind = "list" /\ FirstField))
  \/ r.standard # None /\ r.standard.kind \in {"seconds", "date"}
  \/ r.code = 403 /\ r.remaining = 0 /\ r.reset # None

MayAttempt == /\ status.health # NeedsReconnect
              /\ IF status.health = Healthy THEN TRUE
                 ELSE status.retry # None /\ now >= status.retry

\* A page is fetched: ConnectionStatus::succeeded.
Succeed ==
  /\ MayAttempt /\ granted /\ ~broken /\ now >= until
  /\ status' = [health |-> Healthy, success |-> now, attempt |-> now, retry |-> None, failed |-> 0]
  /\ told' = None
  /\ UNCHANGED <<now, until, granted, broken, blocks>>

\* The call fails: the runner schedules a retry while the class is retryable
\* and attempts are left, and ConnectionStatus::failed records it.
NextRetry(c) ==
  IF Retryable(c) /\ status.failed + 1 < MaxAttempts
  THEN now + (IF c.kind = RetryAfter THEN c.delay ELSE Backoff) ELSE None
Recorded(c) ==
  [status EXCEPT !.health = AfterFailure(c), !.attempt = now,
                 !.retry = NextRetry(c), !.failed = @ + 1]
UpstreamFail(r) ==
  /\ MayAttempt
  /\ status' = Recorded(Classify(r))
  /\ told' = IF granted /\ ~broken /\ now < until /\ Names(r) THEN until ELSE None
  /\ UNCHANGED <<now, until, granted, broken, blocks>>
FailFlaky(h, code) ==   \* a provider that is not limiting fails now and then
  /\ blocks < MaxBlocks
  /\ blocks' = blocks + 1
  /\ MayAttempt /\ status' = Recorded(Classify(Response(code, h))) /\ told' = None
  /\ UNCHANGED <<now, until, granted, broken>>

Limit(n) ==
  /\ blocks < MaxBlocks /\ now >= until /\ now + n <= MaxTime
  /\ blocks' = blocks + 1 /\ until' = now + n
  /\ UNCHANGED <<now, granted, broken, status, told>>
Revoke ==
  /\ blocks < MaxBlocks /\ granted
  /\ blocks' = blocks + 1 /\ granted' = FALSE
  /\ UNCHANGED <<now, until, broken, status, told>>
Break ==
  /\ blocks < MaxBlocks /\ ~broken
  /\ blocks' = blocks + 1 /\ broken' = TRUE
  /\ UNCHANGED <<now, until, granted, status, told>>
\* The owner reconnects, the product starts the connection's status anew.
Reconnect ==
  /\ status.health = NeedsReconnect
  /\ granted' = TRUE
  /\ status' = [status EXCEPT !.health = Healthy, !.retry = None, !.failed = 0]
  /\ told' = None
  /\ UNCHANGED <<now, until, broken, blocks>>
UpstreamTick ==
  /\ now < MaxTime
  /\ now' = now + 1
  /\ UNCHANGED <<until, granted, broken, blocks, status, told>>

UpstreamNext ==
  \/ Succeed \/ Revoke \/ Break \/ Reconnect \/ UpstreamTick
  \/ \E h \in UpstreamHeaders : \E code \in Codes(h) :
       \/ /\ ~(granted /\ ~broken /\ now >= until)
          /\ UpstreamFail(Response(code, h))
       \/ /\ granted /\ ~broken /\ now >= until
          /\ FailFlaky(h, code)
  \/ \E n \in 1..MaxWindow : Limit(n)

UpstreamSpec == UpstreamInit /\ [][UpstreamNext]_upstreamVars

Times == 0..MaxTime
UpstreamTypeOK ==
  /\ now \in Times /\ until \in Times /\ blocks \in 0..MaxBlocks
  /\ status.health \in {Healthy, Degraded, NeedsReconnect, Failed}
  /\ status.attempt \in Times \cup {None} /\ status.success \in Times \cup {None}
  /\ status.failed \in 0..MaxAttempts
  /\ status.retry # None => status.retry >= status.attempt

\* The importer never calls again before the time a readable response named,
\* unless that wait is longer than the cap it set.
NotBeforeTold ==
  status'.attempt # status.attempt /\ told # None =>
    \/ now >= told
    \/ Cap # None /\ now >= status.attempt + Cap

\* The owner is asked to reconnect exactly when the provider refused the
\* credential: a rate limit, also one answered with 403, never asks for it, and
\* a revoked credential never ends as a plain failure.
ReconnectMeansRevoked ==
  status'.attempt # status.attempt =>
    (status'.health = NeedsReconnect <=> ~granted)

\* What the owner and the operator see hangs together: a failing connection has
\* failed attempts, and one that can recover by itself has its next attempt
\* scheduled until the attempts are spent.
StatusCoherent ==
  /\ status.health = Healthy => status.failed = 0 /\ status.retry = None
  /\ status.health # Healthy => status.failed > 0
  /\ status.retry # None => status.health = Degraded
  /\ status.health = Degraded /\ status.failed < MaxAttempts => status.retry # None
==============================================================================
