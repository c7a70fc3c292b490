-------------------------------- MODULE Auth ---------------------------------
(***************************************************************************)
(* baukit-auth: the cache of signing keys (Jwks...), API tokens in the     *)
(* database (Api...), their text (Format...) and what an OIDC token has to *)
(* say (Claims...).                                                        *)
(***************************************************************************)
EXTENDS Integers, Sequences, FiniteSets, TLC

-----------------------------------------------------------------------------
(***************************************************************************)
(* The signing-key cache of OidcVerifier (baukit-auth verifier.rs): key_for *)
(* holds the cache's mutex across a fetch, keeps the fetched set for        *)
(* cache_ttl, refreshes a fresh cache for a key it does not know, and       *)
(* remembers an unknown key for UNKNOWN_KEY_TTL.                            *)
(* Times are ages: an age grows with Tick up to its cap, which only the     *)
(* comparisons below can tell from a greater age.                           *)
(***************************************************************************)

CONSTANTS Kids, JwksRequests, CacheTtl, UnknownTtl, FetchTimeout, MaxUnknown, None

JwksCacheAssumption ==
  /\ CacheTtl \in Nat \ {0} /\ UnknownTtl \in Nat \ {0}
  /\ FetchTimeout \in Nat /\ MaxUnknown \in Nat \ {0}

VARIABLES
  published,  \* the keys the provider publishes
  since,      \* ghost: ticks since a key was published or retired last
  cache,      \* [age, keys], or None before the first fetch
  unknown,    \* unknown_keys: an age for each remembered key
  jwksRequest,    \* the key each open request asks for, or None
  fetch       \* the fetch the mutex holder awaits: [by, age, keys] or None

jwksVars == <<published, since, cache, unknown, jwksRequest, fetch>>

Cap == CacheTtl + UnknownTtl + FetchTimeout + 1
Older(age) == IF age < Cap THEN age + 1 ELSE age

JwksInit ==
  /\ published \in SUBSET Kids
  /\ since = [k \in Kids |-> Cap]
  /\ cache = None /\ unknown = <<>>
  /\ jwksRequest = [r \in JwksRequests |-> None] /\ fetch = None

(* A request whose token names key k waits for the mutex. *)
JwksAsk(r, k) ==
  /\ jwksRequest[r] = None
  /\ jwksRequest' = [jwksRequest EXCEPT ![r] = k]
  /\ UNCHANGED <<published, since, cache, unknown, fetch>>

HasMutex(r) == jwksRequest[r] # None /\ fetch = None
JwksFresh == cache # None /\ cache.age < CacheTtl
Cached(r) == JwksFresh /\ jwksRequest[r] \in cache.keys
RecentlyUnknown(r) ==
  JwksFresh /\ jwksRequest[r] \in DOMAIN unknown /\ unknown[jwksRequest[r]] < UnknownTtl

Forget(k) == [j \in DOMAIN unknown \ {k} |-> unknown[j]]
Answer(r) == jwksRequest' = [jwksRequest EXCEPT ![r] = None]

AcceptCached(r) ==
  /\ HasMutex(r) /\ Cached(r)
  /\ unknown' = Forget(jwksRequest[r])
  /\ Answer(r) /\ UNCHANGED <<published, since, cache, fetch>>

RefuseUnknown(r) ==
  /\ HasMutex(r) /\ ~Cached(r) /\ RecentlyUnknown(r)
  /\ Answer(r) /\ UNCHANGED <<published, since, cache, unknown, fetch>>

StartFetch(r) ==
  /\ HasMutex(r) /\ ~Cached(r) /\ ~RecentlyUnknown(r)
  /\ fetch' = [by |-> r, age |-> 0, keys |-> None]
  /\ UNCHANGED <<published, since, cache, unknown, jwksRequest>>

ProviderAnswers ==
  /\ fetch # None /\ fetch.keys = None
  /\ fetch' = [fetch EXCEPT !.keys = published]
  /\ UNCHANGED <<published, since, cache, unknown, jwksRequest>>

(* remember_unknown_key drops expired entries, then the oldest at the limit. *)
Live == {k \in DOMAIN unknown : unknown[k] < UnknownTtl}
Evicted ==
  IF Cardinality(Live) < MaxUnknown THEN {{}}
  ELSE {{k} : k \in {j \in Live : \A i \in Live : unknown[j] >= unknown[i]}}

Remembered(k) ==
  {k :> 0 @@ [j \in Live \ gone |-> unknown[j]] : gone \in Evicted}

FetchEnds ==
  /\ fetch # None /\ fetch.keys # None
  /\ cache' = [age |-> 0, keys |-> fetch.keys]
  /\ LET k == jwksRequest[fetch.by] IN
       unknown' \in IF k \in fetch.keys THEN {Forget(k)} ELSE Remembered(k)
  /\ Answer(fetch.by) /\ fetch' = None
  /\ UNCHANGED <<published, since>>

(* The fetch fails or times out, or the request's client goes away: the     *)
(* mutex is released and the cache is as it was.                            *)
FetchFails ==
  /\ fetch # None
  /\ Answer(fetch.by) /\ fetch' = None
  /\ UNCHANGED <<published, since, cache, unknown>>

Publish(k) ==
  /\ k \notin published
  /\ published' = published \cup {k} /\ since' = [since EXCEPT ![k] = 0]
  /\ UNCHANGED <<cache, unknown, jwksRequest, fetch>>

Retire(k) ==
  /\ k \in published
  /\ published' = published \ {k} /\ since' = [since EXCEPT ![k] = 0]
  /\ UNCHANGED <<cache, unknown, jwksRequest, fetch>>

(* The request timeout bounds how long a fetch stays open. *)
JwksTick ==
  /\ fetch # None => fetch.age < FetchTimeout
  /\ since' = [k \in Kids |-> Older(since[k])]
  /\ cache' = IF cache = None THEN None ELSE [cache EXCEPT !.age = Older(@)]
  /\ unknown' = [k \in DOMAIN unknown |-> Older(unknown[k])]
  /\ fetch' = IF fetch = None THEN None ELSE [fetch EXCEPT !.age = @ + 1]
  /\ UNCHANGED <<published, jwksRequest>>

JwksVerify(r) == AcceptCached(r) \/ RefuseUnknown(r) \/ StartFetch(r)

JwksNext ==
  \/ \E r \in JwksRequests : JwksVerify(r) \/ \E k \in Kids : JwksAsk(r, k)
  \/ ProviderAnswers \/ FetchEnds \/ FetchFails \/ JwksTick
  \/ \E k \in Kids : Publish(k) \/ Retire(k)

JwksSpec == JwksInit /\ [][JwksNext]_jwksVars

JwksTypeOK ==
  /\ published \subseteq Kids /\ since \in [Kids -> 0..Cap]
  /\ cache = None \/ (cache.age \in 0..Cap /\ cache.keys \subseteq Kids)
  /\ DOMAIN unknown \subseteq Kids
  /\ jwksRequest \in [JwksRequests -> Kids \cup {None}]
  /\ fetch = None \/ jwksRequest[fetch.by] # None

(* A retired key is accepted no longer than the cache's time to live after  *)
(* the fetch that still saw it.                                             *)
RetiredKeyRefused ==
  \A r \in JwksRequests :
    AcceptCached(r) /\ jwksRequest[r] \notin published =>
      since[jwksRequest[r]] < CacheTtl + FetchTimeout

(* A key the provider has published is refused without a fetch only while   *)
(* the negative entry made before its publication is young.                 *)
NewKeyFetched ==
  \A r \in JwksRequests :
    RefuseUnknown(r) /\ jwksRequest[r] \in published =>
      since[jwksRequest[r]] < UnknownTtl + FetchTimeout

(* The negative cache stays bounded, however many keys are asked for.       *)
UnknownBounded == Cardinality(DOMAIN unknown) <= MaxUnknown

-----------------------------------------------------------------------------
(***************************************************************************)
(* Personal access tokens of one owner: ApiTokenService (api_token.rs) over *)
(* PostgresApiTokenStore (postgres.rs) with an active-token limit.          *)
(* Every request reads the clock once, when it starts; a step is one        *)
(* database statement or transaction end.  A token id stands for its        *)
(* secret.  Never stands for a missing expiry, 0 for a missing timestamp.   *)
(***************************************************************************)

CONSTANTS TokenIds, ApiRequests, ApiMaxTime, ApiLimit

ApiTokensAssumption == ApiMaxTime \in Nat \ {0} /\ ApiLimit \in Nat \ {0}

Never == ApiMaxTime + 1

VARIABLES
  clock,
  row,       \* api_tokens: [created, expires, used, revoked] or None
  apiRequest,   \* each open request
  lock,      \* who holds the owner's advisory lock
  accepted   \* ghost: the latest instant each token was accepted at

apiVars == <<clock, row, apiRequest, lock, accepted>>

ApiInit ==
  /\ clock = 1 /\ row = [t \in TokenIds |-> None]
  /\ apiRequest = [r \in ApiRequests |-> None] /\ lock = None
  /\ accepted = [t \in TokenIds |-> 0]

Idle(r) == apiRequest[r] = None
At(r, stage) == apiRequest[r] # None /\ apiRequest[r].stage = stage
Moves(r, value) == apiRequest' = [apiRequest EXCEPT ![r] = value]
Ends(r) == Moves(r, None)

Rows == {t \in TokenIds : row[t] # None}
Named == {apiRequest[r].token : r \in {q \in ApiRequests : apiRequest[q] # None}}

ActiveAt(t, at) == row[t].revoked = 0 /\ row[t].expires > at

(***************************************************************************)
(* issue_at: prepare, then count the active tokens under the advisory lock  *)
(* and insert in the same transaction.                                      *)
(***************************************************************************)
ApiPrepare(r, t) ==
  /\ Idle(r) /\ t \notin Rows \cup Named /\ accepted[t] = 0
  /\ \E expires \in clock + 1..Never :
       Moves(r, [stage |-> "prepared", token |-> t, at |-> clock, expires |-> expires])
  /\ UNCHANGED <<clock, row, lock, accepted>>

LockAndCount(r) ==
  /\ At(r, "prepared") /\ lock = None
  /\ IF Cardinality({t \in Rows : ActiveAt(t, apiRequest[r].at)}) >= ApiLimit
       THEN Ends(r) /\ UNCHANGED lock
       ELSE Moves(r, [apiRequest[r] EXCEPT !.stage = "counted"]) /\ lock' = r
  /\ UNCHANGED <<clock, row, accepted>>

Insert(r) ==
  /\ At(r, "counted")
  /\ row' = [row EXCEPT ![apiRequest[r].token] =
       [created |-> apiRequest[r].at, expires |-> apiRequest[r].expires, used |-> 0, revoked |-> 0]]
  /\ lock' = None /\ Ends(r)
  /\ UNCHANGED <<clock, accepted>>

(***************************************************************************)
(* verify_at: look the hash up, refuse a revoked or expired token, record   *)
(* the use, and only then accept.                                           *)
(***************************************************************************)
StartVerify(r, t) ==
  /\ Idle(r) /\ t \in Rows
  /\ Moves(r, [stage |-> "verify", token |-> t, at |-> clock,
               dead |-> ~ActiveAt(t, clock)])
  /\ UNCHANGED <<clock, row, lock, accepted>>

\* Mutant: the lookup does not compare the expiry.
VerifiesUnrevoked(t, at) == t \in Rows /\ row[t].revoked = 0

Verifies(t, at) == t \in Rows /\ row[t].revoked = 0 /\ row[t].expires > at

FindByHash(r) ==
  /\ At(r, "verify")
  /\ IF Verifies(apiRequest[r].token, apiRequest[r].at)
       THEN Moves(r, [apiRequest[r] EXCEPT !.stage = "found"])
       ELSE Ends(r)
  /\ UNCHANGED <<clock, row, lock, accepted>>

Touched(t, at) == row[t].used < at

TouchLastUsed(r) ==
  /\ At(r, "found")
  /\ LET t == apiRequest[r].token  at == apiRequest[r].at IN
       /\ row' = IF t \in Rows /\ Touched(t, at) THEN [row EXCEPT ![t].used = at] ELSE row
       /\ accepted' = [accepted EXCEPT ![t] = IF at > @ THEN at ELSE @]
  /\ Ends(r)
  /\ UNCHANGED <<clock, lock>>

(* A lost connection ends a request; its transaction rolls back.            *)
RequestFails(r) ==
  /\ ~Idle(r)
  /\ lock' = IF lock = r THEN None ELSE lock
  /\ Ends(r)
  /\ UNCHANGED <<clock, row, accepted>>

Revoke(t) ==
  /\ t \in Rows /\ row[t].revoked = 0
  /\ row' = [row EXCEPT ![t].revoked = clock]
  /\ UNCHANGED <<clock, apiRequest, lock, accepted>>

(* purge_inactive_api_tokens deletes one batch and skips locked rows.       *)
Purge ==
  /\ \E cutoff \in 1..clock :
       \E gone \in SUBSET {t \in Rows : row[t].revoked \in 1..cutoff - 1 \/ row[t].expires < cutoff} :
         /\ gone # {}
         /\ row' = [t \in TokenIds |-> IF t \in gone THEN None ELSE row[t]]
  /\ UNCHANGED <<clock, apiRequest, lock, accepted>>

EraseOwner ==
  /\ Rows # {}
  /\ row' = [t \in TokenIds |-> None]
  /\ UNCHANGED <<clock, apiRequest, lock, accepted>>

ApiTick ==
  /\ clock < ApiMaxTime
  /\ clock' = clock + 1
  /\ UNCHANGED <<row, apiRequest, lock, accepted>>

ApiNext ==
  \/ \E r \in ApiRequests :
       \/ LockAndCount(r) \/ Insert(r) \/ FindByHash(r) \/ TouchLastUsed(r) \/ RequestFails(r)
       \/ \E t \in TokenIds : ApiPrepare(r, t) \/ StartVerify(r, t)
  \/ \E t \in TokenIds : Revoke(t)
  \/ Purge \/ EraseOwner \/ ApiTick

ApiSpec == ApiInit /\ [][ApiNext]_apiVars

ApiTypeOK ==
  /\ clock \in 1..ApiMaxTime
  /\ \A t \in Rows :
       /\ row[t].created \in 1..clock /\ row[t].expires \in row[t].created + 1..Never
       /\ row[t].used \in 0..clock /\ row[t].revoked \in 0..clock
  /\ lock = None \/ At(lock, "counted")
  /\ accepted \in [TokenIds -> 0..clock]

(* Concurrent issues do not overshoot the limit, though each counts at the  *)
(* instant it started and its insert may come much later.                   *)
ActiveLimit == Cardinality({t \in Rows : ActiveAt(t, clock)}) <= ApiLimit

(* A request that starts after a token was revoked or has expired is not    *)
(* accepted, and one accepted later is never behind last_used_at.           *)
DeadTokenRefused == \A r \in ApiRequests : TouchLastUsed(r) => ~apiRequest[r].dead

LastUsedIsLatest == \A t \in Rows : row[t].used = accepted[t]
-----------------------------------------------------------------------------
(* The API tokens of baukit-auth as strings: marker, secret and prefix of an  *)
(* ApiTokenFormat, the record a request becomes, a chain of two verifiers     *)
(* that each own a marker, and the policy rejection a store answers with. A   *)
(* string is a sequence of characters, the hash of a token the token itself.  *)

CONSTANTS Base62, Others,      \* characters: a sequence, and a set outside it
          ByteValues,          \* 256
          SecretLength, DisplayPrefixLength, MaxMarker,
          MaxName, MaxGrants, MaxGrantLength, MaxDetails, MaxValue

TokenFormatAssumption ==
  /\ ByteValues >= Len(Base62) /\ DisplayPrefixLength < SecretLength

VARIABLES markers,   \* the markers of the first and the second verifier
          formatStage, issuer, secret,
          status,    \* of the issued token's row
          formatAnswer,    \* of the last verification
          details    \* of a policy rejection

formatVars == <<markers, formatStage, issuer, secret, status, formatAnswer, details>>

Alphanumeric == {Base62[n] : n \in DOMAIN Base62}
Characters == Alphanumeric \cup Others
Strings(n) == UNION {[1..k -> Characters] : k \in 0..n}
StartsWith(s, m) == Len(s) >= Len(m) /\ SubSeq(s, 1, Len(m)) = m

ValidMarker(m) ==
  /\ Len(m) > 1 /\ m[Len(m)] = "_"
  /\ \A n \in 1..Len(m) - 1 : m[n] \in Alphanumeric
ClaimsFormat(m, s) == StartsWith(s, m)
IsWellFormed(m, s) ==
  /\ Len(s) = Len(m) + SecretLength /\ StartsWith(s, m)
  /\ \A n \in Len(m) + 1..Len(s) : s[n] \in Alphanumeric
DisplayPrefix(m, s) == SubSeq(s, 1, Len(m) + DisplayPrefixLength)

\* A byte at or above the greatest multiple of the alphabet's size is dropped.
FormatLimit == (ByteValues \div Len(Base62)) * Len(Base62)
Character(b) == Base62[(b % Len(Base62)) + 1]
RECURSIVE Push(_, _, _)
Push(s, buffer, room) ==
  IF buffer = <<>> \/ room = 0 THEN s
  ELSE IF Head(buffer) < FormatLimit
       THEN Push(Append(s, Character(Head(buffer))), Tail(buffer), room - 1)
       ELSE Push(s, Tail(buffer), room)

(* A request: its name with its outer spaces, its grants as [length, clean],  *)
(* and its expiry, None or relative to now.                                   *)
Names == [length : 0..MaxName + 1, spaces : 0..1]
Grants == [length : 0..MaxGrantLength + 1, clean : BOOLEAN]
Trim(name) == [name EXCEPT !.spaces = 0]
ValidateGrants(grants) ==
  /\ Cardinality(grants) <= MaxGrants
  /\ \A g \in grants : g.length \in 1..MaxGrantLength /\ g.clean
ValidateTokenFields(name, grants, expires, now) ==
  /\ name.length + name.spaces \in 1..MaxName
  /\ expires # None => expires > now
  /\ ValidateGrants(grants)
Failed == [name |-> None]
FormatPrepare(name, grants, expires, now) ==
  IF ValidateTokenFields(Trim(name), grants, expires, now)
  THEN [name |-> Trim(name), grants |-> grants, expires |-> expires, created |-> now] ELSE Failed
\* What a store accepts of a record that crossed a process boundary.
FromRecord(r) ==
  IF ValidateTokenFields(Trim(r.name), r.grants, r.expires, r.created)
  THEN [r EXCEPT !.name = Trim(@)] ELSE Failed

FormatInit ==
  /\ markers \in {<<a, b>> : a, b \in {m \in Strings(MaxMarker) : ValidMarker(m)}}
  /\ formatStage = "generate" /\ issuer \in 1..2 /\ secret = markers[issuer]
  /\ status = "active" /\ formatAnswer = None /\ details = <<>>

Full == Len(secret) = Len(markers[issuer]) + SecretLength
Fill ==
  /\ formatStage = "generate" /\ ~Full /\ details = <<>>
  /\ \E buffer \in [1..SecretLength -> 0..ByteValues - 1] :
       secret' = Push(secret, buffer, Len(markers[issuer]) + SecretLength - Len(secret))
  /\ UNCHANGED <<markers, formatStage, issuer, status, formatAnswer, details>>
RandomnessUnavailable ==
  /\ formatStage = "generate" /\ ~Full /\ formatStage' = "unavailable"
  /\ UNCHANGED <<markers, issuer, secret, status, formatAnswer, details>>
Create ==
  /\ formatStage = "generate" /\ Full /\ formatStage' = "issued"
  /\ UNCHANGED <<markers, issuer, secret, status, formatAnswer, details>>
Age ==
  /\ formatStage = "issued" /\ status = "active" /\ status' \in {"revoked", "expired"}
  /\ UNCHANGED <<markers, formatStage, issuer, secret, formatAnswer, details>>

\* verify_at against the store of verifier v, which may fail.
VerifyAt(v, s, store) ==
  CASE ~IsWellFormed(markers[v], s) -> "invalid"
    [] store = "fails" -> "storage"
    [] v # issuer \/ s # secret \/ status = "revoked" -> "invalid"
    [] status = "expired" -> "expired"
    [] OTHER -> "token"
Verification(result) ==
  CASE result = "token" -> "principal" [] result = "expired" -> "expired"
    [] result = "storage" -> "unavailable" [] OTHER -> "invalid signature"
VerifyBearer(s, store) ==
  LET own(v) == Verification(VerifyAt(v, s, store))
  IN  CASE ClaimsFormat(markers[1], s) -> own(1)
        [] ClaimsFormat(markers[2], s) -> own(2)
        [] OTHER -> "oidc"

\* The token, and strings one edit away from it.
Presentable ==
  {secret, Append(secret, Base62[1]), SubSeq(secret, 1, Len(secret) - 1), Tail(secret)}
  \cup {[secret EXCEPT ![n] = c] : n \in DOMAIN secret, c \in Characters}
FormatVerify ==
  /\ formatStage = "issued"
  /\ \E s \in Presentable, store \in {"answers", "fails"} :
       formatAnswer' = [s |-> s, store |-> store, is |-> VerifyBearer(s, store)]
  /\ UNCHANGED <<markers, formatStage, issuer, secret, status, details>>

\* with_detail, on a rejection that has nothing to do with the token: a new name needs room, a known one is replaced.
MayDetail(name) == name \in DOMAIN details \/ Cardinality(DOMAIN details) # MaxDetails
WithDetail(name, value) ==
  /\ formatStage = "generate" /\ ~Full /\ MayDetail(name)
  /\ details' = [n \in DOMAIN details \cup {name} |-> IF n = name THEN value ELSE details[n]]
  /\ UNCHANGED <<markers, formatStage, issuer, secret, status, formatAnswer>>

Detail == \E name \in 1..MaxDetails + 1, value \in 0..MaxValue : WithDetail(name, value)
FormatNext == Fill \/ RandomnessUnavailable \/ Create \/ Age \/ FormatVerify \/ Detail
FormatSpec == FormatInit /\ [][FormatNext]_formatVars

FormatFresh == secret = markers[issuer] /\ details = <<>>
(* Every character is as likely as any other: as many of the accepted bytes   *)
(* map to it.                                                                 *)
Unbiased ==
  FormatFresh => \A c, d \in Alphanumeric :
    Cardinality({b \in 0..FormatLimit - 1 : Character(b) = c})
      = Cardinality({b \in 0..FormatLimit - 1 : Character(b) = d})

(* An issued token is well formed, and its display prefix leaves characters   *)
(* of the secret out.                                                         *)
IssuedWellFormed ==
  formatStage = "issued" => /\ IsWellFormed(markers[issuer], secret)
                            /\ Len(DisplayPrefix(markers[issuer], secret)) < Len(secret)

(* Two verifiers with different markers never take each other's tokens: the   *)
(* chain gives a principal for the active token whichever of them issued it,  *)
(* and for a string one edit away from it never.                              *)
OwnTokenOnly ==
  formatAnswer # None /\ markers[1] # markers[2] /\ formatAnswer.store = "answers" /\ status = "active"
    => (formatAnswer.is = "principal" <=> formatAnswer.s = secret)

(* What a token service claims never reaches the OIDC provider.               *)
ClaimedStaysLocal ==
  formatAnswer # None /\ (\E v \in 1..2 : ClaimsFormat(markers[v], formatAnswer.s)) => formatAnswer.is # "oidc"

(* Every record a request is prepared into is accepted unchanged by a store.  *)
PreparedIsStorable ==
  FormatFresh => \A name \in Names, grants \in {{}} \cup {{g, h} : g, h \in Grants}, expires \in 0..2 \cup {None} :
    LET r == FormatPrepare(name, grants, expires, 1) IN r # Failed => FromRecord(r) = r

(* No series of details pushes one out of a rejection, or goes past the       *)
(* limit by replacing.                                                        *)
DetailsKept ==
  DOMAIN details \subseteq DOMAIN details' /\ Cardinality(DOMAIN details') <= MaxDetails

-----------------------------------------------------------------------------
(* What an OidcVerifier and a MultiIssuerVerifier of baukit-auth accept: the  *)
(* header, the key, the claims under each of the four token profiles, and ID  *)
(* tokens. Two issuers mint four kinds of token, with up to two claims other  *)
(* than usual; a claim is None when the token has none and "malformed" when   *)
(* it has the wrong JSON type. JwksCache models where the keys come from.     *)

CONSTANTS Skew,          \* clock_skew, in steps of the clock
          Huge,          \* the greatest u64
          ClaimsMaxTime,       \* bound of the clock
          Altered       \* bound: claims that differ from the kind's usual ones

VARIABLES config,    \* the verifier of issuer "p"; "q" has a plain one
          key,       \* what the key of issuer "p" is published for
          kind, token,
          claimsNow,
          verdicts   \* how each route answered so far: [route, at, is]

claimsVars == <<config, key, kind, token, claimsNow, verdicts>>

(* Configurations, as their constructors leave them.                          *)
Plain(i) == [issuer |-> i, profile |-> "oidc", audiences |-> {"api"}, allowed |-> {},
             client |-> None, bound |-> {}, parties |-> {}, required |-> {}, skew |-> Skew,
             mapped |-> "auth_time"]
WithAllowedClients(c) == [c EXCEPT !.allowed = {"app"}]
WithClientId(c) == [c EXCEPT !.client = "app"]
Clerk(i) == [Plain(i) EXCEPT !.profile = "clerk", !.audiences = {}, !.parties = {"web"},
                             !.mapped = "session_created_at"]
WithAudiences(c) == [c EXCEPT !.audiences = {"api"}]
ClientBound(i) == [Plain(i) EXCEPT !.profile = "client_bound", !.audiences = {}, !.bound = {"app"},
                                   !.client = "app"]
ScopeBound(i) == [Plain(i) EXCEPT !.profile = "scope_bound", !.audiences = {},
                                  !.required = {"read"}, !.skew = 0]
Configs == {Plain("p"), WithAllowedClients(Plain("p")), WithClientId(Plain("p")), Clerk("p"),
            WithAudiences(Clerk("p")), ClientBound("p"), WithAudiences(ClientBound("p")),
            ScopeBound("p")}

(* Tokens as the issuers mint them.                                           *)
Usual(i) == [signer |-> i, iss |-> i, alg |-> "RS256", kid |-> "k", crit |-> FALSE, sub |-> TRUE,
             aud |-> {}, azp |-> None, client_id |-> None, scope |-> {"read"}, exp |-> 1,
             nbf |-> None, auth_time |-> None, session_created_at |-> None, nonce |-> None,
             org |-> None]
Minted(k, i) ==
  CASE k = "access" -> [Usual(i) EXCEPT !.aud = {"api"}, !.azp = "app", !.client_id = "app"]
    [] k = "session" -> [Usual(i) EXCEPT !.azp = "web", !.session_created_at = 0]
    [] k = "mcp" -> [Usual(i) EXCEPT !.client_id = "dynamic", !.scope = {"read", "write"}]
    [] k = "id" -> [Usual(i) EXCEPT !.aud = {"app"}, !.nonce = "n", !.scope = {}]
Kinds == {"access", "session", "mcp", "id"}
Values ==
  [signer |-> {"p", "q"}, iss |-> {None, "p", "q", "r"}, alg |-> {"ES256", "none"}, kid |-> {None, "unknown"},
   crit |-> {TRUE}, sub |-> {FALSE}, aud |-> {{}, {"other"}, {"api", "other"}, {"app", "other"}},
   azp |-> {None, "app", "web", "other", "malformed"},
   client_id |-> {None, "app", "", "malformed"}, scope |-> {{}, {"malformed"}},
   exp |-> {None, 2, Huge}, nbf |-> {0, 2, Huge}, auth_time |-> {0, 2}, session_created_at |-> {2},
   nonce |-> {None, "n", "other"}, org |-> {"acme", "", "malformed"}]
Edits(t) == UNION {{[t EXCEPT ![f] = v] : v \in Values[f]} : f \in DOMAIN Values}
ClaimsTokens(k) ==
  LET usual == {Minted(k, i) : i \in {"p", "q"}}
      one == UNION {Edits(t) : t \in usual}
  IN  usual \cup one \cup (IF Altered > 1 THEN UNION {Edits(t) : t \in one} ELSE {})

ClaimsInit ==
  /\ config \in Configs /\ kind \in Kinds /\ token \in ClaimsTokens(kind)
  /\ key \in {"signing"} \cup (IF token = Minted(kind, "p") THEN {"encryption", "other alg", "curve"} ELSE {})
  /\ claimsNow = 0 /\ verdicts = {}

(* JwtClaims::validate and what it calls. A check is the error it returns,    *)
(* "ok" if there is none; First is the first error in the code's order.       *)
Check(holds, error) == IF holds THEN "ok" ELSE error
First(a, b) == IF a # "ok" THEN a ELSE b
\* u64::saturating_add.
Plus(t, skew) == IF t + skew > Huge THEN Huge ELSE t + skew
ValidateAudience(t, c) == Check(t.aud \cap c.audiences # {}, "WrongAudience")
SeveralAudiences(t) == Cardinality(t.aud) > 1
OidcAuthorizedParty(t, c) ==
  IF c.allowed # {} THEN Check(t.azp \in c.allowed, "WrongAuthorizedParty")
  ELSE Check(SeveralAudiences(t) => t.azp \notin {None, "malformed"}, "WrongAuthorizedParty")
ScopeShape(t) == Check("malformed" \notin t.scope, "InvalidPrincipalContext")
IdTokenClient(t, client) ==
  First(Check(client \in t.aud, "WrongAudience"),
        Check((t.azp = None /\ ~SeveralAudiences(t)) \/ t.azp = client, "WrongAuthorizedParty"))
TokenProfile(t, c) ==
  First(IF c.audiences # {} THEN ValidateAudience(t, c) ELSE "ok",
    CASE c.profile = "oidc" -> OidcAuthorizedParty(t, c)
      [] c.profile = "clerk" ->
           First(Check(t.azp # "malformed", "InvalidPrincipalContext"),
                 Check(t.azp \in {None} \cup c.parties, "WrongAuthorizedParty"))
      [] c.profile = "client_bound" ->
           First(Check(t.client_id # "malformed", "InvalidPrincipalContext"),
                 Check(t.client_id \in c.bound, "WrongClientId"))
      [] c.profile = "scope_bound" ->
           First(First(Check(t.client_id # "malformed", "InvalidPrincipalContext"),
                       Check(t.client_id \notin {None, ""}, "WrongClientId")),
                 First(ScopeShape(t), Check(c.required \subseteq t.scope, "MissingScope"))))
\* The mapped claim, else auth_time.
AuthenticatedAt(t, c) ==
  IF c.mapped = "session_created_at" /\ t.session_created_at # None THEN t.session_created_at
  ELSE t.auth_time
\* The organization of a profile that maps one.
MappedClaim(t, c) == Check(c.profile = "oidc" \/ t.org \notin {"", "malformed"}, "InvalidPrincipalContext")
IssuerIs(t, c) == t.iss = c.issuer
Validate(t, c, profile) ==
  LET at == AuthenticatedAt(t, c)
      times == First(Check(t.exp # None, "MissingExpiry"),
               First(Check(t.exp = None \/ claimsNow <= Plus(t.exp, c.skew), "Expired"),
               First(Check(t.nbf = None \/ t.nbf <= Plus(claimsNow, c.skew), "NotYetValid"),
                     Check(at = None \/ at <= Plus(claimsNow, c.skew), "NotYetValid"))))
  IN  First(Check(t.sub, "MissingSubject"),
      First(Check(IssuerIs(t, c), "WrongIssuer"),
      First(profile, First(times, First(MappedClaim(t, c), ScopeShape(t))))))

(* verify_token. Both issuers publish one RSA key, under the same key id.     *)
KeyOf(c) == IF c.issuer = "p" THEN key ELSE "signing"
Signature(t, c) ==
  First(Check(KeyOf(c) \notin {"encryption", "other alg"}, "KeyNotUsable"),
  First(Check(KeyOf(c) # "curve", "KeyAlgorithmMismatch"),
        Check(t.signer = c.issuer, "InvalidSignature")))
Header(t, c) ==
  First(Check(t.alg = "RS256", "DisallowedAlgorithm"),
  First(Check(~t.crit, "UnsupportedCriticalHeader"),
  First(Check(t.kid # None, "MissingKeyId"),
  First(Check(t.kid = "k", "UnknownKeyId"), Signature(t, c)))))
VerifyAccess(t, c) == First(Header(t, c), Validate(t, c, TokenProfile(t, c)))
VerifyId(t, c) ==
  IF c.client = None THEN "MissingClientId"
  ELSE First(Header(t, c),
       First(Check(t.nonce = "n", "WrongNonce"), Validate(t, c, IdTokenClient(t, c.client))))
\* MultiIssuerVerifier::verify: the unverified issuer names the verifier.
Configured == [i \in {"p", "q"} |-> IF i = "p" THEN config ELSE Plain("q")]
VerifyMulti(t) ==
  IF t.iss = None THEN "WrongIssuer"
  ELSE IF t.iss \notin DOMAIN Configured THEN "UnconfiguredIssuer"
  ELSE VerifyAccess(t, Configured[t.iss])

ClaimsAsk(route, answer) ==
  /\ verdicts' = verdicts \cup {[route |-> route, at |-> claimsNow, is |-> answer]}
  /\ UNCHANGED <<config, key, kind, token, claimsNow>>
VerifyDirect == ClaimsAsk("direct", VerifyAccess(token, config))
VerifyAny == ClaimsAsk("multi", VerifyMulti(token))
VerifyIdToken == ClaimsAsk("id", VerifyId(token, config))
ClaimsTick == claimsNow < ClaimsMaxTime /\ claimsNow' = claimsNow + 1 /\ UNCHANGED <<config, key, kind, token, verdicts>>

\* The routes are asked at every instant, in this order.
Asked(route) == \E v \in verdicts : v.route = route /\ v.at = claimsNow
ClaimsNext == \/ ~Asked("direct") /\ VerifyDirect
              \/ Asked("direct") /\ ~Asked("multi") /\ VerifyAny
              \/ Asked("multi") /\ ~Asked("id") /\ VerifyIdToken
              \/ Asked("id") /\ ClaimsTick
ClaimsSpec == ClaimsInit /\ [][ClaimsNext]_claimsVars

Accepted(route) == {v \in verdicts : v.route = route /\ v.is = "ok"}

(* Whatever the token says of itself and although both issuers use the same   *)
(* key id, an accepted token was signed by the issuer it names, with a key    *)
(* published for that.                                                        *)
IssuerSigned ==
  (\E route \in {"direct", "multi", "id"} : Accepted(route) # {}) =>
    token.signer = token.iss /\ (token.iss = "p" => key = "signing")

(* Each verifier accepts the kinds it is for: no session or ID token is taken *)
(* for an OAuth access token, an ID token only by the client and for the      *)
(* login it was minted for.                                                   *)
KindsSeparated ==
  (\E i \in {"p", "q"} : token = Minted(kind, i)) =>
    /\ Accepted("direct") # {} =>
         kind \in (CASE config.profile = "oidc" -> {"access"}
                     [] config.profile = "client_bound" -> {"access"}
                     [] config.profile = "scope_bound" -> {"access", "mcp"}
                     [] OTHER -> {"session", "mcp", "id"})
    /\ Accepted("id") # {} => kind = "id" /\ config.client = "app"
IdTokenOfTheLogin ==
  Accepted("id") # {} => /\ token.nonce = "n" /\ "app" \in token.aud
                         /\ Cardinality(token.aud) > 1 => token.azp = "app"

(* A route that accepted a token goes on accepting it until the skew past its *)
(* expiry, and never again after it; a time no u64 can pass does not wrap.    *)
Lifetime ==
  \A route \in {"direct", "multi", "id"}, v \in verdicts :
    v.route = route /\ Accepted(route) # {} /\ v.at >= (CHOOSE w \in Accepted(route) : \A x \in Accepted(route) : w.at <= x.at).at =>
      (v.is = "ok" <=> v.at <= token.exp + (IF route = "multi" /\ token.iss = "q" THEN Skew ELSE config.skew))
==============================================================================
