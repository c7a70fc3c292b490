--------------------------------- MODULE Mcp ---------------------------------
(***************************************************************************)
(* baukit-mcp: the gate every message passes (Gate...), the introspection  *)
(* of tokens (Introspection...), the definitions a product mounts          *)
(* (Definitions...) and the pages of its links (LinkPages...).             *)
(***************************************************************************)
EXTENDS Integers, Sequences, FiniteSets, FiniteSetsExt, SequencesExt, TLC

-----------------------------------------------------------------------------
(* baukit-mcp's request path: authority and bearer checks, verification, quota,   *)
(* the product's policy, the body with its scope challenge, then the handlers and *)
(* the registry of active requests that notifications/cancelled reaches.  Each    *)
(* await is a step; identities, quota and registry are shared by all requests.    *)

CONSTANTS GateRequests,    \* callers, each with one request at a time
          Identities,  \* verified identities
          GateScopes,      \* OAuth scopes
          GateVerified,    \* [Identities -> scopes or grants the verifier reports]
          Key,         \* [Identities -> issuer, mapped subject and client after the policy]
          Wanted,      \* scope sets a policy may narrow to
          Tools,       \* [name, scopes] records
          Resources,   \* [name, scopes] records, named by their URI
          Templates,   \* [name, uris, scopes] records
          Prompts,     \* [name, scopes] records
          Messages,    \* bodies: [kind, target, id]
          Quota        \* requests of one identity in the window

\* RegisteredServices::new admits named, distinct definitions with nonempty scopes only.
McpGateAssumption ==
  /\ \A d \in Tools \cup Resources \cup Prompts : d.scopes \subseteq GateScopes /\ d.scopes # {}
  /\ \A d \in Templates : d.scopes \subseteq GateScopes /\ d.scopes # {}

VARIABLES revoked,  \* identities the verifier refuses by now
          used,     \* [Identities -> quota consumed]
          gateReq,      \* each caller's request
          active    \* ActiveRequests: keys and ids in use, with the caller that holds them

gateVars == <<revoked, used, gateReq, active>>

NoReply == [status |-> 0, code |-> "none", listed |-> {}]
GateIdle == [pc |-> "idle", reply |-> NoReply]

GateInit ==
  /\ revoked = {}
  /\ used = [i \in Identities |-> 0]
  /\ gateReq = [r \in GateRequests |-> GateIdle]
  /\ active = {}

(* ------------------------------ definitions ------------------------------ *)
permitted_scopes(scopes, required) == required \subseteq scopes

\* The scopes of the exact resource and of every template that matches, taken together.
gate_resource_scopes(uri) ==
  UNION ({d.scopes : d \in {d \in Resources : d.name = uri}}
         \cup {d.scopes : d \in {d \in Templates : uri \in d.uris}})

Named(set, name) == {d \in set : d.name = name}
scopes_of(set, name) == UNION {d.scopes : d \in Named(set, name)}

\* What the message asks for, or none when its target is unknown.
required_scopes(msg) ==
  CASE msg.kind = "tools/call"     -> scopes_of(Tools, msg.target)
    [] msg.kind = "resources/read" -> gate_resource_scopes(msg.target)
    [] msg.kind = "prompts/get"    -> scopes_of(Prompts, msg.target)
    [] OTHER                       -> {}

(* ----------------------------- authorize_inner --------------------------- *)
Set(r, fields) == gateReq' = [gateReq EXCEPT ![r] = fields]
Reply(status, code) == [status |-> status, code |-> code, listed |-> {}]
\* The last reply is kept with what it answered.
End(r, reply) ==
  Set(r, [pc |-> "idle", reply |-> reply, scopes |-> gateReq[r].scopes, msg |-> gateReq[r].msg])
Refuse(r, status, code) == Set(r, [pc |-> "idle", reply |-> Reply(status, code)])

\* Host, Origin and the single bearer value are checked before anything is awaited.
Arrive(r) ==
  /\ gateReq[r].pc = "idle"
  /\ \/ \E i \in Identities : Set(r, [pc |-> "verify", who |-> i, late |-> i \in revoked])
     \/ Refuse(r, 403, "invalid_host_or_origin")
     \/ Refuse(r, 401, "invalid_token")
  /\ UNCHANGED <<revoked, used, active>>

Verify(r) ==
  /\ gateReq[r].pc = "verify"
  /\ \/ gateReq[r].who \notin revoked /\ Set(r, [gateReq[r] EXCEPT !.pc = "quota"])
     \/ gateReq[r].who \in revoked /\ Refuse(r, 401, "invalid_token")
     \/ Refuse(r, 503, "identity_unavailable")
     \/ Refuse(r, 500, "identity_misconfigured")
  /\ UNCHANGED <<revoked, used, active>>

\* The store answers and consumes in one step.
CheckQuota(r) ==
  LET i == gateReq[r].who IN
  /\ gateReq[r].pc = "quota"
  /\ \/ /\ used[i] < Quota /\ used' = [used EXCEPT ![i] = @ + 1]
        /\ Set(r, [gateReq[r] EXCEPT !.pc = "policy"])
     \/ used[i] >= Quota /\ Refuse(r, 429, "rate_limited") /\ UNCHANGED used
     \/ Refuse(r, 503, "rate_limit_unavailable") /\ UNCHANGED used
  /\ UNCHANGED <<revoked, active>>

\* Principal::with_scopes: a policy narrows the verified scopes and cannot add any.
with_scopes(i, wanted) == wanted \cap GateVerified[i]

Policy(r) ==
  LET i == gateReq[r].who IN
  /\ gateReq[r].pc = "policy"
  /\ \/ \E wanted \in Wanted :
          Set(r, [pc |-> "body", who |-> i, late |-> gateReq[r].late, scopes |-> with_scopes(i, wanted)])
     \/ Refuse(r, 401, "invalid_token")
     \/ Refuse(r, 403, "policy_scope")
     \/ Refuse(r, 503, "authentication_policy_unavailable")
     \/ Refuse(r, 429, "rate_limited")
  /\ UNCHANGED <<revoked, used, active>>

Holds(k, id) == {a \in active : a.key = k /\ a.id = id}

\* Mutant: a request id is looked up without its key.
CancelById(k, id) ==
  LET hit == {a.by : a \in {a \in active : a.id = id}}
  IN [r \in GateRequests |-> IF r \in hit THEN [gateReq[r] EXCEPT !.cancelled = TRUE] ELSE gateReq[r]]

\* ActiveRequests::cancel under its lock.
cancel(k, id) ==
  LET hit == {a.by : a \in Holds(k, id)}
  IN [r \in GateRequests |-> IF r \in hit THEN [gateReq[r] EXCEPT !.cancelled = TRUE] ELSE gateReq[r]]

\* The body is read within its limit; batches end here, a cancellation is carried out
\* here, and a message whose scopes are missing is challenged here.
Body(r) ==
  \E msg \in Messages :
    /\ gateReq[r].pc = "body"
    /\ CASE msg.kind = "large" -> Refuse(r, 413, "request_too_large")
         [] msg.kind = "batch" -> Refuse(r, 400, "batch_not_supported")
         [] msg.kind = "cancelled" ->
              gateReq' = [cancel(Key[gateReq[r].who], msg.id) EXCEPT ![r] =
                            [pc |-> "idle", reply |-> Reply(202, "accepted")]]
         [] OTHER ->
              IF permitted_scopes(gateReq[r].scopes, required_scopes(msg))
              THEN Set(r, [pc |-> "handler", who |-> gateReq[r].who, late |-> gateReq[r].late,
                           scopes |-> gateReq[r].scopes, msg |-> msg, cancelled |-> FALSE])
              ELSE Refuse(r, 403, "insufficient_scope")
    /\ UNCHANGED <<revoked, used, active>>

(* -------------------------------- handlers ------------------------------- *)
Handling(r, kind) == gateReq[r].pc = "handler" /\ gateReq[r].msg.kind = kind
GateGrants(r, required) == permitted_scopes(gateReq[r].scopes, required)

\* Lists hold what the caller may use; a resource counts with its templates' scopes.
Listed(r) ==
  CASE gateReq[r].msg.kind = "tools/list"     -> {d.name : d \in {d \in Tools : GateGrants(r, d.scopes)}}
    [] gateReq[r].msg.kind = "prompts/list"   -> {d.name : d \in {d \in Prompts : GateGrants(r, d.scopes)}}
    [] gateReq[r].msg.kind = "templates/list" -> {d.name : d \in {d \in Templates : GateGrants(r, d.scopes)}}
    [] OTHER -> {d.name : d \in {d \in Resources : GateGrants(r, gate_resource_scopes(d.name))}}

GateList(r) ==
  /\ \E kind \in {"tools/list", "prompts/list", "templates/list", "resources/list"} : Handling(r, kind)
  /\ End(r, [status |-> 200, code |-> "list", listed |-> Listed(r)])
  /\ UNCHANGED <<revoked, used, active>>

\* register: an id of this key that is in use is refused, else held until the guard drops.
register(r) ==
  LET k == Key[gateReq[r].who] IN
  IF Holds(k, gateReq[r].msg.id) # {}
  THEN End(r, Reply(200, "id_active")) /\ UNCHANGED active
  ELSE /\ Set(r, [gateReq[r] EXCEPT !.pc = "running"])
       /\ active' = active \cup {[key |-> k, id |-> gateReq[r].msg.id, by |-> r]}

\* call_tool and read_resource check the definition and the scopes again, then register.
Start(r) ==
  /\ Handling(r, "tools/call") \/ Handling(r, "resources/read")
  /\ LET required == IF gateReq[r].msg.kind = "tools/call" THEN scopes_of(Tools, gateReq[r].msg.target)
                     ELSE gate_resource_scopes(gateReq[r].msg.target) IN
     IF required = {} THEN End(r, Reply(200, "unknown")) /\ UNCHANGED active
     ELSE IF ~GateGrants(r, required) THEN End(r, Reply(200, "insufficient_scope")) /\ UNCHANGED active
     ELSE register(r)
  /\ UNCHANGED <<revoked, used>>

\* get_prompt hands out no cancellation and registers nothing.
GetPrompt(r) ==
  /\ Handling(r, "prompts/get")
  /\ LET required == scopes_of(Prompts, gateReq[r].msg.target) IN
     CASE required = {}         -> End(r, Reply(200, "unknown"))
       [] ~GateGrants(r, required)  -> End(r, Reply(200, "insufficient_scope"))
       [] OTHER -> \/ End(r, Reply(200, "invalid_arguments"))
                   \/ Set(r, [gateReq[r] EXCEPT !.pc = "running"])
  /\ UNCHANGED <<revoked, used, active>>

\* Dropping the guard: the caller's entry leaves the registry.
Released(r) == {a \in active : a.by # r}

\* The service answers, with a result or an error of its own.
Finish(r) ==
  /\ gateReq[r].pc = "running"
  /\ End(r, Reply(200, "result"))
  /\ active' = Released(r)
  /\ UNCHANGED <<revoked, used>>

\* The client goes away: whatever the request was awaiting is dropped.
Disconnect(r) ==
  /\ gateReq[r].pc # "idle"
  /\ gateReq' = [gateReq EXCEPT ![r] = GateIdle]
  /\ active' = Released(r)
  /\ UNCHANGED <<revoked, used>>

GateRevoke(i) == i \notin revoked /\ revoked' = revoked \cup {i} /\ UNCHANGED <<used, gateReq, active>>

Authorize(r) == Arrive(r) \/ Verify(r) \/ CheckQuota(r) \/ Policy(r) \/ Body(r)
Handle(r) == GateList(r) \/ Start(r) \/ GetPrompt(r) \/ Finish(r)

GateNext ==
  \/ \E r \in GateRequests : Authorize(r) \/ Handle(r) \/ Disconnect(r)
  \/ \E i \in Identities : GateRevoke(i)

GateSpec == GateInit /\ [][GateNext]_gateVars

(* ------------------------------- properties ------------------------------ *)
GateTypeOK ==
  /\ revoked \subseteq Identities /\ used \in [Identities -> 0 .. Quota]
  /\ \A r \in GateRequests :
       gateReq[r].pc \in {"idle", "verify", "quota", "policy", "body", "handler", "running"}
  /\ \A a \in active : a.by \in GateRequests /\ gateReq[a.by].pc = "running"

\* A product service runs only for scopes that the identity was verified with, that the
\* policy kept, and that cover the target and every template its URI falls under.
RunsOnlyGranted ==
  \A r \in GateRequests : gateReq[r].pc = "running" =>
    LET msg == gateReq[r].msg
        required == IF msg.kind = "resources/read"
                    THEN UNION {d.scopes : d \in {d \in Resources : d.name = msg.target}
                                                 \cup {d \in Templates : msg.target \in d.uris}}
                    ELSE UNION {d.scopes : d \in {d \in Tools \cup Prompts : d.name = msg.target}}
    IN /\ required # {} /\ required \subseteq gateReq[r].scopes
       /\ gateReq[r].scopes \subseteq GateVerified[gateReq[r].who]

\* README: "returns HTTP 403 with an OAuth challenge": a missing scope is never left for
\* a handler to report inside a 200.
ChallengedAtTheGate ==
  \A r \in GateRequests :
    gateReq[r].pc = "idle" /\ gateReq[r].reply.code = "insufficient_scope" => gateReq[r].reply.status = 403

\* Discovery agrees with execution: what a list shows, the same scopes may use.
ListedIsUsable ==
  \A r \in GateRequests : (gateReq[r].pc = "idle" /\ gateReq[r].reply.code = "list") =>
    \A name \in gateReq[r].reply.listed :
      /\ \A d \in Resources : d.name = name =>
           \A e \in {d} \cup {e \in Templates : name \in e.uris} : e.scopes \subseteq gateReq[r].scopes
      /\ \A d \in Tools \cup Prompts \cup Templates : d.name = name => d.scopes \subseteq gateReq[r].scopes

\* A request that arrived after its identity was revoked never reaches a handler.
RevokedNeverHandled ==
  \A r \in GateRequests : gateReq[r].pc \in {"body", "handler", "running"} => ~gateReq[r].late

\* The registry holds exactly the running calls and reads, one per key and id: nothing
\* leaks when a client disconnects and no running request is left out.
RegistryIsExact ==
  /\ {a.by : a \in active} =
       {r \in GateRequests : gateReq[r].pc = "running" /\ gateReq[r].msg.kind # "prompts/get"}
  /\ \A a, b \in active : a.key = b.key /\ a.id = b.id => a = b

Cancels(r, s) ==
  /\ gateReq[r].pc = "running" /\ ~gateReq[r].cancelled
  /\ gateReq'[r].pc = "running" /\ gateReq'[r].cancelled
  /\ gateReq[s].pc = "body" /\ gateReq'[s].pc = "idle"

\* A running request is cancelled by its own issuer, subject and client only, with the
\* subject the policy mapped it to.
CancelledByOwnKey ==
  \A r, s \in GateRequests : Cancels(r, s) => Key[gateReq[r].who] = Key[gateReq[s].who]

\* README: "Request IDs belong to the verified issuer, subject and OAuth client": no other
\* verified identity cancels a request.
CancelledByVerifiedIdentity ==
  \A r, s \in GateRequests : Cancels(r, s) => gateReq[r].who = gateReq[s].who

-----------------------------------------------------------------------------
(* baukit-mcp's KeycloakIntrospectionPolicy: live token state behind a bounded    *)
(* cache of successful answers, one timeout around the whole decision and no      *)
(* stale fallback, while the provider revokes tokens and may fail any call.  Time *)
(* is a counter; an answer is read at the provider and used after an await.       *)

CONSTANTS IntrospectionRequests, Tokens, IntrospectionScopes,
          cache_ttl, timeout, cache_capacity,
          Exp,        \* [Tokens -> expiry the provider reports]
          Granted,    \* [Tokens -> scopes the provider reports]
          IntrospectionVerified,   \* scopes of the verified identity
          IntrospectionForeign,    \* tokens whose introspection names another subject, issuer or client
          PAT,        \* API tokens
          Revocable,  \* tokens the provider may revoke
          MaxTime     \* a bound of the model

\* KeycloakIntrospectionPolicy::new: timeout in (0, 30s], TTL in [0, 30s], capacity in [1, 4096].
McpIntrospectionAssumption ==
  /\ timeout \in 1 .. 30 /\ cache_ttl \in 0 .. 30 /\ cache_capacity \in 1 .. 4096
  /\ PAT \subseteq Tokens /\ Revocable \subseteq Tokens /\ IntrospectionForeign \subseteq Tokens

VARIABLES now,
          revokedAt,  \* [Tokens -> when the provider revoked it, or Never]
          cache,      \* a function: cached token -> [expires, scopes]
          introspectionReq         \* one record per caller, reused by its next request

introspectionVars == <<now, revokedAt, cache, introspectionReq>>

Never == MaxTime + 1
Fresh == [pc |-> "new"]

Active(t) == revokedAt[t] = Never
IntrospectionIdle(r) == introspectionReq[r].pc \in {"new", "decided"}

\* Entries past their deadline are dropped before every look.
Retained == [t \in {k \in DOMAIN cache : cache[k].expires > now} |-> cache[t]]

IntrospectionInit ==
  /\ now = 0
  /\ revokedAt = [t \in Tokens |-> Never]
  /\ cache = <<>>
  /\ introspectionReq = [r \in IntrospectionRequests |-> Fresh]

(* ------------------------------- the policy ------------------------------ *)
Decide(r, verdict, scopes) ==
  introspectionReq' = [introspectionReq EXCEPT ![r] = [pc |-> "decided", token |-> @.token, began |-> @.began,
                                                       at |-> now, verdict |-> verdict, scopes |-> scopes]]

Lifetime(t) == IF cache_ttl < Exp[t] - now THEN cache_ttl ELSE Exp[t] - now

\* A full cache gives up the entry that would expire first.
remember(t, scopes) ==
  LET kept == Retained
      oldest == CHOOSE k \in DOMAIN kept : \A j \in DOMAIN kept : kept[k].expires <= kept[j].expires
      room == IF Cardinality(DOMAIN kept) >= cache_capacity
              THEN [k \in DOMAIN kept \ {oldest} |-> kept[k]] ELSE kept
  IN IF Lifetime(t) = 0 THEN UNCHANGED cache
     ELSE cache' = (t :> [expires |-> now + Lifetime(t), scopes |-> scopes]) @@ room

\* A principal of an API token is refused before anything is asked.
RefusePAT(r, t) ==
  /\ IntrospectionIdle(r) /\ t \in PAT
  /\ introspectionReq' = [introspectionReq EXCEPT ![r] = [pc |-> "decided", token |-> t, began |-> now, at |-> now,
                                                          verdict |-> "inactive", scopes |-> {}]]
  /\ UNCHANGED <<now, revokedAt, cache>>

\* cached(): a hit is judged at once, only its expiry can have changed.
Hit(r, t) ==
  /\ IntrospectionIdle(r) /\ t \notin PAT /\ t \in DOMAIN Retained
  /\ cache' = Retained
  /\ LET live == Exp[t] > now IN
     introspectionReq' = [introspectionReq EXCEPT ![r] = [pc |-> "decided", token |-> t, began |-> now, at |-> now,
                                                          verdict |-> IF live THEN "allow" ELSE "inactive",
                                                          scopes |-> IF live THEN IntrospectionVerified \cap cache[t].scopes ELSE {}]]
  /\ UNCHANGED <<now, revokedAt>>

Miss(r, t) ==
  /\ IntrospectionIdle(r) /\ t \notin PAT /\ t \notin DOMAIN Retained
  /\ cache' = Retained
  /\ introspectionReq' = [introspectionReq EXCEPT ![r] = [pc |-> "fetching", token |-> t, began |-> now]]
  /\ UNCHANGED <<now, revokedAt>>

\* The provider reads its own state; the answer is still under way.
Introspect(r) ==
  /\ introspectionReq[r].pc = "fetching"
  /\ introspectionReq' = [introspectionReq EXCEPT ![r] = [pc |-> "answer", token |-> @.token, began |-> @.began,
                                                          active |-> Active(@.token)]]
  /\ UNCHANGED <<now, revokedAt, cache>>

Matches(t) == t \notin IntrospectionForeign

\* evaluate: active, for this subject, issuer and client, and not yet expired.
Evaluate(r) ==
  LET t == introspectionReq[r].token
      good == introspectionReq[r].active /\ Matches(t) /\ Exp[t] > now
  IN /\ introspectionReq[r].pc = "answer"
     /\ Decide(r, IF good THEN "allow" ELSE "inactive",
               IF good THEN IntrospectionVerified \cap Granted[t] ELSE {})
     /\ IF good THEN remember(t, Granted[t]) ELSE UNCHANGED cache
     /\ UNCHANGED <<now, revokedAt>>

\* No answer, an error status, an oversized or unreadable body: unavailable.
FetchFails(r) ==
  /\ introspectionReq[r].pc \in {"fetching", "answer"}
  /\ Decide(r, "unavailable", {})
  /\ UNCHANGED <<now, revokedAt, cache>>

TimeOut(r) ==
  /\ introspectionReq[r].pc \in {"fetching", "answer"} /\ now - introspectionReq[r].began >= timeout
  /\ Decide(r, "unavailable", {})
  /\ UNCHANGED <<now, revokedAt, cache>>

(* ------------------------------- environment ----------------------------- *)

\* Time does not pass a request's timer.
Tick ==
  /\ now < MaxTime
  /\ \A r \in IntrospectionRequests : introspectionReq[r].pc \in {"fetching", "answer"} => now - introspectionReq[r].began < timeout
  /\ now' = now + 1
  /\ UNCHANGED <<revokedAt, cache, introspectionReq>>

IntrospectionRevoke(t) ==
  /\ Active(t) /\ revokedAt' = [revokedAt EXCEPT ![t] = now]
  /\ UNCHANGED <<now, cache, introspectionReq>>

Decision(r) == Introspect(r) \/ Evaluate(r) \/ FetchFails(r) \/ TimeOut(r)

IntrospectionNext ==
  \/ Tick
  \/ \E t \in Revocable : IntrospectionRevoke(t)
  \/ \E r \in IntrospectionRequests : Decision(r) \/ \E t \in Tokens : RefusePAT(r, t) \/ Hit(r, t) \/ Miss(r, t)

IntrospectionSpec == IntrospectionInit /\ [][IntrospectionNext]_introspectionVars

(* ------------------------------- properties ------------------------------ *)
IntrospectionTypeOK ==
  /\ now \in 0 .. MaxTime /\ DOMAIN cache \subseteq Tokens
  /\ \A t \in DOMAIN cache : cache[t].expires \in 1 .. (MaxTime + cache_ttl)
  /\ revokedAt \in [Tokens -> 0 .. Never]
  /\ \A r \in IntrospectionRequests : introspectionReq[r].pc \in {"new", "fetching", "answer", "decided"}

Allowed(r) == introspectionReq[r].pc = "decided" /\ introspectionReq[r].verdict = "allow"

\* A revoked token is admitted no longer than the cache's lifetime plus one timeout: the
\* answer under way when it was revoked may still be stored, and nothing renews it.
RevocationBounded ==
  \A r \in IntrospectionRequests :
    Allowed(r) => introspectionReq[r].at <= revokedAt[introspectionReq[r].token] + cache_ttl + timeout

\* README: "Disable caching for per-request revocation checks": without a lifetime no
\* request that began after the revocation is admitted.
ChecksEachRequest ==
  cache_ttl = 0 => \A r \in IntrospectionRequests : Allowed(r) => introspectionReq[r].began <= revokedAt[introspectionReq[r].token]

\* Whatever the cache says, an expired, foreign or API token is refused, and the scopes
\* are never more than what identity and provider both grant.
AdmitsOnlyLiveMatching ==
  \A r \in IntrospectionRequests : Allowed(r) =>
    LET t == introspectionReq[r].token IN
    /\ introspectionReq[r].at < Exp[t] /\ t \notin IntrospectionForeign /\ t \notin PAT
    /\ introspectionReq[r].scopes = IntrospectionVerified \cap Granted[t]

\* The cache keeps to its capacity and no entry outlives its token.
CacheBounded ==
  /\ Cardinality(DOMAIN cache) <= cache_capacity
  /\ \A t \in DOMAIN cache : cache[t].expires <= Exp[t] /\ cache[t].expires - now <= cache_ttl

-----------------------------------------------------------------------------
(* baukit-mcp's registration of resources, templates and prompts and the matching  *)
(* of a URI against a template.  A product registers definitions one by one, the   *)
(* router validates them all at once, and reads are then routed by their URI.  A   *)
(* URI is the sequence of its segments; that it is absolute and that names are     *)
(* distinct as well as URIs is left out.                                           *)

CONSTANTS Segments,  \* literal segments, "" among them
          Marked,    \* segments with one of ? # { }
          Vars,      \* template variables {name}; "{" marks a malformed one
          MaxLen,    \* segments of one URI, a bound of the model
          DefinitionsGrants,    \* what a definition may require, the empty set among them
          MaxDefs    \* definitions of a product, a bound of the model

VARIABLES resources, templates,  \* what the product's services list
          definitionsStatus,                \* "open", "serving" or "refused"
          read                   \* the last URI that was routed

definitionsVars == <<resources, templates, definitionsStatus, read>>

Uris == UNION {[1 .. n -> Segments] : n \in 1 .. MaxLen}
Patterns == UNION {[1 .. n -> Segments \cup Vars] : n \in 1 .. MaxLen}

unique(values) == \A i, j \in DOMAIN values : values[i] = values[j] => i = j
validate_scopes(scopes) == scopes # {}

\* Every segment with a brace is a whole {name}, and no name comes twice.
validate_template(t) ==
  /\ \A i \in DOMAIN t : t[i] # "{"
  /\ \A i, j \in DOMAIN t : t[i] \in Vars /\ t[i] = t[j] => i = j

validate_resources ==
  /\ unique([i \in DOMAIN resources |-> resources[i].uri])
  /\ unique([i \in DOMAIN templates |-> templates[i].uri])
  /\ \A d \in ToSet(resources) : validate_scopes(d.scopes)
  /\ \A d \in ToSet(templates) : validate_scopes(d.scopes) /\ validate_template(d.uri)

\* Segment by segment, and none of the URI's may be left over.
template_matches(t, uri) ==
  /\ \A i \in DOMAIN t :
       /\ i <= Len(uri)
       /\ IF t[i] \in Vars THEN uri[i] # "" /\ uri[i] \notin Marked ELSE t[i] = uri[i]
  /\ Len(uri) <= Len(t)

definitions_resource_scopes(uri) ==
  UNION ({d.scopes : d \in {d \in ToSet(resources) : d.uri = uri}}
         \cup {d.scopes : d \in {d \in ToSet(templates) : template_matches(d.uri, uri)}})

(* --------------------------------- actions ------------------------------- *)
DefinitionsInit == resources = <<>> /\ templates = <<>> /\ definitionsStatus = "open" /\ read = <<>>

AddResource(uri, scopes) ==
  /\ definitionsStatus = "open" /\ Len(resources) + Len(templates) < MaxDefs
  /\ resources' = Append(resources, [uri |-> uri, scopes |-> scopes])
  /\ UNCHANGED <<templates, definitionsStatus, read>>

AddTemplate(t, scopes) ==
  /\ definitionsStatus = "open" /\ Len(resources) + Len(templates) < MaxDefs
  /\ templates' = Append(templates, [uri |-> t, scopes |-> scopes])
  /\ UNCHANGED <<resources, definitionsStatus, read>>

\* The router comes up with every definition valid or not at all.
Mount ==
  /\ definitionsStatus = "open"
  /\ definitionsStatus' = IF validate_resources THEN "serving" ELSE "refused"
  /\ UNCHANGED <<resources, templates, read>>

\* An unknown resource is refused; the others are read under their scopes.
Read(uri) ==
  /\ definitionsStatus = "serving" /\ definitions_resource_scopes(uri) # {}
  /\ read' = uri
  /\ UNCHANGED <<resources, templates, definitionsStatus>>

DefinitionsNext ==
  \/ \E uri \in Uris, scopes \in DefinitionsGrants : AddResource(uri, scopes)
  \/ \E t \in Patterns, scopes \in DefinitionsGrants : AddTemplate(t, scopes)
  \/ Mount
  \/ \E uri \in Uris : Read(uri)

DefinitionsSpec == DefinitionsInit /\ [][DefinitionsNext]_definitionsVars

(* ------------------------------- properties ------------------------------ *)
DefinitionsTypeOK ==
  /\ Len(resources) + Len(templates) <= MaxDefs
  /\ definitionsStatus \in {"open", "serving", "refused"} /\ (read = <<>> \/ read \in Uris)

\* A template stands for the URIs obtained by putting one clean, nonempty segment for
\* each of its variables, and for no other: never for one with more or fewer segments.
Expansions(t) ==
  {uri \in Uris : \E fill \in [Vars -> (Segments \ {""}) \ Marked] :
     uri = [i \in DOMAIN t |-> IF t[i] \in Vars THEN fill[t[i]] ELSE t[i]]}

MatchIsExpansion ==
  definitionsStatus = "serving" =>
    \A i \in DOMAIN templates : \A uri \in Uris :
      template_matches(templates[i].uri, uri) <=> uri \in Expansions(templates[i].uri)

\* Nothing is served without a grant: every URI that is read needs at least one scope,
\* and every resource the product lists can be read under its own and more.
ServedNeedsGrant ==
  /\ definitionsStatus = "serving" /\ read # <<>> =>
       \E d \in ToSet(resources) \cup ToSet(templates) : d.scopes # {}
  /\ definitionsStatus = "serving" => \A d \in ToSet(resources) : d.scopes # {} /\ d.scopes \subseteq definitions_resource_scopes(d.uri)

\* A mounted router has one definition for a URI or pattern, whatever was registered.
OneDefinitionEach ==
  definitionsStatus = "serving" =>
    /\ Cardinality({d.uri : d \in ToSet(resources)}) = Len(resources)
    /\ Cardinality({d.uri : d \in ToSet(templates)}) = Len(templates)
-----------------------------------------------------------------------------
(* baukit-mcp's list_suite_links tool: each call resolves the account, loads the   *)
(* owner's whole list, and returns the page of links after the cursor, while links *)
(* come and go between the calls and a client may cancel at any await.             *)

CONSTANTS Ids,       \* link ids: naturals, ordered as the UUIDs are
          LinkPagesForeign,   \* links of another owner that a faulty store may slip in
          PAGE_SIZE,
          MaxChanges \* links created or removed during a walk, a bound of the model

McpLinkPagesAssumption ==
  PAGE_SIZE \in Nat \ {0} /\ Ids \subseteq Nat /\ LinkPagesForeign \cap Ids = {}

VARIABLES links,   \* the owner's links
          stable,  \* links that have been there since the walk began
          call,    \* the call under way: [pc, links]
          cursor,  \* nextCursor of the last page; 0 before the first
          walk,    \* ids returned so far, page after page
          changes

linkPagesVars == <<links, stable, call, cursor, walk, changes>>

Begin == [pc |-> "resolve", links |-> {}]
Ended == [pc |-> "ended", links |-> {}]

LinkPagesInit ==
  /\ links \in SUBSET Ids
  /\ stable = links
  /\ call = Begin /\ cursor = 0 /\ walk = <<>> /\ changes = 0

\* An account that resolves to no owner, or a failing resolver, ends the call.
Resolve(found) ==
  /\ call.pc = "resolve"
  /\ call' = [call EXCEPT !.pc = IF found THEN "list" ELSE "failed"]
  /\ UNCHANGED <<links, stable, cursor, walk, changes>>

\* The store answers, with another owner's links too when it is faulty, or fails.
LinkPagesList(extra) ==
  /\ call.pc = "list"
  /\ call' = [pc |-> "page", links |-> links \cup extra]
  /\ UNCHANGED <<links, stable, cursor, walk, changes>>

ListFails ==
  /\ call.pc = "list"
  /\ call' = [call EXCEPT !.pc = "failed"]
  /\ UNCHANGED <<links, stable, cursor, walk, changes>>

After(all) == SelectSeq(SetToSortSeq(all, <), LAMBDA id : id > cursor)
next_cursor(rest) == IF Len(rest) > PAGE_SIZE THEN rest[PAGE_SIZE] ELSE 0

\* link_page: another owner's link spoils the whole answer; the last page has no cursor.
link_page ==
  LET rest == After(call.links)
      page == SubSeq(rest, 1, IF Len(rest) < PAGE_SIZE THEN Len(rest) ELSE PAGE_SIZE)
  IN /\ call.pc = "page"
     /\ IF call.links \cap LinkPagesForeign # {}
        THEN call' = [call EXCEPT !.pc = "failed"] /\ UNCHANGED <<cursor, walk>>
        ELSE /\ walk' = walk \o page
             /\ cursor' = next_cursor(rest)
             /\ call' = IF next_cursor(rest) = 0 THEN Ended ELSE Begin
     /\ UNCHANGED <<links, stable, changes>>

\* run_until_cancelled: a cancelled call returns no page, whatever it was awaiting.
Cancel ==
  /\ call.pc \in {"resolve", "list"}
  /\ call' = [call EXCEPT !.pc = "failed"]
  /\ UNCHANGED <<links, stable, cursor, walk, changes>>

\* The client asks again with the cursor it has.
Retry ==
  /\ call.pc = "failed" /\ call' = Begin
  /\ UNCHANGED <<links, stable, cursor, walk, changes>>

Grow(id) ==
  /\ id \notin links /\ changes < MaxChanges /\ call.pc # "ended"
  /\ links' = links \cup {id} /\ changes' = changes + 1
  /\ UNCHANGED <<stable, call, cursor, walk>>

Drop(id) ==
  /\ id \in links /\ changes < MaxChanges /\ call.pc # "ended"
  /\ links' = links \ {id} /\ stable' = stable \ {id} /\ changes' = changes + 1
  /\ UNCHANGED <<call, cursor, walk>>

LinkPagesNext ==
  \/ \E found \in BOOLEAN : Resolve(found)
  \/ \E extra \in SUBSET LinkPagesForeign : LinkPagesList(extra)
  \/ ListFails \/ link_page \/ Cancel \/ Retry
  \/ \E id \in Ids : Grow(id) \/ Drop(id)

LinkPagesSpec == LinkPagesInit /\ [][LinkPagesNext]_linkPagesVars

(* ------------------------------- properties ------------------------------ *)
LinkPagesTypeOK ==
  /\ links \subseteq Ids /\ stable \subseteq links /\ cursor \in {0} \cup Ids
  /\ call.pc \in {"resolve", "list", "page", "failed", "ended"}
  /\ Len(walk) <= Cardinality(Ids)

\* A complete walk shows every link that was there throughout, exactly once, and no link
\* twice, whatever came, went, failed or was cancelled between its pages.
EachLinkOnce ==
  /\ \A i, j \in DOMAIN walk : walk[i] = walk[j] => i = j
  /\ call.pc = "ended" => stable \subseteq ToSet(walk)

\* No page ever shows another owner's link.
OwnerOnly == ToSet(walk) \cap LinkPagesForeign = {}

==============================================================================
