----------------------------- MODULE SuiteServer -----------------------------
(***************************************************************************)
(* The server side of baukit-suite: its HTTP routes and limits (Http...),  *)
(* and the locks of its Postgres transactions (Locks...).                  *)
(***************************************************************************)
EXTENDS Integers, Sequences, FiniteSets, SequencesExt, TLC

-----------------------------------------------------------------------------
(* The HTTP surface of baukit-suite: what each route takes and can answer, and   *)
(* the limits on the public ones. What the services do is SuiteLink's and        *)
(* SuiteDelivery's.                                                              *)

CONSTANTS HttpLinks,            \* link ids, of which those of `Unknown` have no row
          Unknown,
          Peers, Strangers, \* registered sources and others
          UnknownLimit, LinkLimit, FailureLimit,
          Window            \* of the limiter, in half seconds

VARIABLES revoked,    \* links
          spent,      \* the limiter's keys in this window
          now,
          answer,     \* the last one, with what was asked
          asked,      \* requests of the window that named a known link, to one past its limit
          told        \* failed exchanges of the window whose failure was told
httpVars == <<revoked, spent, now, answer, asked, told>>

ServeAssumption ==
  Window \in Nat \ {0} /\ UnknownLimit \in Nat /\ LinkLimit \in Nat /\ FailureLimit \in Nat

(* The routes. `parts` are extracted in order before the service is called,     *)
(* `raises` is what it can answer besides `ok`, `documented` is the contract.   *)
Handler(parts, raises, ok, documented) ==
  [parts |-> parts, raises |-> raises \cup {"Storage"}, ok |-> ok, documented |-> documented \cup ok \cup {500, 504}]
User == {401, 403}
Body == {400, 413, 415, 422}
peers == Handler(<<"bearer">>, {}, {200}, User)
start == Handler(<<"bearer", "json">>, {"PeerUnknown", "Disabled", "ReturnUrlInvalid", "PayloadInvalid"}, {201},
                 User \cup Body \cup {404})
complete == Handler(<<"bearer", "path", "json">>,
                    {"NotFound", "CodeInvalid", "PeerUnknown", "Disabled", "AccountMismatch", "PeerUnreachable",
                     "PayloadInvalid"},
                    {201}, User \cup Body \cup {404, 409, 502})
list == Handler(<<"bearer">>, {}, {200}, User)
get == Handler(<<"bearer", "path">>, {"NotFound"}, {200}, User \cup {400, 404})
reenable == Handler(<<"bearer", "path">>, {"NotFound"}, {200}, User \cup {400, 404})
update == Handler(<<"bearer", "path", "json">>, {"NotFound", "PayloadInvalid"}, {200}, User \cup Body \cup {404})
disconnect == Handler(<<"bearer", "path">>, {"NotFound"}, {204}, User \cup {400, 404})
test == Handler(<<"bearer", "path">>, {"NotFound", "LinkRevoked", "LinkInactive", "PeerUnknown", "Disabled"}, {202},
                User \cup {400, 404, 409, 410})
replay == Handler(<<"bearer", "path", "json">>,
                  {"NotFound", "LinkRevoked", "LinkInactive", "PeerUnknown", "Disabled", "ReplayWindow", "ReplayTooSoon"},
                  {202}, User \cup Body \cup {404, 409, 410, 429})
deliveries == Handler(<<"bearer", "path">>, {"NotFound"}, {200}, User \cup {400, 404})
preview == Handler(<<"bearer", "query">>, {"PeerUnknown", "Disabled"}, {200}, User \cup {400})
authorize == Handler(<<"bearer", "json">>, {"PeerUnknown", "Disabled", "PayloadInvalid"}, {200}, User \cup Body)
deny == Handler(<<"bearer", "json">>, {"PeerUnknown", "Disabled", "PayloadInvalid"}, {200}, User \cup Body)
exchange == Handler(<<"json">>, {"PeerUnknown", "Disabled", "NotFound"}, {201}, Body \cup {403, 404, 409, 429})
callback == Handler(<<"query">>, {"CallbackInvalid"}, {303}, {400, 403, 422})
revoke == Handler(<<"path">>, {"NotFound"}, {204}, {400, 401, 403, 404, 422, 429})
http_inbound == Handler(<<"path">>,
                        {"NotFound", "PayloadInvalid", "InboundInvalid", "EventIdConflict", "QuotaExceeded", "Unavailable"},
                        {200, 202}, {400, 401, 403, 404, 410, 422, 429, 503})
router ==
  [peers |-> peers, start |-> start, complete |-> complete, list |-> list, get |-> get, reenable |-> reenable,
   update |-> update, disconnect |-> disconnect, test |-> test, replay |-> replay, deliveries |-> deliveries,
   preview |-> preview, authorize |-> authorize, deny |-> deny, callback |-> callback,
   exchange |-> exchange, revoke |-> revoke, inbound |-> http_inbound]
Limited == {"exchange", "revoke", "inbound"}

Status(error) ==
  CASE error = "NotFound" -> 404
    [] error \in {"ReturnUrlInvalid", "PeerUnknown", "CallbackInvalid"} -> 400
    [] error = "Disabled" -> 403
    [] error \in {"AccountMismatch", "LinkInactive"} -> 409
    [] error = "SignatureInvalid" -> 401
    [] error = "LinkRevoked" -> 410
    [] error = "Unavailable" -> 503
    [] error = "PeerUnreachable" -> 502
    [] error \in {"RateLimited", "ReplayTooSoon", "QuotaExceeded"} -> 429
    [] error = "Storage" -> 500
    [] OTHER -> 422
\* What a part that cannot be extracted answers. The query is Axum's own extractor,
\* whose refusal is plain text.
Refusals(part) ==
  CASE part = "bearer" -> {401}
    [] part = "json" -> Body
    [] OTHER -> {400}

HttpInit ==
  /\ revoked = {} /\ spent = <<>> /\ now = 0
  /\ answer = [route |-> "none", status |-> 200, error |-> "none", envelope |-> TRUE, retry |-> 0, of |-> "none", valid |-> FALSE]
  /\ asked = [l \in HttpLinks |-> 0] /\ told = [p \in Peers |-> 0]

Reply(route, status, error, retry, of, valid, envelope) ==
  answer' = [route |-> route, status |-> status, error |-> error, envelope |-> envelope, retry |-> retry, of |-> of,
             valid |-> valid]
Succeed(route, of, valid) == \E status \in router[route].ok : Reply(route, status, "none", 0, of, valid, TRUE)
\* The wait a product's quota or a replay's interval names is its own.
Fail(route, error, retry, of, valid) ==
  Reply(route, Status(error), error, IF error \in {"Unavailable", "ReplayTooSoon", "QuotaExceeded"} THEN Window ELSE retry,
        of, valid, TRUE)
Untouched == UNCHANGED <<revoked, spent, now, asked, told>>

\* An extractor refuses: the part it stops at decides.
Unextracted(route) ==
  \E i \in DOMAIN router[route].parts : \E status \in Refusals(router[route].parts[i]) :
    /\ Reply(route, status, "part", 0, "none", FALSE, router[route].parts[i] # "query")
    /\ Untouched
Call(route) ==
  /\ route \notin Limited
  /\ \/ Succeed(route, "none", FALSE)
     \/ \E error \in router[route].raises : Fail(route, error, 0, "none", FALSE)
  /\ Untouched

(* The limited routes.                                                          *)
Spent(key) == IF key \in DOMAIN spent THEN spent[key] ELSE 0
Allowed(key, count) == Spent(key) < count
Charge(key, count) ==
  spent' = [k \in DOMAIN spent \cup {key} |-> IF k = key /\ Allowed(key, count) THEN Spent(k) + 1 ELSE Spent(k)]
RetryAfter == (Window - now + 1) \div 2

Guesses == {"CodeInvalid", "AccountMismatch", "PayloadInvalid"}
\* Mutant: every exchange is charged, and before it runs.
LimitExchangeFirst(p, outcome) ==
  LET key == <<"exchange", p>> IN
  /\ Charge(key, FailureLimit)
  /\ \/ ~Allowed(key, FailureLimit) /\ Fail("exchange", "RateLimited", RetryAfter, p, outcome = "ok") /\ UNCHANGED told
     \/ /\ Allowed(key, FailureLimit)
        /\ IF outcome = "ok" THEN Succeed("exchange", p, TRUE) ELSE Fail("exchange", outcome, 0, p, FALSE)
        /\ told' = [told EXCEPT ![p] = IF outcome \in Guesses THEN @ + 1 ELSE @]
\* The exchange has run. A guess is charged, and past the limit not told.
LimitExchange(p, outcome) ==
  IF outcome \in Guesses /\ ~Allowed(<<"exchange", p>>, FailureLimit)
  THEN Charge(<<"exchange", p>>, FailureLimit) /\ Fail("exchange", "RateLimited", RetryAfter, p, FALSE) /\ UNCHANGED told
  ELSE /\ IF outcome = "ok" THEN Succeed("exchange", p, TRUE) ELSE Fail("exchange", outcome, 0, p, FALSE)
       /\ IF outcome \in Guesses THEN Charge(<<"exchange", p>>, FailureLimit) ELSE UNCHANGED spent
       /\ told' = [told EXCEPT ![p] = IF outcome \in Guesses THEN @ + 1 ELSE @]
Exchange(p) ==
  /\ \E outcome \in {"ok"} \cup Guesses \cup exchange.raises : LimitExchange(p, outcome)
  /\ UNCHANGED <<revoked, now, asked>>
\* A client that names no active peer has no key.
ExchangeUnknown ==
  /\ \E error \in {"PeerUnknown", "Disabled", "PayloadInvalid"} : Fail("exchange", error, 0, "none", FALSE)
  /\ Untouched

\* Empty for a source that is not registered.
Key(l, s) == IF s \notin Peers THEN <<>> ELSE IF l \in Unknown THEN <<"unknown", s>> ELSE <<"link", l>>
Limit(l) == IF l \in Unknown THEN UnknownLimit ELSE LinkLimit
Of(l) == IF l \in Unknown THEN "none" ELSE l
\* authenticate: the outcome of the signature is the caller's choice.
Authenticate(route, l, s, signed, Then) ==
  IF Key(l, s) = <<>> THEN Fail(route, "SignatureInvalid", 0, "none", FALSE) /\ UNCHANGED <<spent, asked, revoked>>
  ELSE
    /\ Charge(Key(l, s), Limit(l))
    /\ asked' = [asked EXCEPT ![l] = IF l \in Unknown \/ @ > LinkLimit THEN @ ELSE @ + 1]
    /\ CASE ~Allowed(Key(l, s), Limit(l)) ->
              Fail(route, "RateLimited", RetryAfter, Of(l), FALSE) /\ UNCHANGED revoked
         [] Allowed(Key(l, s), Limit(l)) /\ (l \in Unknown \/ ~signed) ->
              Fail(route, "SignatureInvalid", 0, Of(l), FALSE) /\ UNCHANGED revoked
         [] OTHER -> Then
Ingest(l, s, signed) ==
  /\ \/ Authenticate("inbound", l, s, signed,
          /\ IF l \in revoked THEN Fail("inbound", "LinkRevoked", 0, l, FALSE)
             ELSE \/ Succeed("inbound", l, TRUE)
                  \/ \E error \in http_inbound.raises \cup {"LinkRevoked"} : Fail("inbound", error, 0, l, FALSE)
          /\ UNCHANGED revoked)
     \* Headers that do not parse, or a body that is too large.
     \/ /\ \E error \in {"SignatureInvalid", "PayloadInvalid"} : Fail("inbound", error, 0, "none", FALSE)
        /\ UNCHANGED <<spent, asked, revoked>>
  /\ UNCHANGED <<now, told>>
\* A link that is already revoked is revoked again without a word.
RevokeFromPeer(l, s, signed) ==
  /\ \/ Authenticate("revoke", l, s, signed,
          \/ Succeed("revoke", l, TRUE) /\ revoked' = revoked \cup {l}
          \/ l \notin revoked /\ (\E error \in revoke.raises : Fail("revoke", error, 0, l, FALSE)) /\ UNCHANGED revoked)
     \/ /\ \E error \in {"SignatureInvalid", "PayloadInvalid"} : Fail("revoke", error, 0, "none", FALSE)
        /\ UNCHANGED <<spent, asked, revoked>>
  /\ UNCHANGED <<now, told>>
Pass ==
  /\ IF now + 1 = Window
     THEN now' = 0 /\ spent' = <<>> /\ asked' = [l \in HttpLinks |-> 0] /\ told' = [p \in Peers |-> 0]
     ELSE now' = now + 1 /\ UNCHANGED <<spent, asked, told>>
  /\ answer' = [answer EXCEPT !.route = "none", !.status = 200, !.error = "none", !.retry = 0] /\ UNCHANGED revoked

HttpNext ==
  \/ \E route \in DOMAIN router : Unextracted(route)
  \/ \E route \in DOMAIN router : Call(route)
  \/ \E p \in Peers : Exchange(p)
  \/ ExchangeUnknown
  \/ \E l \in HttpLinks, s \in Peers \cup Strangers, signed \in BOOLEAN : Ingest(l, s, signed)
  \/ \E l \in HttpLinks, s \in Peers \cup Strangers, signed \in BOOLEAN : RevokeFromPeer(l, s, signed)
  \/ Pass
HttpSpec == HttpInit /\ [][HttpNext]_httpVars

(* Properties.                                                                  *)
\* A route answers only with statuses its contract lists.
Documented == answer.route # "none" => answer.status \in router[answer.route].documented
\* A known link is refused for its own traffic alone, whatever is sent to unknown
\* ids, to other links or by strangers.
LinksKeepTheirBudget ==
  answer.route \in {"inbound", "revoke"} /\ answer.of # "none" /\ answer.error = "RateLimited" =>
    asked[answer.of] > LinkLimit
\* A valid code passes however many invalid ones its peer has sent.
ValidCodesPass == answer.route = "exchange" /\ answer.valid => answer.status # 429
\* No peer learns of more failed codes in a window than the limit.
GuessesAreBounded == \A p \in Peers : told[p] <= FailureLimit
\* Whatever is sent, the limiter holds no more keys than peers and links.
KeysAreBounded ==
  \A key \in DOMAIN spent : key \in {<<k, p>> : k \in {"exchange", "unknown"}, p \in Peers} \cup {<<"link", l>> : l \in HttpLinks \ Unknown}
\* A refused caller is told a wait after which its window is over.
WaitIsEnough == answer.status \in {429, 503} => answer.retry >= 1 /\ now + 2 * answer.retry >= Window

\* The contract gives every refusal the body ErrorResponse.
RefusalsAreEnvelopes == answer.status >= 400 => answer.envelope
-----------------------------------------------------------------------------
(* The lock order of the suite's PostgreSQL store: each transaction as the       *)
(* sequence of locks it takes before it writes, against every other one, the     *)
(* product's writers and the job workers. SuiteLink and SuiteDelivery say what   *)
(* the transactions do when they run alone.                                      *)

CONSTANTS Sessions,     \* database sessions, each of one transaction
          Plays,        \* which transactions a session may run
          Owners, LocksLinks, Jobs,   \* ids, ascending
          OwnerOf,      \* Links -> Owners
          LinkOf,       \* Jobs -> Links
          Existing, Queued       \* the links and running jobs there are at first

VARIABLES people,       \* owners with a product row
          links, used,  \* suite_links, and those of which something was delivered or received
          requests, codes,       \* owners with an open link request, link code
          locksInbound,      \* links with a row in suite_inbound_events
          job,          \* job_outbox and suite_failed_delivery_jobs
          tx,           \* the sessions' transactions
          holds         \* their locks
data == <<people, links, used, requests, codes, locksInbound, job>>
locksVars == <<data, tx, holds>>

LinksOf(o) == {l \in LocksLinks : OwnerOf[l] = o}
JobsOf(l) == {j \in Jobs : LinkOf[j] = l}
\* A step for every element of a set, in the order of their ids.
EachOf(verb, S) == [i \in 1..Cardinality(S) |-> <<verb, SetToSortSeq(S, <)[i]>>]

(* The transactions. A step locks the thing it names, or reads what to lock:     *)
(* own the owner's advisory lock; row, key the product's row (the foreign key's   *)
(* share of it); link, request, code a row that must be there; each, one of the   *)
(* rows a query found; job. try never waits. The rest expand.                     *)
lock_owner(o) == <<<<"own", o>>>>
try_lock_owner(o) == <<<<"try", o>>>>
account_owner_failures(o) == <<<<"links", o>>, <<"accounts", o>>>>
link_for_update(l) == lock_owner(OwnerOf[l]) \o <<<<"link", l>>, <<"account", l>>>>
update_preferences(l) == lock_owner(OwnerOf[l]) \o link_for_update(l)
refresh_failures(l) == lock_owner(OwnerOf[l]) \o <<<<"each", l>>, <<"account", l>>>>
create_request(o) == lock_owner(o) \o <<<<"key", o>>>>
create_code(o) == <<<<"key", o>>>>
code_for_update(o) == lock_owner(o) \o <<<<"code", o>>>>
request_for_owner(o) == lock_owner(o) \o <<<<"request", o>>>>
insert_link(o) == lock_owner(o) \o account_owner_failures(o) \o <<<<"key", o>>>>
complete_delivery(j) == link_for_update(LinkOf[j]) \o <<<<"job", j>>>>
enqueue_replay(l) == lock_owner(OwnerOf[l]) \o account_owner_failures(OwnerOf[l]) \o <<<<"link", l>>>>
enqueue_test(l) == enqueue_replay(l)
ingest(l) == lock_owner(OwnerOf[l]) \o <<<<"row", OwnerOf[l]>>, <<"link", l>>>>
enqueue_events(o) == try_lock_owner(o) \o account_owner_failures(o)
fence(S) == EachOf("own", S)
fenced(S) == fence(S) \o EachOf("row", S) \o enqueue_events(CHOOSE o \in S : TRUE)
unfenced(o) == <<<<"row", o>>>> \o enqueue_events(o)
erase(o) == lock_owner(o) \o <<<<"row", o>>, <<"own", o>>, <<"links", o>>, <<"jobs", o>>>>
cleanup == <<<<"sole", 0>>, <<"eligible", 0>>>>
eligible(S) == EachOf("own", S)
trigger(j) == <<<<"job", j>>>>
account(l) == EachOf("job", {j \in JobsOf(l) : job[j] = "failed"})

Plan(kind, n) ==
  CASE kind = "start" -> create_request(n)
    [] kind = "authorize" -> create_code(n)
    [] kind = "exchange" -> code_for_update(n) \o insert_link(n)
    [] kind = "complete" -> request_for_owner(n) \o insert_link(n)
    [] kind = "update" -> update_preferences(n)
    [] kind = "refresh" -> refresh_failures(n)
    [] kind = "revoke" -> link_for_update(n)
    [] kind = "deliver" -> complete_delivery(n)
    [] kind = "replay" -> enqueue_replay(n)
    [] kind = "test" -> enqueue_test(n)
    [] kind = "ingest" -> ingest(n)
    [] kind = "write" -> fenced({n})
    [] kind = "writeAll" -> fenced(Owners)
    [] kind = "writeUnfenced" -> unfenced(n)
    [] kind = "fail" -> trigger(n)
    [] kind = "cleanup" -> cleanup
    [] kind = "erase" -> erase(n)
\* What a transaction of a kind is about; the ids it starts from are read without a lock.
Targets(kind) ==
  CASE kind \in {"start", "authorize", "write", "writeUnfenced", "erase"} -> people
    [] kind = "exchange" -> codes
    [] kind = "complete" -> requests
    [] kind \in {"update", "refresh", "revoke", "replay", "test", "ingest"} -> links
    [] kind \in {"deliver", "fail"} -> {j \in Jobs : job[j] = "running"}
    [] kind \in {"cleanup", "writeAll"} -> {0}

Idle == [kind |-> "none", of |-> 0, todo |-> <<>>, took |-> {}, result |-> "none"]
Begin(s) ==
  /\ tx[s].kind = "none"
  /\ \E kind \in Plays[s] : \E n \in Targets(kind) :
       tx' = [tx EXCEPT ![s] = [Idle EXCEPT !.kind = kind, !.of = n, !.todo = Plan(kind, n), !.result = "open"]]
  /\ UNCHANGED <<data, holds>>

(* One lock or query at a time.                                                  *)
Open(s) == tx[s].result = "open"
Now(s) == Head(tx[s].todo)
Thing(step) ==
  CASE step[1] \in {"own", "try"} -> <<"own", step[2]>>
    [] step[1] \in {"row", "key"} -> <<"row", step[2]>>
    [] step[1] \in {"link", "each"} -> <<"link", step[2]>>
    [] OTHER -> step
Exists(thing) ==
  CASE thing[1] = "row" -> thing[2] \in people
    [] thing[1] = "link" -> thing[2] \in links
    [] thing[1] = "request" -> thing[2] \in requests
    [] thing[1] = "code" -> thing[2] \in codes
    [] thing[1] = "job" -> job[thing[2]] # "none"
    [] OTHER -> TRUE
Holders(thing) == {s \in Sessions : thing \in holds[s]}
Queries == {"links", "jobs", "account", "accounts", "eligible"}
Blocked(s) ==
  /\ Open(s) /\ tx[s].todo # <<>> /\ Now(s)[1] \notin Queries \cup {"try", "sole"}
  /\ Holders(Thing(Now(s))) \ {s} # {}

Leave(s, result) ==
  /\ tx' = [tx EXCEPT ![s] = [Idle EXCEPT !.kind = tx[s].kind, !.of = tx[s].of, !.result = result]]
  /\ holds' = [holds EXCEPT ![s] = {}]
Skip(s) == tx' = [tx EXCEPT ![s].todo = Tail(@)] /\ UNCHANGED holds
Acquire(s) ==
  /\ Open(s) /\ tx[s].todo # <<>> /\ Now(s)[1] \notin Queries /\ ~Blocked(s)
  /\ LET step == Now(s)
         thing == Thing(step)
     IN CASE step[1] \in {"try", "sole"} /\ Holders(thing) \ {s} # {} ->
               IF step[1] = "sole" THEN Leave(s, "skipped")
               ELSE tx' = [tx EXCEPT ![s].todo = <<>>, ![s].result = "timeout"] /\ UNCHANGED holds
          [] ~Exists(thing) /\ step[1] \in {"each", "job"} -> Skip(s)
          [] ~Exists(thing) /\ step[1] \notin {"each", "job"} -> Leave(s, "aborted")
          [] OTHER -> /\ tx' = [tx EXCEPT ![s].todo = Tail(@)]
                      /\ holds' = [holds EXCEPT ![s] = @ \cup {thing}]
  /\ UNCHANGED data
\* A query adds the locks of the rows it finds; what is found is as of now.
Query(s) ==
  /\ Open(s) /\ tx[s].todo # <<>> /\ Now(s)[1] \in Queries
  /\ LET verb == Now(s)[1]
         n == Now(s)[2]
         owned == links \cap LinksOf(n)
         due == {o \in Owners : \/ \E l \in links \cap LinksOf(o) :
                                     l \notin used \/ \E j \in JobsOf(l) : job[j] \in {"failed", "done"}}
         found == CASE verb = "links" -> EachOf("each", owned)
                    [] verb = "accounts" -> EachOf("account", owned)
                    [] verb = "account" -> account(n)
                    [] verb = "jobs" -> EachOf("job", {j \in Jobs : LinkOf[j] \in owned /\ job[j] # "none"})
                    [] verb = "eligible" -> eligible(due) \o
                         EachOf("each", {l \in links : OwnerOf[l] \in due}) \o
                         EachOf("account", {l \in links : OwnerOf[l] \in due})
         took == CASE verb = "jobs" -> {j \in Jobs : LinkOf[j] \in owned /\ job[j] # "none"}
                   [] verb = "eligible" -> due
                   [] OTHER -> tx[s].took
     IN tx' = [tx EXCEPT ![s].todo = found \o Tail(@), ![s].took = took]
  /\ UNCHANGED <<data, holds>>

(* What a transaction writes, once it has its locks.                             *)
Counted(s) == [j \in Jobs |-> IF <<"job", j>> \in holds[s] /\ job[j] = "failed" THEN "done" ELSE job[j]]
Enqueued(f, S) == {[j \in Jobs |-> IF j \in new THEN "running" ELSE f[j]] :
                     new \in {N \in SUBSET Jobs : \A l \in S :
                       IF \E j \in JobsOf(l) : f[j] = "none"
                       THEN Cardinality(N \cap JobsOf(l)) = 1 /\ \A j \in N : f[j] = "none"
                       ELSE N \cap JobsOf(l) = {}} \cap SUBSET {j \in Jobs : LinkOf[j] \in S}}
Rows(p, l, u, r, c, i, j) ==
  people' = p /\ links' = l /\ used' = u /\ requests' = r /\ codes' = c /\ locksInbound' = i /\ job' = j
Emits(s) == tx[s].kind \in {"write", "writeAll", "writeUnfenced"}
Fenced(s) == tx[s].kind \in {"write", "writeAll"}

Erased(s, o) ==
  LET gone == LinksOf(o) IN
  Rows(people \ {o}, links \ gone, used \ gone, requests \ {o}, codes \ {o}, locksInbound \ gone,
       [j \in Jobs |-> IF j \in tx[s].took THEN "none" ELSE job[j]])
\* The links to delete are chosen again under the locks.
Expired(s) == {l \in links : OwnerOf[l] \in tx[s].took /\ l \notin used}
Cleaned(s) ==
  LET gone == Expired(s) IN
  Rows(people, links \ gone, used \ gone, requests, codes, locksInbound \ gone,
       [j \in Jobs |-> IF LinkOf[j] \in gone \/ (OwnerOf[LinkOf[j]] \in tx[s].took /\ Counted(s)[j] = "done")
                       THEN "none" ELSE job[j]])
JobsAre(f) == Rows(people, links, used, requests, codes, locksInbound, f)
Requested(o) == Rows(people, links, used, requests \cup {o}, codes, locksInbound, job)
Coded(o) == Rows(people, links, used, requests, codes \cup {o}, locksInbound, job)
Exchanged(s, o) ==
  \E l \in LinksOf(o) : Rows(people, links \cup {l}, used, requests, codes \ {o}, locksInbound, Counted(s))
Completed(s, o) ==
  \E l \in LinksOf(o) : Rows(people, links \cup {l}, used, requests \ {o}, codes, locksInbound, Counted(s))
Updated(s) == JobsAre(Counted(s))
Delivered(s, j) ==
  Rows(people, links, used \cup {LinkOf[j]}, requests, codes, locksInbound, [Counted(s) EXCEPT ![j] = "done"])
QueuedFor(s, l) == \E f \in Enqueued(Counted(s), {l}) : JobsAre(f)
Received(l) == Rows(people, links, used \cup {l}, requests, codes, locksInbound \cup {l}, job)
Recorded(j) == JobsAre([job EXCEPT ![j] = IF @ = "running" THEN "failed" ELSE @])
Emitted(s) == \E f \in Enqueued(Counted(s), {l \in links : <<"link", l>> \in holds[s]}) : JobsAre(f)
Written(s) ==
  LET kind == tx[s].kind
      n == tx[s].of
  IN \/ kind = "start" /\ Requested(n)
     \/ kind = "authorize" /\ Coded(n)
     \/ kind = "exchange" /\ Exchanged(s, n)
     \/ kind = "complete" /\ Completed(s, n)
     \/ kind \in {"update", "refresh"} /\ Updated(s)
     \/ kind = "deliver" /\ Delivered(s, n)
     \/ kind \in {"replay", "test", "revoke"} /\ QueuedFor(s, n)
     \/ kind = "ingest" /\ Received(n)
     \/ kind = "fail" /\ Recorded(n)
     \/ kind = "erase" /\ Erased(s, n)
     \/ kind = "cleanup" /\ Cleaned(s)
     \/ Emits(s) /\ Emitted(s)
Lease(s) == tx[s].kind = "deliver" => job[tx[s].of] = "running"
Commit(s) ==
  /\ Open(s) /\ tx[s].todo = <<>>
  /\ IF Lease(s) THEN Written(s) /\ Leave(s, "committed") ELSE UNCHANGED data /\ Leave(s, "aborted")
\* The domain write commits without the event: the failed try left its transaction usable.
CommitUnsent(s) == /\ tx[s].result = "timeout" /\ holds[s] # {}
                   /\ holds' = [holds EXCEPT ![s] = {}]
                   /\ UNCHANGED <<data, tx>>

LocksInit ==
  /\ people = Owners /\ links = Existing /\ used = {}
  /\ requests = Owners /\ codes = Owners /\ locksInbound = {}
  /\ job = [j \in Jobs |-> IF j \in Queued THEN "running" ELSE "none"]
  /\ tx = [s \in Sessions |-> Idle] /\ holds = [s \in Sessions |-> {}]
LocksNext == \E s \in Sessions : Begin(s) \/ Acquire(s) \/ Query(s) \/ Commit(s) \/ CommitUnsent(s)
LocksSpec == LocksInit /\ [][LocksNext]_locksVars

LocksTypeOK ==
  /\ people \subseteq Owners /\ links \subseteq LocksLinks /\ used \subseteq links
  /\ requests \cup codes \subseteq Owners /\ locksInbound \subseteq LocksLinks
  /\ job \in [Jobs -> {"none", "running", "failed", "done"}]
\* No set of sessions waits for each other: the sessions that wait always wait for one that runs.
NoDeadlock ==
  \A S \in SUBSET Sessions \ {{}} :
    \E s \in S : ~(Blocked(s) /\ Holders(Thing(Now(s))) \cap (S \ {s}) # {})
\* Once an owner is erased, none of the suite's rows or jobs is about them, whatever was under way.
ErasedLeavesNothing ==
  \A o \in Owners \ people :
    /\ LinksOf(o) \cap (links \cup locksInbound) = {} /\ o \notin requests \cup codes
    /\ \A j \in Jobs : OwnerOf[LinkOf[j]] = o => job[j] = "none"
\* A writer that did not take the owner's lock first waits for no other suite transaction while
\* it holds product rows, at most for a job's worker.
EmissionWaitsForNoOwner ==
  \A s \in Sessions : tx[s].kind = "writeUnfenced" /\ Blocked(s) /\ holds[s] # {} =>
    \A t \in Holders(Thing(Now(s))) : tx[t].kind = "fail"
\* A writer that did take it loses no event to contention.
FencedWritesEmit == \A s \in Sessions : Fenced(s) => tx[s].result # "timeout"
\* Cleanup deletes no link that something was delivered through or received from meanwhile.
CleanupSparesUsed == \A l \in used \ used' : OwnerOf[l] \notin people'

==============================================================================
