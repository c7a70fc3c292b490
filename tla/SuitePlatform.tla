---------------------------- MODULE SuitePlatform ----------------------------
(***************************************************************************)
(* What a product holds of the platform in baukit-suite: the plan cache    *)
(* (Plan...), the hub's access tokens (Hub...) and the keys that sign      *)
(* tickets (Ticket...).                                                    *)
(***************************************************************************)
EXTENDS Integers, FiniteSets

-----------------------------------------------------------------------------
(* One account's plan in a product of the suite: the cached snapshot, the    *)
(* reads through it (Entitlements::current, HubAccountPlan::refresh), and    *)
(* the hub's entitlements.changed notifications, each pulled before and      *)
(* applied inside its receipt transaction (baukit-suite platform/cache.rs,   *)
(* plan.rs, postgres.rs, receiver.rs).                                       *)

CONSTANTS PlanCallers, Workers, Bodies,
          Life, FreeLife,          \* lifetime of a ticket and of a free answer
          MaxRev, PlanMaxTime, PlanMaxFaults, MaxForgets, MaxPurges,   \* bounds
          None, Denied

VARIABLES planNow,
          planHub,        \* [rev, known]: the hub's record of the account
          planCache,      \* None, or the stored snapshot [rev, free, until]
          flight,     \* the lock the flights map names for the account, 0: none
          planCall,       \* requests reading the plan
          work,       \* deliveries being received
          receipts,   \* event |-> body of its committed receipt, or None
          acked,      \* event |-> bodies answered 204 (history)
          applied,    \* the newest revision of a committed event (history)
          planLeft        \* remaining faults, erasures and receipt purges

planVars == <<planNow, planHub, planCache, flight, planCall, work, receipts, acked, applied, planLeft>>

Events == 1..MaxRev
Locks == 1..Cardinality(PlanCallers)
Snapshots == [rev: 0..MaxRev, free: BOOLEAN, until: 0..(PlanMaxTime + Life + FreeLife)]

PlanAssumption ==
  /\ IsFiniteSet(PlanCallers) /\ MaxRev \in Nat /\ PlanMaxTime \in Nat
  /\ Life \in Nat \ {0} /\ FreeLife \in Nat \ {0}
  /\ None \notin Bodies \cup Snapshots \cup {Denied} /\ Denied \notin Snapshots

IdleCall == [pc |-> "idle", at |-> 0, lock |-> 0, rev |-> 0, floor |-> 0, ans |-> None]
IdleWork == [pc |-> "idle", ev |-> 0, body |-> None, rev |-> 0, ans |-> None]
Holding == {"locked", "missed again", "asking", "answered", "stored"}
MaxOf(a, b) == IF a > b THEN a ELSE b

PlanInit ==
  /\ planNow = 0
  /\ planHub = [rev |-> 0, known |-> TRUE]
  /\ planCache = None
  /\ flight = 0
  /\ planCall = [c \in PlanCallers |-> IdleCall]
  /\ work = [w \in Workers |-> IdleWork]
  /\ receipts = [e \in Events |-> None]
  /\ acked = [e \in Events |-> {}]
  /\ applied = 0
  /\ planLeft = [fault |-> PlanMaxFaults, forget |-> MaxForgets, purge |-> MaxPurges]

Revision == IF planCache = None THEN 0 ELSE planCache.rev
Hit(at) == planCache # None /\ at < planCache.until

\* EntitlementCache::store, an older or shorter-lived snapshot changes nothing.
Newer(s) ==
  \/ planCache = None
  \/ s.rev > planCache.rev
  \/ s.rev = planCache.rev /\ s.until > planCache.until
Stored(s) == IF Newer(s) THEN s ELSE planCache

\* What a pull that asked with revision r at time at makes of the hub's answer.
Free(r, at) == [rev |-> r, free |-> TRUE, until |-> at + FreeLife]
Pulled(ans, r, at) == IF ans = Denied THEN Free(r, at) ELSE ans
Usable(ans, r, at) == Pulled(ans, r, at).rev >= r

\* The hub answers from a replica that may lag, or knows no such account.
Answers ==
  IF planHub.known
  THEN {[rev |-> r, free |-> FALSE, until |-> planNow + Life] : r \in 0..planHub.rev}
  ELSE {Denied}

PlanSet(c, r) == planCall' = [planCall EXCEPT ![c] = r]
PlanStep(c, pc) == PlanSet(c, [planCall[c] EXCEPT !.pc = pc])
SetWork(w, r) == work' = [work EXCEPT ![w] = r]

(* Entitlements::current *)
Current(c) ==
  /\ planCall[c].pc \in {"idle", "done"}
  /\ PlanSet(c, [IdleCall EXCEPT !.at = planNow, !.floor = applied,
                                 !.pc = IF Hit(planNow) THEN "done" ELSE "missed",
                                 !.ans = IF Hit(planNow) THEN planCache ELSE None])
  /\ UNCHANGED <<planNow, planHub, planCache, flight, work, receipts, acked, applied, planLeft>>

\* The map keeps a weak reference: an entry lives while a request holds it.
Alive(l) == \E c \in PlanCallers : planCall[c].lock = l
Join(c) ==
  /\ planCall[c].pc = "missed"
  /\ LET l == IF flight # 0 /\ Alive(flight) THEN flight
              ELSE CHOOSE k \in Locks : ~Alive(k)
     IN /\ flight' = l
        /\ PlanSet(c, [planCall[c] EXCEPT !.pc = "waiting", !.lock = l])
  /\ UNCHANGED <<planNow, planHub, planCache, work, receipts, acked, applied, planLeft>>

PlanLock(c) ==
  /\ planCall[c].pc = "waiting"
  /\ \A d \in PlanCallers : planCall[d].lock = planCall[c].lock => planCall[d].pc \notin Holding
  /\ PlanStep(c, "locked")
  /\ UNCHANGED <<planNow, planHub, planCache, flight, work, receipts, acked, applied, planLeft>>

\* The guard and the lock go when the function returns.
PlanReturn(c, ans) == PlanSet(c, [planCall[c] EXCEPT !.pc = "done", !.lock = 0, !.ans = ans])

Recheck(c) ==
  /\ planCall[c].pc = "locked"
  /\ IF Hit(planCall[c].at) THEN PlanReturn(c, planCache) ELSE PlanStep(c, "missed again")
  /\ UNCHANGED <<planNow, planHub, planCache, flight, work, receipts, acked, applied, planLeft>>

ReadRevision(c) ==
  /\ planCall[c].pc = "missed again"
  /\ PlanSet(c, [planCall[c] EXCEPT !.pc = "asking", !.rev = Revision])
  /\ UNCHANGED <<planNow, planHub, planCache, flight, work, receipts, acked, applied, planLeft>>

HubAnswers(c) ==
  /\ planCall[c].pc = "asking"
  /\ \E a \in Answers : PlanSet(c, [planCall[c] EXCEPT !.pc = "answered", !.ans = a])
  /\ UNCHANGED <<planNow, planHub, planCache, flight, work, receipts, acked, applied, planLeft>>

Store(c) ==
  /\ planCall[c].pc = "answered"
  /\ LET k == planCall[c]  s == Pulled(k.ans, k.rev, k.at)
     IN IF Usable(k.ans, k.rev, k.at) /\ s.until > k.at
        THEN planCache' = Stored(s) /\ PlanStep(c, "stored")
        ELSE PlanReturn(c, Denied) /\ UNCHANGED planCache
  /\ UNCHANGED <<planNow, planHub, flight, work, receipts, acked, applied, planLeft>>

\* The store may have lost to an event, or the row may have been erased.
ReadBack(c) ==
  /\ planCall[c].pc = "stored"
  /\ PlanReturn(c, IF Hit(planCall[c].at) THEN planCache ELSE Denied)
  /\ UNCHANGED <<planNow, planHub, planCache, flight, work, receipts, acked, applied, planLeft>>

\* The pull fails, or the request is dropped at an await.
GiveUp(c) ==
  /\ planCall[c].pc \notin {"idle", "done"}
  /\ planLeft.fault > 0
  /\ planLeft' = [planLeft EXCEPT !.fault = @ - 1]
  /\ PlanReturn(c, Denied)
  /\ UNCHANGED <<planNow, planHub, planCache, flight, work, receipts, acked, applied>>

(* HubAccountPlan::refresh: a fresh ticket is stored and served as it is.    *)
Refresh(c) ==
  /\ planCall[c].pc \in {"idle", "done"}
  /\ PlanSet(c, [IdleCall EXCEPT !.at = planNow, !.pc = "refreshing"])
  /\ UNCHANGED <<planNow, planHub, planCache, flight, work, receipts, acked, applied, planLeft>>

Refreshed(c) ==
  /\ planCall[c].pc = "refreshing"
  /\ \E a \in Answers :
       /\ planCache' = IF a = Denied THEN planCache ELSE Stored(a)
       /\ PlanReturn(c, Pulled(a, Revision, planNow))
  /\ UNCHANGED <<planNow, planHub, flight, work, receipts, acked, applied, planLeft>>

(* PlatformReceiver and PostgresPlatformInbox::receive *)
Acknowledge(e, b) == acked' = [acked EXCEPT ![e] = @ \cup {b}]

\* A receipt that exists settles the delivery: 204, or 409 for another body.
Settle(w, e, b) ==
  /\ SetWork(w, IdleWork)
  /\ IF receipts[e] = b THEN Acknowledge(e, b) ELSE UNCHANGED acked

Deliver(w, e, b) ==
  /\ work[w].pc = "idle"
  /\ e <= planHub.rev
  /\ IF receipts[e] # None
     THEN Settle(w, e, b)
     ELSE /\ SetWork(w, [IdleWork EXCEPT !.pc = "new", !.ev = e, !.body = b])
          /\ UNCHANGED acked
  /\ UNCHANGED <<planNow, planHub, planCache, flight, planCall, receipts, applied, planLeft>>

\* EntitlementEventHandler::prepare_at, before the transaction opens.
Prepare(w) ==
  /\ work[w].pc = "new"
  /\ SetWork(w, [work[w] EXCEPT !.pc = "asking", !.rev = MaxOf(Revision, work[w].ev)])
  /\ UNCHANGED <<planNow, planHub, planCache, flight, planCall, receipts, acked, applied, planLeft>>

Prepared(w) ==
  /\ work[w].pc = "asking"
  /\ \E a \in Answers :
       IF Usable(a, work[w].rev, planNow)
       THEN SetWork(w, [work[w] EXCEPT !.pc = "prepared", !.ans = Pulled(a, work[w].rev, planNow)])
       ELSE SetWork(w, IdleWork)
  /\ UNCHANGED <<planNow, planHub, planCache, flight, planCall, receipts, acked, applied, planLeft>>

\* The receipt and the snapshot commit together; a lost race settles instead.
Commit(w) ==
  /\ work[w].pc = "prepared"
  /\ LET e == work[w].ev
         b == work[w].body
     IN IF receipts[e] # None
        THEN Settle(w, e, b) /\ UNCHANGED <<planCache, receipts, applied>>
        ELSE /\ receipts' = [receipts EXCEPT ![e] = b]
             /\ planCache' = Stored(work[w].ans)
             /\ applied' = MaxOf(applied, e)
             /\ Acknowledge(e, b)
             /\ SetWork(w, IdleWork)
  /\ UNCHANGED <<planNow, planHub, flight, planCall, planLeft>>

\* The pull or the transaction fails, or the process stops: nothing committed.
Abort(w) ==
  /\ work[w].pc # "idle"
  /\ planLeft.fault > 0
  /\ planLeft' = [planLeft EXCEPT !.fault = @ - 1]
  /\ SetWork(w, IdleWork)
  /\ UNCHANGED <<planNow, planHub, planCache, flight, planCall, receipts, acked, applied>>

\* purge_received_before: an old receipt is forgotten.
Purge(e) ==
  /\ receipts[e] # None
  /\ planLeft.purge > 0
  /\ planLeft' = [planLeft EXCEPT !.purge = @ - 1]
  /\ receipts' = [receipts EXCEPT ![e] = None]
  /\ acked' = [acked EXCEPT ![e] = {}]
  /\ UNCHANGED <<planNow, planHub, planCache, flight, planCall, work, applied>>

\* EntitlementCache::forget, in the account's erasure.
Forget ==
  /\ planLeft.forget > 0
  /\ planLeft' = [planLeft EXCEPT !.forget = @ - 1]
  /\ planCache' = None
  /\ applied' = 0
  /\ planCall' = [c \in PlanCallers |-> [planCall[c] EXCEPT !.floor = 0]]
  /\ UNCHANGED <<planNow, planHub, flight, work, receipts, acked>>

(* The hub changes the plan or the account's standing; time passes.          *)
Change ==
  /\ planHub.rev < MaxRev
  /\ planHub' = [planHub EXCEPT !.rev = @ + 1]
  /\ UNCHANGED <<planNow, planCache, flight, planCall, work, receipts, acked, applied, planLeft>>

Standing ==
  /\ planHub' = [planHub EXCEPT !.known = ~@]
  /\ UNCHANGED <<planNow, planCache, flight, planCall, work, receipts, acked, applied, planLeft>>

PlanTick ==
  /\ planNow < PlanMaxTime
  /\ planNow' = planNow + 1
  /\ UNCHANGED <<planHub, planCache, flight, planCall, work, receipts, acked, applied, planLeft>>

CallStep(c) ==
  \/ Join(c) \/ PlanLock(c) \/ Recheck(c) \/ ReadRevision(c) \/ HubAnswers(c)
  \/ Store(c) \/ ReadBack(c) \/ Refreshed(c)

PlanNext ==
  \/ \E c \in PlanCallers : Current(c) \/ Refresh(c) \/ CallStep(c) \/ GiveUp(c)
  \/ \E w \in Workers : \/ \E e \in Events, b \in Bodies : Deliver(w, e, b)
                        \/ Prepare(w) \/ Prepared(w) \/ Commit(w) \/ Abort(w)
  \/ \E e \in Events : Purge(e)
  \/ Forget \/ Change \/ Standing \/ PlanTick

PlanSpec == PlanInit /\ [][PlanNext]_planVars

PlanTypeOK ==
  /\ planNow \in 0..PlanMaxTime
  /\ planCache \in Snapshots \cup {None}
  /\ flight \in Locks \cup {0}
  /\ planCall \in [PlanCallers -> [pc: Holding \cup {"idle", "missed", "waiting", "refreshing", "done"},
                                   at: 0..PlanMaxTime, lock: Locks \cup {0}, rev: 0..MaxRev,
                                   floor: 0..MaxRev, ans: Snapshots \cup {None, Denied}]]
  /\ work \in [Workers -> [pc: {"idle", "new", "asking", "prepared"}, ev: 0..MaxRev,
                           body: Bodies \cup {None}, rev: 0..MaxRev,
                           ans: Snapshots \cup {None}]]
  /\ receipts \in [Events -> Bodies \cup {None}]
  /\ acked \in [Events -> SUBSET Bodies]

\* A committed notification is in force: unless the account was erased since,
\* the cached revision is at least that of every receipt's event, whatever
\* pulls, refreshes and other deliveries were in flight (cache.rs, the
\* retained revision cursor and store's ordering).
ReceiptInForce == applied > 0 => planCache # None /\ planCache.rev >= applied

\* A read that began after a notification was committed never serves an older
\* plan, nor one that had expired when the read began (Entitlements::current).
ServedIsCurrent ==
  \A c \in PlanCallers :
    LET k == planCall[c]
    IN k.pc = "done" /\ k.ans \notin {None, Denied} =>
         k.ans.rev >= k.floor /\ k.ans.until > k.at

\* Concurrent reads of one account share one pull: no two requests hold a
\* flight at once although the map drops idle locks (cache.rs, flights).
OnePull == Cardinality({c \in PlanCallers : planCall[c].pc \in Holding}) <= 1

\* One event ID is acknowledged for one body only, whichever of two racing
\* deliveries commits first (postgres.rs, the insert inside the transaction).
OneBodyAcknowledged == \A e \in Events : Cardinality(acked[e]) <= 1

\* No step replaces a snapshot by an older or shorter-lived one; only an
\* erasure removes it.
CacheNeverRegresses ==
  planCache # None /\ planCache' # None =>
    \/ planCache'.rev > planCache.rev
    \/ planCache'.rev = planCache.rev /\ planCache'.until >= planCache.until

-----------------------------------------------------------------------------
(* HubClient's service token: requests of one product to the hub share a     *)
(* cached client-credentials token, renew it before its expiry under a lock  *)
(* held across the token request, and after a 401 drop it and try once more  *)
(* (baukit-suite platform/hub.rs). Tokens are numbered as the hub issues     *)
(* them.                                                                     *)

CONSTANTS HubCallers,
          Lifetime, Margin,               \* expires_in and TOKEN_REFRESH_MARGIN
          Deadline,                       \* of one HTTP exchange
          HubMaxTime, MaxTokens, HubMaxCalls, HubMaxFaults, MaxRevocations,   \* bounds
          Answer, Unauthorized, Unavailable, Refused

VARIABLES hubNow,
          hub,       \* [issued, expires: token |-> time, revoked: set of tokens]
          hubCache,     \* None or [token, refreshAt]
          hubLock,      \* the request that holds the cache's mutex, or None
          hubCall,      \* the requests
          refused,   \* tokens the hub answered 401 to (history)
          hubLeft       \* remaining calls, faults and revocations

hubVars == <<hubNow, hub, hubCache, hubLock, hubCall, refused, hubLeft>>

Tokens == 1..MaxTokens
Outcomes == {None, Answer, Unauthorized, Unavailable, Refused}
HubTokens == [token: Tokens, refreshAt: 0..(HubMaxTime + Lifetime)]

HubAssumption ==
  /\ Lifetime \in Nat \ {0} /\ Margin \in Nat /\ Deadline \in Nat
  /\ HubMaxTime \in Nat /\ MaxTokens \in Nat
  /\ HubMaxCalls \in Nat /\ HubMaxFaults \in Nat /\ MaxRevocations \in Nat
  /\ None \notin HubCallers \cup HubTokens

\* first: the newest token when this call's first 401 arrived (history)
HubIdle == [pc |-> "idle", token |-> 0, refreshed |-> FALSE, asked |-> 0,
            sent |-> 0, first |-> 0, out |-> None]

HubInit ==
  /\ hubNow = 0
  /\ hub = [issued |-> 0, expires |-> [t \in Tokens |-> 0], revoked |-> {}]
  /\ hubCache = None
  /\ hubLock = None
  /\ hubCall = [c \in HubCallers |-> HubIdle]
  /\ refused = {}
  /\ hubLeft = [call |-> HubMaxCalls, fault |-> HubMaxFaults, revoke |-> MaxRevocations]

HubSet(c, r) == hubCall' = [hubCall EXCEPT ![c] = r]
Finish(c, out) == HubSet(c, [hubCall[c] EXCEPT !.pc = "done", !.out = out])
Valid(t) == t \notin hub.revoked /\ hubNow < hub.expires[t]
Half == Lifetime \div 2
Early == IF Margin < Half THEN Margin ELSE Half

\* get_json, post_json: the call asks for a token.
HubBegin(c) ==
  /\ hubCall[c].pc \in {"idle", "done"}
  /\ hubLeft.call > 0
  /\ hubLeft' = [hubLeft EXCEPT !.call = @ - 1]
  /\ HubSet(c, [HubIdle EXCEPT !.pc = "token"])
  /\ UNCHANGED <<hubNow, hub, hubCache, hubLock, refused>>

\* token: a cached token that need not be renewed is used; otherwise the lock
\* stays held while a new one is requested.
Token(c) ==
  /\ hubCall[c].pc = "token"
  /\ hubLock = None
  /\ IF hubCache # None /\ hubNow < hubCache.refreshAt
     THEN /\ HubSet(c, [hubCall[c] EXCEPT !.pc = "send", !.token = hubCache.token, !.asked = hubNow])
          /\ UNCHANGED hubLock
     ELSE HubSet(c, [hubCall[c] EXCEPT !.pc = "requesting", !.asked = hubNow]) /\ hubLock' = c
  /\ UNCHANGED <<hubNow, hub, hubCache, refused, hubLeft>>

\* The token endpoint issues a token.
Issue(c) ==
  /\ hubCall[c].pc = "requesting"
  /\ hub.issued < MaxTokens
  /\ LET t == hub.issued + 1
     IN /\ hub' = [hub EXCEPT !.issued = t, !.expires[t] = hubNow + Lifetime]
        /\ HubSet(c, [hubCall[c] EXCEPT !.pc = "issued", !.token = t])
  /\ UNCHANGED <<hubNow, hubCache, hubLock, refused, hubLeft>>

\* Its answer arrives: cached with a refresh time counted from the request.
Receive(c) ==
  /\ hubCall[c].pc = "issued"
  /\ hubCache' = [token |-> hubCall[c].token, refreshAt |-> hubCall[c].asked + Lifetime - Early]
  /\ hubLock' = None
  /\ HubSet(c, [hubCall[c] EXCEPT !.pc = "send", !.asked = hubNow])
  /\ UNCHANGED <<hubNow, hub, refused, hubLeft>>

\* The endpoint refuses or fails, its answer is lost or invalid, or the request
\* is dropped: the guard goes, the cache is as it was.
NoToken(c) ==
  /\ hubCall[c].pc \in {"requesting", "issued"}
  /\ hubLeft.fault > 0
  /\ hubLeft' = [hubLeft EXCEPT !.fault = @ - 1]
  /\ hubLock' = None
  /\ \E o \in {Unauthorized, Unavailable} : Finish(c, o)
  /\ UNCHANGED <<hubNow, hub, hubCache, refused>>

\* The hub sees the request.
Arrive(c) ==
  /\ hubCall[c].pc = "send"
  /\ HubSet(c, [hubCall[c] EXCEPT !.pc = IF Valid(hubCall[c].token) THEN "accepted" ELSE "refused",
                                  !.sent = @ + 1])
  /\ refused' = IF Valid(hubCall[c].token) THEN refused ELSE refused \cup {hubCall[c].token}
  /\ UNCHANGED <<hubNow, hub, hubCache, hubLock, hubLeft>>

HubAccepted(c) ==
  /\ hubCall[c].pc = "accepted"
  /\ \E o \in {Answer, Refused} : Finish(c, o)
  /\ UNCHANGED <<hubNow, hub, hubCache, hubLock, refused, hubLeft>>

\* Whatever is cached is dropped.
RefusalDropsAny(c) ==
  /\ hubCall[c].pc = "refused"
  /\ IF hubCall[c].refreshed
     THEN Finish(c, Unauthorized) /\ UNCHANGED hubCache
     ELSE /\ hubLock = None
          /\ hubCache' = None
          /\ HubSet(c, [hubCall[c] EXCEPT !.pc = "token", !.refreshed = TRUE, !.first = hub.issued])
  /\ UNCHANGED <<hubNow, hub, hubLock, refused, hubLeft>>
\* send: the first 401 drops the token, if it is still the cached one, and
\* starts over; the second is final.
Refusal(c) ==
  /\ hubCall[c].pc = "refused"
  /\ IF hubCall[c].refreshed
     THEN Finish(c, Unauthorized) /\ UNCHANGED hubCache
     ELSE /\ hubLock = None
          /\ hubCache' = IF hubCache # None /\ hubCache.token = hubCall[c].token THEN None ELSE hubCache
          /\ HubSet(c, [hubCall[c] EXCEPT !.pc = "token", !.refreshed = TRUE, !.first = hub.issued])
  /\ UNCHANGED <<hubNow, hub, hubLock, refused, hubLeft>>

\* A timeout, a 5xx or a 429 (classify), or a dropped request.
Fail(c) ==
  /\ hubCall[c].pc \in {"token", "send", "accepted", "refused"}
  /\ hubLeft.fault > 0
  /\ hubLeft' = [hubLeft EXCEPT !.fault = @ - 1]
  /\ Finish(c, Unavailable)
  /\ UNCHANGED <<hubNow, hub, hubCache, hubLock, refused>>

\* The hub revokes what it has issued, for instance with its signing key.
Revoke ==
  /\ hubLeft.revoke > 0
  /\ hubLeft' = [hubLeft EXCEPT !.revoke = @ - 1]
  /\ hub' = [hub EXCEPT !.revoked = 1..hub.issued]
  /\ UNCHANGED <<hubNow, hubCache, hubLock, hubCall, refused>>

\* An exchange ends, or fails, within the egress client's deadline.
HubTick ==
  /\ hubNow < HubMaxTime
  /\ \A c \in HubCallers :
       hubCall[c].pc \in {"requesting", "issued", "send"} => hubNow < hubCall[c].asked + Deadline
  /\ hubNow' = hubNow + 1
  /\ UNCHANGED <<hub, hubCache, hubLock, hubCall, refused, hubLeft>>

HubStep(c) == Token(c) \/ Issue(c) \/ Receive(c) \/ Arrive(c) \/ HubAccepted(c) \/ Refusal(c)

HubNext ==
  \/ \E c \in HubCallers : HubBegin(c) \/ HubStep(c) \/ NoToken(c) \/ Fail(c)
  \/ Revoke
  \/ HubTick

HubSpec == HubInit /\ [][HubNext]_hubVars

HubTypeOK ==
  /\ hubCache \in HubTokens \cup {None}
  /\ hubLock \in HubCallers \cup {None}
  /\ hubCall \in [HubCallers -> [pc: {"idle", "token", "requesting", "issued", "send",
                                      "accepted", "refused", "done"},
                                 token: 0..MaxTokens, refreshed: BOOLEAN, asked: 0..HubMaxTime,
                                 sent: 0..2, first: 0..MaxTokens, out: Outcomes]]
  /\ refused \subseteq Tokens

\* One token request serves concurrent callers: none starts while another runs
\* (the comment on HubClient, hub.rs).
OneTokenRequest ==
  Cardinality({c \in HubCallers : hubCall[c].pc \in {"requesting", "issued"}}) <= 1

\* A token taken from the cache has not expired at the hub, however long its
\* own answer was under way (refresh_at counts from the request).
TakenUnexpired ==
  \A c \in HubCallers :
    hubCall[c].pc = "token" /\ hubCall'[c].pc = "send" => hubNow < hub.expires[hubCall'[c].token]

\* Only a token the hub refused is dropped: a late 401 of an older token never
\* throws away its successor (invalidate's pointer comparison).
OnlyRefusedDropped == hubCache # None /\ hubCache' = None => hubCache.token \in refused

\* As long as the hub revokes nothing, no request reaches it with an expired
\* token: the margin, or half of a short lifetime, covers an exchange.
ExpiryIsAvoided == hubLeft.revoke = MaxRevocations => refused = {}

\* HubError::Unauthorized for an API request "returned 401 again with a freshly
\* issued token": the second token was issued after the first refusal.
UnauthorizedIsFresh ==
  \A c \in HubCallers :
    hubCall[c].pc = "refused" /\ hubCall[c].refreshed => hubCall[c].token > hubCall[c].first

-----------------------------------------------------------------------------
(* TicketVerifier: a product verifies the hub's signed tickets offline with  *)
(* the hub's published keys, which it caches for a TTL and refetches under a *)
(* lock, with a cool-down for unknown key IDs and for failed fetches         *)
(* (baukit-suite platform/tickets.rs). The hub rotates its keys meanwhile.   *)

CONSTANTS TicketCallers, Keys, Claims,
          Forged,                          \* a key the hub never had
          Ttl, Cooldown,                   \* JWKS_TTL and REFRESH_COOLDOWN
          TicketMaxTime, TicketMaxCalls, TicketMaxFaults, MaxRotations,   \* bounds
          TicketAccepted, Invalid, Expired, WrongAudience, KeysUnavailable

Never == 0 - Ttl - Cooldown

VARIABLES ticketNow,
          published,  \* the keys the hub publishes
          since,      \* key |-> when it was published last, Never: not yet
          until,      \* key |-> when it was last withdrawn, or Never
          ticketCache,      \* [keys, fetched, attempted, unknown]
          ticketLock,       \* the caller holding the refresh lock, or None
          ticketCall,
          attempts,   \* time |-> fetches begun then (history)
          failed,     \* when a fetch last failed (history)
          ticketLeft

ticketVars == <<ticketNow, published, since, until, ticketCache, ticketLock, ticketCall, attempts, failed, ticketLeft>>

TicketAssumption ==
  /\ Claims \subseteq {"good", "bad", "expired", "foreign"}
  /\ Ttl \in Nat /\ Cooldown \in Nat \ {0} /\ TicketMaxTime \in Nat
  /\ None \notin TicketCallers /\ Forged \notin Keys
  /\ TicketAccepted \notin {None, Invalid, Expired, WrongAudience, KeysUnavailable}
  /\ Invalid \notin {None, KeysUnavailable}

\* A ticket: its key, and what its claims are at the time the call began.
TicketIdle == [pc |-> "idle", key |-> None, claims |-> "good", out |-> None]

TicketInit ==
  /\ ticketNow = 0
  /\ \E k \in Keys : /\ published = {k}
                     /\ since = [j \in Keys |-> IF j = k THEN 0 ELSE Never]
  /\ until = [k \in Keys |-> Never]
  /\ ticketCache = [keys |-> {}, fetched |-> Never, attempted |-> Never, unknown |-> Never]
  /\ ticketLock = None
  /\ ticketCall = [c \in TicketCallers |-> TicketIdle]
  /\ attempts = [t \in 0..TicketMaxTime |-> 0]
  /\ failed = Never
  /\ ticketLeft = [call |-> TicketMaxCalls, fault |-> TicketMaxFaults, rotate |-> MaxRotations]

TicketSet(c, r) == ticketCall' = [ticketCall EXCEPT ![c] = r]
Fresh == ticketNow - ticketCache.fetched < Ttl
Cached(k) == Fresh /\ k \in ticketCache.keys

\* ParsedTicket::verify and verify_claims with the key found for the ticket;
\* the time is the one the call began with.
Verdict(k) ==
  CASE k.key = Forged \/ k.claims = "bad" -> Invalid
    [] k.claims = "expired" -> Expired
    [] k.claims = "foreign" -> WrongAudience
    [] OTHER -> TicketAccepted

TicketReturn(c, out) == TicketSet(c, [TicketIdle EXCEPT !.pc = "done", !.out = out])
Unlock(c) == ticketLock' = IF ticketLock = c THEN None ELSE ticketLock

TicketBegin(c) ==
  /\ ticketCall[c].pc \in {"idle", "done"}
  /\ ticketLeft.call > 0
  /\ ticketLeft' = [ticketLeft EXCEPT !.call = @ - 1]
  /\ \E k \in {j \in Keys : since[j] # Never} \cup {Forged}, cl \in Claims :
       TicketSet(c, [TicketIdle EXCEPT !.pc = "first", !.key = k, !.claims = cl])
  /\ UNCHANGED <<ticketNow, published, since, until, ticketCache, ticketLock, attempts, failed>>

First(c) ==
  /\ ticketCall[c].pc = "first"
  /\ IF Cached(ticketCall[c].key)
     THEN TicketReturn(c, Verdict(ticketCall[c]))
     ELSE TicketSet(c, [ticketCall[c] EXCEPT !.pc = "waiting"])
  /\ UNCHANGED <<ticketNow, published, since, until, ticketCache, ticketLock, attempts, failed, ticketLeft>>

TicketLock(c) ==
  /\ ticketCall[c].pc = "waiting"
  /\ ticketLock = None
  /\ IF Cached(ticketCall[c].key)
     THEN TicketReturn(c, Verdict(ticketCall[c])) /\ UNCHANGED ticketLock
     ELSE TicketSet(c, [ticketCall[c] EXCEPT !.pc = "missed"]) /\ ticketLock' = c
  /\ UNCHANGED <<ticketNow, published, since, until, ticketCache, attempts, failed, ticketLeft>>

\* The cool-downs: an unknown key while the cached set is fresh, a failed fetch
\* once it is not.
Attempt(c) ==
  /\ ticketCall[c].pc = "missed"
  /\ IF ticketNow - (IF Fresh THEN ticketCache.unknown ELSE ticketCache.attempted) < Cooldown
     THEN /\ TicketReturn(c, IF Fresh THEN Invalid ELSE KeysUnavailable)
          /\ Unlock(c)
          /\ UNCHANGED <<ticketCache, attempts>>
     ELSE /\ ticketCache' = [ticketCache EXCEPT !.attempted = ticketNow, !.unknown = IF Fresh THEN ticketNow ELSE @]
          /\ attempts' = [attempts EXCEPT ![ticketNow] = @ + 1]
          /\ TicketSet(c, [ticketCall[c] EXCEPT !.pc = "fetching"])
          /\ UNCHANGED ticketLock
  /\ UNCHANGED <<ticketNow, published, since, until, failed, ticketLeft>>

Fetched(c) ==
  /\ ticketCall[c].pc = "fetching"
  /\ ticketCache' = [ticketCache EXCEPT !.keys = published, !.fetched = ticketNow]
  /\ TicketReturn(c, IF ticketCall[c].key \in published THEN Verdict(ticketCall[c]) ELSE Invalid)
  /\ Unlock(c)
  /\ UNCHANGED <<ticketNow, published, since, until, attempts, failed, ticketLeft>>

\* The hub does not answer, or answers something that is no key set; or the
\* request is dropped at the fetch.
FetchFails(c) ==
  /\ ticketCall[c].pc = "fetching"
  /\ ticketLeft.fault > 0
  /\ ticketLeft' = [ticketLeft EXCEPT !.fault = @ - 1]
  /\ failed' = ticketNow
  /\ TicketReturn(c, KeysUnavailable)
  /\ Unlock(c)
  /\ UNCHANGED <<ticketNow, published, since, until, ticketCache, attempts>>

\* The hub publishes a key, or withdraws one.
Rotate(k) ==
  /\ ticketLeft.rotate > 0
  /\ ticketLeft' = [ticketLeft EXCEPT !.rotate = @ - 1]
  /\ IF k \in published
     THEN published' = published \ {k} /\ until' = [until EXCEPT ![k] = ticketNow] /\ UNCHANGED since
     ELSE published' = published \cup {k} /\ since' = [since EXCEPT ![k] = ticketNow] /\ UNCHANGED until
  /\ UNCHANGED <<ticketNow, ticketCache, ticketLock, ticketCall, attempts, failed>>

TicketTick ==
  /\ ticketNow < TicketMaxTime
  /\ ticketNow' = ticketNow + 1
  /\ UNCHANGED <<published, since, until, ticketCache, ticketLock, ticketCall, attempts, failed, ticketLeft>>

TicketStep(c) == First(c) \/ TicketLock(c) \/ Attempt(c) \/ Fetched(c)

TicketNext ==
  \/ \E c \in TicketCallers : TicketBegin(c) \/ TicketStep(c) \/ FetchFails(c)
  \/ \E k \in Keys : Rotate(k)
  \/ TicketTick

TicketSpec == TicketInit /\ [][TicketNext]_ticketVars

Times == Never..TicketMaxTime
Outs == {TicketAccepted, Invalid, Expired, WrongAudience, KeysUnavailable}
TicketTypeOK ==
  /\ published \subseteq Keys
  /\ ticketCache \in [keys: SUBSET Keys, fetched: Times, attempted: Times, unknown: Times]
  /\ ticketLock \in TicketCallers \cup {None}
  /\ ticketCall \in [TicketCallers -> [pc: {"idle", "first", "waiting", "missed", "fetching", "done"},
                                       key: Keys \cup {Forged, None}, claims: Claims \cup {"good"},
                                       out: Outs \cup {None}]]

\* A withdrawn key verifies nothing once the key TTL has passed, whatever
\* fetches failed since (cached_key's elapsed check).
WithdrawnKeysEnd ==
  \A c \in TicketCallers :
    ticketCall'[c].out = TicketAccepted /\ ticketCall[c].pc # "done" /\ ticketCall'[c].pc = "done" =>
      ticketCall[c].key \in published \/ ticketNow - until[ticketCall[c].key] < Ttl

\* A good ticket of a key the hub has published for a whole cool-down is never
\* called invalid, unless a fetch failed meanwhile: somebody's unknown key ID
\* cannot keep a rotated key out.
RotatedKeyAccepted ==
  \A c \in TicketCallers :
    ticketCall[c].pc # "done" /\ ticketCall'[c].pc = "done" /\ ticketCall'[c].out = Invalid =>
      \/ Verdict(ticketCall[c]) = Invalid
      \/ ticketCall[c].key \notin published
      \/ ticketNow - since[ticketCall[c].key] < Cooldown
      \/ ticketNow - failed < Cooldown

\* The fetches begun, each with its number among those of its time, up to three.
Begun == {f \in (0..TicketMaxTime) \X (1..3) : f[2] <= attempts[f[1]]}

\* Whatever key IDs the callers present, at most two fetches begin within one
\* cool-down: one for the expired set, one for an unknown key.
FetchesBounded ==
  \A t \in 0..TicketMaxTime :
    Cardinality({f \in Begun : t - Cooldown < f[1] /\ f[1] <= t}) <= 2

==============================================================================
