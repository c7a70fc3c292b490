------------------------------ MODULE SuiteLink ------------------------------
(***************************************************************************)
(* The link protocol of baukit-suite for one user of two apps: the         *)
(* initiator "i" (LinkService::start, complete) and the authorizer "a"     *)
(* (authorize, exchange).  A completion is two transactions around a       *)
(* remote exchange that may time out, be retried, be executed late, or be  *)
(* cut off by a crash; either side may disconnect, and revoke jobs and     *)
(* deliveries run in between.  An expired request or code is refused       *)
(* without effect, so expiry is the choice to refuse one.  The number of a *)
(* prepared exchange stands for the link id and for the secret drawn then. *)
(***************************************************************************)
EXTENDS Naturals, FiniteSets

CONSTANTS Requests,     \* link requests the user may start
          Codes,        \* authorization codes the peer may issue
          Completers,   \* concurrent `complete` calls
          Senders,      \* the sides that send events to their peer
          MaxLinks,     \* links a side may hold (bound of the model)
          NoRequest     \* the request of a code that was never issued

LinkAssumption == Senders \subseteq {"i", "a"} /\ MaxLinks \in Nat \ {0} /\ NoRequest \notin Requests

VARIABLES request,   \* suite_link_requests of the initiator
          code,      \* suite_link_codes of the authorizer
          link,      \* suite_links of each side
          revoke,    \* the suite.links.revoke job of each link
          delivery,  \* a suite.events.deliver job of each link
          call,      \* the `complete` calls being served
          late,      \* exchange requests the initiator gave up on
          prepared,  \* prepared exchanges so far: the last id and secret
          returned   \* links that completions of a request have returned
vars == <<request, code, link, revoke, delivery, call, late, prepared, returned>>

Sides == {"i", "a"}
Peer(s) == IF s = "i" THEN "a" ELSE "i"
Ids == 1 .. MaxLinks
NoLink == [status |-> "none", remote |-> 0, secret |-> 0]
Idle == [at |-> "idle"]
Usable(s) == {l \in Ids : link[s][l].status \in {"active", "needs_attention"}}
Known(s, l) == l # 0 /\ link[s][l].status # "none"

(* A started request is superseded by the next start, which also forgets   *)
(* its prepared exchange.                                                  *)
Supersede(q) == IF q.status = "open" THEN [q EXCEPT !.status = "consumed", !.exchange = 0] ELSE q

Init == /\ request = [r \in Requests |-> [status |-> "none", exchange |-> 0, link |-> 0]]
        /\ code = [c \in Codes |-> [request |-> NoRequest, consumed |-> FALSE, link |-> 0]]
        /\ link = [s \in Sides |-> [l \in Ids |-> NoLink]]
        /\ revoke = [s \in Sides |-> [l \in Ids |-> "none"]]
        /\ delivery = [s \in Sides |-> [l \in Ids |-> "none"]]
        /\ call = [p \in Completers |-> Idle]
        /\ late = {} /\ prepared = 0
        /\ returned = [r \in Requests |-> {}]

Start(r) ==
    /\ request[r].status = "none"
    /\ request' = [q \in Requests |-> IF q = r THEN [request[r] EXCEPT !.status = "open"]
                                      ELSE Supersede(request[q])]
    /\ UNCHANGED <<code, link, revoke, delivery, call, late, prepared, returned>>

(* The peer's user approves: a code bound to the request's PKCE challenge. *)
Authorize(c, r) ==
    /\ code[c].request = NoRequest /\ request[r].status # "none"
    /\ code' = [code EXCEPT ![c].request = r]
    /\ UNCHANGED <<request, link, revoke, delivery, call, late, prepared, returned>>

Consume(q, l) == [q EXCEPT !.status = "consumed", !.exchange = 0, !.link = l]

(* A consumed request answers with its recorded link unless that link was  *)
(* revoked since.                                                          *)
Return(r, l) == returned' = [returned EXCEPT ![r] = @ \cup
                                IF link["i"][l].status = "revoked" THEN {} ELSE {l}]
ReturnExisting(p, r) ==
    /\ request[r].status = "consumed"
    /\ IF request[r].link = 0 THEN UNCHANGED returned ELSE Return(r, request[r].link)
    /\ call' = [call EXCEPT ![p] = Idle]
    /\ UNCHANGED <<request, code, link, revoke, delivery, late, prepared>>

PrepareExchange(p, r, c) ==
    /\ call[p] = Idle /\ code[c].request # NoRequest
    /\ request[r].status = "open"
    /\ LET fresh == request[r].exchange = 0
           id == IF fresh THEN prepared + 1 ELSE request[r].exchange
       IN /\ id <= MaxLinks
          /\ prepared' = IF fresh THEN id ELSE prepared
          /\ request' = [request EXCEPT ![r].exchange = id]
          /\ call' = [call EXCEPT ![p] = [at |-> "exchange", request |-> r, code |-> c,
                                          id |-> id, secret |-> id, retried |-> FALSE]]
    /\ UNCHANGED <<code, link, revoke, delivery, late, returned>>
CompleteAgain(p, r) == call[p] = Idle /\ ReturnExisting(p, r)

NewLink(remote, secret) == [status |-> "active", remote |-> remote, secret |-> secret]
Revoked(row) == [row EXCEPT !.status = "revoked"]
QueueReplay(s, l) == delivery' = IF s \in Senders THEN [delivery EXCEPT ![s][l] = "pending"] ELSE delivery
QueueRevokes(s, ls) == revoke' = [revoke EXCEPT ![s] = [k \in Ids |-> IF k \in ls THEN "pending" ELSE @[k]]]

Replace(s, l, row) ==
    /\ link' = [link EXCEPT ![s] = [k \in Ids |-> IF k = l THEN row
                                        ELSE IF k \in Usable(s) THEN Revoked(@[k])
                                        ELSE @[k]]]
    /\ QueueRevokes(s, Usable(s)) /\ QueueReplay(s, l)

(* The authorizer's transaction for one exchange request x, and its        *)
(* answer: a link id, or 0 for suite_code_invalid.                         *)
ValidExchange(x) == code[x.code].request = x.request
Existing(x) == code[x.code].consumed
               /\ link["a"][code[x.code].link].remote = x.id
NextAuthorizerId == Cardinality({l \in Ids : Known("a", l)}) + 1
ConsumeCode(c, l) == [c EXCEPT !.consumed = TRUE, !.link = l]
ExchangeCreates(x) ==
    /\ ValidExchange(x) /\ ~code[x.code].consumed /\ NextAuthorizerId <= MaxLinks
    /\ Replace("a", NextAuthorizerId, NewLink(x.id, x.secret))
    /\ code' = [code EXCEPT ![x.code] = ConsumeCode(@, NextAuthorizerId)]
ExchangeKeeps(x) ==
    /\ ~ValidExchange(x) \/ code[x.code].consumed
    /\ UNCHANGED <<link, revoke, delivery, code>>
Answer(x) == IF ~ValidExchange(x) THEN 0
             ELSE IF ~code[x.code].consumed THEN NextAuthorizerId
             ELSE IF Existing(x) THEN code[x.code].link ELSE 0

(* What the initiator does with the answer of its exchange call.           *)
Answered(p, answer) ==
    call' = [call EXCEPT ![p] = IF answer = 0 THEN Idle
                 ELSE [at |-> "commit", request |-> @.request, id |-> @.id,
                       secret |-> @.secret, remote |-> answer]]
(* A timed-out exchange is retried once, then the completion fails.        *)
TimedOut(p) == call' = [call EXCEPT ![p] = IF @.retried THEN Idle ELSE [@ EXCEPT !.retried = TRUE]]

Message(p) == [request |-> call[p].request, code |-> call[p].code,
               id |-> call[p].id, secret |-> call[p].secret]
Exchange(p) ==
    /\ call[p].at = "exchange"
    /\ \/ /\ ExchangeCreates(Message(p)) \/ ExchangeKeeps(Message(p))
          /\ Answered(p, Answer(Message(p))) \/ TimedOut(p)
          /\ UNCHANGED late
       \/ /\ late' \in {late, late \cup {Message(p)}}        \* refused as expired, or not served yet
          /\ IF late' = late THEN Answered(p, 0) ELSE TimedOut(p)
          /\ UNCHANGED <<code, link, revoke, delivery>>
    /\ UNCHANGED <<request, prepared, returned>>
LateExchange(x) ==
    /\ ExchangeCreates(x) \/ ExchangeKeeps(x)
    /\ late' = late \ {x}
    /\ UNCHANGED <<request, call, prepared, returned>>

\* Mutant: the exchanged link is recorded although its request is gone.
RecordUnchecked(p) ==
    LET r == call[p].request  l == call[p].id IN
    /\ Replace("i", l, NewLink(call[p].remote, call[p].secret))
    /\ request' = [request EXCEPT ![r] = Consume(@, l)]
    /\ returned' = [returned EXCEPT ![r] = @ \cup {l}]
    /\ call' = [call EXCEPT ![p] = Idle]
    /\ UNCHANGED <<code, late, prepared>>
RecordLink(p) ==
    LET r == call[p].request  l == call[p].id IN
    /\ request[r].status = "open"
    /\ Replace("i", l, NewLink(call[p].remote, call[p].secret))
    /\ request' = [request EXCEPT ![r] = Consume(@, l)]
    /\ returned' = [returned EXCEPT ![r] = @ \cup {l}]
    /\ call' = [call EXCEPT ![p] = Idle]
    /\ UNCHANGED <<code, late, prepared>>
Commit(p) == call[p].at = "commit" /\ (RecordLink(p) \/ ReturnExisting(p, call[p].request))

(* The initiator's process dies, or its client gives up, between the steps *)
(* of a completion.                                                        *)
Crash(p) == /\ call[p] # Idle /\ call' = [call EXCEPT ![p] = Idle]
            /\ UNCHANGED <<request, code, link, revoke, delivery, late, prepared, returned>>

\* Mutant: a disconnected link's peer is never told.
DisconnectHere(s, l) ==
    /\ l \in Usable(s)
    /\ link' = [link EXCEPT ![s][l] = Revoked(@)]
    /\ UNCHANGED <<request, code, revoke, delivery, call, late, prepared, returned>>
Disconnect(s, l) ==
    /\ l \in Usable(s)
    /\ link' = [link EXCEPT ![s][l] = Revoked(@)]
    /\ QueueRevokes(s, {l})
    /\ UNCHANGED <<request, code, delivery, call, late, prepared, returned>>

RevokeFromPeer(s, l) == [link EXCEPT ![s][l] = Revoked(@)]

(* The revoke job signs a revoke for the remote link: a peer that does not *)
(* know it answers 401, which fails the job for good.                      *)
RevokePeer(s, l) ==
    /\ revoke[s][l] = "pending"
    /\ LET remote == link[s][l].remote IN
       \E heard, answered \in BOOLEAN :
         /\ link' = IF heard /\ Known(Peer(s), remote) THEN RevokeFromPeer(Peer(s), remote) ELSE link
         /\ revoke' = [revoke EXCEPT ![s][l] =
                IF ~(heard /\ answered) THEN "pending"                 \* timed out: tried again
                ELSE IF Known(Peer(s), remote) THEN "done" ELSE "failed"]
    /\ UNCHANGED <<request, code, delivery, call, late, prepared, returned>>

Emit(s, l) ==
    /\ s \in Senders /\ link[s][l].status = "active" /\ delivery[s][l] = "none"
    /\ delivery' = [delivery EXCEPT ![s][l] = "pending"]
    /\ UNCHANGED <<request, code, link, revoke, call, late, prepared, returned>>

PeerAction(peer) == CASE peer = "none" -> "unauthorized"
                      [] peer = "revoked" -> "revoked"
                      [] OTHER -> "delivered"

(* A delivery reads its link, calls the peer outside any transaction, and  *)
(* records the answer: 2xx, 401 for an unknown link, 410 for a revoked one.*)
Deliver(s, l) ==
    /\ delivery[s][l] = "pending"
    /\ LET peer == IF Known(Peer(s), link[s][l].remote) THEN link[Peer(s)][link[s][l].remote].status ELSE "none" IN
       delivery' = [delivery EXCEPT ![s][l] = IF link[s][l].status = "revoked" THEN "none" ELSE PeerAction(peer)]
    /\ UNCHANGED <<request, code, link, revoke, call, late, prepared, returned>>
AfterDelivery(status, action) ==
    IF status = "revoked" THEN status
    ELSE IF action = "unauthorized" THEN "needs_attention"
    ELSE IF action = "revoked" THEN "revoked" ELSE status
RecordDelivery(s, l) ==
    /\ delivery[s][l] \in {"delivered", "unauthorized", "revoked"}
    /\ link' = [link EXCEPT ![s][l].status = AfterDelivery(@, delivery[s][l])]
    /\ delivery' = [delivery EXCEPT ![s][l] = "none"]
    /\ UNCHANGED <<request, code, revoke, call, late, prepared, returned>>

Next == \/ \E r \in Requests : Start(r) \/ \E c \in Codes : Authorize(c, r)
        \/ \E p \in Completers, r \in Requests :
              CompleteAgain(p, r) \/ \E c \in Codes : PrepareExchange(p, r, c)
        \/ \E p \in Completers : Exchange(p) \/ Commit(p) \/ Crash(p)
        \/ \E x \in late : LateExchange(x)
        \/ \E s \in Sides, l \in Ids : \/ Disconnect(s, l) \/ RevokePeer(s, l) \/ Emit(s, l)
                                       \/ Deliver(s, l) \/ RecordDelivery(s, l)
Spec == Init /\ [][Next]_vars

(* The revoke job is retried until the peer answers.                       *)
RevokeAnswered(s, l) == RevokePeer(s, l) /\ revoke'[s][l] # "pending"
-----------------------------------------------------------------------------
TypeOK ==
    /\ request \in [Requests -> [status : {"none", "open", "consumed"}, exchange : 0 .. MaxLinks,
                                 link : 0 .. MaxLinks]]
    /\ code \in [Codes -> [request : Requests \cup {NoRequest}, consumed : BOOLEAN, link : 0 .. MaxLinks]]
    /\ link \in [Sides -> [Ids -> [status : {"none", "active", "needs_attention", "revoked"},
                                   remote : 0 .. MaxLinks, secret : 0 .. MaxLinks]]]
    /\ revoke \in [Sides -> [Ids -> {"none", "pending", "done", "failed"}]]
    /\ delivery \in [Sides -> [Ids -> {"none", "pending", "delivered", "unauthorized", "revoked"}]]
    /\ prepared \in 0 .. MaxLinks /\ returned \in [Requests -> SUBSET Ids]

(* However completions, late exchanges and restarts interleave, a side has *)
(* at most one usable link with the peer (the partial unique index of      *)
(* suite_links never refuses an insert).                                   *)
OneUsableLink == \A s \in Sides : Cardinality(Usable(s)) <= 1

(* A link the initiator recorded is the one its peer holds under the       *)
(* remote id: each names the other and both seal the same secret.          *)
PairsAgree == \A l \in Ids : Known("i", l) =>
    LET remote == link["i"][l].remote IN
    /\ Known("a", remote)
    /\ link["a"][remote].remote = l /\ link["a"][remote].secret = link["i"][l].secret

(* Every completion of a request that succeeds, retried after a lost       *)
(* answer or run twice at once, returns the same link.                     *)
RetriesReturnOneLink == \A r \in Requests : Cardinality(returned[r]) <= 1

(* A request that a later start superseded never produces a link, not even *)
(* for a completion whose exchange was already under way.                  *)
SupersededStaysDead ==
  \A r \in Requests : request[r].status = "consumed" => request'[r] = request[r]

(* A revoked link is never usable again: a delivery whose answer was read  *)
(* before the revocation does not revive it when it is recorded.           *)
RevokedIsFinal ==
  \A s \in Sides, l \in Ids : link[s][l].status = "revoked" => link'[s][l].status = "revoked"

(* Disconnecting or replacing a link on the initiator ends it at the peer, *)
(* as long as no request was approved twice.                               *)
OneCodeEach == \A c, d \in Codes : code[c].request = code[d].request => c = d \/ code[c].request = NoRequest
(* A usable link of the initiator is revoked by its user, by the link that *)
(* replaces it, or by the peer's link it names, and by no other link.      *)
RevokedByItsPeer ==
  \A l \in Usable("i") : link'["i"][l].status = "revoked" =>
     revoke'["i"][l] = "pending" \/ link["a"][link["i"][l].remote].status = "revoked"

(* "Reconnect revokes the old link on both sides": once the authorizer's   *)
(* revoke job has ended, the initiator's link is not usable.               *)
AuthorizerRevokeArrives == \A l \in Ids :
    revoke["a"][l] \in {"done", "failed"} =>
        \A k \in Usable("i") : link["i"][k].remote # l

(* A link both sides recorded and nobody revoked delivers both ways: its   *)
(* initial replay cannot already have turned it to needs_attention.        *)
RecordedLinkDelivers == \A l \in Usable("i") :
    link["a"][link["i"][l].remote].status # "needs_attention"
==============================================================================
