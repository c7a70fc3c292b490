-------------------------------- MODULE Push ---------------------------------
(***************************************************************************)
(* baukit-push: the device registry's transactions (Registry...), and      *)
(* sending with the polling of receipts (Delivery...).                     *)
(***************************************************************************)
EXTENDS Naturals, Sequences, FiniteSets, SequencesExt

-----------------------------------------------------------------------------
(* The PostgreSQL device registry of baukit-push: which tokens belong to      *)
(* which owner (crates/baukit-push/src/postgres.rs).                          *)
(* register and rotate are transactions of several statements that run under  *)
(* an advisory lock of the owner; unregister, invalidate and erase are single *)
(* statements. A statement that meets a row another transaction has changed   *)
(* waits for it, and then sees the committed row.                             *)

CONSTANTS Owners, Tokens, Clients, NoToken, NoOwner,
          DevicesPerOwner,   \* the cap of with_devices_per_owner
          RegistryMaxTime            \* bound: the last instant of the clock

CapIsPositive == DevicesPerOwner \in Nat \ {0}
NoneIsNoValue == NoToken \notin Tokens /\ NoOwner \notin Owners

VARIABLES
  device,    \* the committed rows: token -> owner and last_registered_at
  tx,        \* the transaction of each client
  registryNow
registryVars == <<device, tx, registryNow>>

Times == 0..RegistryMaxTime
NoRow == [owner |-> NoOwner, last |-> 0]
Row == {NoRow} \cup [owner: Owners, last: Times]
NoTx == [step |-> "none", owner |-> NoOwner, previous |-> NoToken,
         token |-> NoToken, at |-> 0, writes |-> {}, rows |-> [t \in Tokens |-> NoRow],
         victims |-> {}]
Steps == {"none", "begin", "locked", "removed", "upserted", "read", "evicted"}

\* What a transaction sees: its own writes over the committed rows.
Sees(c, t) == IF t \in tx[c].writes THEN tx[c].rows[t] ELSE device[t]
HeldByOthers(c) == UNION {tx[d].writes : d \in Clients \ {c}}
Held == UNION {tx[d].writes : d \in Clients}
OwnedDevices(o) == {t \in Tokens : device[t].owner = o}

RegistryTypeOK ==
  /\ device \in [Tokens -> Row]
  /\ tx \in [Clients -> [step: Steps, owner: Owners \cup {NoOwner},
                         previous: Tokens \cup {NoToken}, token: Tokens \cup {NoToken},
                         at: Times, writes: SUBSET Tokens, rows: [Tokens -> Row],
                         victims: SUBSET Tokens]]
  /\ registryNow \in Times

RegistryInit ==
  /\ device = [t \in Tokens |-> NoRow]
  /\ tx = [c \in Clients |-> NoTx]
  /\ registryNow = 0

Tick == registryNow < RegistryMaxTime /\ registryNow' = registryNow + 1 /\ UNCHANGED <<device, tx>>

\* A request reads the clock, then asks for a connection and the owner's lock.
\* A rotation names the token before; register has none, and a rotation to
\* the same token is a plain registration.
Begin(c, o, t, previous) ==
  /\ tx[c].step = "none" /\ previous # t
  /\ tx' = [tx EXCEPT ![c] = [NoTx EXCEPT !.step = "begin", !.owner = o,
                                !.token = t, !.previous = previous, !.at = registryNow]]
  /\ UNCHANGED <<device, registryNow>>

LockOwner(c) ==
  /\ tx[c].step = "begin"
  /\ \A d \in Clients \ {c} : tx[d].owner = tx[c].owner => tx[d].step \in {"none", "begin"}
  /\ tx' = [tx EXCEPT ![c].step = "locked"]
  /\ UNCHANGED <<device, registryNow>>

\* DELETE ... WHERE owner_id = $1 AND token = previous.
DeletePrevious(c) ==
  LET x == tx[c]  mine == x.previous # NoToken /\ device[x.previous].owner = x.owner
  IN /\ x.step = "locked"
     /\ mine => x.previous \notin HeldByOthers(c)
     /\ tx' = [tx EXCEPT ![c].step = "removed",
                         ![c].writes = IF mine THEN {x.previous} ELSE {}]
     /\ UNCHANGED <<device, registryNow>>

\* Mutant: a late registration moves the row back in time.
LatestOverwrites(row, x) == x.at

Latest(row, x) == IF row.owner = x.owner /\ row.last > x.at THEN row.last ELSE x.at
Upsert(c) ==
  LET x == tx[c]
  IN /\ x.step = "removed" /\ x.token \notin HeldByOthers(c)
     /\ tx' = [tx EXCEPT ![c].step = "upserted", ![c].writes = @ \cup {x.token},
                         ![c].rows[x.token] =
                            [owner |-> x.owner, last |-> Latest(Sees(c, x.token), x)]]
     /\ UNCHANGED <<device, registryNow>>

Others(c) == {t \in Tokens \ {tx[c].token} : Sees(c, t).owner = tx[c].owner}
Victims(c) ==
  {v \in SUBSET Others(c) :
     /\ Cardinality(Others(c) \ v) = IF Cardinality(Others(c)) < DevicesPerOwner
                                       THEN Cardinality(Others(c)) ELSE DevicesPerOwner - 1
     /\ \A gone \in v, kept \in Others(c) \ v : Sees(c, gone).last <= Sees(c, kept).last}
SelectVictims(c) ==
  /\ tx[c].step = "upserted"
  /\ \E v \in Victims(c) : tx' = [tx EXCEPT ![c].step = "read", ![c].victims = v]
  /\ UNCHANGED <<device, registryNow>>

\* The delete waits for rows others hold and checks their owner again.
Evict(c) ==
  LET x == tx[c]
      gone == {t \in x.victims : Sees(c, t).owner = x.owner}
  IN /\ x.step = "read" /\ x.victims \cap HeldByOthers(c) = {}
     /\ tx' = [tx EXCEPT ![c].step = "evicted", ![c].writes = @ \cup gone,
                         ![c].rows = [t \in Tokens |-> IF t \in gone THEN NoRow ELSE @[t]]]
     /\ UNCHANGED <<device, registryNow>>

Commit(c) ==
  /\ tx[c].step = "evicted"
  /\ device' = [t \in Tokens |-> Sees(c, t)]
  /\ tx' = [tx EXCEPT ![c] = NoTx]
  /\ UNCHANGED registryNow

\* A failed statement, a lost connection or PostgreSQL's deadlock detection.
Abort(c) ==
  /\ tx[c].step # "none"
  /\ tx' = [tx EXCEPT ![c] = NoTx]
  /\ UNCHANGED <<device, registryNow>>

\* One DELETE statement over the rows that match, once no one holds them.
Delete(rows) ==
  /\ rows \cap Held = {}
  /\ device' = [t \in Tokens |-> IF t \in rows THEN NoRow ELSE device[t]]

Unregister(o, t) ==
  /\ device[t].owner = o /\ Delete({t})
  /\ UNCHANGED <<tx, registryNow>>
EraseOwner(o) ==
  /\ OwnedDevices(o) # {} /\ Delete(OwnedDevices(o))
  /\ UNCHANGED <<tx, registryNow>>

\* The verdict of a send at an earlier instant; it may come at any time.
Invalidate(t, sent) ==
  /\ device[t] # NoRow /\ device[t].last <= sent /\ Delete({t})
  /\ UNCHANGED <<tx, registryNow>>

RegistryNext ==
  \/ Tick
  \/ \E c \in Clients :
       \/ \E o \in Owners, t \in Tokens, p \in Tokens \cup {NoToken} : Begin(c, o, t, p)
       \/ LockOwner(c) \/ DeletePrevious(c) \/ Upsert(c) \/ SelectVictims(c)
       \/ Evict(c) \/ Commit(c) \/ Abort(c)
  \/ \E o \in Owners : EraseOwner(o) \/ \E t \in Tokens : Unregister(o, t)
  \/ \E t \in Tokens, sent \in 0..registryNow : Invalidate(t, sent)
RegistrySpec == RegistryInit /\ [][RegistryNext]_registryVars

\* Concurrent registrations of one owner cannot overshoot the cap, also when
\* tokens move between owners at the same time (README.md of baukit-push).
CapHolds == \A o \in Owners : Cardinality(OwnedDevices(o)) <= DevicesPerOwner

\* The device a transaction registers is its owner's when it commits, even
\* when its instant is older than the owner's other devices.
RegisteredIsKept ==
  \A c \in Clients : tx[c].step = "evicted" /\ tx'[c] = NoTx /\ device' # device
    => device'[tx[c].token].owner = tx[c].owner

\* Replacing a token the owner holds never costs the owner another device.
RotationEvictsNobody ==
  \A c \in Clients : tx[c].previous \in tx[c].writes => tx[c].victims = {}

\* A registration may be committed after a later one of the same owner; the
\* row keeps the later instant, so a dead-token verdict of a send between the
\* two spares the device.
StaleRegistrationKeepsInstant ==
  \A t \in Tokens : device'[t].owner = device[t].owner => device'[t].last >= device[t].last

-----------------------------------------------------------------------------
(* One owner's scheduled push of baukit-push: workers claim the day, send in  *)
(* chunks and record what the provider only accepted; pollers read the        *)
(* receipts later, remove the tokens the provider found dead and settle the   *)
(* tickets. Workers and pollers may stop at any step.                         *)

CONSTANTS DeliveryDevices,     \* the tokens the owner's devices registered
          Workers, Pollers,
          BatchSize,   \* messages in one request to the provider
          Limit,       \* tickets one poll takes
          DeliveryMaxTime,     \* bound: registrations and sends, which the clock counts
          MayStop,     \* whether a worker or a poller may stop in between
          MayExpire    \* whether the provider forgets a receipt before it is read

Sizes == BatchSize \in Nat \ {0} /\ Limit \in Nat \ {0}

VARIABLES
  claimed,     \* the row of push_delivery_claims
  worker,      \* each worker's run
  served,      \* a send of this claim came back in full
  registered,  \* device -> instant of the latest registration, 0 if it has none
  delivered,   \* device -> times the provider took the notification, up to 2
  verdict,     \* the provider's word on each ticket it issued
  pending,     \* the tickets of push_pending_receipts, in the order they come due
  due,         \* how many of them are due by now
  poller,      \* each poller's run
  closed,      \* tickets a poller settled
  deliveryNow
queue == <<pending, due>>
deliveryVars == <<claimed, worker, served, registered, delivered, verdict, queue, poller, closed, deliveryNow>>
sending == <<claimed, worker, served, delivered>>
polling == <<poller, closed>>

Tickets == [device: DeliveryDevices, sent: 2..DeliveryMaxTime]   \* instant 1 is before any send
Unknown == "unknown"
Verdicts == {"none", Unknown, "delivered", "dead", "forgotten"}
NoRun == [step |-> "idle", sent |-> 0, left |-> {}, accepted |-> {}, dead |-> {}]
NoPoll == [step |-> "idle", batch |-> {}, read |-> {}, dead |-> {}]
Recorded == ToSet(pending)
Token(ticket) == ticket.device

DeliveryTypeOK ==
  /\ claimed \in BOOLEAN /\ served \in BOOLEAN
  /\ worker \in [Workers -> [step: {"idle", "claimed", "sending", "failed", "sent", "invalidated"},
                             sent: 0..DeliveryMaxTime, left: SUBSET DeliveryDevices,
                             accepted: SUBSET Tickets, dead: SUBSET DeliveryDevices]]
  /\ registered \in [DeliveryDevices -> 0..DeliveryMaxTime] /\ delivered \in [DeliveryDevices -> 0..2]
  /\ verdict \in [Tickets -> Verdicts]
  /\ pending \in Seq(Tickets) /\ IsInjective(pending) /\ due \in 0..Len(pending)
  /\ poller \in [Pollers -> [step: {"idle", "taken", "read"}, batch: SUBSET Tickets,
                             read: SUBSET Tickets, dead: SUBSET Tickets]]
  /\ closed \subseteq Tickets /\ deliveryNow \in 1..DeliveryMaxTime

DeliveryInit ==
  /\ claimed = FALSE /\ served = FALSE
  /\ worker = [w \in Workers |-> NoRun]
  /\ registered = [d \in DeliveryDevices |-> 1] /\ delivered = [d \in DeliveryDevices |-> 0]
  /\ verdict = [k \in Tickets |-> "none"]
  /\ pending = <<>> /\ due = 0 /\ poller = [p \in Pollers |-> NoPoll] /\ closed = {}
  /\ deliveryNow = 1

Claim(w) ==
  /\ worker[w].step = "idle" /\ ~claimed
  /\ claimed' = TRUE
  /\ worker' = [worker EXCEPT ![w].step = "claimed"]
  /\ UNCHANGED <<served, registered, delivered, verdict, queue, polling, deliveryNow>>

\* The instant of the send is read before it starts.
StartSend(w) ==
  /\ worker[w].step = "claimed" /\ deliveryNow < DeliveryMaxTime
  /\ deliveryNow' = deliveryNow + 1
  /\ worker' = [worker EXCEPT ![w] = [NoRun EXCEPT !.step = "sending", !.sent = deliveryNow + 1,
                                        !.left = {d \in DeliveryDevices : registered[d] # 0}]]
  /\ UNCHANGED <<claimed, served, registered, delivered, verdict, queue, polling>>

\* One request: the provider takes the notifications of a chunk, refuses some
\* devices at once as dead, and may settle some receipts at once.
Chunks(left) == {c \in SUBSET left : /\ c # {} /\ Cardinality(c) <= BatchSize
                                     /\ c = left \/ Cardinality(c) = BatchSize}
Issued(w, taken) == {[device |-> d, sent |-> worker[w].sent] : d \in taken}
Take(w, taken, settled) ==
  /\ delivered' = [d \in DeliveryDevices |-> IF d \in taken /\ delivered[d] < 2
                                               THEN delivered[d] + 1 ELSE delivered[d]]
  /\ verdict' = [k \in Tickets |-> IF k \in Issued(w, settled) THEN "delivered"
                                   ELSE IF k \in Issued(w, taken) THEN Unknown ELSE verdict[k]]
SendChunk(w) ==
  /\ worker[w].step = "sending" /\ worker[w].left # {}
  /\ \E chunk \in Chunks(worker[w].left) : \E taken \in SUBSET chunk : \E settled \in SUBSET taken :
       /\ Take(w, taken, settled)
       /\ worker' = [worker EXCEPT ![w].left = @ \ chunk, ![w].dead = @ \cup (chunk \ taken),
                                   ![w].accepted = @ \cup Issued(w, taken \ settled)]
  /\ UNCHANGED <<claimed, served, registered, queue, polling, deliveryNow>>

\* The request fails, or its answer is lost or unreadable after the provider
\* took the chunk. Either way send returns the error and no outcome at all.
FailChunk(w) ==
  /\ worker[w].step = "sending" /\ worker[w].left # {}
  /\ \E chunk \in Chunks(worker[w].left) : \E taken \in {{}, chunk} : Take(w, taken, {})
  /\ worker' = [worker EXCEPT ![w] = [NoRun EXCEPT !.step = "failed"]]
  /\ UNCHANGED <<claimed, served, registered, queue, polling, deliveryNow>>

SendReturns(w) ==
  /\ worker[w].step = "sending" /\ worker[w].left = {}
  /\ worker' = [worker EXCEPT ![w].step = "sent"] /\ served' = TRUE
  /\ UNCHANGED <<claimed, registered, delivered, verdict, queue, polling, deliveryNow>>

Release(w) ==
  /\ worker[w].step = "failed"
  /\ claimed' = FALSE
  /\ worker' = [worker EXCEPT ![w] = NoRun]
  /\ UNCHANGED <<served, registered, delivered, verdict, queue, polling, deliveryNow>>

\* Mutant: a device registered again since the send is deleted too.
InvalidatedAll(dead, sent) == [d \in DeliveryDevices |-> IF d \in dead THEN 0 ELSE registered[d]]

\* DELETE ... WHERE token = ANY(dead) AND last_registered_at <= sent_at.
Invalidated(dead, sent) == [d \in DeliveryDevices |-> IF d \in dead /\ registered[d] <= sent
                                                        THEN 0 ELSE registered[d]]
InvalidateDead(w) ==
  /\ worker[w].step = "sent"
  /\ registered' = Invalidated(worker[w].dead, worker[w].sent)
  /\ worker' = [worker EXCEPT ![w].step = "invalidated"]
  /\ UNCHANGED <<claimed, served, delivered, verdict, queue, polling, deliveryNow>>

\* The accepted tickets are first due one delay after the send; recording one
\* that is there leaves it as it is.
RecordAccepted(w) ==
  /\ worker[w].step = "invalidated"
  /\ \E new \in SetToSeqs(worker[w].accepted \ Recorded) : pending' = pending \o new
  /\ worker' = [worker EXCEPT ![w] = NoRun]
  /\ UNCHANGED <<claimed, served, registered, delivered, verdict, due, polling, deliveryNow>>

\* A poll takes the tickets that are due first and puts them off by one delay,
\* which is behind every other ticket.
Batch == SubSeq(pending, 1, IF due < Limit THEN due ELSE Limit)
Behind(batch) == SubSeq(pending, Len(batch) + 1, Len(pending)) \o batch
TakeDue(p) ==
  /\ poller[p].step = "idle" /\ due > 0
  /\ pending' = Behind(Batch) /\ due' = due - Len(Batch)
  /\ poller' = [poller EXCEPT ![p] = [NoPoll EXCEPT !.step = "taken", !.batch = ToSet(Batch)]]
  /\ UNCHANGED <<sending, registered, verdict, closed, deliveryNow>>

\* The receipts the provider has by now; a ticket without one stays.
ReadReceipts(p) ==
  LET settled == {k \in poller[p].batch : verdict[k] \in {"delivered", "dead"}}
  IN /\ poller[p].step = "taken"
     /\ poller' = [poller EXCEPT ![p] = [NoPoll EXCEPT !.step = "read", !.read = settled,
                                           !.dead = {k \in settled : verdict[k] = "dead"}]]
     /\ UNCHANGED <<sending, registered, verdict, queue, closed, deliveryNow>>
ReadFails(p) ==
  /\ poller[p].step = "taken"
  /\ poller' = [poller EXCEPT ![p] = NoPoll]
  /\ UNCHANGED <<sending, registered, verdict, queue, closed, deliveryNow>>

\* One call for each send among the dead tickets, the oldest send first.
InvalidateOneSend(p) ==
  /\ poller[p].step = "read" /\ poller[p].dead # {}
  /\ LET first == CHOOSE k \in poller[p].dead : \A j \in poller[p].dead : k.sent <= j.sent
         group == {k \in poller[p].dead : k.sent = first.sent}
     IN /\ registered' = Invalidated({Token(k) : k \in group}, first.sent)
        /\ poller' = [poller EXCEPT ![p].dead = @ \ group]
  /\ UNCHANGED <<sending, verdict, queue, closed, deliveryNow>>

Drop(tickets) ==
  LET stays(k) == k \notin tickets
  IN /\ pending' = SelectSeq(pending, stays)
     /\ due' = Len(SelectSeq(SubSeq(pending, 1, due), stays))
ReadyToSettle(p) == poller[p].step = "read" /\ poller[p].dead = {}
DeleteSettled(p) ==
  /\ ReadyToSettle(p)
  /\ Drop(poller[p].read)
  /\ closed' = closed \cup poller[p].read
  /\ poller' = [poller EXCEPT ![p] = NoPoll]
  /\ UNCHANGED <<sending, registered, verdict, deliveryNow>>

\* A delay passes: every ticket that was put off is due again.
DelayPasses ==
  /\ due < Len(pending) /\ due' = Len(pending)
  /\ UNCHANGED <<pending, sending, registered, verdict, polling, deliveryNow>>

\* purge deletes tickets the provider has forgotten.
Purge(k) ==
  /\ verdict[k] = "forgotten" /\ k \in Recorded
  /\ Drop({k})
  /\ UNCHANGED <<sending, registered, verdict, polling, deliveryNow>>
Settle(k, v) ==
  /\ verdict[k] = Unknown
  /\ verdict' = [verdict EXCEPT ![k] = v]
  /\ UNCHANGED <<sending, registered, queue, polling, deliveryNow>>
Forget(k) ==
  /\ MayExpire /\ verdict[k] \in {Unknown, "delivered", "dead"}
  /\ verdict' = [verdict EXCEPT ![k] = "forgotten"]
  /\ UNCHANGED <<sending, registered, queue, polling, deliveryNow>>

\* The app registers its token again.
Register(d) ==
  /\ deliveryNow < DeliveryMaxTime /\ deliveryNow' = deliveryNow + 1
  /\ registered' = [registered EXCEPT ![d] = deliveryNow + 1]
  /\ UNCHANGED <<sending, verdict, queue, polling>>

WorkerStops(w) ==
  /\ MayStop /\ worker[w].step # "idle"
  /\ worker' = [worker EXCEPT ![w] = NoRun]
  /\ UNCHANGED <<claimed, served, delivered, registered, verdict, queue, polling, deliveryNow>>
PollerStops(p) ==
  /\ MayStop /\ poller[p].step # "idle"
  /\ poller' = [poller EXCEPT ![p] = NoPoll]
  /\ UNCHANGED <<sending, registered, verdict, queue, closed, deliveryNow>>

Work(w) == \/ Claim(w) \/ StartSend(w) \/ SendChunk(w) \/ SendReturns(w)
           \/ InvalidateDead(w) \/ RecordAccepted(w) \/ Release(w)
Poll(p) == TakeDue(p) \/ ReadReceipts(p) \/ InvalidateOneSend(p) \/ DeleteSettled(p)
DeliveryNext ==
  \/ \E w \in Workers : Work(w) \/ FailChunk(w) \/ WorkerStops(w)
  \/ \E p \in Pollers : Poll(p) \/ ReadFails(p) \/ PollerStops(p)
  \/ DelayPasses
  \/ \E k \in Tickets : Purge(k) \/ Forget(k) \/ \E v \in {"delivered", "dead"} : Settle(k, v)
  \/ \E d \in DeliveryDevices : Register(d)
DeliverySpec == DeliveryInit /\ [][DeliveryNext]_deliveryVars

\* After a send of the day came back, no worker ever holds the claim again, and
\* before that at most one does: two workers never both send.
Busy == {w \in Workers : worker[w].step \in {"claimed", "sending", "failed"}}
OneSender == Cardinality(Busy) <= 1 /\ (Busy # {} => claimed /\ ~served)

\* A ticket a poller settled as dead has done its work: the token is gone, or
\* it was registered again after that send.
SettledDeadIsGone ==
  \A k \in closed : verdict[k] = "dead" =>
    registered[Token(k)] = 0 \/ registered[Token(k)] > k.sent

\* A token goes only on the provider's word about a send after the latest
\* registration, however old and however often the poll applies that word.
NeverDropsReinstalled ==
  \A d \in DeliveryDevices : registered[d] # 0 /\ registered'[d] = 0 =>
    \/ \E k \in Tickets : Token(k) = d /\ verdict[k] \in {"dead", "forgotten"} /\ registered[d] <= k.sent
    \/ \E w \in Workers : d \in worker[w].dead /\ registered[d] <= worker[w].sent

\* delivery_claim.rs: "two workers evaluating the same owner never both
\* deliver"; README.md: at most once per owner, local date, and kind.
AtMostOnce == \A d \in DeliveryDevices : delivered[d] <= 1
==============================================================================
