---------------------------- MODULE PushAdapters -----------------------------
(***************************************************************************)
(* baukit-push's adapters: its three stores side by side (Stores...), and  *)
(* the batches sent to Expo (Expo...).                                     *)
(***************************************************************************)
EXTENDS Naturals, Sequences, FiniteSets

-----------------------------------------------------------------------------
(* The in-memory and the PostgreSQL stores of baukit-push, given the same     *)
(* calls. Tests of a product run on the first, the product on the second, so  *)
(* both have to return the same counts and keep the same rows. A table orders *)
(* its text columns by the database's collation, memory by bytes.             *)

CONSTANTS Owners, Tokens, StoresTickets, Kinds,
          ByBytes(_), Collated(_),  \* rank of a name: byte order; database order
          Platforms, DevicesPerOwner, Limits,
          MaxTime                   \* bound: instants a caller passes

VARIABLES devices, receipts, claims,  \* each [memory, table]
          call,                       \* the last call, if it was a registration
          answer                      \* what each store returned

storesVars == <<devices, receipts, claims, call, answer>>

Times == 0..MaxTime
NoCall == [op |-> "other", retry |-> FALSE]
Stores == {"memory", "table"}
Rank(s, x) == IF s = "memory" THEN ByBytes(x) ELSE Collated(x)
\* Lexicographic order of pairs and triples of numbers.
Before2(x, y) == x[1] < y[1] \/ (x[1] = y[1] /\ x[2] < y[2])
Before3(x, y) == x[1] < y[1] \/ (x[1] = y[1] /\ Before2(<<x[2], x[3]>>, <<y[2], y[3]>>))
StoresSizes(S) == Cardinality(S)

StoresInit ==
  /\ devices = [s \in Stores |-> {}] /\ receipts = [s \in Stores |-> {}]
  /\ claims = [s \in Stores |-> {}]
  /\ call = NoCall /\ answer = [s \in Stores |-> 0]

Answers(f) == answer' = f
Devices == UNCHANGED <<receipts, claims>>
StoresReceipts == UNCHANGED <<devices, claims>>
Claims == UNCHANGED <<devices, receipts>>

(* The device registry.                                                       *)
Owned(rows, o) == {d \in rows : d.owner = o}
Latest(x, y) == IF x < y THEN y ELSE x
\* INSERT ... ON CONFLICT (token) DO UPDATE.
Upsert(rows, r) ==
  LET held == {d \in rows : d.token = r.token}
      mine(d) == d.owner = r.owner
  IN  (rows \ held) \cup
      (IF held = {} THEN {[owner |-> r.owner, token |-> r.token, platform |-> r.platform, created |-> r.at, last |-> r.at]}
       ELSE {[d EXCEPT !.owner = r.owner, !.platform = r.platform,
                       !.created = IF mine(d) THEN @ ELSE r.at,
                       !.last = IF mine(d) THEN Latest(@, r.at) ELSE r.at] : d \in held})
\* The map's entry of the token is replaced by merge(entry, registration).
Merge(rows, r) ==
  LET same == {d \in rows : d.token = r.token /\ d.owner = r.owner}
      fresh == [owner |-> r.owner, token |-> r.token, platform |-> r.platform, created |-> r.at, last |-> r.at]
  IN  {d \in rows : d.token # r.token} \cup
      (IF same = {} THEN {fresh}
       ELSE {[fresh EXCEPT !.created = d.created, !.last = Latest(d.last, r.at)] : d \in same})
Recency(s, d) == <<d.last, d.created, Rank(s, d.token)>>
OverCap(s, rows, r) ==
  LET others == {d \in Owned(rows, r.owner) : d.token # r.token}
  IN  {d \in others : StoresSizes({x \in others : Before3(Recency(s, d), Recency(s, x))}) >= DevicesPerOwner - 1}
Written(s, r) ==
  LET kept == {d \in devices[s] : ~(d.token = r.previous /\ d.token # r.token /\ d.owner = r.owner)}
  IN  IF s = "memory" THEN Merge(kept, r) ELSE Upsert(kept, r)
\* register, and rotate when previous is a token.
Register(r) ==
  /\ call' = r /\ Devices
  /\ devices' = [s \in Stores |-> Written(s, r) \ OverCap(s, Written(s, r), r)]
  /\ Answers([s \in Stores |-> StoresSizes(OverCap(s, Written(s, r), r))])
Unregister(o, t) ==
  /\ call' = NoCall /\ Devices
  /\ devices' = [s \in Stores |-> {d \in devices[s] : ~(d.owner = o /\ d.token = t)}]
  /\ Answers([s \in Stores |-> StoresSizes(devices[s]) - StoresSizes(devices'[s])])
Invalidate(dead, at) ==
  /\ call' = NoCall /\ Devices
  /\ devices' = [s \in Stores |-> {d \in devices[s] : ~(d.token \in dead /\ d.last <= at)}]
  /\ Answers([s \in Stores |-> StoresSizes(devices[s]) - StoresSizes(devices'[s])])
EraseDevices(o) ==
  /\ call' = NoCall /\ Devices
  /\ devices' = [s \in Stores |-> devices[s] \ Owned(devices[s], o)]
  /\ Answers([s \in Stores |-> StoresSizes(Owned(devices[s], o))])

(* The pending receipts. A record call lists tickets of one send.             *)
First(S, n, order) == {x \in S : StoresSizes({y \in S : Before2(order[y], order[x])}) < n}
Record(tickets, o, sent, due) ==
  /\ call' = NoCall /\ StoresReceipts
  /\ LET new(s) == {[ticket |-> t, owner |-> o, sent |-> sent, due |-> due] :
                      t \in tickets \ {x.ticket : x \in receipts[s]}}
     IN  /\ receipts' = [s \in Stores |-> receipts[s] \cup new(s)]
         /\ Answers([s \in Stores |-> StoresSizes(new(s))])
DueBatch(s, now, n) ==
  LET S == {x \in receipts[s] : x.due <= now} IN First(S, n, [x \in S |-> <<x.due, Rank(s, x.ticket)>>])
\* The answer is the tickets taken.
TakeDue(now, retry, n) ==
  /\ call' = NoCall /\ StoresReceipts
  /\ receipts' = [s \in Stores |->
       LET taken == DueBatch(s, now, n)
       IN  (receipts[s] \ taken) \cup {[x EXCEPT !.due = retry] : x \in taken}]
  /\ Answers([s \in Stores |-> {x.ticket : x \in DueBatch(s, now, n)}])
DeleteReceipts(tickets) ==
  /\ call' = NoCall /\ StoresReceipts
  /\ receipts' = [s \in Stores |-> {x \in receipts[s] : x.ticket \notin tickets}]
  /\ Answers([s \in Stores |-> StoresSizes(receipts[s]) - StoresSizes(receipts'[s])])
Expired(s, before, n) ==
  LET S == {x \in receipts[s] : x.sent < before} IN First(S, n, [x \in S |-> <<x.sent, Rank(s, x.ticket)>>])
PurgeReceipts(before, n) ==
  /\ call' = NoCall /\ StoresReceipts
  /\ receipts' = [s \in Stores |-> receipts[s] \ Expired(s, before, n)]
  /\ Answers([s \in Stores |-> StoresSizes(Expired(s, before, n))])
EraseReceipts(o) ==
  /\ call' = NoCall /\ StoresReceipts
  /\ receipts' = [s \in Stores |-> receipts[s] \ Owned(receipts[s], o)]
  /\ Answers([s \in Stores |-> StoresSizes(Owned(receipts[s], o))])

(* The delivery claims: owner, local date and kind.                           *)
Claim(c) ==
  /\ call' = NoCall /\ Claims
  /\ claims' = [s \in Stores |-> claims[s] \cup {c}]
  /\ Answers([s \in Stores |-> IF c \in claims[s] THEN 0 ELSE 1])
Release(c) ==
  /\ call' = NoCall /\ Claims
  /\ claims' = [s \in Stores |-> claims[s] \ {c}]
  /\ Answers([s \in Stores |-> IF c \in claims[s] THEN 1 ELSE 0])
Oldest(s, before, n) ==
  LET old == {c \in claims[s] : c.date < before}
      order(c) == <<c.date, c.owner, Rank(s, c.kind)>>
  IN  {c \in old : StoresSizes({d \in old : Before3(order(d), order(c))}) < n}
PurgeClaims(before, n) ==
  /\ call' = NoCall /\ Claims
  /\ claims' = [s \in Stores |-> claims[s] \ Oldest(s, before, n)]
  /\ Answers([s \in Stores |-> StoresSizes(Oldest(s, before, n))])

StoresNext ==
  \/ \E o \in Owners, t \in Tokens, p \in Tokens \cup {0}, f \in Platforms, at \in Times :
       Register([op |-> "register", owner |-> o, token |-> t, previous |-> p, platform |-> f,
                 at |-> at, retry |-> FALSE])
  \/ call.op = "register" /\ ~call.retry /\ Register([call EXCEPT !.retry = TRUE])
  \/ \E o \in Owners, t \in Tokens : Unregister(o, t)
  \/ \E dead \in SUBSET Tokens \ {{}}, at \in Times : Invalidate(dead, at)
  \/ \E o \in Owners : EraseDevices(o)
  \/ \E ts \in SUBSET StoresTickets \ {{}}, o \in Owners, sent \in Times, due \in Times : Record(ts, o, sent, due)
  \/ \E now \in Times, retry \in Times, n \in Limits : now < retry /\ TakeDue(now, retry, n)
  \/ \E ts \in SUBSET StoresTickets \ {{}} : DeleteReceipts(ts)
  \/ \E before \in Times, n \in Limits : PurgeReceipts(before, n)
  \/ \E o \in Owners : EraseReceipts(o)
  \/ \E o \in Owners, date \in Times, k \in Kinds :
       Claim([owner |-> o, date |-> date, kind |-> k]) \/ Release([owner |-> o, date |-> date, kind |-> k])
  \/ \E before \in Times, n \in Limits : PurgeClaims(before, n)
StoresSpec == StoresInit /\ [][StoresNext]_storesVars

(* Both stores keep the same devices, tickets and claims after any calls.     *)
SameDevices == devices["memory"] = devices["table"]
SameReceipts == receipts["memory"] = receipts["table"]
SameClaims == claims["memory"] = claims["table"]

(* Both stores give every call the same answer.                               *)
SameAnswers == answer["memory"] = answer["table"]

(* A registration or rotation that is sent again with the same instant        *)
(* changes and evicts nothing, in either store.                               *)
RetryIsSafe ==
  call'.op = "register" /\ call'.retry => UNCHANGED devices /\ answer' = [s \in Stores |-> 0]

-----------------------------------------------------------------------------
(* The Expo adapter of baukit-push (crates/baukit-push/src/expo.rs): options,  *)
(* one send of a batch in chunks, each with its ticket and receipt request,    *)
(* and a deferred poll of the tickets the send left. The provider answers      *)
(* anything its JSON may hold.                                                 *)

CONSTANTS Batch,                    \* notifications in the batch
          MaxBatchSize,
          ExpoSizes,                    \* batch sizes a product configures
          TicketIds                 \* ids the provider issues

VARIABLES options,  \* validated options, or the error of building them
          phase, expoAt,      \* step of the send; first notification of the chunk
          said,           \* ticket of each notification
          receipt,        \* receipts the provider returned
          failedReceipts, \* chunks whose receipt request failed
          outcomes, error, polled

expoVars == <<options, phase, expoAt, said, receipt, failedReceipts, outcomes, error, polled>>

Messages == 1..Batch
Least(x, y) == IF x < y THEN x ELSE y

(* The options. An endpoint, a credential and a timeout are of a kind.        *)
Endpoints == {"blank", "relative", "mailto", "otherPath", "send"}
Credentials == {"blank", "plain", "unsendable"}  \* unsendable: no header can carry it
Parses(endpoint) == endpoint \in {"mailto", "otherPath", "send"}
ValidEndpoint(endpoint) == Parses(endpoint) /\ endpoint \notin {"mailto", "otherPath"}
ValidSize(n) == n # 0 /\ n <= MaxBatchSize
ConfigErrors(c) ==
  (IF c.endpoint = "blank" \/ ~ValidEndpoint(c.endpoint) THEN {"endpoint"} ELSE {})
  \cup (IF ValidSize(c.size) THEN {} ELSE {"batch_size"})
  \cup (IF c.timeout = 0 THEN {"request_timeout_ms"} ELSE {})
Built(c, guarded) ==
  [size |-> c.size, timeout |-> c.timeout,
   token |-> IF c.token = "blank" THEN "none" ELSE c.token, guarded |-> guarded]
Refused == [size |-> 0, timeout |-> 0, token |-> "none", guarded |-> FALSE]

NoReceipt == "none"
ExpoInit ==
  /\ options = Refused /\ phase = "options" /\ expoAt = 1
  /\ said = [n \in Messages |-> [kind |-> "none", id |-> 0]]
  /\ receipt = [i \in TicketIds |-> NoReceipt] /\ failedReceipts = {}
  /\ outcomes = <<>> /\ error = "none" /\ polled = {}

Kept == UNCHANGED <<expoAt, said, receipt, failedReceipts, outcomes, polled>>
FromConfig(c, guarded) ==
  /\ phase = "options" /\ Kept
  /\ IF ConfigErrors(c) = {}
     THEN options' = Built(c, guarded) /\ phase' = "tickets" /\ UNCHANGED error
     ELSE options' = Refused /\ phase' = "done" /\ error' = "options"
\* PushOptions::new(endpoint) and the with_ methods, each refusing its own value.
FromBuilder(c, guarded) ==
  /\ phase = "options" /\ Kept
  /\ IF ValidEndpoint(c.endpoint) /\ ValidSize(c.size) /\ c.timeout # 0 /\ c.token # "blank"
     THEN options' = Built(c, guarded) /\ phase' = "tickets" /\ UNCHANGED error
     ELSE options' = Refused /\ phase' = "done" /\ error' = "options"

(* One chunk.                                                                 *)
Chunk == expoAt..Least(expoAt + options.size - 1, Batch)
\* A code of the vocabulary, another code, or a status without details.
Codes == {"dead", "busy", "tooBig"}
Rejection(kind) == IF kind = "failed" THEN "provider" ELSE kind
\* PushRejection::is_retryable and the RetryClass of a transport error.
Retryable(e) == e \in {"timeout", "unavailable", "limited"}
\* What post may fail with. An unsendable credential never leaves: the plain
\* client reports it as a failed request, the guarded one as its own error.
PostErrors(unsendable) ==
  IF ~unsendable THEN {"timeout", "unavailable", "limited", "revoked", "invalid"}
  ELSE IF options.guarded THEN {"invalid"} ELSE {"unavailable"}
Unsendable == options.token = "unsendable"
Fail(e) == error' = e /\ phase' = "done" /\ outcomes' = <<>>
           /\ UNCHANGED <<options, expoAt, said, receipt, failedReceipts, polled>>
TicketsFail == phase = "tickets" /\ \E e \in PostErrors(Unsendable) : Fail(e)
\* No data, or another number of tickets than notifications.
TicketsMalformed == phase = "tickets" /\ ~Unsendable /\ Fail("invalid")

ExpoTickets == {[kind |-> "ok", id |-> i] : i \in TicketIds}
               \cup {[kind |-> k, id |-> 0] : k \in Codes \cup {"failed", "noId"}}
Outcome(n, status, id) == [to |-> n, status |-> status, id |-> id]
Pending(t) == SelectSeq([k \in 1..Cardinality(Chunk) |-> expoAt + k - 1], LAMBDA n : t[n].kind = "ok")
Refusals(t) ==
  LET refused == SelectSeq([k \in 1..Cardinality(Chunk) |-> expoAt + k - 1], LAMBDA n : t[n].kind # "ok")
  IN  [k \in 1..Len(refused) |-> Outcome(refused[k], Rejection(t[refused[k]].kind), 0)]
TicketsArrive ==
  /\ phase = "tickets" /\ ~Unsendable
  /\ \E t \in [Chunk -> ExpoTickets] :
       IF \E n \in Chunk : t[n].kind = "noId" THEN Fail("invalid")
       ELSE /\ said' = [n \in Messages |-> IF n \in Chunk THEN t[n] ELSE said[n]]
            /\ outcomes' = outcomes \o Refusals(t)
            /\ phase' = IF Pending(t) = <<>> THEN "next" ELSE "receipts"
            /\ UNCHANGED <<options, expoAt, receipt, failedReceipts, error, polled>>

\* receipts.remove(&id): of two notifications with one id only the first finds it.
FirstOfId(n, ns) == \A k \in 1..Len(ns) : said[ns[k]].id = said[n].id => ns[k] >= n
Settle(got, n, ns) ==
  LET r == got[said[n].id]
  IN  IF r # NoReceipt /\ FirstOfId(n, ns) THEN Outcome(n, Rejection(r), 0)
      ELSE Outcome(n, "accepted", said[n].id)
Answered(got) ==
  LET ns == Pending(said)
  IN  outcomes' = outcomes \o [k \in 1..Len(ns) |-> Settle(got, ns[k], ns)]
ExpoReceipts == {NoReceipt, "delivered", "failed"} \cup Codes
Nothing == [i \in TicketIds |-> NoReceipt]
Ids == {said[n].id : n \in {m \in Chunk : said[m].kind = "ok"}}
ReceiptsArrive ==
  /\ phase = "receipts"
  /\ \E got \in [TicketIds -> ExpoReceipts] :
       /\ \A i \in TicketIds \ Ids : got[i] = NoReceipt
       /\ Answered(got)
       /\ receipt' = [i \in TicketIds |-> IF got[i] # NoReceipt THEN got[i] ELSE receipt[i]]
  /\ phase' = "next" /\ UNCHANGED <<options, expoAt, said, failedReceipts, error, polled>>
\* Accepted tickets survive a failed receipt request.
ReceiptsFail ==
  /\ phase = "receipts" /\ Answered(Nothing) /\ failedReceipts' = failedReceipts \cup {expoAt}
  /\ phase' = "next" /\ UNCHANGED <<options, expoAt, said, receipt, error, polled>>
NextChunk ==
  /\ phase = "next"
  /\ IF expoAt + options.size > Batch THEN phase' = "sent" /\ UNCHANGED expoAt
     ELSE expoAt' = expoAt + options.size /\ phase' = "tickets"
  /\ UNCHANGED <<options, said, receipt, failedReceipts, outcomes, error, polled>>

(* A deferred poll of the accepted tickets.                               *)
Open == {outcomes[k].id : k \in {j \in 1..Len(outcomes) : outcomes[j].status = "accepted"}} \ {0}
Poll ==
  /\ phase = "sent" /\ phase' = "done"
  /\ \E settled \in SUBSET Open : polled' = settled
  /\ UNCHANGED <<options, expoAt, said, receipt, failedReceipts, outcomes, error>>
PollFails ==
  /\ phase = "sent" /\ Open # {} /\ phase' = "done" /\ polled' = {}
  /\ UNCHANGED <<options, expoAt, said, receipt, failedReceipts, outcomes, error>>

Configs == [endpoint : Endpoints, size : ExpoSizes, timeout : {0, 1}, token : Credentials]
Configure == \E c \in Configs, guarded \in BOOLEAN : FromConfig(c, guarded) \/ FromBuilder(c, guarded)
ExpoNext == Configure \/ TicketsFail \/ TicketsMalformed \/ TicketsArrive \/ ReceiptsArrive
            \/ ReceiptsFail \/ NextChunk \/ Poll \/ PollFails
ExpoSpec == ExpoInit /\ [][ExpoNext]_expoVars

Returned == phase = "sent" \/ (phase = "done" /\ error = "none")

(* A send that returns has exactly one outcome for every notification.        *)
OneOutcomeEach ==
  Returned => /\ Len(outcomes) = Batch
              /\ {outcomes[k].to : k \in 1..Len(outcomes)} = Messages

(* A notification is reported dead or refused only by its own ticket or by    *)
(* the receipt of its own id, and as accepted only with its own id.           *)
OwnVerdict ==
  \A k \in 1..Len(outcomes) :
    LET o == outcomes[k]
        t == said[o.to]
    IN  IF t.kind # "ok" THEN o.status = Rejection(t.kind)
        ELSE IF o.status = "accepted" THEN o.id = t.id
        ELSE receipt[t.id] # NoReceipt

(* A failed receipt request loses no ticket: the send returns them accepted,  *)
(* and it never turns a taken notification into an error.                     *)
TicketsSurvive ==
  /\ \A n \in Messages : (\E c \in failedReceipts : n \in c..(c + options.size - 1)) /\ said[n].kind = "ok"
       => error # "none" \/ phase = "receipts" \/ \E k \in 1..Len(outcomes) :
            outcomes[k].to = n /\ outcomes[k].status = "accepted"
  /\ Batch <= options.size /\ error \notin {"none", "options"} => \A n \in Messages : said[n].kind # "ok"

(* Options that were accepted split every batch into chunks the provider      *)
(* takes, whichever way they were built.                                      *)
ChunksFit == phase \notin {"options", "done"} => Cardinality(Chunk) \in 1..MaxBatchSize /\ options.timeout > 0

(* An error that says a retry can succeed is not about the credential.        *)
RetryCanSucceed == Retryable(error) => options.token # "unsendable"
==============================================================================
