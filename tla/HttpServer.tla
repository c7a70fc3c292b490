----------------------------- MODULE HttpServer ------------------------------
(***************************************************************************)
(* A baukit-http server: how it answers requests (Pipeline...) and the     *)
(* writes it guards, by preconditions on a revision (Cond...) and by       *)
(* idempotency keys (Keyed...).                                            *)
(***************************************************************************)
EXTENDS Integers, Sequences, FiniteSets, TLC

-----------------------------------------------------------------------------
(* The layers of baukit-http around a router, from the outside in: the request *)
(* lifecycle (request id, timeout, metrics, cache policy), the panic catcher,  *)
(* CORS, the concurrency limit and the body limit. Axum lays each of them      *)
(* around every endpoint on its own.                                           *)

CONSTANTS Slots,          \* requests served at a time
          Endpoints,      \* the product's: a method of a route
          Inputs,         \* requests clients send
          Built,          \* options products build
          DefaultBody     \* Axum's own limit on the body an extractor reads

VARIABLES options, phase, input, id, pipelineAnswer,
          permits,        \* of each endpoint
          gauge, counted  \* http_requests_in_flight, http_requests_total

pipelineVars == <<options, phase, input, id, pipelineAnswer, permits, gauge, counted>>
(* Options.                                                                   *)
JsonRejectionCodes ==
  [large |-> "payload_too_large", content |-> "unsupported_media_type",
   syntax |-> "invalid_json", shape |-> "validation_failed"]
Default == [timeout |-> 30, body |-> DefaultBody, concurrency |-> 2, origins |-> {}, cache |-> "private",
            codes |-> JsonRejectionCodes]
valid_json_rejection_code(code) == code # "Not Snake"
parse_origins(given) == "*" \notin given /\ "not a header" \notin given
Constructible(o) ==
  /\ parse_origins(o.origins)
  /\ \A class \in DOMAIN o.codes : valid_json_rejection_code(o.codes[class])
validate(o) == o.timeout > 0 /\ o.body > 0 /\ o.concurrency > 0
\* One zero limit and every option is the default's.
Effective(o) == IF validate(o) THEN o ELSE Default

All == Endpoints \cup {"unmatched", "wrong method"}
PipelineInit ==
  /\ \E o \in Built : Constructible(o) /\ options = Effective(o)
  /\ phase = [s \in Slots |-> "free"]
  /\ input = [s \in Slots |-> [endpoint |-> "unmatched"]]
  /\ id = [s \in Slots |-> <<s, "none">>]
  /\ pipelineAnswer = [s \in Slots |-> [status |-> 0]]
  /\ permits = [e \in All |-> options.concurrency]
  /\ gauge = [e \in All |-> 0] /\ counted = 0

(* Errors and answers.                                                        *)
Answer(status, code) == [status |-> status, code |-> code, retry |-> FALSE, cache |-> "none", cors |-> FALSE]
ApiErrors ==
  {Answer(400, "bad_request"), Answer(400, "validation_failed"), Answer(401, "unauthorized"),
   Answer(401, "unauthenticated"), Answer(403, "forbidden"), Answer(403, "permission_denied"),
   Answer(404, "not_found"), Answer(409, "conflict")}
RateLimited == [Answer(429, "rate_limited") EXCEPT !.retry = TRUE]
Internal == Answer(500, "internal")
TimedOut == Answer(504, "request_timeout")
TooLarge == Answer(413, options.codes.large)
Rejections == {"content", "syntax", "shape", "path", "query", "page"}
Rejection(what) ==
  CASE what = "content" -> Answer(415, options.codes.content)
    [] what = "syntax" -> Answer(400, options.codes.syntax)
    [] what = "shape" -> Answer(422, options.codes.shape)
    [] OTHER -> Answer(400, "validation_failed")
\* What a handler says of its own accord. A product's own 413 is one of them.
Product ==
  {Answer(200, "none"), [Answer(200, "none") EXCEPT !.cache = "own"], RateLimited, Internal,
   [Answer(413, "upload_too_large") EXCEPT !.retry = TRUE]} \cup ApiErrors
\* An extractor reads no more than Axum's own limit.
Unread(in) == in.size > options.body \/ in.size > DefaultBody
Handled(in) ==
  CASE in.endpoint = "unmatched" -> {Answer(404, "not_found")}
    [] in.endpoint = "wrong method" -> {Answer(405, "method_not_allowed")}
    [] in.bad \in Rejections \ {"syntax", "shape"} -> {Rejection(in.bad)}
    [] in.size > 0 /\ Unread(in) -> {TooLarge}
    [] in.bad \in Rejections -> {Rejection(in.bad)}
    [] OTHER -> Product

Cors(s, a) == [a EXCEPT !.cors = input[s].origin \in options.origins]
\* A large body and a panic get a new answer, outside CORS.
Caught(a) ==
  CASE a.code = "panicked" -> Internal
    [] a.status = 413 -> TooLarge
    [] OTHER -> a
apply_cache_policy(a) ==
  IF options.cache = "private" /\ a.cache = "none" THEN [a EXCEPT !.cache = "no-store"] ELSE a

(* The lifecycle.                                                             *)
RequestId(s, in) == IF in.id = "given" THEN <<s, "given">> ELSE <<s, "generated">>
CurrentId(s) == id[s]
Preflight(in) == in.preflight /\ in.origin # "none"
Arrive(s, in) ==
  /\ phase[s] = "free"
  /\ input' = [input EXCEPT ![s] = in]
  /\ id' = [id EXCEPT ![s] = RequestId(s, in)]
  /\ gauge' = [gauge EXCEPT ![in.endpoint] = @ + 1]
  /\ phase' = [phase EXCEPT ![s] = "queued"]
  /\ UNCHANGED <<options, pipelineAnswer, permits, counted>>
Enter(s) ==
  LET e == input[s].endpoint IN
  /\ phase[s] = "queued" /\ ~Preflight(input[s]) /\ permits[e] > 0
  /\ permits' = [permits EXCEPT ![e] = @ - 1]
  /\ phase' = [phase EXCEPT ![s] = "inside"]
  /\ UNCHANGED <<options, input, id, pipelineAnswer, gauge, counted>>

\* The request's future is over: its permit is dropped, and its gauge guard.
Release(s) == permits' = IF phase[s] = "inside" THEN [permits EXCEPT ![input[s].endpoint] = @ + 1] ELSE permits
Leave(s) == gauge' = [gauge EXCEPT ![input[s].endpoint] = @ - 1]
Complete(s, a) ==
  /\ pipelineAnswer' = [pipelineAnswer EXCEPT ![s] = apply_cache_policy(a) @@ [id |-> CurrentId(s)]]
  /\ phase' = [phase EXCEPT ![s] = "answered"]
  /\ counted' = counted + 1
  /\ Release(s) /\ Leave(s)
  /\ UNCHANGED <<options, input, id>>
AnswerPreflight(s) ==
  /\ phase[s] = "queued" /\ Preflight(input[s])
  /\ Complete(s, Cors(s, Answer(200, "none")))
\* A length that is declared is refused before the handler.
Declared(s) == input[s].declared /\ input[s].size > options.body
Refuse(s) == phase[s] = "inside" /\ Declared(s) /\ Complete(s, Caught(Cors(s, Answer(413, "none"))))
Return(s) ==
  /\ phase[s] = "inside" /\ ~Declared(s)
  /\ \E a \in Handled(input[s]) : Complete(s, Caught(Cors(s, a)))
Panic(s) ==
  /\ phase[s] = "inside" /\ ~Declared(s) /\ Handled(input[s]) = Product
  /\ Complete(s, Caught(Answer(500, "panicked")))
Timeout(s) == phase[s] \in {"queued", "inside"} /\ Complete(s, TimedOut)
\* The client hangs up and the server drops the future.
Disconnect(s) ==
  /\ phase[s] \in {"queued", "inside"}
  /\ phase' = [phase EXCEPT ![s] = "gone"]
  /\ Release(s) /\ Leave(s) /\ UNCHANGED <<options, input, id, pipelineAnswer, counted>>

PipelineNext ==
  \E s \in Slots :
    \/ \E in \in Inputs : Arrive(s, in)
    \/ Enter(s)
    \/ AnswerPreflight(s)
    \/ Refuse(s)
    \/ Return(s)
    \/ Panic(s)
    \/ Timeout(s)
    \/ Disconnect(s)
PipelineSpec == PipelineInit /\ [][PipelineNext]_pipelineVars

(* Properties.                                                                *)
In(e, where) == {s \in Slots : phase[s] \in where /\ input[s].endpoint = e}
PipelineTypeOK ==
  /\ phase \in [Slots -> {"free", "queued", "inside", "answered", "gone"}]
  /\ permits \in [All -> 0..options.concurrency] /\ gauge \in [All -> 0..Cardinality(Slots)]
  /\ counted \in 0..Cardinality(Slots)

\* However a request ends, by an answer, a panic, its timeout or its client, the
\* gauge and the permits are as if it had never come, and no endpoint runs more
\* than its limit.
NothingLeaks ==
  \A e \in All :
    /\ gauge[e] = Cardinality(In(e, {"queued", "inside"}))
    /\ permits[e] + Cardinality(In(e, {"inside"})) = options.concurrency
\* Every answer names its own request, every failure has a code a client can
\* read, and no answer can be cached that the product did not allow.
AnswersAreWhole ==
  \A s \in Slots : phase[s] = "answered" =>
    /\ pipelineAnswer[s].id = id[s]
    /\ pipelineAnswer[s].status >= 400 => pipelineAnswer[s].code \notin {"none", "panicked"}
    /\ options.cache = "private" => pipelineAnswer[s].cache \in {"own", "no-store"}
\* A browser at a listed origin, and at no other, reads every answer but those the
\* lifecycle writes itself.
BrowsersRead ==
  \A s \in Slots :
    phase[s] = "answered" =>
      /\ pipelineAnswer[s].cors => input[s].origin \in options.origins
      /\ pipelineAnswer[s].status \notin {413, 500, 504} /\ input[s].origin \in options.origins => pipelineAnswer[s].cors
\* Whatever refuses a large body, the client reads the product's code for it.
LargeBodyCode ==
  \A s \in Slots : phase[s] = "answered" /\ pipelineAnswer[s].status = 413 => pipelineAnswer[s].code = options.codes.large
\* options.rs calls the limit the maximum number of requests processed
\* concurrently. It is each endpoint's own.
ConcurrencyIsBounded ==
  Cardinality({s \in Slots : phase[s] = "inside"}) <= options.concurrency
\* options.rs calls the limit the maximum accepted body. A body within it may be
\* above Axum's own limit, and no handler sees it.
BodiesWithinLimit ==
  \A s \in Slots :
    /\ phase[s] = "inside" /\ input[s].endpoint \in Endpoints
    /\ input[s].bad = "none" /\ input[s].size <= options.body
    => Handled(input[s]) = Product
\* layers() says that invalid zero limits are replaced by their defaults. The rest
\* of the options go with them.
OnlyLimitsReplaced ==
  \E o \in Built : o.origins = options.origins /\ o.codes = options.codes /\ o.cache = options.cache
-----------------------------------------------------------------------------
(* Writes guarded by If-Match (baukit-http precondition.rs): clients read a   *)
(* revision, a middlebox may rewrite the header on its way, and the route     *)
(* parses it, compares revisions and writes.                                  *)

CONSTANTS CondClients,
          Base,        \* the number base of a revision's digits, 10 in the code
          Max,         \* Revision::MAX
          Required,    \* required_if_match, or optional_if_match
          MaxHeader,   \* bound: tokens of a header the middlebox makes up
          None

Digit(d) == <<"0", "1", "2", "3", "4", "5", "6", "7", "8", "9">>[d + 1]
IsDigit(t) == \E d \in 0..(Base - 1) : t = Digit(d)
ValueOf(t) == CHOOSE d \in 0..(Base - 1) : t = Digit(d)

\* A header value is a sequence of tokens: the weak indicator, a quote, a comma,
\* a space, the route's prefix, a digit, any other character, a non-ASCII byte.
Tokens == {"W/", "Q", ",", " ", "*", "prefix", "other", "byte"} \cup {Digit(d) : d \in 0..(Base - 1)}

VARIABLES revision, content,  \* the stored resource; content names its writer's write
          seen,     \* what each client last read: [revision, content]
          headers,  \* each client's If-Match headers under way, or None
          condAnswer,   \* the answer to each client's last request
          edits     \* rewrites of the middlebox

condVars == <<revision, content, seen, headers, condAnswer, edits>>

(* RevisionEtag                                                               *)
Digits[n \in Nat] == IF n < Base THEN <<n>> ELSE Append(Digits[n \div Base], n % Base)
Format(r) == <<"Q", "prefix">> \o [i \in 1..Len(Digits[r]) |-> Digit(Digits[r][i])] \o <<"Q">>

CondBad(why) == [ok |-> FALSE, why |-> why]
\* parse_revision: canonical digits up to the largest revision.
ParseRevision(ds) ==
  LET val[i \in 0..Len(ds)] == IF i = 0 THEN 0 ELSE Base * val[i - 1] + ValueOf(ds[i])
  IN  IF \/ ds = <<>> \/ \E i \in 1..Len(ds) : ~IsDigit(ds[i])
         \/ Len(ds) > 1 /\ ds[1] = Digit(0)
      THEN CondBad("invalid_revision")
      ELSE IF val[Len(ds)] > Max THEN CondBad("revision_out_of_range")
      ELSE [ok |-> TRUE, revision |-> val[Len(ds)]]

TrimStart(s) ==
  LET kept == {i \in 1..Len(s) : s[i] # " "}
  IN  IF kept = {} THEN <<>> ELSE SubSeq(s, CHOOSE i \in kept : \A j \in kept : i <= j, Len(s))
TrimEnd(s) ==
  LET kept == {i \in 1..Len(s) : s[i] # " "}
  IN  IF kept = {} THEN <<>> ELSE SubSeq(s, 1, CHOOSE i \in kept : \A j \in kept : i >= j)

\* single_entity_tag: [W/]"opaque", nothing behind it and no space inside.
EntityTag(tag) ==
  LET weak == tag # <<>> /\ tag[1] = "W/"
      quoted == IF weak THEN Tail(tag) ELSE tag
      body == IF quoted = <<>> THEN <<>> ELSE Tail(quoted)
      quotes == {i \in 1..Len(body) : body[i] = "Q"}
      end == CHOOSE i \in quotes : \A j \in quotes : i <= j
      rest == TrimStart(SubSeq(body, end + 1, Len(body)))
      opaque == SubSeq(body, 1, end - 1)
  IN  IF quoted = <<>> \/ Head(quoted) # "Q" \/ quotes = {} THEN CondBad("malformed")
      ELSE IF rest # <<>> /\ rest[1] = "," THEN CondBad("list")
      ELSE IF rest # <<>> \/ \E i \in 1..Len(opaque) : opaque[i] = " " THEN CondBad("malformed")
      ELSE [ok |-> TRUE, weak |-> weak, opaque |-> opaque]

\* RevisionEtag::parse
CondParse(value) ==
  LET tag == TrimStart(TrimEnd(value))
      e == EntityTag(tag)
  IN  IF \E i \in 1..Len(value) : value[i] = "byte" THEN CondBad("non_ascii")
      ELSE IF tag = <<>> THEN CondBad("empty")
      ELSE IF tag[1] = "*" THEN CondBad("wildcard")
      ELSE IF ~e.ok THEN e
      ELSE IF e.weak THEN CondBad("weak_validator")
      ELSE IF e.opaque = <<>> \/ e.opaque[1] # "prefix" THEN CondBad("prefix_mismatch")
      ELSE ParseRevision(Tail(e.opaque))

\* optional_if_match: no header, one header, or a repeated one.
IfMatch(hs) ==
  IF hs = <<>> THEN [ok |-> TRUE, revision |-> None]
  ELSE IF Len(hs) > 1 THEN CondBad("repeated_header")
  ELSE CondParse(hs[1])

Failure(status, detail) == [status |-> status, detail |-> detail]
\* required_if_match, then ensure_current_revision; the error's status and detail.
Check(hs) ==
  LET m == IfMatch(hs)
  IN  IF ~m.ok THEN Failure(400, m.why)
      ELSE IF m.revision = None THEN IF Required THEN Failure(428, None) ELSE Failure(200, None)
      ELSE IF m.revision = revision THEN Failure(200, None)
      ELSE Failure(412, revision)

CondInit ==
  /\ revision = 0 /\ content = <<None, 0>>
  /\ seen = [c \in CondClients |-> None]
  /\ headers = [c \in CondClients |-> None]
  /\ condAnswer = [c \in CondClients |-> None]
  /\ edits = 0

Read(c) ==
  /\ headers[c] = None
  /\ seen' = [seen EXCEPT ![c] = [revision |-> revision, content |-> content]]
  /\ condAnswer' = [condAnswer EXCEPT ![c] = None]
  /\ UNCHANGED <<revision, content, headers, edits>>
\* A client sends the tag it was given with what it read.
CondSend(c) ==
  /\ seen[c] # None /\ headers[c] = None /\ condAnswer[c] = None
  /\ headers' = [headers EXCEPT ![c] = <<Format(seen[c].revision)>>]
  /\ UNCHANGED <<revision, content, seen, condAnswer, edits>>
\* A middlebox weakens, strips, merges or repeats the header, or adds space.
Rewrites(hs) ==
  LET h == hs[1] IN
  {<<>>, <<<<"W/">> \o h>>, <<h, h>>, <<h \o <<",", " ">> \o h>>, <<<<" ">> \o h \o <<" ">>>>}
Rewrite(c) ==
  /\ headers[c] # None /\ Len(headers[c]) = 1 /\ edits = 0
  /\ edits' = 1
  /\ \E hs \in Rewrites(headers[c]) : headers' = [headers EXCEPT ![c] = hs]
  /\ UNCHANGED <<revision, content, seen, condAnswer>>
\* Or the header arrives as any other text, made up token by token.
MakeUp(c, t) ==
  /\ headers[c] # None /\ edits # 1 /\ edits <= MaxHeader /\ MaxHeader > 0
  /\ edits' = IF edits = 0 THEN 2 ELSE edits + 1
  /\ headers' = [headers EXCEPT ![c] = <<IF edits = 0 THEN <<t>> ELSE Append(@[1], t)>>]
  /\ UNCHANGED <<revision, content, seen, condAnswer>>

\* The handler: the write and the new revision are one transaction.
Write(c) ==
  /\ headers[c] # None
  /\ LET out == Check(headers[c])
         fits == revision < Max
     IN  /\ condAnswer' = [condAnswer EXCEPT ![c] =
                             IF out.status = 200 /\ ~fits THEN Failure(500, None) ELSE out]
         /\ IF out.status = 200 /\ fits
            THEN revision' = revision + 1 /\ content' = <<c, revision + 1>>
            ELSE UNCHANGED <<revision, content>>
  /\ headers' = [headers EXCEPT ![c] = None]
  /\ UNCHANGED <<seen, edits>>

CondNext == \E c \in CondClients : \/ Read(c) \/ CondSend(c) \/ Rewrite(c) \/ Write(c)
                                   \/ \E t \in Tokens : MakeUp(c, t)
CondSpec == CondInit /\ [][CondNext]_condVars

CondTypeOK ==
  /\ revision \in 0..Max /\ edits \in 0..(MaxHeader + 1)
  /\ \A c \in CondClients : condAnswer[c] # None => condAnswer[c].status \in {200, 400, 412, 428, 500}

\* No update is lost on a route that requires If-Match: while no header is made
\* up, a client's write replaces exactly the content that client had read.
NoLostUpdate ==
  \A c \in CondClients :
    content' # content /\ content'[1] = c /\ edits <= 1 => content = seen[c].content

\* A header that lets a write through is the stored revision's own tag, but for
\* space around it: no other text, list, weak tag or spelling of the number.
OnlyOwnTag ==
  \A c \in CondClients :
    content' # content /\ content'[1] = c /\ headers[c] # <<>>
      => Len(headers[c]) = 1 /\ TrimStart(TrimEnd(headers[c][1])) = Format(revision)

\* A client whose tag arrives as it was given is only ever refused because the
\* resource changed, and the answer then names a revision newer than its own.
RefusedForAReason ==
  \A c \in CondClients :
    edits = 0 /\ condAnswer[c] # None =>
      \/ condAnswer[c].status = 200
      \/ condAnswer[c].status = 412 /\ condAnswer[c].detail > seen[c].revision
      \/ condAnswer[c].status = 500 /\ seen[c].revision = Max
-----------------------------------------------------------------------------
(* Mutations under an Idempotency-Key (baukit-http idempotency.rs): the       *)
(* route's key rule, the answers of a keyed mutation, and clients that retry  *)
(* until one tells them the result.                                           *)

CONSTANTS KeyedClients,
          Keys,        \* key texts the clients may choose
          Length,      \* their lengths in bytes
          Graphic,     \* the texts of visible ASCII
          MinBytes, MaxBytes, LongestKey,   \* the route's rule
          KeyRequired, \* required, or optional
          MaxCrashes, MaxLost              \* bounds

VARIABLES chosen,     \* each client's Idempotency-Key headers, one mutation per client
          stage,      \* "new", "sent", "running", "stuck" and the final answers
          records,    \* replay records: key text -> the client whose mutation it holds
          effects,    \* how often each client's mutation took effect
          crashes, lost

keyedVars == <<chosen, stage, records, effects, crashes, lost>>

\* IdempotencyKeyRule::new
RuleIsValid == 1 <= MinBytes /\ MinBytes <= MaxBytes /\ MaxBytes <= LongestKey

KeyedAssumption == RuleIsValid /\ None \notin Keys /\ None \notin KeyedClients

KeyedBad(why) == [ok |-> FALSE, why |-> why]
\* IdempotencyKeyRule::parse
KeyedParse(k) ==
  CASE Length[k] = 0        -> KeyedBad("empty")
    [] k \notin Graphic     -> KeyedBad("invalid_character")
    [] Length[k] < MinBytes -> KeyedBad("too_short")
    [] Length[k] > MaxBytes -> KeyedBad("too_long")
    [] OTHER                -> [ok |-> TRUE, key |-> k]
\* optional, required
Optional(hs) ==
  IF hs = <<>> THEN [ok |-> TRUE, key |-> None]
  ELSE IF Len(hs) > 1 THEN KeyedBad("repeated_header") ELSE KeyedParse(hs[1])
KeyOf(hs) ==
  LET k == Optional(hs)
  IN  IF k.ok /\ k.key = None /\ KeyRequired THEN KeyedBad("required") ELSE k

\* IdempotencyError::code: the answer of a refused request.
Refusal(why) == IF why = "required" THEN "idempotency_key_required" ELSE "invalid_idempotency_key"

KeyedInit ==
  /\ chosen \in [KeyedClients -> {<<>>} \cup {<<k>> : k \in Keys} \cup {<<k, k>> : k \in Keys}]
  /\ stage = [c \in KeyedClients |-> "new"]
  /\ records = [k \in Keys |-> None]
  /\ effects = [c \in KeyedClients |-> 0]
  /\ crashes = 0 /\ lost = 0

Becomes(c, s) == stage' = [stage EXCEPT ![c] = s]
KeyedSend(c) ==
  /\ stage[c] \in {"new", "again"}
  /\ Becomes(c, "sent")
  /\ UNCHANGED <<chosen, records, effects, crashes, lost>>

Holder(k) == {d \in KeyedClients : stage[d] = "running" /\ KeyOf(chosen[d]).key = k}
\* The handler reads the key and takes it, refuses, or answers from a record.
Begin(c) ==
  /\ stage[c] = "sent"
  /\ LET k == KeyOf(chosen[c])
     IN  Becomes(c,
           IF ~k.ok THEN Refusal(k.why)
           ELSE IF k.key = None THEN "running"
           ELSE IF Holder(k.key) # {} THEN "idempotency_key_in_progress"
           ELSE IF records[k.key] = None THEN "running"
           ELSE IF records[k.key] = c THEN "result"
           ELSE "idempotency_key_reused")
  /\ UNCHANGED <<chosen, records, effects, crashes, lost>>
\* Effect and record commit in one transaction.
Commit(c) ==
  /\ stage[c] = "running"
  /\ effects' = [effects EXCEPT ![c] = @ + 1]
  /\ records' = IF KeyOf(chosen[c]).key = None THEN records
                ELSE [records EXCEPT ![KeyOf(chosen[c]).key] = c]
  /\ Becomes(c, "result")
  /\ UNCHANGED <<chosen, crashes, lost>>
\* Only a keyed mutation may be sent again after a lost answer.
Retryable(hs) == hs # <<>>

\* The process dies: the transaction is rolled back, the client sees no answer.
Crash(c) ==
  /\ stage[c] = "running" /\ crashes < MaxCrashes
  /\ crashes' = crashes + 1
  /\ Becomes(c, IF Retryable(chosen[c]) THEN "again" ELSE "unknown")
  /\ UNCHANGED <<chosen, records, effects, lost>>

Lose(c) ==
  /\ stage[c] \in {"result", "idempotency_key_reused"} /\ lost < MaxLost
  /\ lost' = lost + 1
  /\ Becomes(c, IF Retryable(chosen[c]) THEN "again" ELSE "unknown")
  /\ UNCHANGED <<chosen, records, effects, crashes>>
\* A key in progress is asked for again later.
Wait(c) ==
  /\ stage[c] = "idempotency_key_in_progress"
  /\ Becomes(c, "again")
  /\ UNCHANGED <<chosen, records, effects, crashes, lost>>

Steps(c) == KeyedSend(c) \/ Begin(c) \/ Commit(c) \/ Wait(c)
KeyedNext == \E c \in KeyedClients : Steps(c) \/ Crash(c) \/ Lose(c)
KeyedSpec == KeyedInit /\ [][KeyedNext]_keyedVars

\* However often a client retries, its mutation takes effect at most once, and
\* exactly once when it was told the result.
OncePerMutation ==
  \A c \in KeyedClients :
    /\ effects[c] <= 1
    /\ stage[c] = "result" => effects[c] = 1

\* A client is told its key belongs to another mutation only when it does, and
\* then its own has taken no effect.
ReusedMeansNoEffect ==
  \A c \in KeyedClients :
    stage[c] = "idempotency_key_reused" =>
      effects[c] = 0 /\ \E d \in KeyedClients \ {c} : chosen[d] = chosen[c] /\ effects[d] = 1

==============================================================================
