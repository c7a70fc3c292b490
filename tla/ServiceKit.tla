----------------------------- MODULE ServiceKit ------------------------------
(***************************************************************************)
(* The service cases of baukit-test and the egress test kit, each run      *)
(* against correct and faulty services: credential probes (Probe...),      *)
(* inboxes (Inbox...), limits (Limits...) and the operations endpoints     *)
(* (OpsCases...).                                                          *)
(***************************************************************************)
EXTENDS Naturals, Sequences, FiniteSets, TLC

-----------------------------------------------------------------------------
(* check_credential_probe_conformance of baukit-test: nine raw responses of a   *)
(* scripted server, one call of a product's credential probe for each, and a    *)
(* count of the requests. The probe here has up to two faults.                  *)

CONSTANTS ProbeFaults

VARIABLES probeFaults,
          probeAt, phase,   \* case; "push", "probe", "judge"
          queue,       \* responses the server still has
          calls,       \* requests it received
          last,        \* what the probe remembers of earlier calls
          result,      \* what the probe returned, "never" for no answer
          probeViolated

probeVars == <<probeFaults, probeAt, phase, queue, calls, last, result, probeViolated>>

ProbeHas(f) == f \in probeFaults

(* The cases: a response, and the outcome the contract maps it to.            *)
ProbeCase(response, outcome) == [response |-> response, outcome |-> outcome]
ProbeCases ==
  <<ProbeCase("ok", "success"), ProbeCase("401", "revoked"), ProbeCase("403", "missing_scope"),
    ProbeCase("429+after", "rate_limited+after"), ProbeCase("429", "rate_limited"), ProbeCase("503", "unavailable"),
    ProbeCase("junk", "invalid_data"), ProbeCase("oversized", "invalid_data"), ProbeCase("pending", "timeout")>>
ProbeDone == probeAt = Len(ProbeCases) + 2

ProbeInit ==
  /\ probeFaults \in {{}} \cup {{f, g} : f, g \in ProbeFaults}
  /\ probeAt = 1 /\ phase = "push" /\ queue = <<>> /\ calls = 0
  /\ last = "none" /\ result = "none" /\ probeViolated = {}

(* The probe.                                                                 *)
\* Neither scripted body is the provider's JSON.
Parsed == IF ProbeHas("AcceptsAnyBody") THEN "other_account" ELSE "invalid_data"
Classify(response) ==
  CASE response = "ok" -> IF ProbeHas("WrongAccount") THEN "other_account" ELSE "success"
    [] response = "401" -> IF ProbeHas("RevokedIsTransient") THEN "unavailable" ELSE "revoked"
    [] response = "403" -> IF ProbeHas("IgnoresScope") THEN "success"
                           ELSE IF ProbeHas("ScopeIsRevoked") THEN "revoked" ELSE "missing_scope"
    [] response = "429+after" -> IF ProbeHas("LimitIsUnavailable") THEN "unavailable"
                                 ELSE IF ProbeHas("DropsHint") THEN "rate_limited" ELSE "rate_limited+after"
    [] response = "429" -> IF ProbeHas("LimitIsUnavailable") THEN "unavailable"
                           ELSE IF ProbeHas("InventsHint") THEN "rate_limited+after" ELSE "rate_limited"
    [] response \in {"503", "500"} -> IF ProbeHas("ServerErrorIsInvalid") THEN "invalid_data" ELSE "unavailable"
    [] response = "junk" -> Parsed
    [] response = "oversized" -> IF ProbeHas("UnboundedRead") THEN Parsed ELSE "invalid_data"
    [] response = "pending" -> IF ProbeHas("NoTimeout") THEN "never"
                               ELSE IF ProbeHas("TimeoutIsUnavailable") THEN "unavailable" ELSE "timeout"
\* An empty queue answers 500.
Response(n) == IF n <= Len(queue) THEN queue[n] ELSE "500"
Requests ==
  LET first == Classify(Response(1))
      again == \/ ProbeHas("RetriesServerErrors") /\ first = "unavailable"
               \/ ProbeHas("RetriesTimeouts") /\ first = "timeout"
               \/ ProbeHas("RetriesLimits") /\ first \in {"rate_limited", "rate_limited+after"}
  IN  IF again THEN 2 ELSE 1
\* An answer the probe gives without a request.
Remembered ==
  \/ ProbeHas("CachesSuccess") /\ last = "success"
  \/ ProbeHas("RemembersRevoked") /\ last = "revoked"
  \/ ProbeHas("BacksOff") /\ last \in {"rate_limited", "rate_limited+after"}
  \/ ProbeHas("OpensCircuit") /\ last \in {"unavailable", "timeout"}
  \/ ProbeHas("RemembersInvalid") /\ last = "invalid_data"
Drop(n) == SubSeq(queue, (IF n < Len(queue) THEN n ELSE Len(queue)) + 1, Len(queue))
ProbePush ==
  /\ phase = "push" /\ probeAt <= Len(ProbeCases)
  /\ queue' = Append(queue, ProbeCases[probeAt].response) /\ phase' = "probe"
  /\ UNCHANGED <<probeFaults, probeAt, calls, last, result, probeViolated>>
Probe ==
  /\ phase = "probe" /\ phase' = "judge"
  /\ IF Remembered THEN result' = last /\ UNCHANGED <<queue, calls, last>>
     ELSE /\ result' = Classify(Response(Requests)) /\ last' = result'
          /\ queue' = Drop(Requests) /\ calls' = calls + Requests
  /\ UNCHANGED <<probeFaults, probeAt, probeViolated>>

(* The judgement of a call that returned, or that its deadline ended.         *)
Violate(when) == probeViolated' = IF when THEN probeViolated \cup {probeAt} ELSE probeViolated
Next1 == probeAt' = probeAt + 1 /\ phase' = "push" /\ UNCHANGED <<probeFaults, queue, calls, last, result>>
SameOutcome(x, y) == x = y
Returned == phase = "judge" /\ result # "never"
ProbeJudge == Returned /\ Violate(~SameOutcome(result, ProbeCases[probeAt].outcome)) /\ Next1
Deadline == phase = "judge" /\ result = "never" /\ Violate(TRUE) /\ Next1
CountCalls ==
  /\ phase = "push" /\ probeAt = Len(ProbeCases) + 1
  /\ Violate(calls # Len(ProbeCases)) /\ Next1
ProbeNext == ProbePush \/ Probe \/ ProbeJudge \/ Deadline \/ CountCalls
ProbeSpec == ProbeInit /\ [][ProbeNext]_probeVars

(* A probe without a fault passes.                                            *)
ProbeCorrectPasses == ProbeDone /\ probeFaults = {} => probeViolated = {}

(* No fault and no pair of faults passes, not even when one fault's extra     *)
(* request makes up for a request the other does not send.                    *)
ProbeFaultyFails == ProbeDone /\ probeFaults # {} => probeViolated # {}

-----------------------------------------------------------------------------
(* check_postgres_inbox_conformance of baukit-test against the port its own     *)
(* test runs, a transaction of inbox row, domain effect, outbox message and     *)
(* outcome, and against ports with up to two faults. The two deliveries of the  *)
(* concurrent case interleave step by step.                                     *)

CONSTANTS InboxFaults

VARIABLES inboxFaults,
          inboxAt,           \* case
          worker,       \* one delivery each
          inbox, effects, outbox,   \* committed rows, each with the number n of its delivery
          memory,       \* outcomes by scope held in the process
          number,       \* deliveries so far
          firstOutcome, \* of the first case, 0 for none
          overlapped,   \* both concurrent deliveries found no row
          inboxViolated

db == <<inbox, effects, outbox, memory>>
inboxVars == <<inboxFaults, inboxAt, worker, inbox, effects, outbox, memory, number, firstOutcome, overlapped, inboxViolated>>

InboxHas(f) == f \in inboxFaults
Workers == {1, 2}

Scope(owner, source, event) == [owner |-> owner, source |-> source, event |-> event]
Mine(event) == Scope("owner", "source", event)
InboxCase(check, scope, fault) == [check |-> check, scope |-> scope, fault |-> fault]
Faulted(event, fault) == <<InboxCase("rollback", Mine(event), fault), InboxCase("first", Mine(event), "none")>>
InboxCases ==
  <<InboxCase("first", Mine("event"), "none"), InboxCase("replay", Mine("event"), "none"),
    InboxCase("concurrent", Mine("concurrent"), "none")>>
    \o Faulted("after-insert", "AfterInboxInsert") \o Faulted("domain-failure", "DomainWrite")
    \o Faulted("outbox-failure", "OutboxWrite")
    \o <<InboxCase("first", Scope("other", "source", "event"), "none"),
         InboxCase("first", Scope("owner", "other", "event"), "none"),
         InboxCase("discard", Mine("event"), "none"), InboxCase("replay", Mine("event"), "none")>>
InboxDone == inboxAt = Len(InboxCases) + 1
Idle == [pc |-> "idle", n |-> 0, told |-> "none", outcome |-> 0]

InboxInit ==
  /\ inboxFaults \in {{}} \cup {{f, g} : f, g \in InboxFaults}
  /\ inboxAt = 1 /\ worker = [w \in Workers |-> Idle]
  /\ inbox = {} /\ effects = {} /\ outbox = {} /\ memory = {}
  /\ number = 0 /\ firstOutcome = 0 /\ overlapped = FALSE /\ inboxViolated = {}

(* A delivery of the port.                                                    *)
scope == InboxCases[inboxAt].scope
Key == <<IF InboxHas("OwnerNotInKey") THEN "any" ELSE scope.owner,
         IF InboxHas("SourceNotInKey") THEN "any" ELSE scope.source,
         IF InboxHas("EventNotInKey") THEN "any" ELSE scope.event>>
Committed == {r \in inbox : r.key = Key}
\* The transaction of w holds the key it inserted.
Holds(w) == worker[w].pc \in {"domain", "outbox", "commit"}
Set(w, fields) == worker' = [worker EXCEPT ![w] = fields @@ @]
Tagged(n) == [n |-> n, scope |-> scope]
Row(n, outcome) == [n |-> n, scope |-> scope, key |-> Key, outcome |-> outcome]
Constant == UNCHANGED <<inboxFaults, inboxAt, firstOutcome, inboxViolated>>

\* The answer for a row another delivery committed.
ReplayOutcome(w, r) ==
  CASE InboxHas("RecomputesOutcome") -> worker[w].n
    [] InboxHas("OutcomeInMemory") \/ InboxHas("StateShowsMemory") ->
         LET kept == {k \in memory : k.scope = scope}
         IN  IF kept = {} THEN 0 ELSE (CHOOSE k \in kept : TRUE).n
    [] OTHER -> r.outcome
Replay(w) ==
  /\ \E r \in Committed :
       /\ \A s \in Committed : r.n <= s.n
       /\ Set(w, [pc |-> "done",
                  told |-> IF InboxHas("DuplicateIsError") THEN "error"
                           ELSE IF InboxHas("ReplayIsFirst") THEN "FirstDelivery" ELSE "Replay",
                  outcome |-> ReplayOutcome(w, r)])
  /\ effects' = IF InboxHas("ReplayReapplies") THEN effects \cup {Tagged(worker[w].n)} ELSE effects
  /\ outbox' = IF InboxHas("ReplayRepublishes") THEN outbox \cup {Tagged(worker[w].n)} ELSE outbox
  /\ UNCHANGED <<inbox, memory, overlapped>>
Inserted(w) ==
  /\ Set(w, [pc |-> "domain"])
  /\ inbox' = IF InboxHas("InboxAlone") THEN inbox \cup {Row(worker[w].n, worker[w].n)} ELSE inbox
  /\ overlapped' = (overlapped \/ \E o \in Workers \ {w} : Holds(o))
  /\ UNCHANGED <<effects, outbox, memory>>
Fails(w) == Set(w, [pc |-> "done", told |-> "error"]) /\ overlapped' = TRUE /\ UNCHANGED db
Waits(w) == \E o \in Workers \ {w} : Holds(o)
Insert(w) ==
  /\ worker[w].pc = "insert"
  /\ CASE Committed # {} -> Replay(w)
       [] Committed = {} /\ Waits(w) ->
            \/ InboxHas("ReadsThenInserts") /\ Inserted(w)
            \/ InboxHas("ConflictIsError") /\ Fails(w)
       [] OTHER -> Inserted(w)
  /\ UNCHANGED number /\ Constant

\* The injected failure rolls the transaction back.
Inject(w, fault) ==
  /\ InboxCases[inboxAt].fault = fault
  /\ Set(w, [pc |-> "done", told |-> IF InboxHas("SwallowsFault") THEN "FirstDelivery" ELSE "error",
             outcome |-> worker[w].n])
  /\ UNCHANGED <<db, overlapped, number>> /\ Constant
Domain(w) ==
  /\ worker[w].pc = "domain"
  /\ InboxCases[inboxAt].fault \notin {"AfterInboxInsert", "DomainWrite"}
  /\ Set(w, [pc |-> "outbox"])
  /\ effects' = IF InboxHas("DomainAlone") THEN effects \cup {Tagged(worker[w].n)} ELSE effects
  /\ UNCHANGED <<inbox, outbox, memory, overlapped, number>> /\ Constant
AfterInboxInsert(w) == worker[w].pc = "domain" /\ Inject(w, "AfterInboxInsert")
DomainWrite(w) == worker[w].pc = "domain" /\ Inject(w, "DomainWrite")
Outbox(w) ==
  /\ worker[w].pc = "outbox" /\ InboxCases[inboxAt].fault # "OutboxWrite"
  /\ Set(w, [pc |-> "commit"])
  /\ outbox' = IF InboxHas("OutboxAlone") THEN outbox \cup {Tagged(worker[w].n)} ELSE outbox
  /\ UNCHANGED <<inbox, effects, memory, overlapped, number>> /\ Constant
OutboxWrite(w) == worker[w].pc = "outbox" /\ Inject(w, "OutboxWrite")
Commit(w) ==
  LET n == worker[w].n
      stored == IF InboxHas("OutcomeInMemory") \/ InboxHas("OutcomeNotStored") THEN 0 ELSE n
  IN  /\ worker[w].pc = "commit"
      /\ Set(w, [pc |-> "done", told |-> "FirstDelivery", outcome |-> n])
      /\ IF InboxHas("NeverCommits") THEN UNCHANGED <<inbox, effects, outbox>>
         ELSE /\ inbox' = IF InboxHas("InboxAlone") THEN inbox ELSE inbox \cup {Row(n, stored)}
              /\ effects' = effects \cup {Tagged(n)}
              /\ outbox' = IF InboxHas("NoMessage") THEN outbox ELSE outbox \cup {Tagged(n)}
      /\ memory' = {k \in memory : k.scope # scope} \cup {Tagged(n)}
      /\ UNCHANGED <<overlapped, number>> /\ Constant

(* The checks of one case.                                                    *)
Start ==
  /\ ~InboxDone /\ InboxCases[inboxAt].check # "discard" /\ worker[1].pc = "idle"
  /\ ~(InboxCases[inboxAt].check = "replay" /\ firstOutcome = 0)
  /\ number' = number + 2
  /\ worker' = [w \in Workers |->
                  IF w = 1 \/ InboxCases[inboxAt].check = "concurrent"
                  THEN [Idle EXCEPT !.pc = "insert", !.n = number + w] ELSE Idle]
  /\ UNCHANGED <<db, overlapped>> /\ Constant
Skip ==
  /\ ~InboxDone /\ InboxCases[inboxAt].check = "replay" /\ firstOutcome = 0 /\ inboxAt' = inboxAt + 1
  /\ UNCHANGED <<inboxFaults, worker, db, number, firstOutcome, overlapped, inboxViolated>>
discard_transient_state ==
  /\ ~InboxDone /\ InboxCases[inboxAt].check = "discard" /\ inboxAt' = inboxAt + 1
  /\ memory' = {}
  /\ UNCHANGED <<inboxFaults, worker, inbox, effects, outbox, number, firstOutcome, overlapped, inboxViolated>>

state ==
  LET rows == {r \in inbox : r.scope = scope}
  IN  [inbox_rows |-> Cardinality(rows),
       domain_effects |-> Cardinality({e \in effects : e.scope = scope}),
       outbox_messages |-> Cardinality({m \in outbox : m.scope = scope}),
       stored_outcome |->
         IF InboxHas("StateShowsMemory") /\ {k \in memory : k.scope = scope} # {}
         THEN (CHOOSE k \in memory : k.scope = scope).n
         ELSE IF rows = {} THEN 0 ELSE (CHOOSE r \in rows : \A s \in rows : r.n <= s.n).outcome]
CommittedState(outcome) ==
  state = [inbox_rows |-> 1, domain_effects |-> 1, outbox_messages |-> 1, stored_outcome |-> outcome]
Reported == {worker[w].told : w \in Workers}
First == CHOOSE w \in Workers : worker[w].told = "FirstDelivery"
Passes ==
  CASE InboxCases[inboxAt].check = "first" ->
         worker[1].told = "FirstDelivery" /\ CommittedState(worker[1].outcome)
    [] InboxCases[inboxAt].check = "replay" ->
         /\ worker[1].told = "Replay" /\ worker[1].outcome = firstOutcome
         /\ CommittedState(firstOutcome)
    [] InboxCases[inboxAt].check = "concurrent" ->
         /\ Reported = {"FirstDelivery", "Replay"}
         /\ worker[1].outcome = worker[2].outcome
         /\ CommittedState(worker[First].outcome)
    [] InboxCases[inboxAt].check = "rollback" ->
         /\ worker[1].told = "error"
         /\ state = [inbox_rows |-> 0, domain_effects |-> 0, outbox_messages |-> 0, stored_outcome |-> 0]
InboxJudge ==
  /\ ~InboxDone /\ InboxCases[inboxAt].check # "discard"
  /\ worker[1].pc = "done" /\ worker[2].pc \in {"done", "idle"}
  /\ inboxViolated' = IF Passes THEN inboxViolated ELSE inboxViolated \cup {inboxAt}
  /\ firstOutcome' = IF inboxAt = 1 /\ worker[1].told = "FirstDelivery" THEN worker[1].outcome ELSE firstOutcome
  /\ inboxAt' = inboxAt + 1 /\ worker' = [w \in Workers |-> Idle]
  /\ UNCHANGED <<inboxFaults, db, number, overlapped>>
InboxNext ==
  \/ Start \/ Skip \/ discard_transient_state \/ InboxJudge
  \/ \E w \in Workers :
       ~InboxDone /\ (Insert(w) \/ AfterInboxInsert(w) \/ DomainWrite(w) \/ Domain(w) \/ OutboxWrite(w) \/ Outbox(w) \/ Commit(w))
InboxSpec == InboxInit /\ [][InboxNext]_inboxVars

Racy == {"ReadsThenInserts", "ConflictIsError"}

(* The port of the crate's own test passes, whatever the order of its two     *)
(* concurrent deliveries.                                                     *)
InboxCorrectPasses == InboxDone /\ inboxFaults = {} => inboxViolated = {}

(* No fault and no pair of faults passes, the ones that only two overlapping  *)
(* deliveries show apart.                                                     *)
InboxFaultyFails == InboxDone /\ inboxFaults \ Racy # {} => inboxViolated # {}

(* The concurrent case shows a missing unique key, or a conflict answered     *)
(* with an error, in every run in which the two deliveries overlap.           *)
RacesShow == InboxDone /\ overlapped => inboxViolated # {}

(* The port of the crate's own test: a scope has its row, its effect and its  *)
(* message together and once, at every step of two deliveries.                *)
OneEffect ==
  inboxFaults = {} =>
    \A c \in 1..Len(InboxCases) :
      LET of(rows) == {r.n : r \in {r \in rows : r.scope = InboxCases[c].scope}}
      IN  /\ of(inbox) = of(effects) /\ of(effects) = of(outbox)
          /\ Cardinality(of(inbox)) <= 1

-----------------------------------------------------------------------------
(* The limit checks of baukit-test: a payload just below, at and above a limit, *)
(* an update and a reuse at the live-row cap, and one reason code on every      *)
(* ingress path, against products with up to two faults. The product's          *)
(* measurements are those of baukit-core.                                       *)

CONSTANTS LimitsFaults, Limits, MaxLimit

VARIABLES limitsFaults,
          limit, payload, paths,   \* what the caller hands the checks
          limitsCheck, step,
          limitsRows,                    \* TRUE for a soft-deleted row
          held,                    \* rows the fill was given
          limitsViolated

limitsVars == <<limitsFaults, limit, payload, paths, limitsCheck, step, limitsRows, held, limitsViolated>>
LimitsHas(f) == f \in limitsFaults

Checks == <<"boundaries", "update", "reuse", "ingress">>
Ingresses == <<"rest", "sync", "import", "local">>
Payloads == {"ascii", "accents", "padded"}
\* How the paths and the expected reason are named.
Namings == {"named", "twice", "unnamed", "none", "no reason"}

LimitsInit ==
  /\ limitsFaults \in {{}} \cup {{f, g} : f, g \in LimitsFaults}
  /\ limit \in Limits /\ payload \in Payloads /\ paths \in Namings
  /\ limitsCheck = 1 /\ step = 1 /\ limitsRows = <<>> /\ held = 0 /\ limitsViolated = {}
LimitsDone == limitsCheck > Len(Checks)
Running(c) == ~LimitsDone /\ Checks[limitsCheck] = c

(* The product.                                                               *)
\* Scalars of the trimmed text. An accent has two bytes, the padding is white.
trimmed_unicode_scalar_count(size) ==
  CASE LimitsHas("MeasuresBytes") /\ payload = "accents" -> 2 * size
    [] LimitsHas("Untrimmed") /\ payload = "padded" -> size + 2
    [] OTHER -> size
check_measurement(measured, allowed) == measured <= allowed
Valid(size) ==
  \/ LimitsHas("NoBound")
  \/ LimitsHas("BoundIsNext") /\ size = limit + 1
  \/ /\ check_measurement(trimmed_unicode_scalar_count(size), limit)
     /\ ~(LimitsHas("BelowOnly") /\ size = limit)
Counted ==
  IF LimitsHas("CountsDeleted") THEN Len(limitsRows)
  ELSE Cardinality({i \in 1..Len(limitsRows) : ~limitsRows[i]})
Room == Counted < (IF LimitsHas("OneMore") THEN limit + 1 ELSE IF LimitsHas("OneLess") THEN limit - 1 ELSE limit)
MayCreate == LimitsHas("NoCap") \/ Room
Create ==
  limitsRows' = IF MayCreate \/ LimitsHas("RejectsAfterInsert") THEN Append(limitsRows, FALSE) ELSE limitsRows
MayUpdate == ~(LimitsHas("UpdateIsCreate") /\ ~Room)
MayDelete == ~(LimitsHas("DeleteNeedsRoom") /\ ~Room)
Delete == limitsRows' = IF LimitsHas("KeepsDeleted") THEN limitsRows ELSE [limitsRows EXCEPT ![1] = TRUE]
Reason(path) ==
  CASE LimitsHas("OwnCode") /\ path = "import" -> "other"
    [] LimitsHas("NoCode") /\ path = "local" -> "none"
    [] OTHER -> "expected"

(* The checks. Each starts on an empty table.                                 *)
Finish(ok) ==
  /\ limitsViolated' = IF ok THEN limitsViolated ELSE limitsViolated \cup {Checks[limitsCheck]}
  /\ limitsCheck' = limitsCheck + 1 /\ step' = 1 /\ limitsRows' = <<>> /\ held' = 0
Note(ok) == limitsViolated' = IF ok THEN limitsViolated ELSE limitsViolated \cup {Checks[limitsCheck]}
Given == UNCHANGED <<limitsFaults, limit, payload, paths>>
\* Neither zero nor usize::MAX has a size on both sides.
Usable == limit > 0 /\ limit < MaxLimit
Refuse ==
  /\ ~LimitsDone /\ Checks[limitsCheck] # "ingress" /\ ~Usable /\ step = 1
  /\ Finish(FALSE) /\ Given
Size == limit + step - 2
Boundary ==
  /\ Running("boundaries") /\ Usable
  /\ IF step <= 3
     THEN Note(Valid(Size) = (Size <= limit)) /\ step' = step + 1 /\ UNCHANGED <<limitsCheck, limitsRows, held>>
     ELSE Finish(TRUE)
  /\ Given

Capped == ~LimitsDone /\ Checks[limitsCheck] \in {"update", "reuse"} /\ Usable
Fill ==
  /\ Capped /\ held < limit
  /\ IF MayCreate THEN Create /\ held' = held + 1 /\ UNCHANGED <<limitsCheck, step, limitsViolated>>
     ELSE Finish(FALSE)
  /\ Given
RejectExtra ==
  /\ Capped /\ held = limit /\ step = 1
  /\ Note(~MayCreate) /\ Create /\ step' = 2 /\ UNCHANGED <<limitsCheck, held>> /\ Given
UpdateFirst == Running("update") /\ step = 2 /\ Finish(MayUpdate) /\ Given
DeleteFirst ==
  /\ Running("reuse") /\ step = 2
  /\ IF MayDelete THEN Delete /\ step' = 3 /\ UNCHANGED <<limitsCheck, held, limitsViolated>> ELSE Finish(FALSE)
  /\ Given
Reuse == Running("reuse") /\ step = 3 /\ Finish(MayCreate) /\ Given

Invoked == IF paths = "none" THEN <<>> ELSE Ingresses
Parity ==
  /\ Running("ingress") /\ Given
  /\ Finish(/\ paths \notin {"twice", "unnamed", "no reason"} /\ Invoked # <<>>
            /\ \A i \in 1..Len(Invoked) : Reason(Invoked[i]) = "expected")
LimitsNext == Refuse \/ Boundary \/ Fill \/ RejectExtra \/ UpdateFirst \/ DeleteFirst \/ Reuse \/ Parity
LimitsSpec == LimitsInit /\ [][LimitsNext]_limitsVars

Proper == Usable /\ paths = "named"
\* The payload that shows a fault of the measurement.
Telling == ("MeasuresBytes" \in limitsFaults => payload = "accents") /\ ("Untrimmed" \in limitsFaults => payload = "padded")

(* A product without a fault passes every check.                              *)
LimitsCorrectPasses == LimitsDone /\ Proper /\ limitsFaults = {} => limitsViolated = {}

(* No fault and no pair of faults passes every check, given a payload that    *)
(* measures differently in bytes and in padding.                              *)
LimitsFaultyFails == LimitsDone /\ limitsFaults # {} /\ Telling => limitsViolated # {}

(* A limit that cannot be probed on both sides, or paths that cannot be told  *)
(* apart, never pass for want of a case.                                      *)
NeverVacuous ==
  LimitsDone => /\ ~Usable => {"boundaries", "update", "reuse"} \subseteq limitsViolated
                /\ paths # "named" => "ingress" \in limitsViolated

-----------------------------------------------------------------------------
(* baukit-test's check of a service's operations endpoints: /healthz, a passing   *)
(* /readyz and /metrics, then a failing readiness check registered for good in    *)
(* the registry the service shares, and a /readyz that must report it.  Runs may  *)
(* overlap on one fixture.                                                        *)

CONSTANTS Runs,    \* calls of check_ops_router_conformance or its base-URL twin
          Services \* what the fixtures may be: [health, ready, metrics], see Kinds

VARIABLES service,   \* the fixture's service
          registered,\* the shared registry holds the forced failure
          pc,        \* each run's next request
          violations \* each run's findings, in the order of the endpoints

opsCasesVars == <<service, registered, pc, violations>>

\* How an endpoint may be wrong; "right" is the handler of baukit-ops.
Kinds ==
  [health  : {"right", "down", "bad_status", "not_json", "other_word"},
   ready   : {"right", "down", "own_registry", "always_ready", "never_ready", "word_only",
              "status_only", "no_checks", "no_error", "not_json"},
   metrics : {"right", "down", "bad_status", "json_type", "empty"}]

Right == [health |-> "right", ready |-> "right", metrics |-> "right"]

(* ------------------------------- the service ----------------------------- *)

\* A /readyz answer; `entry` is what it lists for the forced failure.
Ready(up) == [status |-> IF up THEN 200 ELSE 503, word |-> IF up THEN "ready" ELSE "not_ready",
              json |-> TRUE, checks |-> TRUE, entry |-> IF up THEN "none" ELSE "fail_error"]

readyz ==
  LET honest == Ready(~registered) IN
  CASE service.ready = "right"        -> honest
    [] service.ready = "own_registry" -> Ready(TRUE)
    [] service.ready = "always_ready" -> [honest EXCEPT !.status = 200, !.word = "ready"]
    [] service.ready = "never_ready"  -> [honest EXCEPT !.status = 503, !.word = "not_ready"]
    [] service.ready = "word_only"    -> [honest EXCEPT !.status = 200]
    [] service.ready = "status_only"  -> [honest EXCEPT !.word = "ready"]
    [] service.ready = "no_checks"    -> [honest EXCEPT !.checks = FALSE]
    [] service.ready = "no_error"     -> [honest EXCEPT !.entry = IF registered THEN "fail" ELSE "none"]
    [] OTHER                          -> [honest EXCEPT !.json = FALSE]

\* check_ready: the code, then the JSON, its word and the forced failure's entry.
check_ready(answer, up) ==
  \/ answer.status # Ready(up).status
  \/ ~answer.json
  \/ answer.word # Ready(up).word
  \/ ~answer.checks
  \/ ~up /\ answer.entry # "fail_error"

check_health == service.health # "right"
check_metrics == service.metrics # "right"

OpsCasesInit ==
  /\ service \in Services
  /\ registered = FALSE
  /\ pc = [r \in Runs |-> "health"]
  /\ violations = [r \in Runs |-> <<>>]

OpsCasesPush(r, bad, what) ==
  violations' = [violations EXCEPT ![r] = IF bad THEN Append(@, what) ELSE @]

Step(r, at, next) == pc[r] = at /\ pc' = [pc EXCEPT ![r] = next]

Health(r) ==
  /\ Step(r, "health", "ready") /\ OpsCasesPush(r, check_health, "health")
  /\ UNCHANGED <<service, registered>>

Passing(r) ==
  /\ Step(r, "ready", "metrics")
  /\ OpsCasesPush(r, service.ready = "down" \/ check_ready(readyz, TRUE), "ready")
  /\ UNCHANGED <<service, registered>>

Metrics(r) ==
  /\ Step(r, "metrics", "register") /\ OpsCasesPush(r, check_metrics, "metrics")
  /\ UNCHANGED <<service, registered>>

\* A name registered before is refused, and the failing probe is then left out.
register_failure(r) ==
  /\ Step(r, "register", IF registered THEN "done" ELSE "failing")
  /\ OpsCasesPush(r, registered, "register")
  /\ registered' = TRUE
  /\ UNCHANGED service

Failing(r) ==
  /\ Step(r, "failing", "done")
  /\ OpsCasesPush(r, service.ready = "down" \/ check_ready(readyz, FALSE), "failing")
  /\ UNCHANGED <<service, registered>>

OpsCasesNext == \E r \in Runs : Health(r) \/ Passing(r) \/ Metrics(r) \/ register_failure(r) \/ Failing(r)

OpsCasesSpec == OpsCasesInit /\ [][OpsCasesNext]_opsCasesVars

(* ------------------------------- properties ------------------------------ *)
OpsCasesDone(r) == pc[r] = "done"
Passed(r) == OpsCasesDone(r) /\ violations[r] = <<>>

OpsCasesTypeOK ==
  /\ service \in Kinds /\ registered \in BOOLEAN
  /\ \A r \in Runs : /\ pc[r] \in {"health", "ready", "metrics", "register", "failing", "done"}
                     /\ Len(violations[r]) <= 4

\* A service that is wrong at any endpoint in any of these ways passes no run, however
\* the runs overlap.
FaultIsFound == \A r \in Runs : Passed(r) => service = Right

\* "Use a dedicated service fixture for each call": of the runs that share a fixture at
\* most one passes, for the failure a run registers is there for good.
OneRunPerFixture == Cardinality({r \in Runs : Passed(r)}) <= 1

\* A right service is not refused to all: whichever run registered its failure first
\* passes.
RightServicePasses ==
  ((\A r \in Runs : OpsCasesDone(r)) /\ service = Right) => \E r \in Runs : Passed(r)
==============================================================================
