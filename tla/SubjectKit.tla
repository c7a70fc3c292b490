----------------------------- MODULE SubjectKit ------------------------------
(***************************************************************************)
(* The data-subject kit of baukit-test: the target it offers products      *)
(* (Target...), and the conformance cases run against a product's target   *)
(* (Cases...).                                                             *)
(***************************************************************************)
EXTENDS Integers, Sequences, FiniteSets

-----------------------------------------------------------------------------
(* DataSubjectTargetServer of baukit-test: the scripted target an             *)
(* orchestrator is tested against. Each request is one step, under the        *)
(* state's mutex; operations share their subject's script.                    *)

CONSTANTS Tokens,        \* bearer tokens
          ClientOf, ScopesOf,   \* what is registered with each; "" is no allowed client
          Keys, Bodies,         \* idempotency keys (None: invalid) and request bodies
          Outcomes,             \* scripts' outcomes: [polls, then]
          Faults,               \* scripts' receipt and part faults
          ExportRetention, OperationRetention,
          MaxOps, MaxTimes, MaxScripts, MaxKeys, MaxTime,   \* bounds
          None

Kinds == {"erasure", "export"}

VARIABLES now,
          scripts,   \* script number -> [outcome, faults, errors, limited]
          current,   \* the subject's script; operations keep the one they began with
          ops,       \* operation number -> its record
          signers,   \* the receipt keys discovery lists, the newest one signs
          answer     \* the last reply: [token, kind, status, op]

targetVars == <<now, scripts, current, ops, signers, answer>>

Script(outcome, faults, errors, limited) ==
  [outcome |-> outcome, faults |-> faults, errors |-> errors, limited |-> limited]
NoAnswer == [token |-> None, kind |-> None, status |-> 0, op |-> None]

TargetInit ==
  /\ now = 0 /\ current = 1
  /\ scripts = <<Script([polls |-> 0, then |-> "completed"], {}, 0, 0)>>
  /\ ops = <<>> /\ signers = {1} /\ answer = NoAnswer

Reply(token, kind, status, op) ==
  answer' = [token |-> token, kind |-> kind, status |-> status, op |-> op]

(* The test's own calls.                                                      *)
SetScript ==
  /\ Len(scripts) < MaxScripts
  /\ \E outcome \in Outcomes, errors \in 0..MaxTimes, limited \in 0..MaxTimes :
       errors + limited <= MaxTimes /\ scripts' = Append(scripts, Script(outcome, {}, errors, limited))
  /\ current' = Len(scripts) + 1
  /\ UNCHANGED <<now, ops, signers, answer>>
PushFault(f) ==
  /\ scripts' = [scripts EXCEPT ![current].faults = @ \cup {f}]
  /\ UNCHANGED <<now, current, ops, signers, answer>>
\* One more scripted server error; bounded to one for each script.
PushError ==
  /\ "ServerError" \notin scripts[current].faults /\ MaxTimes > 0
  /\ scripts' = [scripts EXCEPT ![current].faults = @ \cup {"ServerError"}, ![current].errors = @ + 1]
  /\ UNCHANGED <<now, current, ops, signers, answer>>
RotateKey ==
  /\ Cardinality(signers) < MaxKeys
  /\ signers' = signers \cup {Cardinality(signers) + 1}
  /\ UNCHANGED <<now, scripts, current, ops, answer>>
Signer == Cardinality(signers)
\* advance_time and its purge.
AdvanceTime ==
  /\ now < MaxTime
  /\ now' = now + 1
  /\ ops' = [o \in DOMAIN ops |->
      IF now' - ops[o].created >= OperationRetention THEN [ops[o] EXCEPT !.status = "purged"]
      ELSE IF ops[o].completed # None /\ now' - ops[o].completed >= ExportRetention
      THEN [ops[o] EXCEPT !.stored = {}] ELSE ops[o]]
  /\ UNCHANGED <<scripts, current, signers, answer>>

Live == {o \in DOMAIN ops : ops[o].status # "purged"}
\* route: the caller's identity and scope.
Refused(token, kind) ==
  CASE token = None                    -> 401
    [] ClientOf[token] = ""            -> 403
    [] kind \notin ScopesOf[token]     -> 403
    [] OTHER                           -> 0
\* transient: a scripted error or rate limit takes this reply's place.
Transient(s) ==
  IF scripts[s].errors > 0
  THEN [status |-> 500, script |-> [scripts[s] EXCEPT !.errors = @ - 1]]
  ELSE IF scripts[s].limited > 0
  THEN [status |-> 429, script |-> [scripts[s] EXCEPT !.limited = @ - 1]]
  ELSE [status |-> 0, script |-> scripts[s]]
Terminal(op) == op.status \in {"completed", "notFound", "restricted", "failed"}
StatusCode(op) == IF Terminal(op) THEN 200 ELSE 202

NewOp(client, key, kind, body) ==
  [client |-> client, key |-> key, kind |-> kind, body |-> body, status |-> "pending",
   polls |-> scripts[current].outcome.polls, then |-> scripts[current].outcome.then,
   script |-> current, created |-> now, completed |-> None,
   receipt |-> None, scripted |-> {}, listed |-> {}, stored |-> {}]

SameKey(client, key, kind) ==
  {o \in Live : ops[o].client = client /\ ops[o].key = key /\ ops[o].kind = kind}
\* A script whose outcome the kind cannot have is the test's own mistake.
Impossible(kind) ==
  \/ kind = "erasure" /\ scripts[current].outcome.then = "export"
  \/ kind = "export" /\ scripts[current].outcome.then = "restricted"

Post(token, kind, key, body) ==
  LET client == IF token = None THEN None ELSE ClientOf[token]
      same == SameKey(client, key, kind)
      old == CHOOSE o \in same : TRUE
      s == IF same = {} THEN current ELSE ops[old].script
      t == Transient(s)
      code == IF Refused(token, kind) # 0 THEN Refused(token, kind)
              ELSE IF key = None THEN 400
              ELSE IF body = None THEN 422
              ELSE IF same # {} /\ ops[old].body # body THEN 409
              ELSE 0
  IN  /\ IF code # 0
         THEN Reply(token, kind, code, None) /\ UNCHANGED <<scripts, ops>>
         ELSE /\ scripts' = [scripts EXCEPT ![s] = t.script]
              /\ IF t.status # 0 THEN Reply(token, kind, t.status, None) /\ UNCHANGED ops
                 ELSE IF same # {}
                 THEN Reply(token, kind, StatusCode(ops[old]), old) /\ UNCHANGED ops
                 ELSE IF Impossible(kind)
                 THEN Reply(token, kind, 500, None) /\ UNCHANGED ops
                 ELSE /\ Len(ops) < MaxOps
                      /\ ops' = Append(ops, NewOp(client, key, kind, body))
                      /\ Reply(token, kind, 202, Len(ops) + 1)
      /\ UNCHANGED <<now, current, signers>>

\* The receipt and the stored parts of a finished operation, with its script's faults.
Receipt(faults) ==
  [key |-> IF "BadSignature" \in faults THEN 0 ELSE Signer,
   names |-> "WrongKeyId" \notin faults,
   payload |-> "TamperedPayload" \notin faults,
   subject |-> "WrongSubjectReference" \notin faults]
Parts(op) == IF op.then = "export" THEN {"part"} ELSE {}
\* complete
Completed(op) ==
  LET faults == scripts[op.script].faults
      status == IF op.then = "export" THEN "completed" ELSE op.then
  IN  [op EXCEPT !.status = status, !.completed = now,
         !.scripted = faults, !.listed = Parts(op),
         !.stored = IF "PartDigestMismatch" \in faults /\ status # "failed" /\ Parts(op) # {}
                    THEN {"changed"} ELSE Parts(op),
         !.receipt = IF status = "failed" THEN None ELSE Receipt(faults)]
\* Mutant: a finished operation is completed again by every read.
AfterPollAgain(op) ==
  IF op.polls > 0 THEN [op EXCEPT !.polls = @ - 1] ELSE Completed(op)

\* pending_poll
AfterPoll(op) ==
  IF Terminal(op) THEN op
  ELSE IF op.polls > 0 THEN [op EXCEPT !.polls = @ - 1] ELSE Completed(op)

\* An operation is found by its own client under its own kind.
Found(token, kind, o) ==
  o \in Live /\ token # None /\ ops[o].client = ClientOf[token] /\ ops[o].kind = kind
Get(token, kind, o) ==
  LET t == Transient(ops[o].script)
  IN  /\ IF Refused(token, kind) # 0
         THEN Reply(token, kind, Refused(token, kind), None) /\ UNCHANGED <<scripts, ops>>
         ELSE IF ~Found(token, kind, o)
         THEN Reply(token, kind, 404, None) /\ UNCHANGED <<scripts, ops>>
         ELSE /\ scripts' = [scripts EXCEPT ![ops[o].script] = t.script]
              /\ IF t.status # 0
                 THEN Reply(token, kind, t.status, None) /\ UNCHANGED ops
                 ELSE /\ ops' = [ops EXCEPT ![o] = AfterPoll(ops[o])]
                      /\ Reply(token, kind, 200, o)
      /\ UNCHANGED <<now, current, signers>>

PartStatus(op) ==
  IF op.status = "pending" THEN 409
  ELSE IF op.status # "completed" \/ op.listed = {} THEN 404
  ELSE IF now - op.completed >= ExportRetention THEN 410
  ELSE 200
GetPart(token, o) ==
  LET t == Transient(ops[o].script)
  IN  /\ IF Refused(token, "export") # 0
         THEN Reply(token, "export", Refused(token, "export"), None) /\ UNCHANGED scripts
         ELSE IF ~Found(token, "export", o)
         THEN Reply(token, "export", 404, None) /\ UNCHANGED scripts
         ELSE /\ scripts' = [scripts EXCEPT ![ops[o].script] = t.script]
              /\ IF t.status # 0 THEN Reply(token, "export", t.status, None)
                 ELSE Reply(token, "export", PartStatus(ops[o]),
                            IF PartStatus(ops[o]) = 200 THEN o ELSE None)
      /\ UNCHANGED <<now, current, ops, signers>>

TargetNext ==
  \/ SetScript \/ PushError \/ RotateKey \/ AdvanceTime
  \/ \E f \in Faults : PushFault(f)
  \/ \E token \in Tokens, kind \in Kinds :
       \/ \E key \in Keys, body \in Bodies : Post(token, kind, key, body)
       \/ \E o \in DOMAIN ops : Get(token, kind, o)
  \/ \E token \in Tokens, o \in DOMAIN ops : GetPart(token, o)
\* The orchestrator polls every operation it was given.
TargetSpec == TargetInit /\ [][TargetNext]_targetVars

\* One operation per client, kind and idempotency key, and two clients with the
\* same key never share one.
OneOperationPerKey ==
  \A o, p \in Live :
    /\ ops[o].client = ops[p].client /\ ops[o].key = ops[p].key /\ ops[o].kind = ops[p].kind
    => o = p

\* A reply only ever names an operation of the caller, of the route's kind.
AnswersOwnOnly ==
  answer.op # None =>
    /\ answer.token # None
    /\ ops[answer.op].client = ClientOf[answer.token] /\ ops[answer.op].kind = answer.kind

\* A receipt verifies against discovery and names its subject, also after the
\* keys were rotated, exactly when its script asked for no fault in it.
ReceiptHolds ==
  \A o \in DOMAIN ops :
    LET r == ops[o].receipt
    IN  r # None =>
          ((r.key \in signers /\ r.names /\ r.payload /\ r.subject)
             <=> ops[o].scripted \subseteq {"PartDigestMismatch", "ServerError"})

\* A finished operation never changes, whatever is scripted, rotated or polled
\* later, but for losing its parts and being purged.
FinishedStays ==
  \A o \in DOMAIN ops :
    Terminal(ops[o]) =>
      \/ ops'[o].status = "purged"
      \/ /\ ops'[o].status = ops[o].status /\ ops'[o].completed = ops[o].completed
         /\ ops'[o].receipt = ops[o].receipt /\ ops'[o].listed = ops[o].listed
         /\ ops'[o].stored \in {ops[o].stored, {}}

\* A part is served only while its bytes are stored: an expired export is gone,
\* never missing.
ServedPartIsStored ==
  \A o \in Live : PartStatus(ops[o]) = 200 => ops[o].stored # {}

-----------------------------------------------------------------------------
(* check_data_subject_conformance of baukit-test, which stops at the first    *)
(* violation, against a service that has any of the faults it looks for and a *)
(* worker that may finish an operation while the check still replays it.      *)

CONSTANTS AllFaults,     \* what a service may get wrong
                  Advertised,    \* sequence of the operation kinds discovery lists
          Restricts     \* seed_subject has a restricted subject

VARIABLES casesFaults, casesKind, case, step,
          casesOp,         \* the exercised operation: [status, version, replays, done]
          verdict     \* "running", "passed", or the failed requirement

casesVars == <<casesFaults, casesKind, case, step, casesOp, verdict>>

Has(f) == f \in casesFaults
Kind == Advertised[casesKind]
Subjects == <<"matched", "unmatched", "restricted">>
Subject == Subjects[case]
\* The status each subject must end in.
Expected == CASE Subject = "matched" -> "completed" [] Subject = "unmatched" -> "notFound"
              [] OTHER -> "restricted"

\* What the service makes of the subject.
Outcome ==
  CASE Subject = "unmatched" /\ Has("InventsSubjects")       -> "completed"
    [] Subject = "restricted" /\ Has("IgnoresRestrictions")  -> "completed"
    [] Subject = "matched" /\ Has("MissesSubjects")          -> "notFound"
    [] OTHER -> Expected

(* The checks, each the requirement it fails with and when it holds.          *)
C(fails, holds) == [fails |-> fails, holds |-> holds]
\* Every exchange goes through send, which looks for submitted identifiers.
Private == C("IdentifierLeak", ~Has("LeaksIdentifiers"))

DiscoveryChecks == <<C("ContractVersion", ~Has("OtherVersion")), C("CacheControl", ~Has("Uncached")),
                     C("Scopes", ~Has("OtherScopes")), C("DiscoveryShape", ~Has("RepeatsKinds")),
                     C("ReceiptKeys", ~Has("NoReceiptKeys"))>>
AuthChecks == <<C("Unauthorized", ~Has("Anonymous")), C("ClientNotAllowed", ~Has("AnyClient")),
                C("InsufficientScope", ~Has("AnyScope"))>>
ValidationChecks ==
  <<C("IdempotencyKey", ~Has("AnyKey")), C("InvalidBody", ~Has("AnyBody")),
    C("UnsupportedIdentifierType", ~Has("AnyType")), C("Limits", ~Has("AnyLength"))>>
\* check_replay: the same operation, pending as it was, or finished and signed.
ReplayCheck == C("Replay", ~Has("NewEachTime") /\ (casesOp.status # "pending" => ~Has("BadReceipts")))
NormalizedCheck == C("Replay", ReplayCheck.holds /\ ~Has("ComparesRawBodies"))
ConflictCheck == C("Conflict", ~Has("IgnoresBodies"))
\* check_isolation: another client, and the other kind's routes where there are any.
IsolationCheck ==
  C("Isolation", ~Has("AnyOwner") /\ (Len(Advertised) > 1 => ~Has("AnyKind")))
NotReadyCheck == C("ExportNotReady", Kind = "export" => ~Has("ServesEarly"))
TerminalCheck == C("Completion", casesOp.status = Expected)
ReceiptCheck == C("Receipt", ~Has("BadReceipts"))
FieldsCheck == C("ReceiptFields", ~Has("ReceiptDiffers"))
\* A replay that already saw the end must have seen this end.
SeenCheck == C("Replay", casesOp.replays \subseteq {casesOp.done})
PartsCheck ==
  C("ExportPart", Kind = "export" /\ Expected = "completed" => ~Has("PartDiffers"))
LateReplayCheck == C("Replay", ~Has("ForgetsFinished") /\ casesOp.version = casesOp.done)
RestrictedCheck == C("Restricted", Expected = "restricted" => ~Has("NoLegalBasis"))

\* exercise, in its order; the worker runs in between.
Exercise == <<"post", "not ready", "replay", "normalized", "conflict", "isolation", "work",
              "terminal", "receipt", "fields", "isolation", "seen", "restricted", "parts",
              "late replay">>
Check(name) ==
  CASE name = "post" -> C("Acceptance", ~Has("AnswersLate"))
    [] name = "not ready" -> NotReadyCheck
    [] name = "replay" -> ReplayCheck
    [] name = "normalized" -> NormalizedCheck
    [] name = "conflict" -> ConflictCheck
    [] name = "isolation" -> IsolationCheck
    [] name = "work" -> C("Adapter", TRUE)
    [] name = "terminal" -> TerminalCheck
    [] name = "receipt" -> ReceiptCheck
    [] name = "fields" -> FieldsCheck
    [] name = "seen" -> SeenCheck
    [] name = "restricted" -> RestrictedCheck
    [] name = "parts" -> PartsCheck
    [] name = "late replay" -> LateReplayCheck

NoOp == [status |-> "none", version |-> 0, replays |-> {}, done |-> 0]

CasesInit ==
  /\ casesFaults \in {{}} \cup {{f, g} : f, g \in AllFaults}
  /\ casesKind = 0 /\ case = 0 /\ step = 1 /\ casesOp = NoOp /\ verdict = "running"

\* require: the first check that does not hold is the verdict.
FirstFailure(checks) ==
  LET failed == {i \in 1..Len(checks) : ~checks[i].holds}
  IN  IF ~Private.holds THEN Private.fails
      ELSE IF failed = {} THEN "running"
      ELSE checks[CHOOSE i \in failed : \A j \in failed : i <= j].fails

Running == verdict = "running" /\ UNCHANGED casesFaults
Discover ==
  /\ Running /\ casesKind = 0
  /\ verdict' = FirstFailure(DiscoveryChecks)
  /\ casesKind' = 1 /\ case' = 0
  /\ UNCHANGED <<step, casesOp>>
\* check_auth and check_validation come before a kind's first exercise.
Probe ==
  /\ Running /\ casesKind > 0 /\ case = 0
  /\ verdict' = FirstFailure(AuthChecks \o ValidationChecks)
  /\ case' = 1 /\ step' = 1 /\ casesOp' = NoOp
  /\ UNCHANGED casesKind

NextCase == IF case = 1 THEN 2 ELSE IF case = 2 /\ Kind = "erasure" /\ Restricts THEN 3 ELSE 0
Advance ==
  IF step < Len(Exercise) THEN step' = step + 1 /\ UNCHANGED <<casesKind, case>>
  ELSE /\ case' = NextCase /\ step' = 1
       /\ casesKind' = IF NextCase = 0 THEN casesKind + 1 ELSE casesKind
AllDone == casesKind = Len(Advertised) /\ NextCase = 0 /\ step = Len(Exercise)
Seen == IF casesOp.status = "pending" THEN {} ELSE {casesOp.version}
Do ==
  /\ Running /\ case > 0
  /\ LET failure == FirstFailure(<<Check(Exercise[step])>>)
     IN  IF failure # "running"
         THEN verdict' = failure /\ UNCHANGED <<casesKind, case, step, casesOp>>
         ELSE /\ IF AllDone THEN verdict' = "passed" /\ UNCHANGED <<casesKind, case, step>>
                            ELSE verdict' = "running" /\ Advance
              /\ casesOp' = CASE Exercise[step] = "post" -> [NoOp EXCEPT !.status = "pending"]
                              [] Exercise[step] \in {"replay", "normalized"} ->
                                   [casesOp EXCEPT !.replays = @ \cup Seen]
                              [] Exercise[step] = "work" /\ casesOp.status = "pending" ->
                                   [casesOp EXCEPT !.status = Outcome]
                              [] Exercise[step] = "terminal" -> [casesOp EXCEPT !.done = casesOp.version]
                              [] OTHER -> casesOp
\* The service's worker is quicker than the check, once readiness was seen.
Worker ==
  /\ Running /\ case > 0 /\ casesOp.status = "pending" /\ step \in 3..7
  /\ casesOp' = [casesOp EXCEPT !.status = Outcome]
  /\ UNCHANGED <<casesKind, case, step, verdict>>
\* A faulty service writes a finished operation again.
Rewrite ==
  /\ Running /\ Has("RewritesFinished") /\ casesOp.status \notin {"none", "pending"} /\ casesOp.version = 0
  /\ casesOp' = [casesOp EXCEPT !.version = 1]
  /\ UNCHANGED <<casesKind, case, step, verdict>>

CasesNext == Discover \/ Probe \/ Do \/ Worker \/ Rewrite
CasesSpec == CasesInit /\ [][CasesNext]_casesVars

Ended == verdict # "running"

\* A service that keeps the contract passes, however early its worker finishes.
CorrectPasses == Ended /\ casesFaults = {} => verdict = "passed"

\* A fault that reaches a reply of a kind the service offers never passes. The
\* restriction faults need a restricted subject, the isolation of kinds and the
\* faults of parts need the kinds to be offered, and a rewrite must
\* contradict an answer the check was given.
Reached(f) ==
  CASE f \in {"IgnoresRestrictions", "NoLegalBasis"} ->
         Restricts /\ \E i \in 1..Len(Advertised) : Advertised[i] = "erasure"
    [] f = "AnyKind" -> Len(Advertised) > 1
    [] f \in {"ServesEarly", "PartDiffers"} -> \E i \in 1..Len(Advertised) : Advertised[i] = "export"
    [] f = "RewritesFinished" -> casesOp.version # casesOp.done \/ ~(casesOp.replays \subseteq {casesOp.version})
    [] OTHER -> TRUE
FaultyFails == verdict = "passed" => \A f \in casesFaults : ~Reached(f)

==============================================================================
