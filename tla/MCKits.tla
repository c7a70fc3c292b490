------------------------------- MODULE MCKits --------------------------------
(***************************************************************************)
(* Small instances of the kits of baukit-test, each against correct and    *)
(* faulty products. A behaviour is of one machine, named by part; the      *)
(* variables of the others stay 0.                                         *)
(***************************************************************************)
EXTENDS TLC, Naturals, FiniteSets

CONSTANTS
  Machines,  \* the machines a run starts
  Tokens, ClientOf, ScopesOf, Keys, Bodies, Outcomes, Faults, ExportRetention,
  OperationRetention, MaxOps, MaxTimes, MaxScripts, MaxKeys, MaxTime, None,
  AllFaults, Advertised, Restricts, Limit, Strategies, Defects, MaxAttempts,
  CapMaxFailures, PurgeFaults, PurgePairedFaults, PurgeMaxFailures,
  BatchTombstones, BatchLimit, ReplayFaults, ReplayPairedFaults,
  ReplayMaxFailures, CleanupRecords, CleanupLimit, ProbeFaults, InboxFaults,
  LimitsFaults, Limits, MaxLimit, OpsCasesRuns, Services, full, half, barred,
  k, b1, b2

VARIABLES
  part,  \* the machine this behaviour is of
  now, scripts, current, ops, signers, answer,
  casesFaults, casesKind, case, casesStep, casesOp, verdict,
  strategy, defect, capAt, live, dead, slotOf, counter, capPc, saw, attempt,
  capResult, capHeld, capViolated, failures,
  purgeFaults, blocks, purgeAt, rows, revision, horizon, race, purgeViolated,
  purgeFailed,
  replayFaults, replayAt, records, replayEffects, serial, saved,
  replayViolated, replayFailed,
  probeFaults, probeAt, phase, queue, calls, last, probeResult, probeViolated,
  inboxFaults, inboxAt, worker, inbox, inboxEffects, outbox, memory, number,
  firstOutcome, overlapped, inboxViolated,
  limitsFaults, limit, payload, paths, limitsCheck, limitsStep, limitsRows,
  limitsHeld, limitsViolated,
  service, registered, opsCasesPc, violations

targetState == <<now, scripts, current, ops, signers, answer>>
casesState == <<casesFaults, casesKind, case, casesStep, casesOp, verdict>>
capState == <<strategy, defect, capAt, live, dead, slotOf, counter, capPc,
    saw, attempt, capResult, capHeld, capViolated, failures>>
purgeState == <<purgeFaults, blocks, purgeAt, rows, revision, horizon, race,
    purgeViolated, purgeFailed>>
replayState == <<replayFaults, replayAt, records, replayEffects, serial,
    saved, replayViolated, replayFailed>>
probeState == <<probeFaults, probeAt, phase, queue, calls, last, probeResult,
    probeViolated>>
inboxState == <<inboxFaults, inboxAt, worker, inbox, inboxEffects, outbox,
    memory, number, firstOutcome, overlapped, inboxViolated>>
limitsState == <<limitsFaults, limit, payload, paths, limitsCheck, limitsStep,
    limitsRows, limitsHeld, limitsViolated>>
opsCasesState == <<service, registered, opsCasesPc, violations>>
vars == <<part, targetState, casesState, capState, purgeState, replayState,
    probeState, inboxState, limitsState, opsCasesState>>

(* Two allowed clients, one of them without the export scope, and a barred one. *)
ClientNames == (full :> "x") @@ (half :> "y") @@ (barred :> "")
ScopeSets == (full :> {"erasure", "export"}) @@ (half :> {"erasure"}) @@ (barred :> {"erasure", "export"})
OutcomeSet == {[polls |-> 1, then |-> "failed"], [polls |-> 0, then |-> "restricted"]}
ExportOnly == {[polls |-> 1, then |-> "export"]}
KeysAndNone == {k, None}
BodySet == {b1, b2}
AllTokens == {full, half, barred, None}

(* Every fault a case is there for, alone and in pairs.                         *)
Both == <<"erasure", "export">>
ErasureOnly == <<"erasure">>
EverySubjectFault == {"InventsSubjects", "IgnoresRestrictions", "MissesSubjects", "LeaksIdentifiers",
  "OtherVersion", "Uncached", "OtherScopes", "RepeatsKinds", "NoReceiptKeys", "Anonymous",
  "AnyClient", "AnyScope", "AnyKey", "AnyBody", "AnyType", "AnyLength", "NewEachTime",
  "BadReceipts", "ComparesRawBodies", "IgnoresBodies", "AnyOwner", "AnyKind", "ServesEarly",
  "ReceiptDiffers", "PartDiffers", "ForgetsFinished", "NoLegalBasis", "AnswersLate",
  "RewritesFinished"}
MCStrategies == {"row_lock", "serializable", "counter", "constraint", "naive"}
MCDefects == {"none", "wrong_code", "counts_deleted", "update_takes_slot"}
EveryPurgeFault == {"HorizonRegresses", "SharedHorizon", "HorizonIsTheCounter", "NoHorizon",
  "RejectsAtHorizon", "ServesBelow", "RejectsZero", "ReportsTheCursor", "UnboundedBatch",
  "PurgesRecent", "KeepsRows", "OmitsTombstones", "ErasureKeepsHorizon", "ErasureKeepsTombstones",
  "ErasesEveryone", "ReadCommitted", "NoPause", "Deadlocks"}
EveryReplayFault == {"NoRecord", "OwnerUnscoped", "OperationUnscoped", "IgnoresFingerprint",
  "RawFingerprint", "RebuildsSnapshot", "NoUniqueKey", "NoCheckpoint", "BlocksForever",
  "SwallowsRollback", "EffectOutsideTransaction", "RecordOutsideTransaction", "TransientRecords",
  "IgnoresExpiry", "KeepsExpiredRow", "UnboundedPurge", "PurgesLive", "ReportsTheLimit",
  "ErasureKeepsRecords", "ErasureTakesAll"}
EveryProbeFault == {"WrongAccount", "RevokedIsTransient", "IgnoresScope", "ScopeIsRevoked",
  "LimitIsUnavailable", "DropsHint", "InventsHint", "ServerErrorIsInvalid", "AcceptsAnyBody",
  "NoTimeout", "TimeoutIsUnavailable", "RetriesServerErrors", "RetriesTimeouts", "RetriesLimits",
  "CachesSuccess", "RemembersRevoked", "BacksOff", "OpensCircuit", "RemembersInvalid"}
EveryInboxFault == {"OwnerNotInKey", "SourceNotInKey", "EventNotInKey", "RecomputesOutcome",
  "OutcomeInMemory", "StateShowsMemory", "OutcomeNotStored", "DuplicateIsError", "ReplayIsFirst",
  "ReplayReapplies", "ReplayRepublishes", "InboxAlone", "DomainAlone", "SwallowsFault",
  "NeverCommits", "NoMessage", "ReadsThenInserts", "ConflictIsError"}
EveryLimitFault == {"MeasuresBytes", "Untrimmed", "NoBound", "BoundIsNext", "BelowOnly", "CountsDeleted",
  "OneMore", "OneLess", "NoCap", "RejectsAfterInsert", "UpdateIsCreate", "DeleteNeedsRoom",
  "KeepsDeleted", "OwnCode", "NoCode"}

Subjects == INSTANCE SubjectKit WITH step <- casesStep
SubjectsReceipts == INSTANCE SubjectKit WITH step <- casesStep,
  Tokens <- {full}, Keys <- {k}, Bodies <- {b1}, Outcomes <- ExportOnly,
  Faults <- {"BadSignature"}, OperationRetention <- 3, MaxOps <- 1,
  MaxTimes <- 1, MaxScripts <- 2, MaxKeys <- 2
SubjectsErasure == INSTANCE SubjectKit WITH step <- casesStep,
  Advertised <- ErasureOnly, Restricts <- FALSE
Stored == INSTANCE StoreKit WITH pc <- capPc, result <- capResult,
  held <- capHeld, effects <- replayEffects
Served == INSTANCE ServiceKit WITH result <- probeResult,
  effects <- inboxEffects, step <- limitsStep, held <- limitsHeld,
  pc <- opsCasesPc, Runs <- OpsCasesRuns

ASSUME KitsAssumption ==
  /\ Stored!LimitAssumption

(* Services wrong at no more than one of their endpoints.                       *)
Forms ==
  [health  : {"right", "down", "bad_status", "not_json", "other_word"},
   ready   : {"right", "down", "own_registry", "always_ready", "never_ready", "word_only",
              "status_only", "no_checks", "no_error", "not_json"},
   metrics : {"right", "down", "bad_status", "json_type", "empty"}]
ASSUME EveryForm == Forms = Served!Kinds
MCServices ==
  {s \in Forms : Cardinality({f \in {"health", "ready", "metrics"} : s[f] # "right"}) <= 1}

TargetOff ==
  /\ now = 0 /\ scripts = 0 /\ current = 0 /\ ops = 0 /\ signers = 0
  /\ answer = 0
CasesOff ==
  /\ casesFaults = 0 /\ casesKind = 0 /\ case = 0 /\ casesStep = 0
  /\ casesOp = 0 /\ verdict = 0
CapOff ==
  /\ strategy = 0 /\ defect = 0 /\ capAt = 0 /\ live = 0 /\ dead = 0
  /\ slotOf = 0 /\ counter = 0 /\ capPc = 0 /\ saw = 0 /\ attempt = 0
  /\ capResult = 0 /\ capHeld = 0 /\ capViolated = 0 /\ failures = 0
PurgeOff ==
  /\ purgeFaults = 0 /\ blocks = 0 /\ purgeAt = 0 /\ rows = 0
  /\ revision = 0 /\ horizon = 0 /\ race = 0 /\ purgeViolated = 0
  /\ purgeFailed = 0
ReplayOff ==
  /\ replayFaults = 0 /\ replayAt = 0 /\ records = 0 /\ replayEffects = 0
  /\ serial = 0 /\ saved = 0 /\ replayViolated = 0 /\ replayFailed = 0
ProbeOff ==
  /\ probeFaults = 0 /\ probeAt = 0 /\ phase = 0 /\ queue = 0
  /\ calls = 0 /\ last = 0 /\ probeResult = 0 /\ probeViolated = 0
InboxOff ==
  /\ inboxFaults = 0 /\ inboxAt = 0 /\ worker = 0 /\ inbox = 0
  /\ inboxEffects = 0 /\ outbox = 0 /\ memory = 0 /\ number = 0
  /\ firstOutcome = 0 /\ overlapped = 0 /\ inboxViolated = 0
LimitsOff ==
  /\ limitsFaults = 0 /\ limit = 0 /\ payload = 0 /\ paths = 0
  /\ limitsCheck = 0 /\ limitsStep = 0 /\ limitsRows = 0 /\ limitsHeld = 0
  /\ limitsViolated = 0
OpsCasesOff ==
  /\ service = 0 /\ registered = 0 /\ opsCasesPc = 0 /\ violations = 0

TargetStarts ==
  /\ \/ part = "target" /\ Subjects!TargetInit
     \/ part = "receipts" /\ SubjectsReceipts!TargetInit
  /\ CasesOff /\ CapOff /\ PurgeOff /\ ReplayOff /\ ProbeOff /\
     InboxOff /\ LimitsOff /\ OpsCasesOff
CasesStarts ==
  /\ \/ part = "cases" /\ Subjects!CasesInit
     \/ part = "erasure" /\ SubjectsErasure!CasesInit
  /\ TargetOff /\ CapOff /\ PurgeOff /\ ReplayOff /\ ProbeOff /\
     InboxOff /\ LimitsOff /\ OpsCasesOff
CapStarts ==
  /\ part = "cap" /\ Stored!CapInit
  /\ TargetOff /\ CasesOff /\ PurgeOff /\ ReplayOff /\ ProbeOff /\
     InboxOff /\ LimitsOff /\ OpsCasesOff
PurgeStarts ==
  /\ part = "purge" /\ Stored!PurgeInit
  /\ TargetOff /\ CasesOff /\ CapOff /\ ReplayOff /\ ProbeOff /\
     InboxOff /\ LimitsOff /\ OpsCasesOff
ReplayStarts ==
  /\ part = "replay" /\ Stored!ReplayInit
  /\ TargetOff /\ CasesOff /\ CapOff /\ PurgeOff /\ ProbeOff /\
     InboxOff /\ LimitsOff /\ OpsCasesOff
ProbeStarts ==
  /\ part = "probe" /\ Served!ProbeInit
  /\ TargetOff /\ CasesOff /\ CapOff /\ PurgeOff /\ ReplayOff /\
     InboxOff /\ LimitsOff /\ OpsCasesOff
InboxStarts ==
  /\ part = "inbox" /\ Served!InboxInit
  /\ TargetOff /\ CasesOff /\ CapOff /\ PurgeOff /\ ReplayOff /\
     ProbeOff /\ LimitsOff /\ OpsCasesOff
LimitsStarts ==
  /\ part = "limits" /\ Served!LimitsInit
  /\ TargetOff /\ CasesOff /\ CapOff /\ PurgeOff /\ ReplayOff /\
     ProbeOff /\ InboxOff /\ OpsCasesOff
OpsCasesStarts ==
  /\ part = "ops" /\ Served!OpsCasesInit
  /\ TargetOff /\ CasesOff /\ CapOff /\ PurgeOff /\ ReplayOff /\
     ProbeOff /\ InboxOff /\ LimitsOff

Init ==
  /\ part \in Machines
  /\ \/ TargetStarts \/ CasesStarts \/ CapStarts \/ PurgeStarts
     \/ ReplayStarts \/ ProbeStarts \/ InboxStarts \/ LimitsStarts
     \/ OpsCasesStarts

TargetMoves ==
  /\ \/ part = "target" /\ Subjects!TargetNext
     \/ part = "receipts" /\ SubjectsReceipts!TargetNext
  /\ UNCHANGED <<part, casesState, capState, purgeState, replayState,
       probeState, inboxState, limitsState, opsCasesState>>
CasesMoves ==
  /\ \/ part = "cases" /\ Subjects!CasesNext
     \/ part = "erasure" /\ SubjectsErasure!CasesNext
  /\ UNCHANGED <<part, targetState, capState, purgeState, replayState,
       probeState, inboxState, limitsState, opsCasesState>>
CapMoves ==
  /\ part = "cap" /\ Stored!CapNext
  /\ UNCHANGED <<part, targetState, casesState, purgeState, replayState,
       probeState, inboxState, limitsState, opsCasesState>>
PurgeMoves ==
  /\ part = "purge" /\ Stored!PurgeNext
  /\ UNCHANGED <<part, targetState, casesState, capState, replayState,
       probeState, inboxState, limitsState, opsCasesState>>
ReplayMoves ==
  /\ part = "replay" /\ Stored!ReplayNext
  /\ UNCHANGED <<part, targetState, casesState, capState, purgeState,
       probeState, inboxState, limitsState, opsCasesState>>
ProbeMoves ==
  /\ part = "probe" /\ Served!ProbeNext
  /\ UNCHANGED <<part, targetState, casesState, capState, purgeState,
       replayState, inboxState, limitsState, opsCasesState>>
InboxMoves ==
  /\ part = "inbox" /\ Served!InboxNext
  /\ UNCHANGED <<part, targetState, casesState, capState, purgeState,
       replayState, probeState, limitsState, opsCasesState>>
LimitsMoves ==
  /\ part = "limits" /\ Served!LimitsNext
  /\ UNCHANGED <<part, targetState, casesState, capState, purgeState,
       replayState, probeState, inboxState, opsCasesState>>
OpsCasesMoves ==
  /\ part = "ops" /\ Served!OpsCasesNext
  /\ UNCHANGED <<part, targetState, casesState, capState, purgeState,
       replayState, probeState, inboxState, limitsState>>

Next ==
  \/ TargetMoves \/ CasesMoves \/ CapMoves \/ PurgeMoves \/ ReplayMoves
  \/ ProbeMoves \/ InboxMoves \/ LimitsMoves \/ OpsCasesMoves

Spec == Init /\ [][Next]_vars

-----------------------------------------------------------------------------
(* Run against correct services the conformance cases pass, and against a  *)
(* service with a fault, or two, they fail, in whatever order the calls they*)
(* race are served; the target they offer products keeps one operation per *)
(* key and its receipts (baukit-test).                                     *)
KitsTellApartHolds ==
  /\ part = "target" =>
       /\ Subjects!OneOperationPerKey
       /\ Subjects!AnswersOwnOnly
  /\ part = "receipts" =>
       /\ SubjectsReceipts!ReceiptHolds
       /\ SubjectsReceipts!ServedPartIsStored
  /\ part = "cases" =>
       /\ Subjects!CorrectPasses
       /\ Subjects!FaultyFails
  /\ part = "erasure" =>
       /\ SubjectsErasure!CorrectPasses
       /\ SubjectsErasure!FaultyFails
  /\ part = "cap" =>
       /\ Stored!CapHolds
       /\ Stored!PassesExactlyTheCorrect
  /\ part = "purge" =>
       /\ Stored!PurgeCorrectPasses
       /\ Stored!PurgeFaultyFails
  /\ part = "replay" =>
       /\ Stored!ReplayCorrectPasses
       /\ Stored!ReplayFaultyFails
  /\ part = "probe" =>
       /\ Served!ProbeCorrectPasses
       /\ Served!ProbeFaultyFails
  /\ part = "inbox" =>
       /\ Served!InboxCorrectPasses
       /\ Served!InboxFaultyFails /\ Served!RacesShow /\ Served!OneEffect
  /\ part = "limits" =>
       /\ Served!LimitsCorrectPasses
       /\ Served!LimitsFaultyFails /\ Served!NeverVacuous
  /\ part = "ops" =>
       /\ Served!OpsCasesTypeOK /\ Served!FaultIsFound
       /\ Served!OneRunPerFixture /\ Served!RightServicePasses

KitsTellApartSteps ==
  /\ part = "receipts" => SubjectsReceipts!FinishedStays

KitsTellApart == []KitsTellApartHolds /\ [][KitsTellApartSteps]_vars
==============================================================================
