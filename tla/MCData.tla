------------------------------- MODULE MCData --------------------------------
(***************************************************************************)
(* Small instances of the machines that delete, export and replicate       *)
(* personal data. A behaviour is of one machine, named by part; the        *)
(* variables of the others stay 0.                                         *)
(***************************************************************************)
EXTENDS TLC, Integers, SequencesExt

CONSTANTS
  Machines,  \* the machines a run starts
  ErasureRequests, ErasureKeys, ErasureKeyOf, Operators, Visits,
  ErasureWorkers, ErasureRetain, ErasureMaxAttempts, LastTime, None,
  SubjectRequests, SubjectWorkers, Subjects, SubjectKeyOf, BodyOf, KindOf,
  SubjectsOf, SubjectRetain, SubjectMaxAttempts, LeaseTime, DeletionTimeout,
  ExportRetention, OperationRetention, MaxDelay, Exports, Limits, Ids,
  Writers, PullMaxRevision, PullMaxFailures, PageSize, Limit,
  Devices, PerMs, MaxStamp, MaxPhysical, HlcMaxFailures, MaxRetries,
  MaxEvents, WritesMaxEdits, MaxForeign, MaxGeneration, Reentrant, DraftKeys,
  DraftMaxEdits, MaxSessions, MaxQueue, DraftMaxRevision, Leases, Bad, q1, q2,
  k1, k2, r1, r2, r3, s1, s2, o1, b1, b2

VARIABLES
  part,  \* the machine this behaviour is of
  now, erasurePc, began, auth, fence, erasureOp, erasureJob, attempts, holder,
  work, called, profile, account, lastErased,
  subjectPc, found, reply, subjectOp, ident, subjectJob, tx, erased,
  subjectParts, subjectPurge,
  input, limit, category, next, open, bytes, splitParts, result,
  row, last, horizon, writer, pullPurge, pull, local, cursor, torn, pullFailures,
  physical, state, hlcStored, busy, issued, sent, hlcFailures,
  started, foreground, interval, at, outcome, wake, restarted, rerun,
  retryIndex, owed, asked, events,
  writesEdits, dropped, generation, unsent, uncertain, pause, acked, drain,
  calls, server, known,
  store, draftActive, draftEdits, submitted, session, keyOf, opened, value,
  draftRevision, recovery, persisted, draftStored, queue, run

erasureState == <<now, erasurePc, began, auth, fence, erasureOp, erasureJob,
    attempts, holder, work, called, profile, account, lastErased>>
subjectState == <<subjectPc, found, reply, subjectOp, ident, subjectJob, tx,
    erased, subjectParts, subjectPurge>>
splitState == <<input, limit, category, next, open, bytes, splitParts,
    result>>
pullState == <<row, last, horizon, writer, pullPurge, pull, local, cursor,
    torn, pullFailures>>
hlcState == <<physical, state, hlcStored, busy, issued, sent, hlcFailures>>
schedulerState == <<started, foreground, interval, at, outcome, wake,
    restarted, rerun, retryIndex, owed, asked, events>>
writesState == <<writesEdits, dropped, generation, unsent, uncertain, pause,
    acked, drain, calls, server, known>>
draftState == <<store, draftActive, draftEdits, submitted, session, keyOf,
    opened, value, draftRevision, recovery, persisted, draftStored, queue,
    run>>
vars == <<part, erasureState, subjectState, splitState, pullState, hlcState,
    schedulerState, writesState, draftState>>

OwnKeys == (q1 :> k1) @@ (q2 :> k2)
SameKey == (q1 :> k1) @@ (q2 :> k1)

(* One erasure of two accounts; then, under one key, an erasure and an export, *)
(* another body, of a subject with no account, and an export of an account.    *)
OneKeyOf == r1 :> "k1"
OneBodyOf == r1 :> "b"
OneKindOf == r1 :> "erasure"
OneSubjectsOf == r1 :> {s1, s2}
ThreeKeyOf == (r1 :> "k1") @@ (r2 :> "k1") @@ (r3 :> "k3")
ThreeBodyOf == (r1 :> "b") @@ (r2 :> "c") @@ (r3 :> "b")
ThreeKindOf == (r1 :> "erasure") @@ (r2 :> "export") @@ (r3 :> "export")
ThreeSubjectsOf == (r1 :> {}) @@ (r2 :> {}) @@ (r3 :> {s1})

(* Every export of one or two categories of up to three records, around every  *)
(* limit from one nothing fits to one everything fits.                         *)
RecordSizes == 1..3
MCExports ==
  LET OneCategory == [prefix : {2, 3}, records : BoundedSeq(RecordSizes, 3)]
      Short == [prefix : {2}, records : BoundedSeq(RecordSizes, 1)]
  IN  {<<c>> : c \in OneCategory} \union {<<c, d>> : c \in OneCategory, d \in Short} \union {<<>>}
MCLimits == 3..13

Erase == INSTANCE Erasure WITH pc <- erasurePc, op <- erasureOp,
  job <- erasureJob, Requests <- ErasureRequests, Keys <- ErasureKeys,
  KeyOf <- ErasureKeyOf, Workers <- ErasureWorkers, Retain <- ErasureRetain,
  MaxAttempts <- ErasureMaxAttempts
EraseTakeover == INSTANCE Erasure WITH pc <- erasurePc, op <- erasureOp,
  job <- erasureJob, Requests <- ErasureRequests, Keys <- ErasureKeys,
  Retain <- ErasureRetain, KeyOf <- SameKey, Operators <- {o1}, Visits <- {},
  Workers <- {b1, b2}, MaxAttempts <- 2, LastTime <- 0
(* The two instances of the operations on a product's subjects.                *)
Cases == {"subject", "keys"}
OneOf(k, subject, keys) == IF k = "subject" THEN subject ELSE keys
RequestsOf(k) == OneOf(k, SubjectRequests, {r1, r2, r3})
AccountsOf(k) == OneOf(k, Subjects, {s1})
AttemptsOf(k) == OneOf(k, SubjectMaxAttempts, 1)
RetainOf(k) == OneOf(k, SubjectRetain, TRUE)
KindsOf(k) == OneOf(k, KindOf, ThreeKindOf)
KeysOf(k) == OneOf(k, SubjectKeyOf, ThreeKeyOf)
BodiesOf(k) == OneOf(k, BodyOf, ThreeBodyOf)
FoundOf(k) == OneOf(k, SubjectsOf, ThreeSubjectsOf)
TimeoutOf(k) == OneOf(k, DeletionTimeout, 1)
RetentionOf(k) == OneOf(k, OperationRetention, 2)
DS(k) == INSTANCE DataSubject WITH pc <- subjectPc, op <- subjectOp,
  job <- subjectJob, purge <- subjectPurge, Workers <- SubjectWorkers,
  Requests <- RequestsOf(k), Subjects <- AccountsOf(k), KeyOf <- KeysOf(k),
  BodyOf <- BodiesOf(k), KindOf <- KindsOf(k), SubjectsOf <- FoundOf(k),
  Retain <- RetainOf(k), MaxAttempts <- AttemptsOf(k),
  DeletionTimeout <- TimeoutOf(k), OperationRetention <- RetentionOf(k)
Split == INSTANCE DataSubject WITH pc <- subjectPc, op <- subjectOp,
  job <- subjectJob, purge <- subjectPurge, Workers <- SubjectWorkers,
  Requests <- SubjectRequests, KeyOf <- SubjectKeyOf, Retain <- SubjectRetain,
  MaxAttempts <- SubjectMaxAttempts
Repl == INSTANCE Sync WITH purge <- pullPurge, stored <- hlcStored,
  MaxRevision <- PullMaxRevision
Client == INSTANCE ClientSync WITH stored <- draftStored, Keys <- DraftKeys,
  MaxRevision <- DraftMaxRevision
ClientListener == INSTANCE ClientSync WITH stored <- draftStored,
  Keys <- DraftKeys, MaxRevision <- DraftMaxRevision, WritesMaxEdits <- 2,
  Reentrant <- TRUE
ClientEditors == INSTANCE ClientSync WITH stored <- draftStored,
  Keys <- {k1, k2}, DraftMaxEdits <- 1, MaxRevision <- 1, Leases <- TRUE

ASSUME DataAssumption ==
  /\ Erase!ErasureAssumption
  /\ EraseTakeover!ErasureAssumption
  /\ \A k \in Cases : DS(k)!DataSubjectAssumption
  /\ Split!SplitAssumption
  /\ Repl!SyncPullAssumption
  /\ Repl!SyncHlcAssumption
  /\ Client!SyncSchedulerAssumption
  /\ Client!DraftAssumption
  /\ ClientEditors!DraftAssumption

ErasureOff ==
  /\ now = 0 /\ erasurePc = 0 /\ began = 0 /\ auth = 0 /\ fence = 0
  /\ erasureOp = 0 /\ erasureJob = 0 /\ attempts = 0 /\ holder = 0
  /\ work = 0 /\ called = 0 /\ profile = 0 /\ account = 0
  /\ lastErased = 0
SubjectOff ==
  /\ subjectPc = 0 /\ found = 0 /\ reply = 0 /\ subjectOp = 0
  /\ ident = 0 /\ subjectJob = 0 /\ tx = 0 /\ erased = 0
  /\ subjectParts = 0 /\ subjectPurge = 0
SplitOff ==
  /\ input = 0 /\ limit = 0 /\ category = 0 /\ next = 0 /\ open = 0
  /\ bytes = 0 /\ splitParts = 0 /\ result = 0
PullOff ==
  /\ row = 0 /\ last = 0 /\ horizon = 0 /\ writer = 0 /\ pullPurge = 0
  /\ pull = 0 /\ local = 0 /\ cursor = 0 /\ torn = 0 /\ pullFailures = 0
HlcOff ==
  /\ physical = 0 /\ state = 0 /\ hlcStored = 0 /\ busy = 0 /\ issued = 0
  /\ sent = 0 /\ hlcFailures = 0
SchedulerOff ==
  /\ started = 0 /\ foreground = 0 /\ interval = 0 /\ at = 0
  /\ outcome = 0 /\ wake = 0 /\ restarted = 0 /\ rerun = 0
  /\ retryIndex = 0 /\ owed = 0 /\ asked = 0 /\ events = 0
WritesOff ==
  /\ writesEdits = 0 /\ dropped = 0 /\ generation = 0 /\ unsent = 0
  /\ uncertain = 0 /\ pause = 0 /\ acked = 0 /\ drain = 0 /\ calls = 0
  /\ server = 0 /\ known = 0
DraftOff ==
  /\ store = 0 /\ draftActive = 0 /\ draftEdits = 0 /\ submitted = 0
  /\ session = 0 /\ keyOf = 0 /\ opened = 0 /\ value = 0
  /\ draftRevision = 0 /\ recovery = 0 /\ persisted = 0 /\ draftStored = 0
  /\ queue = 0 /\ run = 0

ErasureStarts ==
  /\ \/ part = "fence" /\ Erase!Init
     \/ part = "takeover" /\ EraseTakeover!Init
  /\ SubjectOff /\ SplitOff /\ PullOff /\ HlcOff /\ SchedulerOff /\
     WritesOff /\ DraftOff
SubjectStarts ==
  /\ \E k \in Cases : part = k /\ DS(k)!SubjectInit
  /\ ErasureOff /\ SplitOff /\ PullOff /\ HlcOff /\ SchedulerOff /\
     WritesOff /\ DraftOff
SplitStarts ==
  /\ part = "split" /\ Split!SplitInit
  /\ ErasureOff /\ SubjectOff /\ PullOff /\ HlcOff /\ SchedulerOff /\
     WritesOff /\ DraftOff
PullStarts ==
  /\ part = "pull" /\ Repl!PullInit
  /\ ErasureOff /\ SubjectOff /\ SplitOff /\ HlcOff /\ SchedulerOff /\
     WritesOff /\ DraftOff
HlcStarts ==
  /\ part = "hlc" /\ Repl!HlcInit
  /\ ErasureOff /\ SubjectOff /\ SplitOff /\ PullOff /\ SchedulerOff /\
     WritesOff /\ DraftOff
SchedulerStarts ==
  /\ part = "scheduler" /\ Client!SchedulerInit
  /\ ErasureOff /\ SubjectOff /\ SplitOff /\ PullOff /\ HlcOff /\
     WritesOff /\ DraftOff
WritesStarts ==
  /\ \/ part = "writes" /\ Client!WritesInit
     \/ part = "listener" /\ ClientListener!WritesInit
  /\ ErasureOff /\ SubjectOff /\ SplitOff /\ PullOff /\ HlcOff /\
     SchedulerOff /\ DraftOff
DraftStarts ==
  /\ \/ part = "draft" /\ Client!DraftInit
     \/ part = "editors" /\ ClientEditors!DraftInit
  /\ ErasureOff /\ SubjectOff /\ SplitOff /\ PullOff /\ HlcOff /\
     SchedulerOff /\ WritesOff

Init ==
  /\ part \in Machines
  /\ \/ ErasureStarts \/ SubjectStarts \/ SplitStarts \/ PullStarts
     \/ HlcStarts \/ SchedulerStarts \/ WritesStarts \/ DraftStarts

ErasureMoves ==
  /\ \/ part = "fence" /\ Erase!Next
     \/ part = "takeover" /\ EraseTakeover!Next
  /\ UNCHANGED <<part, subjectState, splitState, pullState, hlcState,
       schedulerState, writesState, draftState>>
SubjectMoves ==
  /\ \E k \in Cases : part = k /\ DS(k)!SubjectNext
  /\ UNCHANGED <<part, erasureState, splitState, pullState, hlcState,
       schedulerState, writesState, draftState>>
SplitMoves ==
  /\ part = "split" /\ Split!SplitNext
  /\ UNCHANGED <<part, erasureState, subjectState, pullState, hlcState,
       schedulerState, writesState, draftState>>
PullMoves ==
  /\ part = "pull" /\ Repl!PullNext
  /\ UNCHANGED <<part, erasureState, subjectState, splitState, hlcState,
       schedulerState, writesState, draftState>>
HlcMoves ==
  /\ part = "hlc" /\ Repl!HlcNext
  /\ UNCHANGED <<part, erasureState, subjectState, splitState, pullState,
       schedulerState, writesState, draftState>>
SchedulerMoves ==
  /\ part = "scheduler" /\ Client!SchedulerNext
  /\ UNCHANGED <<part, erasureState, subjectState, splitState, pullState,
       hlcState, writesState, draftState>>
WritesMoves ==
  /\ \/ part = "writes" /\ Client!WritesNext
     \/ part = "listener" /\ ClientListener!WritesNext
  /\ UNCHANGED <<part, erasureState, subjectState, splitState, pullState,
       hlcState, schedulerState, draftState>>
DraftMoves ==
  /\ \/ part = "draft" /\ Client!DraftNext
     \/ part = "editors" /\ ClientEditors!DraftNext
  /\ UNCHANGED <<part, erasureState, subjectState, splitState, pullState,
       hlcState, schedulerState, writesState>>

Next ==
  \/ ErasureMoves \/ SubjectMoves \/ SplitMoves \/ PullMoves \/ HlcMoves
  \/ SchedulerMoves \/ WritesMoves \/ DraftMoves

Spec == Init /\ [][Next]_vars

-----------------------------------------------------------------------------
Symmetry ==
  Permutations(Visits) \cup Permutations(Writers) \cup Permutations(ErasureRequests)

(* Visits, operators and workers that overlap with erasures, crash and take*)
(* over leases never bring an erased profile or a session back that is older*)
(* than the fence, which only an operator lowers; an operation that is     *)
(* complete deleted its accounts, one that is not has its job, and a       *)
(* receipt tells the truth (baukit-erasure, baukit-data-subject).          *)
ErasureHoldsHolds ==
  /\ part = "fence" =>
       /\ Erase!NoProfileWhileErasing
       /\ Erase!NoEarlierSessionReturns
  /\ part = "takeover" =>
       /\ EraseTakeover!TypeOK
       /\ EraseTakeover!CompletedMeansDeleted
       /\ EraseTakeover!UnfinishedHasJob /\ EraseTakeover!CompletedHasNoJob
  /\ \A k \in Cases : part = k =>
       /\ DS(k)!SubjectTypeOK /\ DS(k)!ReceiptIsTrue
       /\ DS(k)!ErasedOnce /\ DS(k)!PendingHasJob

ErasureHoldsSteps ==
  /\ part = "fence" => Erase!FenceLoweredByOperators
  /\ \A k \in Cases : part = k => DS(k)!ResultIsFinal

ErasureHolds == []ErasureHoldsHolds /\ [][ErasureHoldsSteps]_vars

(* One key is one operation with one body, a part is served until it       *)
(* expires, and the split of an export bounds its parts, fills them and    *)
(* loses nothing (baukit-data-subject).                                    *)
ExportsComplete ==
  /\ \A k \in Cases : part = k =>
       /\ DS(k)!KeysAgree /\ DS(k)!PartsUntilExpiry
  /\ part = "split" =>
       /\ Split!PartsBounded /\ Split!NothingLost
       /\ Split!PartsFilled /\ Split!RefusedWhenImpossible

(* A client that pulls page by page while rows are written, deleted and    *)
(* purged neither misses nor keeps a row it should not, timestamps of      *)
(* devices with failing stores increase, and no run follows a stop (baukit-*)
(* sync and the sync client).                                              *)
ReplicaSeesAllHolds ==
  /\ part = "pull" =>
       /\ Repl!PullTypeOK /\ Repl!NoGhostNoGap
  /\ part = "hlc" =>
       /\ Repl!HlcTypeOK /\ Repl!ReturnedIsStored
  /\ part = "scheduler" => Client!SchedulerTypeOK

ReplicaSeesAllSteps ==
  /\ part = "pull" => Repl!HorizonCoversPurges
  /\ part = "hlc" => Repl!TimestampsIncrease
  /\ part = "scheduler" =>
       /\ Client!NoRunAfterStop
       /\ Client!RetriesInForeground

ReplicaSeesAll == []ReplicaSeesAllHolds /\ [][ReplicaSeesAllSteps]_vars

(* A field saved with a revision keeps the newest edit, applies in order and*)
(* overwrites nothing unseen, and a draft on the device is cleaned only when*)
(* it is safe and never replaced by an older one (the TypeScript data      *)
(* contracts).                                                             *)
EditsSurviveHolds ==
  /\ part = "writes" =>
       /\ Client!WritesTypeOK /\ Client!OneAtATime
       /\ Client!EditKept /\ Client!AppliedInOrder
       /\ Client!NoBlindOverwrite
  /\ part = "listener" => ClientListener!NoBlindOverwrite
  /\ part = "draft" =>
       /\ Client!DraftTypeOK /\ Client!CleanIsSafe

EditsSurviveSteps ==
  /\ part = "draft" =>
       /\ Client!NoOlderDraft /\ Client!UndecodedKept
  /\ part = "editors" => ClientEditors!UndecodedKept

EditsSurvive == []EditsSurviveHolds /\ [][EditsSurviveSteps]_vars
==============================================================================
