------------------------------ MODULE MCLiveness ------------------------------
(***************************************************************************)
(* What must happen in the end, on small instances of the machines whose    *)
(* scheduling the code fixes.  A behaviour is of one machine, named by      *)
(* part; the variables of the others stay 0.  The fairness below is that of *)
(* the runtime, the clock and the recurring jobs; of handlers, clients,     *)
(* providers and faults nothing is assumed.                                 *)
(***************************************************************************)
EXTENDS Integers

CONSTANTS
  Machines,  \* the machines a run starts
  None, NoRequest, Nobody,
  email, j1, w1, w2, s1, t1, h1, q1, k1, b1, b2, c1, c2

VARIABLES
  part,  \* the machine this behaviour is of
  table, mode, claim, abandoned, att, faults, requests,
  now, first, startedAt, taken, phase, hook, runs, task, restarts, lateRuns, joined,
  listener, unread, opsStop, pair, firstError,
  eraseNow, pc, began, auth, fence, op, job, attempts, holder, work, called,
  profile, account, lastErased,
  dsPc, found, reply, dsOp, ident, dsJob, tx, erased, subjectParts, purge,
  request, code, link, revoke, delivery, call, late, prepared, returned,
  rewardLink, rewardJob, recorded, counted, rewardCall, inbox, rewards,
  row, last, horizon, writer, pullPurge, pull, local, cursor, torn, pullFailures,
  started, foreground, interval, at, outcome, wake, restarted, rerun,
  retryIndex, owed, asked, events,
  claimed, worker, served, registered, delivered, verdict, pending, due,
  poller, closed, deliveryNow

runnerState == <<table, mode, claim, abandoned, att, faults, requests>>
shutdownState == <<now, first, startedAt, taken, phase, hook, runs, task,
    restarts, lateRuns, joined, listener, unread, opsStop, pair, firstError>>
erasureState == <<eraseNow, pc, began, auth, fence, op, job, attempts, holder,
    work, called, profile, account, lastErased>>
subjectState == <<dsPc, found, reply, dsOp, ident, dsJob, tx, erased,
    subjectParts, purge>>
linkState == <<request, code, link, revoke, delivery, call, late, prepared,
    returned>>
rewardState == <<rewardLink, rewardJob, recorded, counted, rewardCall, inbox,
    rewards>>
pullState == <<row, last, horizon, writer, pullPurge, pull, local, cursor,
    torn, pullFailures>>
schedulerState == <<started, foreground, interval, at, outcome, wake,
    restarted, rerun, retryIndex, owed, asked, events>>
deliveryState == <<claimed, worker, served, registered, delivered, verdict,
    pending, due, poller, closed, deliveryNow>>
vars == <<part, runnerState, shutdownState, erasureState, subjectState,
    linkState, rewardState, pullState, schedulerState, deliveryState>>

TwoAttempts ==
  {[job_type |-> email, max_attempts |-> 2, delay |-> 0, mode |-> "idempotency",
    key |-> None]}

(* One job and two workers, one of which may crash or shut down.            *)
Runner == INSTANCE JobRunner WITH
  Jobs <- {j1}, Workers <- {w1, w2}, Slots <- {s1}, JobTypes <- {email}, Keys <- {},
  Lease <- 4, JobTimeout <- 1, RetryDelay <- 1, MaxDelay <- 1,
  NewJobs <- TwoAttempts, MaxFaults <- 1, MaxRequests <- 0

(* One supervised task, one hook, both listeners.                           *)
Process_ == INSTANCE Process WITH
  Tasks <- {t1}, Hooks <- {h1}, MaxRestarts <- 1, OpsOutlivesApi <- TRUE,
  MayPanic <- TRUE, DrainTimeout <- 1, LatestStart <- 0,
  Names <- {}, Messages <- {}, Timeouts <- {}, MaxChecks <- 0, MAX_ERROR_LENGTH <- 0,
  PoolCallers <- {}, MaxConnections <- 0, MaxTimeouts <- 0, U32 <- 0,
  checks <- 0, accepting <- 0, probe <- 0,
  size <- 0, idle <- 0, caller <- 0, counter <- 0, timedOut <- 0, gauges <- 0, sampler <- 0,
  ConfigFiles <- {}, Variables <- {}, Dotenvs <- {}, ConfigRegistered <- {}, MaxLoads <- 0,
  U64 <- 0, file <- 0, dotenv <- 0, started <- 0, env <- 0, configLast <- 0, previous <- 0,
  edited <- 0, loads <- 0

(* A deletion by an operator and one by the user, two workers.              *)
Erase == INSTANCE Erasure WITH
  Requests <- {q1}, Keys <- {k1}, KeyOf <- [r \in {q1} |-> k1], Operators <- {b1},
  Visits <- {}, Workers <- {w1, w2}, Retain <- FALSE, MaxAttempts <- 2, LastTime <- 0,
  now <- eraseNow

(* One erasure of one account, two workers.                                 *)
DS == INSTANCE DataSubject WITH
  Requests <- {q1}, Workers <- {w1, w2}, Subjects <- {b1},
  KeyOf <- [r \in {q1} |-> "k1"], BodyOf <- [r \in {q1} |-> "b"],
  KindOf <- [r \in {q1} |-> "erasure"], SubjectsOf <- [r \in {q1} |-> {b1}],
  Retain <- FALSE, MaxAttempts <- 2, LeaseTime <- 2, DeletionTimeout <- 3,
  ExportRetention <- 2, OperationRetention <- 14, MaxDelay <- 4,
  pc <- dsPc, op <- dsOp, job <- dsJob,
  Exports <- {}, Limits <- {}, input <- 0, limit <- 0, category <- 0, next <- 0,
  open <- 0, bytes <- 0, splitParts <- 0, result <- 0

(* Two links of one pair of products, no deliveries.                        *)
Pairing == INSTANCE SuiteLink WITH
  Requests <- {q1}, Codes <- {c1, c2}, Completers <- {w1}, Senders <- {}, MaxLinks <- 2

(* One event, one worker, a circuit that opens at the first failure.        *)
Rewards == INSTANCE SuiteDelivery WITH
  Events <- {c1}, Workers <- {w1}, Failures <- 1, MaxAttempts <- 2,
  link <- rewardLink, job <- rewardJob, call <- rewardCall

(* Two rows, one writer, pages of two.                                      *)
Repl == INSTANCE Sync WITH
  Ids <- {b1, b2}, Writers <- {w1}, MaxRevision <- 3, PullMaxFailures <- 1,
  PageSize <- 2, Limit <- 2, purge <- pullPurge,
  Devices <- {}, PerMs <- 0, MaxStamp <- 0, MaxPhysical <- 0, HlcMaxFailures <- 0,
  physical <- 0, state <- 0, stored <- 0, busy <- 0, issued <- 0, sent <- 0, hlcFailures <- 0

Client == INSTANCE ClientSync WITH
  MaxRetries <- 2, MaxEvents <- 6,
  WritesMaxEdits <- 0, MaxForeign <- 0, MaxGeneration <- 0, Reentrant <- FALSE,
  writesEdits <- 0, dropped <- 0, generation <- 0, unsent <- 0, uncertain <- 0, pause <- 0,
  acked <- 0, drain <- 0, calls <- 0, server <- 0, known <- 0,
  Keys <- {}, DraftMaxEdits <- 0, MaxSessions <- 0, MaxQueue <- 0, MaxRevision <- 0,
  Leases <- FALSE, Bad <- NoRequest, store <- 0, draftActive <- 0, draftEdits <- 0,
  submitted <- 0, session <- 0, keyOf <- 0, opened <- 0, value <- 0, draftRevision <- 0,
  recovery <- 0, persisted <- 0, stored <- 0, queue <- 0, run <- 0

(* One device, one worker, one poller that may stop half-way.               *)
Send == INSTANCE Push WITH
  DeliveryDevices <- {c1}, Workers <- {w1}, Pollers <- {q1}, BatchSize <- 2, Limit <- 1,
  DeliveryMaxTime <- 3, MayStop <- TRUE, MayExpire <- FALSE,
  Owners <- {}, Tokens <- {}, Clients <- {}, NoToken <- None, NoOwner <- None,
  DevicesPerOwner <- 1, RegistryMaxTime <- 0, device <- 0, registryNow <- 0, tx <- 0

RunnerOff ==
  /\ table = 0 /\ mode = 0 /\ claim = 0 /\ abandoned = 0 /\ att = 0 /\ faults = 0
  /\ requests = 0
ShutdownOff ==
  /\ now = 0 /\ first = 0 /\ startedAt = 0 /\ taken = 0 /\ phase = 0
  /\ hook = 0 /\ runs = 0 /\ task = 0 /\ restarts = 0 /\ lateRuns = 0 /\ joined = 0
  /\ listener = 0 /\ unread = 0 /\ opsStop = 0 /\ pair = 0 /\ firstError = 0
ErasureOff ==
  /\ eraseNow = 0 /\ pc = 0 /\ began = 0 /\ auth = 0 /\ fence = 0 /\ op = 0
  /\ job = 0 /\ attempts = 0 /\ holder = 0 /\ work = 0 /\ called = 0
  /\ profile = 0 /\ account = 0 /\ lastErased = 0
SubjectOff ==
  /\ dsPc = 0 /\ found = 0 /\ reply = 0 /\ dsOp = 0 /\ ident = 0 /\ dsJob = 0
  /\ tx = 0 /\ erased = 0 /\ subjectParts = 0 /\ purge = 0
LinkOff ==
  /\ request = 0 /\ code = 0 /\ link = 0 /\ revoke = 0 /\ delivery = 0
  /\ call = 0 /\ late = 0 /\ prepared = 0 /\ returned = 0
RewardOff ==
  /\ rewardLink = 0 /\ rewardJob = 0 /\ recorded = 0 /\ counted = 0
  /\ rewardCall = 0 /\ inbox = 0 /\ rewards = 0
PullOff ==
  /\ row = 0 /\ last = 0 /\ horizon = 0 /\ writer = 0 /\ pullPurge = 0
  /\ pull = 0 /\ local = 0 /\ cursor = 0 /\ torn = 0 /\ pullFailures = 0
SchedulerOff ==
  /\ started = 0 /\ foreground = 0 /\ interval = 0 /\ at = 0 /\ outcome = 0
  /\ wake = 0 /\ restarted = 0 /\ rerun = 0 /\ retryIndex = 0 /\ owed = 0
  /\ asked = 0 /\ events = 0
DeliveryOff ==
  /\ claimed = 0 /\ worker = 0 /\ served = 0 /\ registered = 0
  /\ delivered = 0 /\ verdict = 0 /\ pending = 0 /\ due = 0 /\ poller = 0
  /\ closed = 0 /\ deliveryNow = 0

RunnerStarts ==
  /\ part = "runner" /\ Runner!Init
  /\ ShutdownOff /\ ErasureOff /\ SubjectOff /\ LinkOff /\ RewardOff /\
     PullOff /\ SchedulerOff /\ DeliveryOff
ShutdownStarts ==
  /\ part = "shutdown" /\ Process_!ShutdownInit
  /\ RunnerOff /\ ErasureOff /\ SubjectOff /\ LinkOff /\ RewardOff /\
     PullOff /\ SchedulerOff /\ DeliveryOff
ErasureStarts ==
  /\ part = "erasure" /\ Erase!Init
  /\ RunnerOff /\ ShutdownOff /\ SubjectOff /\ LinkOff /\ RewardOff /\
     PullOff /\ SchedulerOff /\ DeliveryOff
SubjectStarts ==
  /\ part = "subject" /\ DS!SubjectInit
  /\ RunnerOff /\ ShutdownOff /\ ErasureOff /\ LinkOff /\ RewardOff /\
     PullOff /\ SchedulerOff /\ DeliveryOff
LinkStarts ==
  /\ part = "link" /\ Pairing!Init
  /\ RunnerOff /\ ShutdownOff /\ ErasureOff /\ SubjectOff /\ RewardOff /\
     PullOff /\ SchedulerOff /\ DeliveryOff
RewardStarts ==
  /\ part = "reward" /\ Rewards!Init
  /\ RunnerOff /\ ShutdownOff /\ ErasureOff /\ SubjectOff /\ LinkOff /\
     PullOff /\ SchedulerOff /\ DeliveryOff
PullStarts ==
  /\ part = "pull" /\ Repl!PullInit
  /\ RunnerOff /\ ShutdownOff /\ ErasureOff /\ SubjectOff /\ LinkOff /\
     RewardOff /\ SchedulerOff /\ DeliveryOff
SchedulerStarts ==
  /\ part = "scheduler" /\ Client!SchedulerInit
  /\ RunnerOff /\ ShutdownOff /\ ErasureOff /\ SubjectOff /\ LinkOff /\
     RewardOff /\ PullOff /\ DeliveryOff
DeliveryStarts ==
  /\ part = "delivery" /\ Send!DeliveryInit
  /\ RunnerOff /\ ShutdownOff /\ ErasureOff /\ SubjectOff /\ LinkOff /\
     RewardOff /\ PullOff /\ SchedulerOff

Init ==
  /\ part \in Machines
  /\ \/ RunnerStarts \/ ShutdownStarts \/ ErasureStarts \/ SubjectStarts
     \/ LinkStarts \/ RewardStarts \/ PullStarts \/ SchedulerStarts
     \/ DeliveryStarts

RunnerMoves ==
  /\ part = "runner" /\ Runner!Next
  /\ UNCHANGED <<part, shutdownState, erasureState, subjectState, linkState,
       rewardState, pullState, schedulerState, deliveryState>>
ShutdownMoves ==
  /\ part = "shutdown" /\ Process_!ShutdownNext
  /\ UNCHANGED <<part, runnerState, erasureState, subjectState, linkState,
       rewardState, pullState, schedulerState, deliveryState>>
ErasureMoves ==
  /\ part = "erasure" /\ Erase!Next
  /\ UNCHANGED <<part, runnerState, shutdownState, subjectState, linkState,
       rewardState, pullState, schedulerState, deliveryState>>
SubjectMoves ==
  /\ part = "subject" /\ DS!SubjectNext
  /\ UNCHANGED <<part, runnerState, shutdownState, erasureState, linkState,
       rewardState, pullState, schedulerState, deliveryState>>
LinkMoves ==
  /\ part = "link" /\ Pairing!Next
  /\ UNCHANGED <<part, runnerState, shutdownState, erasureState, subjectState,
       rewardState, pullState, schedulerState, deliveryState>>
RewardMoves ==
  /\ part = "reward" /\ Rewards!Next
  /\ UNCHANGED <<part, runnerState, shutdownState, erasureState, subjectState,
       linkState, pullState, schedulerState, deliveryState>>
PullMoves ==
  /\ part = "pull" /\ Repl!PullNext
  /\ UNCHANGED <<part, runnerState, shutdownState, erasureState, subjectState,
       linkState, rewardState, schedulerState, deliveryState>>
SchedulerMoves ==
  /\ part = "scheduler" /\ Client!SchedulerNext
  /\ UNCHANGED <<part, runnerState, shutdownState, erasureState, subjectState,
       linkState, rewardState, pullState, deliveryState>>
DeliveryMoves ==
  /\ part = "delivery" /\ Send!DeliveryNext
  /\ UNCHANGED <<part, runnerState, shutdownState, erasureState, subjectState,
       linkState, rewardState, pullState, schedulerState>>

Next ==
  \/ RunnerMoves \/ ShutdownMoves \/ ErasureMoves \/ SubjectMoves \/ LinkMoves
  \/ RewardMoves \/ PullMoves \/ SchedulerMoves \/ DeliveryMoves

(* Workers poll every ready task, a process that ended is restarted, time   *)
(* passes.                                                                  *)
RunnerFairness ==
  /\ WF_runnerState(part = "runner" /\ Runner!Tick)
  /\ \A w \in {w1, w2} :
       /\ WF_runnerState(part = "runner" /\ Runner!CallClaim(w))
       /\ WF_runnerState(part = "runner" /\ Runner!ExecuteClaim(w))
       /\ \A t \in 1..2 : WF_runnerState(part = "runner" /\ Runner!ExecuteAbandoned(w, t))
       /\ WF_runnerState(part = "runner" /\ Runner!RunFails(w))
       /\ WF_runnerState(part = "runner" /\ Runner!DrainEnds(w))
       /\ WF_runnerState(part = "runner" /\ Runner!Restart(w))
       /\ WF_runnerState(part = "runner" /\ Runner!SpawnAttempt(w, s1))
       /\ WF_runnerState(part = "runner" /\ Runner!TimesOut(w, s1))
       /\ WF_runnerState(part = "runner" /\ Runner!AttemptStep(w, s1))

(* The runtime schedules its own steps and time passes; nothing is assumed  *)
(* of the tasks, the servers or the arrival of a signal.                    *)
ShutdownFairness ==
  /\ WF_shutdownState(part = "shutdown" /\ Process_!PairStep)
  /\ WF_shutdownState(part = "shutdown" /\ Process_!TokenStep)
  /\ WF_shutdownState(part = "shutdown" /\ Process_!ShutdownJoin)
  /\ WF_shutdownState(part = "shutdown" /\ Process_!ShutdownTick)

(* A runner that keeps polling sweeps every expired job and, taking the     *)
(* oldest first, claims every claimable one; an attempt and an inline call  *)
(* are bounded.                                                             *)
ErasureFairness ==
  /\ \A o \in Erase!Ops :
       /\ WF_erasureState(part = "erasure" /\ Erase!SweepJob(o))
       /\ SF_erasureState(part = "erasure" /\ \E w \in {w1, w2} : Erase!ClaimJob(w, o))
  /\ \A w \in {w1, w2} :
       WF_erasureState(part = "erasure" /\ (Erase!CallProvider(w) \/ Erase!FinishJob(w) \/ Erase!FailJob(w)))
  /\ WF_erasureState(part = "erasure" /\ (Erase!LockJob(q1) \/ Erase!InlineCall(q1)))

(* Workers poll, run the handlers they have claimed for and end their       *)
(* transactions; the provider may never answer.                             *)
SubjectFairness ==
  /\ WF_subjectState(part = "subject" /\ DS!Tick)
  /\ WF_subjectState(part = "subject" /\ DS!Sweep(q1))
  /\ WF_subjectState(part = "subject" /\ \E w \in {w1, w2} : DS!Claim(w, q1))
  /\ \A w \in {w1, w2} :
       /\ WF_subjectState(part = "subject" /\ DS!Begin(w, q1))
       /\ WF_subjectState(part = "subject" /\ DS!Commit(w, q1))
       /\ WF_subjectState(part = "subject" /\ DS!Rollback(w))

(* The revoke job is retried until the peer answers.                        *)
LinkFairness ==
  \A s \in Pairing!Sides, l \in Pairing!Ids :
    WF_linkState(part = "link" /\ Pairing!RevokeAnswered(s, l))

(* Workers keep claiming and make progress, leases of lost claims expire,   *)
(* the cleanup runs every hour.                                             *)
RewardFairness ==
  /\ WF_rewardState(part = "reward" /\ Rewards!Cleanup)
  /\ WF_rewardState(part = "reward" /\ Rewards!Progress(w1))
  /\ WF_rewardState(part = "reward" /\ \E j \in Rewards!Jobs : Rewards!Claim(w1, j))
  /\ \A j \in Rewards!Jobs :
       WF_rewardState(part = "reward" /\ Rewards!LeaseExpires(j)
         /\ rewardJob[j].worker \notin {w \in {w1} : rewardCall[w] # Rewards!Idle /\ rewardCall[w].job = j})

(* Open transactions end and the scheduler keeps running the client.        *)
PullFairness ==
  /\ WF_pullState(part = "pull" /\ Repl!ClientStep)
  /\ WF_pullState(part = "pull" /\ Repl!PurgeStep)
  /\ WF_pullState(part = "pull" /\ (Repl!Commit(w1) \/ Repl!Rollback(w1)))

(* Microtasks, the product's run and host timers go on.                     *)
SchedulerFairness ==
  /\ WF_schedulerState(part = "scheduler" /\ Client!TaskStep)
  /\ WF_schedulerState(part = "scheduler" /\ Client!IntervalFires)

(* Time goes on, and the recurring job that polls is run again and again: a *)
(* poll that fails or stops is repeated, and each of its steps succeeds for *)
(* a device if it is tried often enough.                                    *)
DeliveryFairness ==
  /\ WF_deliveryState(part = "delivery" /\ Send!DelayPasses)
  /\ WF_deliveryState(part = "delivery" /\ Send!TakeDue(q1))
  /\ WF_deliveryState(part = "delivery" /\ Send!DeleteSettled(q1))
  /\ SF_deliveryState(part = "delivery" /\ poller[q1].batch # {} /\ Send!ReadReceipts(q1))
  /\ SF_deliveryState(part = "delivery" /\ poller[q1].dead # {} /\ Send!InvalidateOneSend(q1))

Spec ==
  /\ Init /\ [][Next]_vars
  /\ RunnerFairness /\ ShutdownFairness /\ ErasureFairness /\ SubjectFairness
  /\ LinkFairness /\ RewardFairness /\ PullFairness /\ SchedulerFairness
  /\ DeliveryFairness

-----------------------------------------------------------------------------
(* The two deliveries of the one event, and the tickets of the one device.  *)
Deliveries == <<<<c1, "live">>, <<c1, "replay">>>>
Tickets == <<[device |-> c1, sent |-> 2], [device |-> c1, sent |-> 3]>>

(* Work of machine i that was begun, and the end of it: jobs and drains of  *)
(* workers, the shutdown that anything triggered, the two erasures, a data  *)
(* subject's operation and the deliveries of a reward.                      *)
Begun(i) ==
  \/ part = "runner" /\ <<table[j1].status = "pending", mode[w1] = "draining", mode[w2] = "draining">>[i]
  \/ part = "shutdown" /\ <<first # None, task[t1] \in {"triggering", "done"}, FALSE>>[i]
  \/ part = "erasure" /\ <<op[q1] = "pending", op[b1] = "pending", FALSE>>[i]
  \/ part = "subject" /\ i = 1 /\ dsOp[q1].status = "pending"
  \/ part = "reward" /\ i \in 1..2 /\ rewardJob[Deliveries[i]].status = "pending"
Ended(i) ==
  \/ part = "runner"
       /\ <<table[j1].status \in Runner!Terminal, mode[w1] # "draining", mode[w2] # "draining">>[i]
  \/ part = "shutdown"
       /\ <<joined # None /\ pair \in {"ok", "error", "timeout"}, Process_!Cancelled, FALSE>>[i]
  \/ part = "erasure" /\ op[<<q1, b1, b1>>[i]] \in {"completed", "failed"}
  \/ part = "subject" /\ dsOp[q1].status # "pending"
  \/ part = "reward" /\ i \in 1..2 /\ rewardJob[Deliveries[i]].status \in {"succeeded", "failed"}

(* Work that was begun ends although workers crash, attempts are retried,   *)
(* requests fail and clients go away (baukit-jobs runner.rs, baukit-runtime, *)
(* baukit-erasure, baukit-data-subject, baukit-suite delivery).             *)
WorkEnds == \A i \in 1..3 : Begun(i) ~> Ended(i)

(* What one side did, and that the other heard of it: the revocation of the *)
(* initiator's link l at the peer's link k (unless a request was approved   *)
(* twice), a failed delivery at the circuit, a dead receipt at the registry *)
(* of devices, a follow-up at a scheduler in the foreground.                *)
Told(l, k) ==
  \/ part = "link" /\ Pairing!OneCodeEach /\ link["i"][l].status = "revoked" /\ link["i"][l].remote = k
  \/ part = "reward" /\ l = 1 /\ Deliveries[k] \in recorded
  \/ part = "delivery" /\ l = 1 /\ Tickets[k] \in Send!Recorded /\ verdict[Tickets[k]] = "dead"
  \/ part = "scheduler" /\ l = 1 /\ k = 1 /\ owed
Heard(l, k) ==
  \/ part = "link" /\ (~Pairing!OneCodeEach \/ link["a"][k].status = "revoked")
  \/ part = "reward" /\ counted[Deliveries[k]] = 1
  \/ part = "delivery"
       /\ (registered[c1] = 0 \/ registered[c1] > Tickets[k].sent)
  \/ part = "scheduler" /\ (~owed \/ ~started \/ ~foreground)

(* What one side did becomes known to the other, although requests and      *)
(* answers are lost, and a replica that pulls while rows are written and    *)
(* purged ends with the server's rows, but for a purged row of a first page *)
(* whose cursor it lost (baukit-suite, baukit-push, baukit-sync and the     *)
(* sync client).                                                            *)
ChangesArrive ==
  /\ \A l, k \in 1..2 : Told(l, k) ~> Heard(l, k)
  /\ <>[](part = "pull" =>
             \A i \in {b1, b2} : \/ local[i] = Repl!Visible(row[i])
                                 \/ i \in torn /\ row[i].rev = 0)
===============================================================================
