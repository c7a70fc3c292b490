----------------------------- MODULE JobRunner -----------------------------
(***************************************************************************)
(* WorkerRunner::run: worker processes that poll one job_outbox, run up to *)
(* Cardinality(Slots) attempts each, and write every outcome through a     *)
(* store call made with a timestamp read before the call.  Processes shut  *)
(* down, crash and come back under the same worker_id.                     *)
(*                                                                         *)
(* Time is a window around a fixed Now: a tick moves every stored instant  *)
(* one step into the past instead of moving the clock, and an instant      *)
(* older than any timestamp in use stays at Oldest.  Behaviours therefore  *)
(* never run out of time, which the liveness properties need.              *)
(***************************************************************************)
EXTENDS JobRows

CONSTANTS
  Slots,         \* one per attempt a worker may run: WorkerConfig.concurrency
  JobTimeout,    \* WorkerConfig.job_timeout
  RetryDelay,    \* retry_delay, taken constant
  MaxDelay,      \* bound: ticks from reading a timestamp to the end of its call
  NewJobs,       \* inputs of enqueue: [job_type, max_attempts, delay, mode, key]
  MaxFaults,     \* bound: shutdowns, crashes and store errors in a behaviour
  MaxRequests    \* bound: cancellation requests in a behaviour

ASSUME RunnerAssumption ==
  /\ JobTimeout \in Nat \ {0}
  /\ Lease > JobTimeout              \* validate_config
  /\ RetryDelay \in Nat \ {0}
  /\ MaxDelay \in Nat /\ MaxFaults \in Nat /\ MaxRequests \in Nat
  /\ \A new \in NewJobs :
       /\ new.job_type \in JobTypes
       /\ new.max_attempts \in Nat \ {0}
       /\ new.delay \in Int
       /\ new.mode \in KeyModes
       /\ new.key \in Keys \union {None}

VARIABLES
  table,      \* job_outbox
  mode,       \* state of each worker process
  claim,      \* the claim call each worker waits for
  abandoned,  \* claim calls nobody waits for, by worker and time: how many
  att,        \* the JoinSet of each worker: its attempts
  faults, requests

vars == <<table, mode, claim, abandoned, att, faults, requests>>

Oldest == 1
Now == Oldest + MaxDelay
Aged(instant) == IF instant <= Oldest THEN instant ELSE instant - 1

Modes == {"running", "draining", "stopped", "failed", "down"}

NoJob == None
NoClaim == [phase |-> "none", at |-> 0, job |-> NoJob, number |-> 0]
Claims == [phase : {"none", "called", "returned", "refused"},
           at : Nat, job : Jobs \union {NoJob}, number : Nat]
Calls == [Oldest..Now -> Nat]

Idle == [phase |-> "idle", job |-> NoJob, number |-> 0, deadline |-> 0,
         verdict |-> "none", at |-> 0, committed |-> FALSE, marked |-> FALSE]
Attempts ==
  [phase : {"idle", "handling", "ended", "settling", "checking", "cancelling",
            "lost", "orphaned"},
   job : Jobs \union {NoJob}, number : Nat, deadline : Nat,
   verdict : {"none", "ok", "retry", "permanent", "cancelled"},
   at : Nat, committed : BOOLEAN, marked : BOOLEAN]

Init ==
  /\ table = [j \in Jobs |-> UnusedRow]
  /\ mode = [w \in Workers |-> "running"]
  /\ claim = [w \in Workers |-> NoClaim]
  /\ abandoned = [w \in Workers |-> [t \in Oldest..Now |-> 0]]
  /\ att = [w \in Workers |-> [s \in Slots |-> Idle]]
  /\ faults = 0
  /\ requests = 0

SetRow(j, row) == table' = [table EXCEPT ![j] = row]
SetAttempt(w, s, a) == att' = [att EXCEPT ![w][s] = a]
Row(w, s) == table[att[w][s].job]

(***************************************************************************)
(* Producers and callers that cancel.                                      *)
(***************************************************************************)
ScheduledAt(delay) == IF Now + delay < Oldest THEN Oldest ELSE Now + delay

Enqueue(j) ==
  /\ table[j].status = "unused"
  /\ \E new \in NewJobs :
       LET row == InsertedRow(
             [job_type |-> new.job_type, max_attempts |-> new.max_attempts,
              run_after |-> ScheduledAt(new.delay),
              mode |-> new.mode, key |-> new.key], Now)
       IN  /\ \A k \in Jobs : ~Collides(row, table[k])
           /\ SetRow(j, row)
  /\ UNCHANGED <<mode, claim, abandoned, att, faults, requests>>

RequestCancellation(j) ==
  /\ requests < MaxRequests
  /\ table[j].status \in Active
  /\ SetRow(j, CancellationApplied(table[j], Now))
  /\ requests' = requests + 1
  /\ UNCHANGED <<mode, claim, abandoned, att, faults>>

(***************************************************************************)
(* The claim loop.  The end of run does not take back a call that was      *)
(* sent: PostgreSQL may still run it, also when a new process has the      *)
(* worker_id and claims for itself.  Nobody reads its answer, so the job   *)
(* it claims has no attempt.                                               *)
(***************************************************************************)
CallClaim(w) ==
  /\ mode[w] = "running"
  /\ claim[w] = NoClaim
  /\ \E s \in Slots : att[w][s] = Idle
  /\ claim' = [claim EXCEPT ![w] = [NoClaim EXCEPT !.phase = "called", !.at = Now]]
  /\ UNCHANGED <<table, mode, abandoned, att, faults, requests>>

Sweep(t) == [j \in Jobs |-> Swept(table[j], t)]
Candidates(t) == ClaimCandidates(Sweep(t), Jobs, JobTypes, t)
Taken(j, w, t) == [Sweep(t) EXCEPT ![j] = Claimed(Sweep(t)[j], w, t)]

ExecuteClaim(w) ==
  LET t == claim[w].at IN
  /\ claim[w].phase = "called"
  /\ \/ /\ Candidates(t) = {}
        /\ table' = Sweep(t)
        /\ claim' = [claim EXCEPT ![w] = NoClaim]
     \/ \E j \in Candidates(t) :
          IF Constraints(Taken(j, w, t))
          THEN /\ table' = Taken(j, w, t)
               /\ claim' = [claim EXCEPT ![w] =
                    [phase |-> "returned", at |-> t, job |-> j,
                     number |-> table[j].attempts + 1]]
          ELSE /\ claim' = [claim EXCEPT ![w] = [NoClaim EXCEPT !.phase = "refused"]]
               /\ UNCHANGED table
  /\ UNCHANGED <<mode, abandoned, att, faults, requests>>

ExecuteAbandoned(w, t) ==
  /\ abandoned[w][t] > 0
  /\ \/ Candidates(t) = {} /\ table' = Sweep(t)
     \/ \E j \in Candidates(t) :
          table' = IF Constraints(Taken(j, w, t)) THEN Taken(j, w, t) ELSE table
  /\ abandoned' = [abandoned EXCEPT ![w][t] = @ - 1]
  /\ UNCHANGED <<mode, claim, att, faults, requests>>

\* run ends: a call still in flight is left to PostgreSQL, an answer is lost.
AbandonClaim(w) ==
  /\ claim' = [claim EXCEPT ![w] = NoClaim]
  /\ abandoned' = IF claim[w].phase = "called"
                  THEN [abandoned EXCEPT ![w][claim[w].at] = @ + 1]
                  ELSE abandoned

\* Faulty variant: the attempt may run as long as the lease.
SpawnLongAttempt(w, s) ==
  /\ mode[w] = "running"
  /\ claim[w].phase = "returned"
  /\ att[w][s] = Idle
  /\ SetAttempt(w, s, [Idle EXCEPT
       !.phase = "handling", !.job = claim[w].job,
       !.number = claim[w].number, !.deadline = Now + Lease])
  /\ claim' = [claim EXCEPT ![w] = NoClaim]
  /\ UNCHANGED <<table, mode, abandoned, faults, requests>>

SpawnAttempt(w, s) ==
  /\ mode[w] = "running"
  /\ claim[w].phase = "returned"
  /\ att[w][s] = Idle
  /\ SetAttempt(w, s, [Idle EXCEPT
       !.phase = "handling", !.job = claim[w].job,
       !.number = claim[w].number,
       !.deadline = Now + JobTimeout])
  /\ claim' = [claim EXCEPT ![w] = NoClaim]
  /\ UNCHANGED <<table, mode, abandoned, faults, requests>>

(***************************************************************************)
(* process_claimed_job, while the handler runs: select! over the handler,  *)
(* the timeout and the cancellation poll.                                  *)
(***************************************************************************)
Handling(w, s) == att[w][s].phase = "handling"

\* The handler's transaction with complete_in_transaction commits ...
CommitInHandler(w, s) ==
  /\ Handling(w, s)
  /\ OwnsLease(Row(w, s), w, Now, FALSE)
  /\ SetRow(att[w][s].job, Finished(Row(w, s), "succeeded", Now))
  /\ SetAttempt(w, s, [att[w][s] EXCEPT !.committed = TRUE])
  /\ UNCHANGED <<mode, claim, abandoned, faults, requests>>

\* Faulty variant: a handler marks a transaction it has not committed.
MarkEarly(w, s) ==
  /\ Handling(w, s)
  /\ SetAttempt(w, s, [att[w][s] EXCEPT !.marked = TRUE])
  /\ UNCHANGED <<table, mode, claim, abandoned, faults, requests>>

\* ... and mark_completed_in_transaction follows, in the handler, later.
MarkCompleted(w, s) ==
  /\ Handling(w, s)
  /\ att[w][s].committed
  /\ SetAttempt(w, s, [att[w][s] EXCEPT !.marked = TRUE])
  /\ UNCHANGED <<table, mode, claim, abandoned, faults, requests>>

StopHandling(w, s, verdict) ==
  /\ Handling(w, s)
  /\ SetAttempt(w, s, [att[w][s] EXCEPT !.phase = "ended", !.verdict = verdict])
  /\ UNCHANGED <<table, mode, claim, abandoned, faults, requests>>

\* A handler that committed returns success, and only after the mark.
HandlerReturns(w, s) ==
  \E verdict \in {"ok", "retry", "permanent"} :
    /\ att[w][s].committed => att[w][s].marked /\ verdict = "ok"
    /\ StopHandling(w, s, verdict)

TimesOut(w, s) ==
  att[w][s].deadline <= Now /\ StopHandling(w, s, "retry")

ObserveCancellation(w, s) ==
  /\ Handling(w, s)
  /\ Row(w, s).cancel_requested
  /\ StopHandling(w, s, "cancelled")

(***************************************************************************)
(* process_claimed_job, after the handler: the outcome is written with a   *)
(* timestamp read here.  A false answer leads to cancellation_requested    *)
(* and to cancel with the same timestamp, and then to LeaseLost.           *)
(***************************************************************************)
BeginSettling(w, s) ==
  /\ att[w][s].phase = "ended"
  /\ SetAttempt(w, s,
       IF att[w][s].marked THEN Idle
       ELSE [att[w][s] EXCEPT !.phase = "settling", !.at = Now])
  /\ UNCHANGED <<table, mode, claim, abandoned, faults, requests>>

Outcome(row, verdict, t) ==
  CASE verdict = "ok" -> Finished(row, "succeeded", t)
    [] verdict = "cancelled" -> Finished(row, "cancelled", t)
    [] OTHER -> FailureRecorded(row, verdict = "retry", t + RetryDelay, t)

Settle(w, s) ==
  LET a == att[w][s] IN
  /\ a.phase = "settling"
  /\ IF OwnsLease(Row(w, s), w, a.at, a.verdict # "ok")
     THEN /\ SetRow(a.job, Outcome(Row(w, s), a.verdict, a.at))
          /\ SetAttempt(w, s, Idle)
     ELSE /\ SetAttempt(w, s, [a EXCEPT
               !.phase = IF a.verdict = "cancelled" THEN "lost" ELSE "checking"])
          /\ UNCHANGED table
  /\ UNCHANGED <<mode, claim, abandoned, faults, requests>>

CheckCancellation(w, s) ==
  /\ att[w][s].phase = "checking"
  /\ SetAttempt(w, s, [att[w][s] EXCEPT
       !.phase = IF Row(w, s).cancel_requested THEN "cancelling" ELSE "lost"])
  /\ UNCHANGED <<table, mode, claim, abandoned, faults, requests>>

CancelInstead(w, s) ==
  LET a == att[w][s] IN
  /\ a.phase = "cancelling"
  /\ IF OwnsLease(Row(w, s), w, a.at, TRUE)
     THEN /\ SetRow(a.job, Finished(Row(w, s), "cancelled", a.at))
          /\ SetAttempt(w, s, Idle)
     ELSE SetAttempt(w, s, [a EXCEPT !.phase = "lost"]) /\ UNCHANGED table
  /\ UNCHANGED <<mode, claim, abandoned, faults, requests>>

(***************************************************************************)
(* The end of run.  An error of any attempt or of the claim returns from   *)
(* run, which drops the JoinSet and with it every other attempt; run sees  *)
(* neither while it waits for a claim.                                     *)
(***************************************************************************)
\* A dropped future does not take back the statement it sent: PostgreSQL may
\* still run it, even when a new process has the worker_id.
Orphan(a) ==
  [a EXCEPT !.phase = "orphaned",
            !.verdict = IF a.phase = "cancelling" THEN "cancelled" ELSE @]

Dropped(a) ==
  CASE a.phase \in {"settling", "cancelling"} -> {Idle, Orphan(a)}
    [] a.phase = "orphaned" -> {a}
    [] OTHER -> {Idle}

DropAttempts(w) ==
  \E left \in [Slots -> UNION {Dropped(att[w][s]) : s \in Slots}] :
    /\ \A s \in Slots : left[s] \in Dropped(att[w][s])
    /\ att' = [att EXCEPT ![w] = left]

OrphanSettles(w, s) ==
  LET a == att[w][s] IN
  /\ a.phase = "orphaned"
  /\ IF OwnsLease(Row(w, s), w, a.at, a.verdict # "ok")
     THEN SetRow(a.job, Outcome(Row(w, s), a.verdict, a.at))
     ELSE UNCHANGED table
  /\ SetAttempt(w, s, Idle)
  /\ UNCHANGED <<mode, claim, abandoned, faults, requests>>

RunFails(w) ==
  /\ mode[w] \in {"running", "draining"}
  /\ \/ claim[w] = NoClaim /\ \E s \in Slots : att[w][s].phase = "lost"
     \/ claim[w].phase = "refused"
  /\ mode' = [mode EXCEPT ![w] = "failed"]
  /\ claim' = [claim EXCEPT ![w] = NoClaim]
  /\ DropAttempts(w)
  /\ UNCHANGED <<table, abandoned, faults, requests>>

Shutdown(w) ==
  /\ mode[w] = "running" /\ faults < MaxFaults
  /\ mode' = [mode EXCEPT ![w] = "draining"]
  /\ AbandonClaim(w)
  /\ faults' = faults + 1
  /\ UNCHANGED <<table, att, requests>>

DrainEnds(w) ==
  /\ mode[w] = "draining"
  /\ \A s \in Slots : att[w][s].phase \in {"idle", "orphaned"}
  /\ mode' = [mode EXCEPT ![w] = "stopped"]
  /\ UNCHANGED <<table, claim, abandoned, att, faults, requests>>

\* The process ends with its work undone: a crash, or the supervisor's drain
\* deadline.  A claim already sent may still commit in PostgreSQL, or is lost.
Crash(w) ==
  /\ mode[w] \in {"running", "draining"} /\ faults < MaxFaults
  /\ mode' = [mode EXCEPT ![w] = "down"]
  /\ \/ AbandonClaim(w)
     \/ claim' = [claim EXCEPT ![w] = NoClaim] /\ UNCHANGED abandoned
  /\ DropAttempts(w)
  /\ faults' = faults + 1
  /\ UNCHANGED <<table, requests>>

\* A store call fails: the attempt ends with RunnerError::Store.
StoreFails(w, s) ==
  /\ att[w][s].phase \in {"handling", "settling", "checking", "cancelling"}
  /\ faults < MaxFaults
  /\ SetAttempt(w, s, [att[w][s] EXCEPT !.phase = "lost"])
  /\ faults' = faults + 1
  /\ UNCHANGED <<table, mode, claim, abandoned, requests>>

Restart(w) ==
  /\ mode[w] \in {"stopped", "failed", "down"}
  /\ mode' = [mode EXCEPT ![w] = "running"]
  /\ UNCHANGED <<table, claim, abandoned, att, faults, requests>>

(***************************************************************************)
(* Time passes.  Timers fire within their tick and no store call outlives  *)
(* MaxDelay ticks from its timestamp; a claimed job is handed over within  *)
(* the same bound.                                                         *)
(***************************************************************************)
Tick ==
  /\ \A w \in Workers :
       /\ claim[w].phase \in {"called", "returned"} => claim[w].at > Oldest
       /\ abandoned[w][Oldest] = 0
       /\ \A s \in Slots :
            /\ Handling(w, s) => att[w][s].deadline > Now
            /\ att[w][s].phase # "ended"
            /\ att[w][s].phase \in {"settling", "checking", "cancelling",
                                    "orphaned"} => att[w][s].at > Oldest
  /\ table' = [j \in Jobs |-> [table[j] EXCEPT
       !.run_after = Aged(@), !.locked_until = Aged(@),
       !.created_at = Aged(@), !.updated_at = Aged(@)]]
  /\ claim' = [w \in Workers |-> [claim[w] EXCEPT !.at = Aged(@)]]
  /\ abandoned' = [w \in Workers |-> [t \in Oldest..Now |->
       IF t = Now THEN 0 ELSE abandoned[w][t + 1]]]
  /\ att' = [w \in Workers |-> [s \in Slots |->
       [att[w][s] EXCEPT !.deadline = Aged(@), !.at = Aged(@)]]]
  /\ UNCHANGED <<mode, faults, requests>>

AttemptStep(w, s) ==
  \/ BeginSettling(w, s)
  \/ Settle(w, s)
  \/ CheckCancellation(w, s)
  \/ CancelInstead(w, s)
  \/ OrphanSettles(w, s)

Next ==
  \/ \E j \in Jobs : Enqueue(j) \/ RequestCancellation(j)
  \/ \E w \in Workers :
       \/ CallClaim(w) \/ ExecuteClaim(w)
       \/ \E t \in Oldest..Now : ExecuteAbandoned(w, t)
       \/ RunFails(w) \/ Shutdown(w) \/ DrainEnds(w) \/ Crash(w) \/ Restart(w)
       \/ \E s \in Slots :
            \/ SpawnAttempt(w, s)
            \/ CommitInHandler(w, s) \/ MarkCompleted(w, s)
            \/ HandlerReturns(w, s) \/ TimesOut(w, s) \/ ObserveCancellation(w, s)
            \/ AttemptStep(w, s)
            \/ StoreFails(w, s)
  \/ Tick

(***************************************************************************)
(* The runtime polls every ready task, the deployment restarts a process   *)
(* that ended, time passes.  No fairness is assumed of handlers, producers *)
(* and faults.                                                             *)
(***************************************************************************)
Fairness ==
  /\ WF_vars(Tick)
  /\ \A w \in Workers :
       /\ WF_vars(CallClaim(w)) /\ WF_vars(ExecuteClaim(w))
       /\ \A t \in Oldest..Now : WF_vars(ExecuteAbandoned(w, t))
       /\ WF_vars(RunFails(w)) /\ WF_vars(DrainEnds(w)) /\ WF_vars(Restart(w))
       /\ WF_vars(\E s \in Slots : SpawnAttempt(w, s))
       /\ \A s \in Slots : WF_vars(TimesOut(w, s)) /\ WF_vars(AttemptStep(w, s))

Spec == Init /\ [][Next]_vars
FairSpec == Spec /\ Fairness
-----------------------------------------------------------------------------
TypeOK ==
  /\ table \in [Jobs -> Rows]
  /\ mode \in [Workers -> Modes]
  /\ claim \in [Workers -> Claims]
  /\ abandoned \in [Workers -> Calls]
  /\ att \in [Workers -> [Slots -> Attempts]]
  /\ faults \in 0..MaxFaults /\ requests \in 0..MaxRequests

(***************************************************************************)
(* Two handlers never run the same job at the same time, across processes, *)
(* restarts and abandoned claims: the lease outlives the attempt.          *)
(***************************************************************************)
OneHandlerPerJob ==
  \A v, w \in Workers, r, s \in Slots :
    Handling(v, r) /\ Handling(w, s) /\ att[v][r].job = att[w][s].job =>
      v = w /\ r = s

(***************************************************************************)
(* The lease names a worker and not an attempt.  Still no attempt can      *)
(* write the outcome of a later attempt of its job, not even one that the  *)
(* same worker_id claimed: with any timestamp it may still use, the lease  *)
(* predicate holds only for its own claim.                                 *)
(***************************************************************************)
StaleAttemptFenced ==
  \A w \in Workers, s \in Slots :
    att[w][s].phase \notin {"idle", "lost"} =>
      \A t \in (IF att[w][s].at = 0 THEN Now ELSE att[w][s].at)..Now :
        OwnsLease(Row(w, s), w, t, TRUE) =>
          Row(w, s).attempts = att[w][s].number

(***************************************************************************)
(* The writes that do not test them keep the constraints of the schema.    *)
(***************************************************************************)
SchemaHolds == Constraints(table)

(***************************************************************************)
(* A success that is reported without a store call (the handler marked it) *)
(* is a success in the table.                                              *)
(***************************************************************************)
MarkedIsDurable ==
  \A w \in Workers, s \in Slots :
    att[w][s].marked => Row(w, s).status = "succeeded"

(***************************************************************************)
(* Every job that was enqueued reaches a terminal status.                  *)
(***************************************************************************)
EveryJobEnds ==
  \A j \in Jobs : table[j].status = "pending" ~> table[j].status \in Terminal

(***************************************************************************)
(* A drain ends without help from the supervisor's deadline: no handler    *)
(* and no store call keeps it open for ever.                               *)
(***************************************************************************)
DrainTerminates ==
  \A w \in Workers : mode[w] = "draining" ~> mode[w] # "draining"
-----------------------------------------------------------------------------
(***************************************************************************)
(* What the documentation says and the code does not do.                   *)
(*                                                                         *)
(* docs/platform/durable-job-ownership.md: after a cancellation request    *)
(* commits, the runner records cancelled when the handler yields.  A       *)
(* handler that yields an error, or times out, before the poll sees the    *)
(* request is recorded as a failure, which clears the request.             *)
(***************************************************************************)
RequestEndsInCancelled ==
  [][\A j \in Jobs :
       table[j].cancel_requested =>
         table'[j].status \in {"running", "cancelled"}]_vars

(***************************************************************************)
(* CHANGELOG.md of baukit-jobs: since each claim takes a fresh time, no    *)
(* claim writes an updated_at before created_at and breaks the outbox      *)
(* check.  The time is fresh when the call starts, not when it runs.       *)
(***************************************************************************)
ClaimNeverRefused == \A w \in Workers : claim[w].phase # "refused"

(***************************************************************************)
(* RunnerError::LeaseLost in error.rs: the worker lost ownership before it *)
(* could persist an attempt outcome.  A timeout between the commit of the  *)
(* handler's transaction and its mark reports the persisted outcome lost.  *)
(***************************************************************************)
LeaseLostBeforePersisting ==
  \A w \in Workers, s \in Slots :
    att[w][s].phase = "lost" => ~att[w][s].committed

(***************************************************************************)
(* README.md of baukit-jobs: on shutdown the runner drains in-flight       *)
(* attempts, bounded by the supervisor's deadline.  An error of one        *)
(* attempt ends the drain at once and drops the handlers still running.    *)
(***************************************************************************)
DrainKeepsHandlers ==
  [][\A w \in Workers :
       mode[w] = "draining" /\ mode'[w] = "failed" =>
         \A s \in Slots : ~Handling(w, s)]_vars
=============================================================================
