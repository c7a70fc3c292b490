----------------------------- MODULE JobOutbox -----------------------------
(***************************************************************************)
(* PostgresJobStore: every operation of the store over one job_outbox      *)
(* table, called by workers and producers in any order.                    *)
(*                                                                         *)
(* An operation is one PostgreSQL transaction and takes effect in one      *)
(* step.  The exception is the transaction a handler opens itself: between *)
(* check_lease_in_transaction or complete_in_transaction and its COMMIT or *)
(* ROLLBACK it holds the row lock, other updates of the row wait for it    *)
(* and the selections with SKIP LOCKED pass over it.                       *)
(*                                                                         *)
(* Every operation is given a timestamp its caller read before the call:   *)
(* it lags behind the clock by at most Lag.  A write that breaks a CHECK   *)
(* or a unique index is refused by PostgreSQL: the transaction rolls back, *)
(* the operation returns an error, and `rejected' records why.             *)
(***************************************************************************)
EXTENDS JobRows

CONSTANTS
  Handles,         \* job types the handler of each worker declares
  NewJobs,         \* inputs of enqueue: [job_type, max_attempts, delay, mode, key]
  RetryDelays,     \* delays record_failure may be given
  Retention,       \* age at which cleanup may delete, per terminal status
  RetainedTypes, RetainedFailedTypes,   \* retain_kinds, retain_failed_kinds
  BatchSizes,      \* batch sizes of cleanup_terminal_jobs
  Lag,             \* how far a caller's timestamp may lag behind the clock
  MaxTime          \* bound of the clock

ASSUME OutboxAssumption ==
  /\ Handles \in [Workers -> SUBSET JobTypes]
  /\ \A new \in NewJobs :
       /\ new.job_type \in JobTypes
       /\ new.max_attempts \in Nat \ {0}
       /\ new.delay \in Int
       /\ new.mode \in KeyModes
       /\ new.key \in Keys \union {None}
       /\ new.mode # "idempotency" => new.key # None
  /\ RetryDelays \subseteq Nat
  /\ Retention \in [Terminal -> Nat]
  /\ BatchSizes \subseteq Nat \ {0}
  /\ Lag \in Nat
  /\ MaxTime \in Nat

VARIABLES
  table,      \* job_outbox
  clock,      \* the clock all callers read
  tx,         \* the handler transaction holding each row's lock
  rejected    \* why PostgreSQL has refused writes of the store so far:
              \* "early" for updated_at < created_at alone, else "schema"

vars == <<table, clock, tx, rejected>>

NoTx == [owner |-> None, completed |-> FALSE, at |-> 0]
Txs == [owner : Workers \union {None}, completed : BOOLEAN, at : Nat]

DeletedRow == [UnusedRow EXCEPT !.status = "deleted"]

Init ==
  /\ table = [j \in Jobs |-> UnusedRow]
  /\ clock = 0
  /\ tx = [j \in Jobs |-> NoTx]
  /\ rejected = {}

Stamps == {t \in 0..clock : clock - t <= Lag}
Free == {j \in Jobs : tx[j] = NoTx}

Refusal(tab) == IF Shaped(tab) THEN "early" ELSE "schema"

Write(tab) ==
  IF Constraints(tab)
  THEN table' = tab /\ rejected' = rejected
  ELSE rejected' = rejected \union {Refusal(tab)} /\ UNCHANGED table

WriteRow(j, row) == Write([table EXCEPT ![j] = row])

(***************************************************************************)
(* enqueue and the deduplicated enqueues.  INSERT ... ON CONFLICT DO       *)
(* NOTHING changes nothing when a row collides; the existing row is then   *)
(* returned.  run_after may lie before created_at, as for a slot's start.  *)
(***************************************************************************)
ScheduledAt(created, delay) ==
  IF created + delay < 0 THEN 0 ELSE created + delay

Insert(j, new, t) ==
  LET row == InsertedRow([job_type |-> new.job_type,
                          max_attempts |-> new.max_attempts,
                          run_after |-> ScheduledAt(t, new.delay),
                          mode |-> new.mode, key |-> new.key], t)
  IN  /\ table[j].status = "unused"
      /\ \A k \in Jobs : ~Collides(row, table[k])
      /\ WriteRow(j, row)
      /\ UNCHANGED <<clock, tx>>

Enqueue(j) ==
  \E new \in NewJobs, t \in Stamps :
    new.mode = "idempotency" /\ Insert(j, new, t)

EnqueueDeduplicated(j) ==
  \E new \in NewJobs, t \in Stamps :
    new.mode # "idempotency" /\ Insert(j, new, t)

(***************************************************************************)
(* claim: the two sweeps wait for the lock of a row they match; the        *)
(* selection skips locked rows.                                            *)
(***************************************************************************)
Sweep(t) == [j \in Jobs |-> Swept(table[j], t)]

Claim(w) ==
  \E t \in Stamps :
    /\ \A j \in Jobs : SweptByClaim(table[j], t) => j \in Free
    /\ LET candidates == ClaimCandidates(Sweep(t), Free, Handles[w], t)
       IN  \/ candidates = {} /\ Write(Sweep(t))
           \/ \E j \in candidates :
                Write([Sweep(t) EXCEPT ![j] = Claimed(Sweep(t)[j], w, t)])
    /\ UNCHANGED <<clock, tx>>

(***************************************************************************)
(* The operations that end an attempt.  When the lease predicate is false  *)
(* they return false or None and change nothing.                           *)
(***************************************************************************)
Complete(w, j) ==
  \E t \in Stamps :
    /\ j \in Free
    /\ OwnsLease(table[j], w, t, FALSE)
    /\ WriteRow(j, Finished(table[j], "succeeded", t))
    /\ UNCHANGED <<clock, tx>>

Cancel(w, j) ==
  \E t \in Stamps :
    /\ j \in Free
    /\ OwnsLease(table[j], w, t, TRUE)
    /\ WriteRow(j, Finished(table[j], "cancelled", t))
    /\ UNCHANGED <<clock, tx>>

RecordFailure(w, j) ==
  \E t \in Stamps, retryable \in BOOLEAN, delay \in RetryDelays :
    /\ j \in Free
    /\ FailureAccepted(table[j], w, t)
    /\ WriteRow(j, FailureRecorded(table[j], retryable, t + delay, t))
    /\ UNCHANGED <<clock, tx>>

(***************************************************************************)
(* The handler's own transaction.                                          *)
(***************************************************************************)
CheckLeaseInTransaction(w, j) ==
  \E t \in Stamps :
    /\ j \in Free
    /\ OwnsLease(table[j], w, t, FALSE)
    /\ tx' = [tx EXCEPT ![j] = [owner |-> w, completed |-> FALSE, at |-> 0]]
    /\ UNCHANGED <<table, clock, rejected>>

CompleteInTransaction(w, j) ==
  \E t \in Stamps :
    /\ j \in Free \/ tx[j] = [owner |-> w, completed |-> FALSE, at |-> 0]
    /\ OwnsLease(table[j], w, t, FALSE)
    /\ tx' = [tx EXCEPT ![j] = [owner |-> w, completed |-> TRUE, at |-> t]]
    /\ UNCHANGED <<table, clock, rejected>>

CommitTransaction(j) ==
  /\ j \notin Free
  /\ IF tx[j].completed
     THEN WriteRow(j, Finished(table[j], "succeeded", tx[j].at))
     ELSE UNCHANGED <<table, rejected>>
  /\ tx' = [tx EXCEPT ![j] = NoTx]
  /\ UNCHANGED clock

RollbackTransaction(j) ==
  /\ j \notin Free
  /\ tx' = [tx EXCEPT ![j] = NoTx]
  /\ UNCHANGED <<table, clock, rejected>>

(***************************************************************************)
(* Cancellation: one job by identifier, or every job of a type whose key   *)
(* is in a set (one exact key, or the keys a prefix matches).              *)
(***************************************************************************)
\* Faulty variant: the request does not wait for the row lock.
RequestCancellationUnlocked(j) ==
  \E t \in Stamps :
    /\ table[j].status \in Active
    /\ WriteRow(j, CancellationApplied(table[j], t))
    /\ UNCHANGED <<clock, tx>>

RequestCancellation(j) ==
  \E t \in Stamps :
    /\ j \in Free
    /\ table[j].status \in Active
    /\ WriteRow(j, CancellationApplied(table[j], t))
    /\ UNCHANGED <<clock, tx>>

KeyMatches(row, type, keys) ==
  /\ row.status \in Active
  /\ row.job_type = type
  /\ row.idempotency_key \in keys

RequestCancellationByKey(type, keys) ==
  \E t \in Stamps :
    /\ \E j \in Jobs : KeyMatches(table[j], type, keys)
    /\ \A j \in Jobs : KeyMatches(table[j], type, keys) => j \in Free
    /\ Write([j \in Jobs |-> IF KeyMatches(table[j], type, keys)
                             THEN CancellationApplied(table[j], t)
                             ELSE table[j]])
    /\ UNCHANGED <<clock, tx>>

(***************************************************************************)
(* cleanup_terminal_jobs deletes the oldest eligible rows, at most one     *)
(* batch of them.                                                          *)
(***************************************************************************)
Cutoffs == [s \in Terminal |-> clock - Retention[s]]

CleanupTerminalJobs(batch) ==
  LET eligible == {j \in Free : CleanupEligible(table[j], Cutoffs,
                                  RetainedTypes, RetainedFailedTypes)}
  IN  \E deleted \in SUBSET eligible \ {{}} :
        /\ \/ deleted = eligible /\ Cardinality(deleted) <= batch
           \/ Cardinality(deleted) = batch
        /\ \A j \in deleted, k \in eligible \ deleted :
             table[j].updated_at <= table[k].updated_at
        /\ Write([j \in Jobs |-> IF j \in deleted THEN DeletedRow ELSE table[j]])
        /\ UNCHANGED <<clock, tx>>

Tick ==
  /\ clock < MaxTime
  /\ clock' = clock + 1
  /\ UNCHANGED <<table, tx, rejected>>

Next ==
  \/ \E j \in Jobs : Enqueue(j)
  \/ \E j \in Jobs : EnqueueDeduplicated(j)
  \/ \E w \in Workers : Claim(w)
  \/ \E w \in Workers, j \in Jobs : Complete(w, j)
  \/ \E w \in Workers, j \in Jobs : Cancel(w, j)
  \/ \E w \in Workers, j \in Jobs : RecordFailure(w, j)
  \/ \E w \in Workers, j \in Jobs : CheckLeaseInTransaction(w, j)
  \/ \E w \in Workers, j \in Jobs : CompleteInTransaction(w, j)
  \/ \E j \in Jobs : CommitTransaction(j)
  \/ \E j \in Jobs : RollbackTransaction(j)
  \/ \E j \in Jobs : RequestCancellation(j)
  \/ \E type \in JobTypes, keys \in SUBSET Keys :
       RequestCancellationByKey(type, keys)
  \/ \E batch \in BatchSizes : CleanupTerminalJobs(batch)
  \/ Tick

Spec == Init /\ [][Next]_vars
-----------------------------------------------------------------------------
(***************************************************************************)
(* Type correctness of the four variables.                                 *)
(***************************************************************************)
TypeOK ==
  /\ table \in [Jobs -> Rows]
  /\ clock \in Nat
  /\ tx \in [Jobs -> Txs]
  /\ rejected \subseteq {"early", "schema"}

(***************************************************************************)
(* The only writes of the store that its own schema refuses are those with *)
(* a time before the creation of a row they write, and with exact times    *)
(* there are none.  A retry returns to the pending index, a claim moves    *)
(* updated_at, a cancellation leaves the lock columns: each of them could  *)
(* break another CHECK or a unique index, and claim and record_failure     *)
(* have no answer to that but an error which ends the runner.              *)
(***************************************************************************)
RefusedOnlyIfEarly ==
  /\ "schema" \notin rejected
  /\ Lag = 0 => rejected = {}

(***************************************************************************)
(* Whoever holds a row lock through check_lease_in_transaction or          *)
(* complete_in_transaction still owns an uncancelled lease, for as long as *)
(* its transaction is open: reclaim and cancellation wait for the lock.    *)
(***************************************************************************)
HeldLeaseStable ==
  \A j \in Jobs : tx[j].owner # None =>
    /\ table[j].status = "running"
    /\ table[j].locked_by = tx[j].owner
    /\ ~table[j].cancel_requested

(***************************************************************************)
(* A pending deduplication key is held only until the first claim: no row  *)
(* that was ever claimed carries one, whatever happens to it later.        *)
(***************************************************************************)
PendingKeyBeforeFirstClaim ==
  \A j \in Jobs :
    table[j].pending_dedupe_key # None => table[j].attempts = 0

(***************************************************************************)
(* failure_reason tells the truth: a job is reported as out of attempts    *)
(* only when every attempt was used.                                       *)
(***************************************************************************)
ReasonMatchesAttempts ==
  \A j \in Jobs :
    table[j].failure_reason = "attempts_exhausted" =>
      table[j].attempts = table[j].max_attempts

(***************************************************************************)
(* An attempt whose cancellation was accepted never ends in success, in a  *)
(* handler transaction or out of one.                                      *)
(***************************************************************************)
NeverSucceedsOnceCancelled ==
  [][\A j \in Jobs :
       table[j].cancel_requested => table'[j].status # "succeeded"]_vars

Lifecycle ==
  INSTANCE JobLifecycle WITH
    life <- [j \in Jobs |-> [status |-> table[j].status,
                             attempts |-> table[j].attempts,
                             max_attempts |-> table[j].max_attempts]]

(***************************************************************************)
(* The store implements the lifecycle of every job: attempts are counted   *)
(* and bounded, terminal statuses are final, and cleanup alone deletes.    *)
(***************************************************************************)
ImplementsLifecycle == Lifecycle!Spec
=============================================================================
