------------------------------ MODULE JobRows ------------------------------
(***************************************************************************)
(* The job_outbox table of baukit-jobs and what the SQL statements of      *)
(* store.rs do to its rows, as pure operators.  A table is a function from *)
(* job identifiers to rows.  An identifier without a row is "unused"       *)
(* before its INSERT and "deleted" after cleanup; identifiers are fresh    *)
(* UUIDs, so a deleted one is not inserted again.                          *)
(*                                                                         *)
(* Instants are natural numbers.  locked_until = 0 stands for NULL, which  *)
(* no lease deadline equals because Lease is positive.  payload and        *)
(* last_error are left out: no transition reads them.                      *)
(***************************************************************************)
EXTENDS Integers, FiniteSets, TLAPS

CONSTANTS
  Jobs,         \* job identifiers (UUIDs)
  Workers,      \* values of WorkerConfig.worker_id
  JobTypes,     \* values of job_type
  Keys,         \* idempotency and deduplication keys
  None,         \* SQL NULL in a key or in locked_by
  Lease         \* WorkerConfig.lease_duration

ASSUME RowsAssumption ==
  /\ JobTypes # {}
  /\ None \notin Workers
  /\ None \notin Keys
  /\ Lease \in Nat \ {0}

Terminal == {"succeeded", "failed", "cancelled"}
Active == {"pending", "running"}
NoRow == {"unused", "deleted"}
Statuses == Active \union Terminal \union NoRow

Rows ==
  [status : Statuses, job_type : JobTypes,
   attempts : Nat, max_attempts : Nat, run_after : Nat,
   locked_by : Workers \union {None}, locked_until : Nat,
   idempotency_key : Keys \union {None}, dedupe_key : Keys \union {None},
   pending_dedupe_key : Keys \union {None},
   failure_reason : {"none", "permanent", "attempts_exhausted"},
   cancel_requested : BOOLEAN,     \* cancel_requested_at IS NOT NULL
   created_at : Nat, updated_at : Nat]

\* The values of an identifier without a row.
UnusedRow ==
  [status |-> "unused", job_type |-> CHOOSE k \in JobTypes : TRUE,
   attempts |-> 0, max_attempts |-> 0, run_after |-> 0,
   locked_by |-> None, locked_until |-> 0,
   idempotency_key |-> None, dedupe_key |-> None, pending_dedupe_key |-> None,
   failure_reason |-> "none", cancel_requested |-> FALSE,
   created_at |-> 0, updated_at |-> 0]

(***************************************************************************)
(* The CHECK constraints of the migrations, for one row.                   *)
(***************************************************************************)
ShapeChecks(row) ==
  row.status \notin NoRow =>
    /\ row.max_attempts > 0
    /\ row.attempts <= row.max_attempts
    /\ row.status = "running" <=> row.locked_by # None
    /\ row.status = "running" <=> row.locked_until # 0
    /\ row.cancel_requested => row.status = "running"
    /\ row.status = "failed" <=> row.failure_reason # "none"

Timely(row) == row.status \notin NoRow => row.updated_at >= row.created_at

(***************************************************************************)
(* The three partial unique indexes, as a relation between two rows.       *)
(***************************************************************************)
SameKey(a, b) == a # None /\ a = b

Collides(a, b) ==
  /\ a.status \notin NoRow /\ b.status \notin NoRow
  /\ a.job_type = b.job_type
  /\ \/ SameKey(a.idempotency_key, b.idempotency_key)
     \/ /\ a.status \in Active /\ b.status \in Active
        /\ SameKey(a.dedupe_key, b.dedupe_key)
     \/ /\ a.status = "pending" /\ b.status = "pending"
        /\ SameKey(a.pending_dedupe_key, b.pending_dedupe_key)

\* Everything but the order of the two timestamps.
Shaped(tab) ==
  /\ \A j \in Jobs : ShapeChecks(tab[j])
  /\ \A i, j \in Jobs : i # j => ~Collides(tab[i], tab[j])

Constraints(tab) == Shaped(tab) /\ \A j \in Jobs : Timely(tab[j])

(***************************************************************************)
(* A row as the INSERT of an enqueue writes it.  At most one of the three  *)
(* keys is set: validate_deduplicated_job refuses an idempotency key.      *)
(***************************************************************************)
KeyModes == {"idempotency", "active", "pending"}

InsertedRow(new, created) ==
  [status |-> "pending", job_type |-> new.job_type,
   attempts |-> 0, max_attempts |-> new.max_attempts,
   run_after |-> new.run_after,
   locked_by |-> None, locked_until |-> 0,
   idempotency_key |-> IF new.mode = "idempotency" THEN new.key ELSE None,
   dedupe_key |-> IF new.mode = "active" THEN new.key ELSE None,
   pending_dedupe_key |-> IF new.mode = "pending" THEN new.key ELSE None,
   failure_reason |-> "none", cancel_requested |-> FALSE,
   created_at |-> created, updated_at |-> created]

(***************************************************************************)
(* claim: its first two statements settle expired leases of every type,    *)
(* the third picks one row of the worker's types.                          *)
(***************************************************************************)
Expired(row, t) == row.status = "running" /\ row.locked_until <= t

Released(row, status, t) ==
  [row EXCEPT !.status = status, !.locked_by = None, !.locked_until = 0,
              !.cancel_requested = FALSE, !.updated_at = t]

SweptByClaim(row, t) ==
  Expired(row, t) /\ (row.cancel_requested \/ row.attempts >= row.max_attempts)

Swept(row, t) ==
  CASE ~SweptByClaim(row, t) -> row
    [] SweptByClaim(row, t) /\ row.cancel_requested ->
         Released(row, "cancelled", t)
    [] OTHER ->
         [Released(row, "failed", t) EXCEPT
            !.failure_reason = "attempts_exhausted"]

Claimable(row, types, t) ==
  /\ row.attempts < row.max_attempts
  /\ ~row.cancel_requested
  /\ row.job_type \in types
  /\ \/ row.status = "pending" /\ row.run_after <= t
     \/ Expired(row, t)

\* Faulty variants: the pending key survives the claim; the lease is one tick;
\* the lease ends before it starts.
ClaimedKeepingKey(row, w, t) ==
  [row EXCEPT !.status = "running", !.attempts = row.attempts + 1,
              !.locked_by = w, !.locked_until = t + Lease, !.updated_at = t]

\* Faulty variant: a lease of one unit whatever the configuration says.
ClaimedBriefly(row, w, t) ==
  [ClaimedKeepingKey(row, w, t) EXCEPT !.pending_dedupe_key = None,
                                       !.locked_until = t + 1]

\* Faulty variant: the lease is subtracted, so a claim is born expired.
ClaimedBackwards(row, w, t) ==
  [ClaimedKeepingKey(row, w, t) EXCEPT !.pending_dedupe_key = None,
                                       !.locked_until = t - Lease]

Claimed(row, w, t) ==
  [row EXCEPT !.status = "running", !.pending_dedupe_key = None,
              !.attempts = row.attempts + 1, !.locked_by = w,
              !.locked_until = t + Lease, !.failure_reason = "none",
              !.updated_at = t]

\* ORDER BY run_after, created_at, id: the order of equal pairs is left open,
\* since identifiers carry no further meaning.
Before(a, b) ==
  \/ a.run_after < b.run_after
  \/ a.run_after = b.run_after /\ a.created_at < b.created_at

\* FOR UPDATE SKIP LOCKED LIMIT 1 over the rows no open transaction holds.
ClaimCandidates(tab, free, types, t) ==
  LET ready == {j \in free : Claimable(tab[j], types, t)}
  IN  {j \in ready : \A k \in ready : ~Before(tab[k], tab[j])}

(***************************************************************************)
(* The transitions that end an attempt.                                    *)
(***************************************************************************)
\* Faulty variant: completion ignores a cancellation request.
OwnsLeaseAnyway(row, w, t, allowCancellation) ==
  row.status = "running" /\ row.locked_by = w /\ row.locked_until > t

\* owned_lease_predicate!
OwnsLease(row, w, t, allowCancellation) ==
  /\ row.status = "running"
  /\ row.locked_by = w
  /\ row.locked_until > t
  /\ allowCancellation \/ ~row.cancel_requested

\* finish_on, for a row that satisfies the predicate.
Finished(row, status, t) ==
  [Released(row, status, t) EXCEPT !.failure_reason = "none"]

\* record_failure does not look at cancel_requested_at.
FailureAccepted(row, w, t) == OwnsLease(row, w, t, TRUE)

\* Faulty variant: a retry does not count the attempts used.
WillRetryAlways(row, retryable) == retryable

WillRetry(row, retryable) == retryable /\ row.attempts < row.max_attempts

\* Faulty variant: the two failure reasons are swapped.
FailureMisreported(row, retryable, retryAt, t) ==
  IF WillRetry(row, retryable)
  THEN [Released(row, "pending", t) EXCEPT !.run_after = retryAt]
  ELSE [Released(row, "failed", t) EXCEPT
          !.failure_reason =
            IF retryable THEN "permanent" ELSE "attempts_exhausted"]

FailureRecorded(row, retryable, retryAt, t) ==
  IF WillRetry(row, retryable)
  THEN [Released(row, "pending", t) EXCEPT
          !.run_after = retryAt, !.failure_reason = "none"]
  ELSE [Released(row, "failed", t) EXCEPT
          !.failure_reason =
            IF retryable THEN "attempts_exhausted" ELSE "permanent"]

(***************************************************************************)
(* cancellation_assignments!, for a pending or running row.                *)
(***************************************************************************)
\* Faulty variant: a pending job is flagged like a running one.
CancellationFlagged(row, t) ==
  [row EXCEPT !.cancel_requested = TRUE, !.updated_at = t]

CancellationApplied(row, t) ==
  IF row.status = "pending"
  THEN Released(row, "cancelled", t)
  ELSE [row EXCEPT !.cancel_requested = TRUE, !.updated_at = t]

(***************************************************************************)
(* cleanup_terminal_jobs: which rows the cutoffs and retained types leave  *)
(* eligible.                                                               *)
(***************************************************************************)
CleanupEligible(row, cutoffs, retained, retainedFailed) ==
  /\ row.status \in Terminal
  /\ row.updated_at < cutoffs[row.status]
  /\ row.job_type \notin retained
  /\ row.status = "failed" => row.job_type \notin retainedFailed

-----------------------------------------------------------------------------
(***************************************************************************)
(* Lemmas about the rows and the transitions, for every set of jobs,       *)
(* workers, types and keys and every lease.  They say which rows a         *)
(* transition yields and why it breaks no constraint; the proofs about the *)
(* store and about the runner rest on them.                                *)
(***************************************************************************)
USE DEF Terminal, Active, NoRow, Statuses

-----------------------------------------------------------------------------
(***************************************************************************)
(* The transitions of store.rs map rows to rows.                           *)
(***************************************************************************)
LEMMA UnusedIsRow == UnusedRow \in Rows
BY RowsAssumption DEF UnusedRow, Rows

LEMMA InsertedRowType ==
  ASSUME NEW new, new.job_type \in JobTypes, new.max_attempts \in Nat,
         new.key \in Keys \union {None}, NEW t \in Nat, NEW r \in Nat
  PROVE  InsertedRow([job_type |-> new.job_type,
                      max_attempts |-> new.max_attempts, run_after |-> r,
                      mode |-> new.mode, key |-> new.key], t) \in Rows
BY DEF InsertedRow, Rows

LEMMA ReleasedType ==
  ASSUME NEW row \in Rows, NEW t \in Nat, NEW s \in Statuses
  PROVE  Released(row, s, t) \in Rows
BY DEF Released, Rows

LEMMA SweptType ==
  ASSUME NEW row \in Rows, NEW t \in Nat
  PROVE  Swept(row, t) \in Rows
BY DEF Swept, SweptByClaim, Released, Rows

\* A row the sweeps settled is terminal, so the selection takes only rows
\* they left alone.
LEMMA ClaimAfterSweep ==
  ASSUME NEW row \in Rows, NEW t \in Nat, NEW types,
         Claimable(Swept(row, t), types, t)
  PROVE  Swept(row, t) = row
BY DEF Claimable, Expired, Swept, SweptByClaim, Released, Rows

LEMMA ClaimedType ==
  ASSUME NEW row \in Rows, NEW t \in Nat, NEW w \in Workers
  PROVE  Claimed(row, w, t) \in Rows
<1>1. row.attempts + 1 \in Nat /\ t + Lease \in Nat
  BY RowsAssumption DEF Rows
<1> DEFINE leased == [row EXCEPT !.status = "running", !.locked_by = w,
                                 !.locked_until = t + Lease]
<1>2. leased \in Rows
  BY <1>1 DEF Rows
<1>3. Claimed(row, w, t) =
        [leased EXCEPT !.pending_dedupe_key = None,
                       !.attempts = row.attempts + 1,
                       !.failure_reason = "none", !.updated_at = t]
  BY DEF Claimed, Rows
<1> HIDE DEF leased
<1>4. QED
  BY <1>1, <1>2, <1>3 DEF Rows

LEMMA FinishedType ==
  ASSUME NEW row \in Rows, NEW t \in Nat, NEW s \in Terminal
  PROVE  Finished(row, s, t) \in Rows
BY DEF Finished, Released, Rows

LEMMA FailureRecordedType ==
  ASSUME NEW row \in Rows, NEW t \in Nat, NEW r \in Nat, NEW b \in BOOLEAN
  PROVE  FailureRecorded(row, b, r, t) \in Rows
<1>1. Released(row, "pending", t) \in Rows /\ Released(row, "failed", t) \in Rows
  BY ReleasedType
<1>2. ASSUME NEW a \in Rows
      PROVE  [a EXCEPT !.run_after = r, !.failure_reason = "none"] \in Rows
  BY DEF Rows
<1>3. ASSUME NEW a \in Rows,
             NEW reason \in {"permanent", "attempts_exhausted"}
      PROVE  [a EXCEPT !.failure_reason = reason] \in Rows
  BY DEF Rows
<1>4. QED
  BY <1>1, <1>2, <1>3 DEF FailureRecorded

LEMMA CancellationAppliedType ==
  ASSUME NEW row \in Rows, NEW t \in Nat
  PROVE  CancellationApplied(row, t) \in Rows
BY DEF CancellationApplied, Released, Rows

-----------------------------------------------------------------------------
(***************************************************************************)
(* The invariant, by rows.                                                 *)
(***************************************************************************)
FitRow(a) ==
  /\ ShapeChecks(a)
  /\ a.status = "running" => a.attempts > 0
  /\ a.pending_dedupe_key # None => a.attempts = 0

GoodRow(a) == FitRow(a) /\ Timely(a)

\* Every unique-index entry of b is an entry of a.
Narrower(b, a) ==
  /\ b.status \notin NoRow =>
       /\ a.status \notin NoRow
       /\ b.job_type = a.job_type
       /\ b.idempotency_key = a.idempotency_key
       /\ b.dedupe_key = a.dedupe_key
  /\ b.status \in Active => a.status \in Active
  /\ b.status = "pending" /\ b.pending_dedupe_key # None =>
       a.status = "pending" /\ b.pending_dedupe_key = a.pending_dedupe_key

FitStep(a, b) ==
  FitRow(b) /\ Narrower(b, a) /\ b.created_at <= a.created_at

GoodStep(a, b) == FitStep(a, b) /\ Timely(b)

\* A step with time t can only fail by its time.
StepAt(a, b, t) == FitStep(a, b) /\ (a.created_at <= t => Timely(b))

LEMMA InTime ==
  ASSUME NEW a, NEW b, NEW t, StepAt(a, b, t), a.created_at <= t
  PROVE  GoodStep(a, b)
BY DEF StepAt, GoodStep

(***************************************************************************)
(* Each transition of a row is a good step, if its time is not before the  *)
(* row's creation.                                                         *)
(***************************************************************************)
USE DEF StepAt, FitStep, GoodRow, FitRow, ShapeChecks, Timely, Narrower

LEMMA GoodStutter ==
  ASSUME NEW row \in Rows, GoodRow(row), NEW t
  PROVE  StepAt(row, row, t)
BY DEF Rows

LEMMA GoodInsert ==
  ASSUME NEW new, new.max_attempts \in Nat \ {0}, NEW t \in Nat, NEW r \in Nat
  PROVE  GoodRow(InsertedRow([job_type |-> new.job_type,
                   max_attempts |-> new.max_attempts, run_after |-> r,
                   mode |-> new.mode, key |-> new.key], t))
BY DEF InsertedRow

LEMMA GoodRelease ==
  ASSUME NEW row \in Rows, NEW t \in Nat, GoodRow(row), row.status \in Active,
         NEW s \in {"succeeded", "cancelled"}
  PROVE  StepAt(row, Released(row, s, t), t)
BY DEF Released, Rows

LEMMA GoodFinish ==
  ASSUME NEW row \in Rows, NEW t \in Nat, GoodRow(row), row.status = "running",
         NEW s \in {"succeeded", "cancelled"}
  PROVE  StepAt(row, Finished(row, s, t), t)
BY DEF Released, Finished, Rows

LEMMA GoodFailure ==
  ASSUME NEW row \in Rows, NEW t \in Nat, GoodRow(row), row.status = "running",
         NEW b \in BOOLEAN, NEW r \in Nat
  PROVE  StepAt(row, FailureRecorded(row, b, r, t), t)
<1>1. CASE WillRetry(row, b)
  BY <1>1 DEF Released, FailureRecorded, Rows
<1>2. CASE ~WillRetry(row, b)
  BY <1>2 DEF Released, FailureRecorded, Rows
<1>3. QED
  BY <1>1, <1>2

LEMMA GoodCancellation ==
  ASSUME NEW row \in Rows, NEW t \in Nat, GoodRow(row), row.status \in Active
  PROVE  StepAt(row, CancellationApplied(row, t), t)
<1>1. CASE row.status = "pending"
  <2>1. CancellationApplied(row, t) = Released(row, "cancelled", t)
    BY <1>1 DEF CancellationApplied
  <2>2. StepAt(row, Released(row, "cancelled", t), t)
    BY GoodRelease
  <2>3. QED
    BY <2>1, <2>2
<1>2. CASE row.status = "running"
  BY <1>2 DEF CancellationApplied, Rows
<1>3. QED
  BY <1>1, <1>2

LEMMA GoodSweep ==
  ASSUME NEW row \in Rows, NEW t \in Nat, GoodRow(row)
  PROVE  StepAt(row, Swept(row, t), t)
<1>1. CASE ~SweptByClaim(row, t)
  <2>1. Swept(row, t) = row
    BY <1>1 DEF Swept
  <2>2. QED
    BY <2>1, GoodStutter
<1>2. CASE SweptByClaim(row, t) /\ row.cancel_requested
  <2>1. Swept(row, t) = Released(row, "cancelled", t)
    BY <1>2 DEF Swept
  <2>2. row.status = "running"
    BY <1>2 DEF SweptByClaim, Expired
  <2>3. QED
    BY <2>1, <2>2, GoodRelease
<1>3. CASE SweptByClaim(row, t) /\ ~row.cancel_requested
  <2>1. Swept(row, t) = [Released(row, "failed", t) EXCEPT
                           !.failure_reason = "attempts_exhausted"]
    BY <1>3 DEF Swept
  <2>2. row.status = "running"
    BY <1>3 DEF SweptByClaim, Expired
  <2>3. QED
    BY <2>1, <2>2 DEF Released, Rows
<1>4. QED
  BY <1>1, <1>2, <1>3

LEMMA GoodClaim ==
  ASSUME NEW row \in Rows, NEW t \in Nat, GoodRow(row),
         NEW w \in Workers, NEW types, Claimable(row, types, t)
  PROVE  StepAt(row, Claimed(row, w, t), t)
<1>1. t + Lease # 0 /\ w # None
  BY RowsAssumption
<1>2. row.status \in Active /\ row.attempts < row.max_attempts
        /\ ~row.cancel_requested
  BY DEF Claimable, Expired
<1>3. QED
  BY <1>1, <1>2 DEF Claimed, Rows

HIDE DEF StepAt, FitStep, GoodRow, FitRow, ShapeChecks, Timely, Narrower

-----------------------------------------------------------------------------
(***************************************************************************)
(* Tables.  Fit steps of every row keep the constraints but for the times, *)
(* because an index that only loses entries stays unique.                  *)
(***************************************************************************)
LEMMA NarrowerCollides ==
  ASSUME NEW a1 \in Rows, NEW a2 \in Rows, NEW b1 \in Rows, NEW b2 \in Rows,
         Narrower(b1, a1), Narrower(b2, a2), Collides(b1, b2)
  PROVE  Collides(a1, a2)
BY DEF Narrower, Collides, SameKey

LEMMA FitTable ==
  ASSUME NEW old \in [Jobs -> Rows], Constraints(old),
         NEW new \in [Jobs -> Rows],
         \A j \in Jobs : FitStep(old[j], new[j])
  PROVE  Shaped(new)
<1>1. \A j \in Jobs : ShapeChecks(new[j])
  BY DEF FitStep, FitRow
<1>2. ASSUME NEW i \in Jobs, NEW j \in Jobs, i # j
      PROVE  ~Collides(new[i], new[j])
  <2>1. ~Collides(old[i], old[j])
    BY <1>2 DEF Constraints, Shaped
  <2>2. Narrower(new[i], old[i]) /\ Narrower(new[j], old[j])
    BY DEF FitStep
  <2>3. QED
    BY <2>1, <2>2, NarrowerCollides
<1>3. QED
  BY <1>1, <1>2 DEF Shaped

LEMMA GoodTable ==
  ASSUME NEW old \in [Jobs -> Rows], Constraints(old),
         NEW new \in [Jobs -> Rows],
         \A j \in Jobs : GoodStep(old[j], new[j])
  PROVE  Constraints(new)
BY FitTable DEF GoodStep, Constraints

(***************************************************************************)
(* An insert: ON CONFLICT has established that no row collides.            *)
(***************************************************************************)
LEMMA CollidesSymmetric ==
  ASSUME NEW a \in Rows, NEW b \in Rows, Collides(a, b)
  PROVE  Collides(b, a)
BY DEF Collides, SameKey

LEMMA InsertTable ==
  ASSUME NEW old \in [Jobs -> Rows], Constraints(old), NEW j \in Jobs,
         NEW row \in Rows, GoodRow(row),
         \A k \in Jobs : ~Collides(row, old[k])
  PROVE  Constraints([old EXCEPT ![j] = row])
<1> DEFINE new == [old EXCEPT ![j] = row]
<1>1. new[j] = row /\ \A k \in Jobs \ {j} : new[k] = old[k]
  OBVIOUS
<1> HIDE DEF new
<1>2. \A k \in Jobs : ShapeChecks(new[k]) /\ Timely(new[k])
  BY <1>1 DEF Constraints, Shaped, GoodRow, FitRow
<1>3. ASSUME NEW i \in Jobs, NEW k \in Jobs, i # k
      PROVE  ~Collides(new[i], new[k])
  <2>1. CASE i = j
    BY <1>1, <1>3, <2>1
  <2>2. CASE k = j
    BY <1>1, <1>3, <2>2, CollidesSymmetric
  <2>3. CASE i # j /\ k # j
    BY <1>1, <1>3, <2>3 DEF Constraints, Shaped
  <2>4. QED
    BY <2>1, <2>2, <2>3
<1>4. Constraints(new)
  BY <1>2, <1>3 DEF Constraints, Shaped
<1>5. QED
  BY <1>4 DEF new
=============================================================================
