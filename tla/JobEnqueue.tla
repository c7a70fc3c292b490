----------------------------- MODULE JobEnqueue -----------------------------
(***************************************************************************)
(* The enqueue functions of store.rs, statement by statement, under READ   *)
(* COMMITTED: an INSERT ... ON CONFLICT DO NOTHING, then a SELECT of the   *)
(* conflicting row, inside a transaction that also holds the producer's    *)
(* own update of the product's data.  Between the statements, and between  *)
(* the last one and the COMMIT, workers claim, run, end and clean up the   *)
(* job that the producer is about to be given.                             *)
(*                                                                         *)
(* All enqueues are for one job type and one key.  Each update has one     *)
(* producer transaction, and the update names the job it would insert.  A  *)
(* handler reads the product's data once per attempt, at any moment.       *)
(***************************************************************************)
EXTENDS Integers, FiniteSets

CONSTANTS
  Updates,       \* the updates, each with its transaction and its NewJob
  None,
  Mode,          \* which enqueue function the producers call
  MaxAttempts    \* max_attempts of every job

ASSUME EnqueueAssumption ==
  /\ None \notin Updates
  /\ Mode \in {"idempotency", "active", "pending"}
  /\ MaxAttempts \in Nat \ {0}

VARIABLES
  row,      \* the job each transaction inserts
  lock,     \* the transaction whose SELECT ... FOR UPDATE holds the row
  pc,       \* where each transaction is
  result,   \* the job its SELECT found, or its enqueue returns
  seen      \* the updates the job's attempt read: {} before it reads

vars == <<row, lock, pc, result, seen>>

Terminal == {"succeeded", "failed", "cancelled"}
Statuses == {"none", "inserted", "pending", "running", "deleted"} \union Terminal
NoRow == [status |-> "none", attempts |-> 0, read |-> FALSE]

Init ==
  /\ row = [j \in Updates |-> NoRow]
  /\ lock = [j \in Updates |-> None]
  /\ pc = [u \in Updates |-> "begin"]
  /\ result = [u \in Updates |-> None]
  /\ seen = [j \in Updates |-> {}]

Committed == {u \in Updates : pc[u] = "committed"}
Unlocked(j) == lock[j] = None

(***************************************************************************)
(* The rows the unique index of the mode holds.  A claim clears the        *)
(* pending key, so only a job that was never claimed has one.              *)
(***************************************************************************)
Indexed(r) ==
  CASE Mode = "idempotency" -> r.status \in {"pending", "running"} \union Terminal
    [] Mode = "active"      -> r.status \in {"pending", "running"}
    [] Mode = "pending"     -> r.status = "pending" /\ r.attempts = 0

(***************************************************************************)
(* enqueue_on and enqueue_deduplicated_on.                                 *)
(***************************************************************************)
Begin(u) ==
  /\ pc[u] = "begin"
  /\ pc' = [pc EXCEPT ![u] = "insert"]
  /\ UNCHANGED <<row, lock, result, seen>>

\* The INSERT waits for the transaction of an uncommitted row with its key.
Insert(u) ==
  /\ pc[u] = "insert"
  /\ \A j \in Updates : row[j].status # "inserted"
  /\ IF \E j \in Updates : Indexed(row[j])
     THEN /\ pc' = [pc EXCEPT ![u] = "select"]
          /\ UNCHANGED <<row, result>>
     ELSE /\ row' = [row EXCEPT ![u].status = "inserted"]
          /\ result' = [result EXCEPT ![u] = u]
          /\ pc' = [pc EXCEPT ![u] = "found"]
  /\ UNCHANGED <<lock, seen>>

\* Faulty variant: the deduplicated SELECT finds no row and gives up.
SelectOnce(u) ==
  /\ pc[u] = "select"
  /\ \/ \E j \in Updates :
          /\ Indexed(row[j])
          /\ result' = [result EXCEPT ![u] = j]
          /\ pc' = [pc EXCEPT
               ![u] = IF Mode = "idempotency" THEN "found" ELSE "lock"]
     \/ /\ \A j \in Updates : ~Indexed(row[j])
        /\ pc' = [pc EXCEPT ![u] = "error"]
        /\ UNCHANGED result
  /\ UNCHANGED <<row, lock, seen>>

\* A fresh statement snapshot: the row may be gone.  enqueue_on then fails,
\* enqueue_deduplicated_on goes back to its INSERT.
Select(u) ==
  /\ pc[u] = "select"
  /\ \/ \E j \in Updates :
          /\ Indexed(row[j])
          /\ result' = [result EXCEPT ![u] = j]
          /\ pc' = [pc EXCEPT
               ![u] = IF Mode = "idempotency" THEN "found" ELSE "lock"]
     \/ /\ \A j \in Updates : ~Indexed(row[j])
        /\ pc' = [pc EXCEPT
             ![u] = IF Mode = "idempotency" THEN "error" ELSE "insert"]
        /\ UNCHANGED result
  /\ UNCHANGED <<row, lock, seen>>

\* Faulty variant: the SELECT has no FOR UPDATE.
ReturnUnlocked(u) ==
  /\ pc[u] = "lock"
  /\ pc' = [pc EXCEPT ![u] = "found"]
  /\ UNCHANGED <<row, lock, result, seen>>

\* Faulty variant: the row is locked as the snapshot saw it.
LockStale(u) ==
  /\ pc[u] = "lock"
  /\ Unlocked(result[u])
  /\ lock' = [lock EXCEPT ![result[u]] = u]
  /\ pc' = [pc EXCEPT ![u] = "found"]
  /\ UNCHANGED <<row, result, seen>>

\* FOR UPDATE waits for the row's lock, then tests the row as it is now; a
\* row that no longer qualifies makes the SELECT return nothing.
LockFound(u) ==
  LET j == result[u] IN
  /\ pc[u] = "lock"
  /\ Unlocked(j)
  /\ IF Indexed(row[j])
     THEN /\ lock' = [lock EXCEPT ![j] = u]
          /\ pc' = [pc EXCEPT ![u] = "found"]
          /\ UNCHANGED result
     ELSE /\ pc' = [pc EXCEPT ![u] = "insert"]
          /\ result' = [result EXCEPT ![u] = None]
          /\ UNCHANGED lock
  /\ UNCHANGED <<row, seen>>

Unlock(u) == lock' = [j \in Updates |-> IF lock[j] = u THEN None ELSE lock[j]]

Commit(u) ==
  /\ pc[u] = "found"
  /\ pc' = [pc EXCEPT ![u] = "committed"]
  /\ row' = [row EXCEPT ![u].status = IF @ = "inserted" THEN "pending" ELSE @]
  /\ Unlock(u)
  /\ UNCHANGED <<result, seen>>

Rollback(u) ==
  /\ pc[u] \in {"insert", "select", "lock", "found", "error"}
  /\ pc' = [pc EXCEPT ![u] = "aborted"]
  /\ row' = [row EXCEPT ![u].status = IF @ = "inserted" THEN "none" ELSE @]
  /\ result' = [result EXCEPT ![u] = None]
  /\ Unlock(u)
  /\ UNCHANGED seen

(***************************************************************************)
(* Workers.  A claim skips a locked row, every other update waits for it.  *)
(***************************************************************************)
Run(j) ==
  /\ row[j].attempts < MaxAttempts
  /\ row' = [row EXCEPT ![j] = [status |-> "running",
                                attempts |-> row[j].attempts + 1, read |-> FALSE]]
  /\ seen' = [seen EXCEPT ![j] = {}]
  /\ UNCHANGED <<lock, pc, result>>

Claim(j) == row[j].status = "pending" /\ Unlocked(j) /\ Run(j)

\* The lease expired.
Reclaim(j) == row[j].status = "running" /\ Unlocked(j) /\ Run(j)

HandlerReads(j) ==
  /\ row[j].status = "running" /\ ~row[j].read
  /\ row' = [row EXCEPT ![j].read = TRUE]
  /\ seen' = [seen EXCEPT ![j] = Committed]
  /\ UNCHANGED <<lock, pc, result>>

EndAs(j, status) ==
  /\ Unlocked(j)
  /\ row' = [row EXCEPT ![j].status = status]
  /\ UNCHANGED <<lock, pc, result, seen>>

Complete(j) == row[j].status = "running" /\ row[j].read /\ EndAs(j, "succeeded")

\* A failure or a timeout is recorded, or the last lease expired.
Fail(j) ==
  /\ row[j].status = "running"
  /\ \/ row[j].attempts < MaxAttempts /\ EndAs(j, "pending")
     \/ EndAs(j, "failed")

Cancel(j) == row[j].status \in {"pending", "running"} /\ EndAs(j, "cancelled")

CleanUp(j) == row[j].status \in Terminal /\ EndAs(j, "deleted")

ProducerStep(u) ==
  Begin(u) \/ Insert(u) \/ Select(u) \/ LockFound(u) \/ Commit(u)

WorkerStep(j) == Claim(j) \/ HandlerReads(j) \/ Complete(j)

Next ==
  \/ \E u \in Updates : ProducerStep(u) \/ Rollback(u)
  \/ \E j \in Updates :
       WorkerStep(j) \/ Reclaim(j) \/ Fail(j) \/ Cancel(j) \/ CleanUp(j)

(***************************************************************************)
(* Producers run their statements and end their transactions; some worker  *)
(* polls, and handlers read and return.                                    *)
(***************************************************************************)
Fairness ==
  /\ \A u \in Updates : WF_vars(ProducerStep(u))
  /\ \A j \in Updates : WF_vars(WorkerStep(j))

Spec == Init /\ [][Next]_vars
FairSpec == Spec /\ Fairness
-----------------------------------------------------------------------------
TypeOK ==
  /\ row \in [Updates ->
       [status : Statuses, attempts : 0..MaxAttempts, read : BOOLEAN]]
  /\ lock \in [Updates -> Updates \union {None}]
  /\ pc \in [Updates -> {"begin", "insert", "select", "lock", "found",
                         "committed", "aborted", "error"}]
  /\ result \in [Updates -> Updates \union {None}]
  /\ seen \in [Updates -> SUBSET Updates]

(***************************************************************************)
(* No update is lost.  The job that a pending-deduplicated enqueue returns *)
(* for an update, new or existing, read the product's data after that      *)
(* update committed, when it succeeds: a claim between the SELECT and the  *)
(* COMMIT would start a handler that cannot see the update.                *)
(***************************************************************************)
JobSeesUpdate ==
  \A u \in Committed : row[result[u]].status = "succeeded" =>
    u \in seen[result[u]]

(***************************************************************************)
(* The existing job a deduplicated enqueue returns still occupies its key  *)
(* when the caller's transaction ends, whatever workers try meanwhile.     *)
(***************************************************************************)
ReturnedRowKept ==
  Mode # "idempotency" =>
    \A u \in Updates : pc[u] = "found" /\ result[u] # u =>
      Indexed(row[result[u]])

(***************************************************************************)
(* The insert and lookup loop ends, and no transaction waits for ever.     *)
(***************************************************************************)
EnqueueReturns ==
  \A u \in Updates : pc[u] = "insert" ~> pc[u] \in {"committed", "aborted"}

(***************************************************************************)
(* A committed update is seen by a handler, unless its job ends otherwise. *)
(***************************************************************************)
UpdateReachesHandler ==
  \A u \in Updates :
    pc[u] = "committed" ~>
      \E j \in Updates :
        /\ result[u] = j
        /\ u \in seen[j] \/ row[j].status \in {"failed", "cancelled", "deleted"}
-----------------------------------------------------------------------------
(***************************************************************************)
(* JobStore::enqueue returns the existing row for a duplicate idempotency  *)
(* key.  When cleanup deletes that row after the INSERT met it, the lookup *)
(* fails and neither a new nor an existing row is returned.                *)
(***************************************************************************)
DuplicateReturnsRow == \A u \in Updates : pc[u] # "error"
=============================================================================
