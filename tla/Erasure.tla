------------------------------- MODULE Erasure -------------------------------
(***************************************************************************)
(* baukit-erasure for one subject: account deletion with its idempotency   *)
(* key, the subject's session fence, the profile resolution that the fence *)
(* guards, and the deletion of the identity at the provider by an inline   *)
(* attempt and a durable job.  A transaction is split where it waits for   *)
(* an advisory lock; PostgreSQL's now() is the time at which it began.     *)
(***************************************************************************)
EXTENDS Integers

CONSTANTS
  Requests,   \* DELETE requests; KeyOf gives each its Idempotency-Key
  Keys, KeyOf,
  Operators,  \* transactions that call fence_as_operator_in_transaction
  Visits,     \* transactions that resolve the profile with guard_subject
  Workers,    \* workers that run IdentityDeletionHandler
  Retain,     \* IdentityRetention::Retain
  MaxAttempts,
  LastTime,   \* bound on the clock
  None

ErasureAssumption ==
  /\ KeyOf \in [Requests -> Keys] /\ Retain \in BOOLEAN
  /\ MaxAttempts \in Nat \ {0} /\ LastTime \in Nat
  /\ None \notin Nat \union Requests \union Operators \union Workers

Ops == Requests \union Operators  \* an operation is named by who asked for it
Actors == Ops \union Visits

VARIABLES
  now,
  pc,        \* "new", "begun", "keyed", "checked", "inline", "calling", "done"
  began,     \* now() of each transaction
  auth,      \* auth_time of the actor's session
  fence,     \* erased_at, or None
  op,        \* erasure_operations
  job,       \* status of the identity.account.delete job
  attempts,
  holder,    \* the worker whose lease on the job is valid, or None
  work,      \* the operation whose handler each worker runs
  called,    \* whether that handler's provider call succeeded
  profile,   \* auth_time of the session whose profile exists, or None
  account,   \* whether the provider account exists
  lastErased \* ghost: when the last erasure committed, -1 before the first

vars == <<now, pc, began, auth, fence, op, job, attempts, holder, work, called,
          profile, account, lastErased>>
jobVars == <<job, attempts, holder, work, called>>

Init ==
  /\ now = 0
  /\ pc = [a \in Actors |-> "new"]
  /\ began = [a \in Actors |-> 0] /\ auth = [a \in Actors |-> 0]
  /\ fence = None
  /\ op = [o \in Ops |-> "none"] /\ job = [o \in Ops |-> "none"]
  /\ attempts = [o \in Ops |-> 0] /\ holder = [o \in Ops |-> None]
  /\ work = [w \in Workers |-> None] /\ called = [w \in Workers |-> FALSE]
  /\ profile = 0 /\ account = TRUE
  /\ lastErased = -1

-----------------------------------------------------------------------------
(* Sessions and the fence. *)

\* A session authenticated at some time up to now, none of an operator;
\* pool.begin().
Begin(a) ==
  /\ pc[a] = "new"
  /\ pc' = [pc EXCEPT ![a] = "begun"]
  /\ began' = [began EXCEPT ![a] = now]
  /\ \E t \in IF a \in Operators THEN {0} ELSE 0..now : auth' = [auth EXCEPT ![a] = t]
  /\ UNCHANGED <<now, fence, op, jobVars, profile, account, lastErased>>

\* REJECTED_SESSION_SQL.
Rejected(t) ==
  fence # None /\ (t <= fence \/ \E o \in Ops : op[o] \notin {"none", "completed"})

\* The subject's advisory lock is held by a visit that has checked the fence.
SubjectLocked == \E v \in Visits : pc[v] = "checked"

\* guard_subject: lock, then the check.
Guard(v) ==
  /\ pc[v] = "begun" /\ ~SubjectLocked
  /\ pc' = [pc EXCEPT ![v] = IF Rejected(auth[v]) THEN "done" ELSE "checked"]
  /\ UNCHANGED <<now, began, auth, fence, op, jobVars, profile, account, lastErased>>

\* The product inserts the profile if there is none and commits.
Resolve(v) ==
  /\ pc[v] = "checked"
  /\ pc' = [pc EXCEPT ![v] = "done"]
  /\ profile' = IF profile = None THEN auth[v] ELSE profile
  /\ UNCHANGED <<now, began, auth, fence, op, jobVars, account, lastErased>>

-----------------------------------------------------------------------------
(* ErasureService. *)

\* The key's lock; an earlier request with the key is replayed.
LockKey(r) ==
  /\ r \in Requests /\ pc[r] = "begun"
  /\ \A s \in Requests : KeyOf[s] = KeyOf[r] => pc[s] # "keyed"
  /\ LET replay == \E s \in Requests : KeyOf[s] = KeyOf[r] /\ op[s] # "none"
     IN  pc' = [pc EXCEPT ![r] = IF replay THEN "done" ELSE "keyed"]
  /\ UNCHANGED <<now, began, auth, fence, op, jobVars, profile, account, lastErased>>

\* The rest of the transaction, from the subject's lock to its commit: product
\* rows go, the operation and the fence are written, the job is enqueued.
Commit(o) ==
  /\ profile' = None
  /\ op' = [op EXCEPT ![o] = IF Retain THEN "completed" ELSE "pending"]
  /\ job' = [job EXCEPT ![o] = IF Retain THEN "none" ELSE "pending"]
  /\ fence' = began[o] /\ lastErased' = now
  /\ UNCHANGED <<now, began, auth, attempts, holder, work, called, account>>

Erase(r) ==
  /\ r \in Requests /\ pc[r] = "keyed" /\ ~SubjectLocked
  /\ IF Rejected(auth[r])
     THEN /\ pc' = [pc EXCEPT ![r] = "done"]
          /\ UNCHANGED <<now, began, auth, fence, op, jobVars, profile, account,
                         lastErased>>
     ELSE /\ Commit(r)
          /\ pc' = [pc EXCEPT ![r] = IF Retain THEN "done" ELSE "inline"]

FenceAsOperator(o) ==
  /\ o \in Operators /\ pc[o] = "begun" /\ ~SubjectLocked
  /\ Commit(o) /\ pc' = [pc EXCEPT ![o] = "done"]

-----------------------------------------------------------------------------
(* Deletion of the identity. *)

\* inline: only a job no worker has claimed; its row stays locked meanwhile.
LockJob(r) ==
  /\ pc[r] = "inline"
  /\ pc' = [pc EXCEPT ![r] = IF job[r] = "pending" THEN "calling" ELSE "done"]
  /\ UNCHANGED <<now, began, auth, fence, op, jobVars, profile, account, lastErased>>

Completed(o) ==
  /\ op' = [op EXCEPT ![o] = "completed"]
  /\ job' = [job EXCEPT ![o] = "none"] /\ holder' = [holder EXCEPT ![o] = None]

\* The provider's answer: done or not found, refused, or none before the
\* timeout, in which case the account may be gone all the same.  After a
\* success the receipt and the job change in one transaction, or not at all.
InlineCall(r) ==
  /\ pc[r] = "calling"
  /\ pc' = [pc EXCEPT ![r] = "done"]
  /\ \/ account' = FALSE /\ Completed(r)
     \/ account' \in {account, FALSE} /\ UNCHANGED <<op, job, holder>>
  /\ UNCHANGED <<now, began, auth, fence, attempts, work, called, profile, lastErased>>

ClaimJob(w, o) ==
  /\ work[w] = None /\ job[o] \in {"pending", "expired"} /\ attempts[o] < MaxAttempts
  /\ pc[o] # "calling"
  /\ job' = [job EXCEPT ![o] = "running"] /\ holder' = [holder EXCEPT ![o] = w]
  /\ attempts' = [attempts EXCEPT ![o] = @ + 1]
  /\ work' = [work EXCEPT ![w] = o] /\ called' = [called EXCEPT ![w] = FALSE]
  /\ UNCHANGED <<now, pc, began, auth, fence, op, profile, account, lastErased>>

CallProvider(w) ==
  /\ work[w] # None /\ ~called[w]
  /\ account' = FALSE /\ called' = [called EXCEPT ![w] = TRUE]
  /\ UNCHANGED <<now, pc, began, auth, fence, op, job, attempts, holder, work,
                 profile, lastErased>>

\* complete_in_transaction with the receipt and the job's deletion; a handler
\* that lost its lease writes nothing.
FinishJob(w) ==
  /\ work[w] # None /\ called[w]
  /\ IF holder[work[w]] = w THEN Completed(work[w]) ELSE UNCHANGED <<op, job, holder>>
  /\ work' = [work EXCEPT ![w] = None]
  /\ UNCHANGED <<now, pc, began, auth, fence, attempts, called, profile, account, lastErased>>

\* The job's row fails; the trigger erasure_job_failed fails the operation.
Failed(o) ==
  /\ job' = [job EXCEPT ![o] = "failed"] /\ holder' = [holder EXCEPT ![o] = None]
  /\ op' = [op EXCEPT ![o] = IF @ = "completed" THEN @ ELSE "failed"]

\* A refusal, a failed call whose request may have arrived, or a failed
\* database step: record_failure, if the lease is still held.
FailJob(w) ==
  /\ work[w] # None
  /\ work' = [work EXCEPT ![w] = None]
  /\ account' \in {account, FALSE}
  /\ LET o == work[w] IN
     IF holder[o] # w THEN UNCHANGED <<op, job, holder>>
     ELSE \/ Failed(o)
          \/ /\ attempts[o] < MaxAttempts
             /\ job' = [job EXCEPT ![o] = "pending"]
             /\ holder' = [holder EXCEPT ![o] = None] /\ UNCHANGED op
  /\ UNCHANGED <<now, pc, began, auth, fence, attempts, called, profile, lastErased>>

LeaseExpires(o) ==
  /\ job[o] = "running"
  /\ job' = [job EXCEPT ![o] = "expired"] /\ holder' = [holder EXCEPT ![o] = None]
  /\ UNCHANGED <<now, pc, began, auth, fence, op, attempts, work, called, profile,
                 account, lastErased>>

SweepJob(o) ==
  /\ job[o] = "expired" /\ attempts[o] >= MaxAttempts
  /\ Failed(o)
  /\ UNCHANGED <<now, pc, began, auth, fence, attempts, work, called, profile,
                 account, lastErased>>

\* An operator repairs the credentials and reruns the retained job.
Repair(o) ==
  /\ job[o] = "failed"
  /\ job' = [job EXCEPT ![o] = "pending"] /\ attempts' = [attempts EXCEPT ![o] = 0]
  /\ UNCHANGED <<now, pc, began, auth, fence, op, holder, work, called, profile,
                 account, lastErased>>

Tick == /\ now < LastTime /\ now' = now + 1
        /\ UNCHANGED <<pc, began, auth, fence, op, jobVars, profile, account,
                       lastErased>>

-----------------------------------------------------------------------------
Next ==
  \/ \E a \in Actors : Begin(a)
  \/ \E v \in Visits : Guard(v) \/ Resolve(v)
  \/ \E r \in Requests : LockKey(r) \/ Erase(r) \/ LockJob(r) \/ InlineCall(r)
  \/ \E o \in Operators : FenceAsOperator(o)
  \/ \E w \in Workers, o \in Ops : ClaimJob(w, o)
  \/ \E w \in Workers : CallProvider(w) \/ FinishJob(w) \/ FailJob(w)
  \/ \E o \in Ops : SweepJob(o) \/ LeaseExpires(o) \/ Repair(o)
  \/ Tick

Spec == Init /\ [][Next]_vars

-----------------------------------------------------------------------------
TypeOK ==
  /\ now \in 0..LastTime /\ began \in [Actors -> 0..LastTime] /\ auth \in [Actors -> 0..LastTime]
  /\ pc \in [Actors -> {"new", "begun", "keyed", "checked", "inline", "calling", "done"}]
  /\ fence \in 0..LastTime \union {None} /\ profile \in 0..LastTime \union {None}
  /\ op \in [Ops -> {"none", "pending", "completed", "failed"}]
  /\ job \in [Ops -> {"none", "pending", "running", "expired", "failed"}]
  /\ attempts \in [Ops -> 0..MaxAttempts] /\ holder \in [Ops -> Workers \union {None}]
  /\ work \in [Workers -> Ops \union {None}] /\ called \in [Workers -> BOOLEAN]
  /\ account \in BOOLEAN
  /\ lastErased \in -1..LastTime

\* No profile exists while an erasure of the subject is unfinished or failed,
\* however profile resolutions race it.
NoProfileWhileErasing ==
  (\E o \in Ops : op[o] \in {"pending", "failed"}) => profile = None

\* A profile that exists after an erasure belongs to a session authenticated
\* after the transaction of the last one began, whichever visits, requests and
\* operators overlap.
NoEarlierSessionReturns == profile # None /\ fence # None => profile > fence

\* An erasure is never undone by a later one of the user: only an operator's
\* transaction, which began before it, takes the fence back.
FenceNeverLowered == fence # None => fence' >= fence
FenceLoweredByOperators == FenceNeverLowered \/ \E o \in Operators : op'[o] # op[o]

\* "The fence keeps the old sessions from accessing this product": a session
\* authenticated before the erasure took effect never resolves a profile after.
OldSessionsFenced == profile # None => profile >= lastErased

\* A completed receipt is given only when the provider account is gone.
CompletedMeansDeleted ==
  ~Retain /\ (\E o \in Ops : op[o] = "completed") => ~account

\* An unfinished operation keeps the job that can finish it, and a job that
\* failed shows in the operation: nothing is stuck without an alert.
UnfinishedHasJob ==
  \A o \in Ops : /\ op[o] \in {"pending", "failed"} => job[o] # "none"
                 /\ job[o] = "failed" => op[o] = "failed"

\* "Successful completion deletes the job payload": a completed operation has
\* no job left, which would name the subject and could still fail.
CompletedHasNoJob == \A o \in Ops : op[o] = "completed" => job[o] = "none"

==============================================================================
