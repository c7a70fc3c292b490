----------------------------- MODULE DataSubject -----------------------------
(***************************************************************************)
(* baukit-data-subject: the operations and their jobs (Subject...), and    *)
(* the splitting of an export into parts (Split...).                       *)
(***************************************************************************)
EXTENDS Integers, Sequences

-----------------------------------------------------------------------------
(***************************************************************************)
(* baukit-data-subject: accepted erasures and exports, the durable job     *)
(* that carries each out, the wait for the identity provider, the purge.   *)
(* An operation is named by the request that inserted it.  Everything the  *)
(* handler writes is one transaction, from Begin to Commit, which holds    *)
(* the locks of the job's row and of the operation's row.  Every time in   *)
(* the state is what is left of it: Tick counts them all down to zero.     *)
(***************************************************************************)

CONSTANTS
  Requests, Workers, Subjects,
  KeyOf, BodyOf,     \* Idempotency-Key and normalized body of a request
  KindOf,            \* "erasure" or "export"
  SubjectsOf,        \* the subjects with an account that resolve finds
  Retain,            \* IdentityRetention::Retain
  MaxAttempts, LeaseTime, DeletionTimeout, ExportRetention, OperationRetention,
  MaxDelay,          \* bound on the delay between two checks
  None

DataSubjectAssumption ==
  /\ KindOf \in [Requests -> {"erasure", "export"}]
  /\ SubjectsOf \in [Requests -> SUBSET Subjects]
  /\ Retain \in BOOLEAN
  /\ {MaxAttempts, LeaseTime, DeletionTimeout, ExportRetention, OperationRetention,
      MaxDelay} \subseteq Nat \ {0}
  /\ None \notin Requests \union Workers \union {"conflict", "error"}
  /\ {"conflict", "error"} \cap Requests = {}

VARIABLES
  pc,       \* of a POST: "new", "locked" (the key's advisory lock), "done"
  found,    \* the operation that POST saw under its key
  reply,    \* its answer: an operation, "conflict", "error"
  op,       \* data_subject_operations
  ident,    \* erasure_operations linked to an operation, by subject
  job,      \* the job_outbox row of an operation
  tx,       \* the open transaction of a worker: its operation and its outcome
  erased,   \* committed product erasures of an operation
  subjectParts,    \* operations with rows in data_subject_export_parts
  purge     \* purge_expired: selected operations, and their jobs it saw

subjectVars == <<pc, found, reply, op, ident, job, tx, erased, subjectParts, purge>>

NoJob == [type |-> "none", status |-> "none", attempts |-> 0, holder |-> None,
          lease |-> 0, runAfter |-> 0, delay |-> 1]
NewJob(type, wait, delay) ==
  [NoJob EXCEPT !.type = type, !.status = "pending", !.runAfter = wait, !.delay = delay]
NoOp == [status |-> "none", deadline |-> 0, purgeAfter |-> 0, expires |-> 0]
Idle == [op |-> None, out |-> "none", left |-> 0]
NoPurge == [ops |-> {}, jobs |-> {}]

SubjectInit ==
  /\ pc = [r \in Requests |-> "new"]
  /\ found = [r \in Requests |-> None] /\ reply = [r \in Requests |-> None]
  /\ op = [o \in Requests |-> NoOp]
  /\ ident = [o \in Requests |-> [s \in Subjects |-> "none"]]
  /\ job = [o \in Requests |-> NoJob]
  /\ tx = [w \in Workers |-> Idle]
  /\ erased = [o \in Requests |-> 0] /\ subjectParts = {}
  /\ purge = NoPurge

Exists(o) == op[o].status \notin {"none", "purged"}
Signed(o) == op[o].status = "signed"
Locked(o) == \E w \in Workers : tx[w].op = o
Leased(w, o) == job[o].status = "running" /\ job[o].holder = w /\ job[o].lease > 0
Expired(o) == job[o].status = "running" /\ job[o].lease = 0

\* A plausible bug: no advisory lock on the key.
KeyAlwaysFree(r) == TRUE

(* PostgresDataSubjectStore::start. *)
KeyFree(r) == \A q \in Requests : KeyOf[q] = KeyOf[r] => pc[q] # "locked"

\* pg_advisory_xact_lock, then the lookup of the key.
LookUp(r) ==
  /\ pc[r] = "new" /\ KeyFree(r)
  /\ pc' = [pc EXCEPT ![r] = "locked"]
  /\ LET mine == {o \in Requests : Exists(o) /\ KeyOf[o] = KeyOf[r]}
     IN  found' = [found EXCEPT ![r] = IF mine = {} THEN None
                                      ELSE CHOOSE o \in mine : TRUE]
  /\ UNCHANGED <<reply, op, ident, job, tx, erased, subjectParts, purge>>

Replay(r) ==
  /\ pc[r] = "locked" /\ found[r] # None
  /\ reply' = [reply EXCEPT ![r] = IF BodyOf[found[r]] = BodyOf[r] THEN found[r]
                                   ELSE "conflict"]
  /\ pc' = [pc EXCEPT ![r] = "done"]
  /\ UNCHANGED <<found, op, ident, job, tx, erased, subjectParts, purge>>

\* The operation and its job commit together, unless UNIQUE refuses the row.
Accept(r) ==
  /\ pc[r] = "locked" /\ found[r] = None
  /\ pc' = [pc EXCEPT ![r] = "done"]
  /\ IF \E o \in Requests : Exists(o) /\ KeyOf[o] = KeyOf[r]
     THEN reply' = [reply EXCEPT ![r] = "error"] /\ UNCHANGED <<op, job>>
     ELSE /\ reply' = [reply EXCEPT ![r] = r]
          /\ op' = [op EXCEPT ![r].status = "pending",
                              ![r].purgeAfter = OperationRetention + 1]
          /\ job' = [job EXCEPT ![r] = NewJob("execute", 0, 1)]
  /\ UNCHANGED <<found, ident, tx, erased, subjectParts, purge>>

(* The job runner, as JobOutbox and JobRunner have it. *)

\* The claim's sweeps wait for a locked row whose lease has expired.
ClaimBlocked == \E o \in Requests : Expired(o) /\ Locked(o)

Claim(w, o) ==
  /\ job[o].status = "pending" /\ job[o].runAfter = 0 /\ ~ClaimBlocked
  /\ tx[w] = Idle
  /\ job' = [job EXCEPT ![o].status = "running", ![o].holder = w,
                        ![o].lease = LeaseTime, ![o].attempts = @ + 1]
  /\ UNCHANGED <<pc, found, reply, op, ident, tx, erased, subjectParts, purge>>

\* The trigger data_subject_job_failed, on the update that fails the job.
JobFailed(o) ==
  /\ job' = [job EXCEPT ![o].status = "failed"]
  /\ op' = IF op[o].status = "pending" THEN [op EXCEPT ![o].status = "failed"] ELSE op

\* An attempt that is over goes back to the queue, or fails as the last one.
Unfinished(o) ==
  IF job[o].attempts < MaxAttempts
  THEN job' = [job EXCEPT ![o].status = "pending", ![o].holder = None] /\ UNCHANGED op
  ELSE JobFailed(o)

Sweep(o) ==
  /\ Expired(o) /\ ~Locked(o) /\ Unfinished(o)
  /\ UNCHANGED <<pc, found, reply, ident, tx, erased, subjectParts, purge>>

\* The handler failed, its transaction is rolled back, and the runner says so.
HandlerFails(w, o) ==
  /\ Leased(w, o) /\ tx[w].op \in {o, None} /\ Unfinished(o)
  /\ tx' = [tx EXCEPT ![w] = Idle]
  /\ UNCHANGED <<pc, found, reply, ident, erased, subjectParts, purge>>

\* The transaction ends without a commit and its worker reports nothing: it has
\* stopped, or lost the lease.
Rollback(w) ==
  /\ tx[w] # Idle
  /\ tx' = [tx EXCEPT ![w] = Idle]
  /\ job' = [job EXCEPT ![tx[w].op].holder = None]
  /\ UNCHANGED <<pc, found, reply, op, ident, erased, subjectParts, purge>>

\* What the check of the identity deletions decides.
Check(o) ==
  LET states == {ident[o][s] : s \in SubjectsOf[o]}
  IN  IF "failed" \in states \/ op[o].deadline = 0 THEN "fail"
      ELSE IF states # {"completed"} THEN "wait" ELSE "sign"

\* Without an account there is nothing to export; a record may be too large.
Exported(o) == IF SubjectsOf[o] = {} THEN {"notFound"} ELSE {"export", "fail"}

\* A plausible bug: the handler does not look whether the operation is still there.
OutcomesUnchecked(o) ==
  IF KindOf[o] = "export" THEN Exported(o)
  ELSE IF job[o].type = "finalize" THEN {Check(o)}
  ELSE IF Retain \/ SubjectsOf[o] = {} THEN {"eraseAndSign"} ELSE {"eraseAndWait"}

Outcomes(o) ==
  IF op[o].status # "pending" THEN {"nothing"}
  ELSE IF KindOf[o] = "export" THEN Exported(o)
  ELSE IF job[o].type = "finalize" THEN {Check(o)}
  ELSE IF Retain \/ SubjectsOf[o] = {} THEN {"eraseAndSign"} ELSE {"eraseAndWait"}

\* check_lease_in_transaction, load_for_execution, then the work itself.
Begin(w, o) ==
  /\ Leased(w, o) /\ ~Locked(o) /\ tx[w] = Idle
  /\ \E out \in Outcomes(o) :
       tx' = [tx EXCEPT ![w] = [op |-> o, out |-> out,
                left |-> IF out = "export" THEN ExportRetention
                         ELSE IF out = "eraseAndWait" THEN DeletionTimeout ELSE 0]]
  /\ UNCHANGED <<pc, found, reply, op, ident, job, erased, subjectParts, purge>>

Lower(a, b) == IF a < b THEN a ELSE b

\* The outcomes that end in sign_result.
Signing == {"sign", "export", "notFound", "eraseAndSign"}

\* The completed job's row goes, and with "wait" the next check takes its place.
NextJob(o, out, deadline) ==
  LET delay == IF job[o].type = "execute" THEN 1 ELSE Lower(2 * job[o].delay, MaxDelay)
  IN  IF out \in {"wait", "eraseAndWait"}
      THEN NewJob("finalize", Lower(delay, deadline), delay) ELSE NoJob

\* complete_in_transaction, with its own look at the lease, then the commit.
Commit(w, o) ==
  /\ tx[w].op = o /\ Leased(w, o)
  /\ LET out == tx[w].out
         erases == out \in {"eraseAndSign", "eraseAndWait"}
         deadline == IF out = "eraseAndWait" THEN tx[w].left
                     ELSE op[o].deadline
     IN  /\ op' = [op EXCEPT ![o].deadline = deadline,
                     ![o].expires = IF out = "export" THEN tx[w].left
                                    ELSE IF out \in Signing THEN 0 ELSE @,
                     ![o].status = IF out \in Signing THEN "signed"
                                   ELSE IF out = "fail" THEN "failed" ELSE @]
         /\ ident' = IF erases
                     THEN [ident EXCEPT ![o] = [s \in Subjects |->
                             IF s \notin SubjectsOf[o] THEN "none"
                             ELSE IF Retain THEN "completed" ELSE "pending"]]
                     ELSE ident
         /\ erased' = IF erases THEN [erased EXCEPT ![o] = @ + 1] ELSE erased
         /\ subjectParts' = IF out = "export" THEN subjectParts \union {o} ELSE subjectParts
         /\ job' = [job EXCEPT ![o] = NextJob(o, out, deadline)]
  /\ purge' = [purge EXCEPT !.jobs = @ \ {o}]
  /\ tx' = [tx EXCEPT ![w] = Idle]
  /\ UNCHANGED <<pc, found, reply>>

\* baukit-erasure's worker, at some time or never.
IdentityEnds(o, s) ==
  /\ ident[o][s] = "pending"
  /\ \E e \in {"completed", "failed"} : ident' = [ident EXCEPT ![o][s] = e]
  /\ UNCHANGED <<pc, found, reply, op, job, tx, erased, subjectParts, purge>>

(* purge_expired: which operations, and the jobs they have at that time; the *)
(* second step runs when their rows are free.                                *)
PurgeSelect ==
  /\ purge = NoPurge
  /\ LET old == {o \in Requests : Exists(o) /\ op[o].purgeAfter = 0}
     IN  /\ old # {}
         /\ purge' = [ops |-> old, jobs |-> {o \in old : job[o] # NoJob}]
  /\ UNCHANGED <<pc, found, reply, op, ident, job, tx, erased, subjectParts>>

PurgeDelete ==
  /\ purge # NoPurge /\ \A o \in purge.ops : ~Locked(o)
  /\ job' = [o \in Requests |-> IF o \in purge.jobs THEN NoJob ELSE job[o]]
  /\ op' = [o \in Requests |-> IF o \in purge.ops THEN [NoOp EXCEPT !.status = "purged"]
                               ELSE op[o]]
  /\ subjectParts' = subjectParts \ purge.ops
  /\ purge' = NoPurge
  /\ UNCHANGED <<pc, found, reply, ident, tx, erased>>

PurgeParts ==
  /\ \E o \in subjectParts : op[o].expires = 0
  /\ subjectParts' = {o \in subjectParts : op[o].expires > 0}
  /\ UNCHANGED <<pc, found, reply, op, ident, job, tx, erased, purge>>

Less(t) == IF t = 0 THEN 0 ELSE t - 1
Tick ==
  /\ op' = [o \in Requests |-> [op[o] EXCEPT !.deadline = Less(@), !.expires = Less(@),
                                            !.purgeAfter = Less(@)]]
  /\ job' = [o \in Requests |-> [job[o] EXCEPT !.lease = Less(@), !.runAfter = Less(@)]]
  /\ tx' = [w \in Workers |-> [tx[w] EXCEPT !.left = Less(@)]]
  /\ UNCHANGED <<pc, found, reply, ident, erased, subjectParts, purge>>

SubjectNext ==
  \/ \E r \in Requests : LookUp(r) \/ Replay(r) \/ Accept(r) \/ Sweep(r)
  \/ \E w \in Workers, o \in Requests :
       Claim(w, o) \/ HandlerFails(w, o) \/ Begin(w, o) \/ Commit(w, o)
  \/ \E w \in Workers : Rollback(w)
  \/ \E o \in Requests, s \in Subjects : IdentityEnds(o, s)
  \/ PurgeSelect \/ PurgeDelete \/ PurgeParts \/ Tick

SubjectSpec == SubjectInit /\ [][SubjectNext]_subjectVars

\* The values each variable takes.
SubjectTypeOK ==
  /\ pc \in [Requests -> {"new", "locked", "done"}]
  /\ reply \in [Requests -> Requests \union {None, "conflict", "error"}]
  /\ \A o \in Requests :
       /\ op[o].status \in {"none", "pending", "signed", "failed", "purged"}
       /\ job[o].status \in {"none", "pending", "running", "failed"}
       /\ job[o].attempts \in 0..MaxAttempts
  /\ subjectParts \subseteq Requests

\* A receipt says the product erased the data and every identity is deleted at
\* the provider: docs/platform/data-subject, "a completed receipt must not
\* precede provider success".
ReceiptIsTrue ==
  \A o \in Requests : Signed(o) /\ KindOf[o] = "erasure" =>
    erased[o] = 1 /\ \A s \in SubjectsOf[o] : ident[o][s] = "completed"

\* Retries, expired leases and checks never erase an operation's subjects twice:
\* a later profile of the same person would go with the second erasure.
ErasedOnce == \A o \in Requests : erased[o] <= 1

\* A pending operation has a job that will end it or fail it (worker.rs, the
\* deletion and the enqueue at the end of execute; the trigger; the purge).
PendingHasJob ==
  \A o \in Requests : op[o].status = "pending" => job[o].status \in {"pending", "running"}

\* Concurrent POSTs with one key all get an answer, and those with one body get
\* the same operation while it is retained (store.rs, the advisory lock).
KeysAgree ==
  \A q, r \in Requests :
    /\ reply[r] # "error"
    /\ reply[q] \in Requests /\ reply[r] \in Requests /\ KeyOf[q] = KeyOf[r]
       /\ Exists(reply[q]) /\ Exists(reply[r]) => reply[q] = reply[r] /\ BodyOf[q] = BodyOf[r]

\* Every part a completed export lists can be read until it expires, whatever
\* the purge of other parts and the retries of its job did.
PartsUntilExpiry ==
  \A o \in Requests : Signed(o) /\ KindOf[o] = "export" /\ op[o].expires > 0 => o \in subjectParts

\* A result, once a client may have read it, never changes and a purged operation
\* never comes back, though its job may outlive it: purge_expired deletes the jobs
\* of its own snapshot, and a check may have enqueued the next one since.
ResultIsFinal ==
  \A o \in Requests : op[o].status \in {"signed", "failed", "purged"} =>
    op'[o].status \in {op[o].status, "purged"}

-----------------------------------------------------------------------------
(***************************************************************************)
(* baukit-data-subject, split: the records of an export packed into parts  *)
(* of bounded size, record by record.  A category is the length of its     *)
(* prefix {"category":..,"records":[ and the lengths of its records.  A    *)
(* part wraps records of one category: commas between, "]}" after them.    *)
(***************************************************************************)

CONSTANTS
  Exports,  \* the exports to split: sequences of [prefix, records]
  Limits    \* max_export_part_bytes

SplitAssumption ==
  Limits \subseteq Nat /\ Exports \subseteq Seq([prefix : Nat, records : Seq(Nat)])

VARIABLES
  input, limit,
  category, next,  \* the category being written, its next record (0: not begun)
  open, bytes,     \* the records of the part being written, its length so far
  splitParts,           \* finished parts: category, records, bytes
  result           \* "none", "split", "tooLarge"

splitVars == <<input, limit, category, next, open, bytes, splitParts, result>>

Prefix == input[category].prefix
Records == input[category].records

SplitInit ==
  /\ input \in Exports /\ limit \in Limits
  /\ category = 1 /\ next = 0
  /\ open = <<>> /\ bytes = 0 /\ splitParts = <<>> /\ result = "none"

Reject ==
  /\ result' = "tooLarge"
  /\ UNCHANGED <<input, limit, category, next, open, bytes, splitParts>>

\* Even an empty part of this category is too long, or one part is begun.
BeginCategory ==
  /\ result = "none" /\ category <= Len(input) /\ next = 0
  /\ \/ Prefix + 2 > limit /\ Reject
     \/ /\ Prefix + 2 <= limit
        /\ next' = 1 /\ open' = <<>> /\ bytes' = Prefix
        /\ UNCHANGED <<input, limit, category, splitParts, result>>

\* finish: the part as it is stored.
Finished == [category |-> category, records |-> open, bytes |-> bytes + 2]
Comma == IF open = <<>> THEN 0 ELSE 1
Fits(size) == bytes + Comma + size + 2 <= limit

AddRecord ==
  /\ result = "none" /\ next \in 1..IF category <= Len(input) THEN Len(Records) ELSE 0
  /\ LET size == Records[next] IN
     \/ Prefix + size + 2 > limit /\ Reject
     \/ /\ Prefix + size + 2 <= limit
        /\ IF Fits(size)
           THEN /\ open' = Append(open, size) /\ bytes' = bytes + Comma + size
                /\ UNCHANGED splitParts
           ELSE /\ splitParts' = Append(splitParts, Finished)
                /\ open' = <<size>> /\ bytes' = Prefix + size
        /\ next' = next + 1
        /\ UNCHANGED <<input, limit, category, result>>

EndCategory ==
  /\ result = "none" /\ category <= Len(input) /\ next = Len(Records) + 1
  /\ splitParts' = Append(splitParts, Finished)
  /\ category' = category + 1 /\ next' = 0 /\ open' = <<>> /\ bytes' = 0
  /\ UNCHANGED <<input, limit, result>>

Return ==
  /\ result = "none" /\ category = Len(input) + 1
  /\ result' = "split"
  /\ UNCHANGED <<input, limit, category, next, open, bytes, splitParts>>

SplitNext == BeginCategory \/ AddRecord \/ EndCategory \/ Return
SplitSpec == SplitInit /\ [][SplitNext]_splitVars

Sum(s) == LET f[i \in 0..Len(s)] == IF i = 0 THEN 0 ELSE f[i - 1] + s[i] IN f[Len(s)]
\* The length of a part that wraps these records of category c.
Wrapped(c, records) ==
  input[c].prefix + Sum(records) + (IF records = <<>> THEN 0 ELSE Len(records) - 1) + 2

\* No stored part is longer than the limit, and its stated length is its length.
PartsBounded ==
  \A i \in 1..Len(splitParts) :
    /\ splitParts[i].bytes = Wrapped(splitParts[i].category, splitParts[i].records)
    /\ splitParts[i].bytes <= limit

\* The parts of category c are first to last; they hold its records up to the
\* n-th, each where the part before stops.
Packed(c, first, last, n) ==
  /\ \A i \in 1..Len(splitParts) : splitParts[i].category = c <=> i \in first..last
  /\ \E cut \in [first - 1..last -> 0..n] :
       /\ cut[first - 1] = 0 /\ cut[last] = n
       /\ \A i \in first..last :
            /\ cut[i - 1] <= cut[i]
            /\ splitParts[i].records = SubSeq(input[c].records, cut[i - 1] + 1, cut[i])
\* Every record is in exactly one part, whole and in order, and a category
\* without records still has its one part.
NothingLost ==
  result = "split" =>
    \A c \in 1..Len(input) : \E first, last \in 1..Len(splitParts) :
      first <= last /\ Packed(c, first, last, Len(input[c].records))

\* A part is closed only when the next record does not fit in it.
PartsFilled ==
  \A i \in 1..Len(splitParts) - 1 :
    LET p == splitParts[i]
        q == splitParts[i + 1]
    IN  p.category = q.category =>
          p.records # <<>> /\ Wrapped(p.category, Append(p.records, q.records[1])) > limit

\* An export is refused exactly when some record cannot be stored on its own.
RefusedWhenImpossible ==
  LET impossible == \E c \in 1..Len(input) :
        \/ Wrapped(c, <<>>) > limit
        \/ \E i \in 1..Len(input[c].records) : Wrapped(c, <<input[c].records[i]>>) > limit
  IN  (result = "tooLarge" => impossible) /\ (result = "split" => ~impossible)
==============================================================================
