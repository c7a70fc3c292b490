-------------------------- MODULE JobOutboxProofs --------------------------
(***************************************************************************)
(* Theorems about JobOutbox for every number of jobs, workers and keys,    *)
(* every lease, retention and bound of the clock.                          *)
(***************************************************************************)
EXTENDS JobOutbox, TLAPS

USE DEF Terminal, Active, NoRow, Statuses

-----------------------------------------------------------------------------
(***************************************************************************)
(* Rows and handler transactions that are not there.                       *)
(***************************************************************************)
LEMMA UnusedRowType == UnusedRow \in Rows /\ DeletedRow \in Rows
BY UnusedIsRow, RowsAssumption DEF UnusedRow, DeletedRow, Rows

LEMMA NoTxType == NoTx \in Txs
BY DEF NoTx, Txs

(***************************************************************************)
(* A write of a well-typed table keeps the types.                          *)
(***************************************************************************)
LEMMA WriteType ==
  ASSUME TypeOK, NEW tab \in [Jobs -> Rows], Write(tab)
  PROVE  table' \in [Jobs -> Rows] /\ rejected' \subseteq {"early", "schema"}
BY DEF TypeOK, Write, Refusal

LEMMA WriteRowType ==
  ASSUME TypeOK, NEW j \in Jobs, NEW row \in Rows, WriteRow(j, row)
  PROVE  table' \in [Jobs -> Rows] /\ rejected' \subseteq {"early", "schema"}
<1>1. [table EXCEPT ![j] = row] \in [Jobs -> Rows]
  BY DEF TypeOK
<1>2. QED
  BY <1>1, WriteType DEF WriteRow

LEMMA StampType ==
  ASSUME TypeOK, NEW t \in Stamps
  PROVE  t \in Nat
BY DEF TypeOK, Stamps

LEMMA InsertType ==
  ASSUME TypeOK, NEW j \in Jobs, NEW new \in NewJobs, NEW t \in Stamps,
         Insert(j, new, t)
  PROVE  TypeOK'
<1> DEFINE r == ScheduledAt(t, new.delay)
           row == InsertedRow([job_type |-> new.job_type,
                    max_attempts |-> new.max_attempts, run_after |-> r,
                    mode |-> new.mode, key |-> new.key], t)
<1>1. t \in Nat /\ new.delay \in Int
  BY StampType, OutboxAssumption
<1>2. r \in Nat
  BY <1>1 DEF ScheduledAt
<1>3. row \in Rows
  BY <1>1, <1>2, InsertedRowType, OutboxAssumption
<1>4. WriteRow(j, row) /\ UNCHANGED <<clock, tx>>
  BY DEF Insert
<1> HIDE DEF row
<1>5. table' \in [Jobs -> Rows] /\ rejected' \subseteq {"early", "schema"}
  BY <1>3, <1>4, WriteRowType
<1>6. QED
  BY <1>4, <1>5 DEF TypeOK

LEMMA ClaimType ==
  ASSUME TypeOK, NEW w \in Workers, Claim(w)
  PROVE  TypeOK'
<1>1. PICK t \in Stamps :
        /\ \/ Write(Sweep(t))
           \/ \E j \in Jobs :
                Write([Sweep(t) EXCEPT ![j] = Claimed(Sweep(t)[j], w, t)])
        /\ UNCHANGED <<clock, tx>>
  BY DEF Claim, ClaimCandidates, Free
<1>2. t \in Nat
  BY StampType
<1>3. Sweep(t) \in [Jobs -> Rows]
  BY <1>2, SweptType DEF Sweep, TypeOK
<1> HIDE DEF Sweep
<1>4. ASSUME NEW j \in Jobs
      PROVE  [Sweep(t) EXCEPT ![j] = Claimed(Sweep(t)[j], w, t)] \in [Jobs -> Rows]
  BY <1>2, <1>3, ClaimedType
<1>5. table' \in [Jobs -> Rows] /\ rejected' \subseteq {"early", "schema"}
  BY <1>1, <1>3, <1>4, WriteType
<1>6. QED
  BY <1>1, <1>5 DEF TypeOK

(***************************************************************************)
(* Every action keeps the types.                                           *)
(***************************************************************************)
LEMMA NextType == TypeOK /\ [Next]_vars => TypeOK'
<1> SUFFICES ASSUME TypeOK, [Next]_vars PROVE TypeOK'
  OBVIOUS
<1>1. ASSUME NEW j \in Jobs, Enqueue(j) \/ EnqueueDeduplicated(j)
      PROVE  TypeOK'
  BY <1>1, InsertType DEF Enqueue, EnqueueDeduplicated
<1>2. ASSUME NEW w \in Workers, Claim(w)
      PROVE  TypeOK'
  BY <1>2, ClaimType
<1>3. ASSUME NEW w \in Workers, NEW j \in Jobs, Complete(w, j)
      PROVE  TypeOK'
  <2>1. PICK t \in Stamps :
          /\ WriteRow(j, Finished(table[j], "succeeded", t))
          /\ UNCHANGED <<clock, tx>>
    BY <1>3 DEF Complete
  <2>2. Finished(table[j], "succeeded", t) \in Rows
    BY StampType, FinishedType DEF TypeOK
  <2>3. QED
    BY <2>1, <2>2, WriteRowType DEF TypeOK
<1>4. ASSUME NEW w \in Workers, NEW j \in Jobs, Cancel(w, j)
      PROVE  TypeOK'
  <2>1. PICK t \in Stamps :
          /\ WriteRow(j, Finished(table[j], "cancelled", t))
          /\ UNCHANGED <<clock, tx>>
    BY <1>4 DEF Cancel
  <2>2. Finished(table[j], "cancelled", t) \in Rows
    BY StampType, FinishedType DEF TypeOK
  <2>3. QED
    BY <2>1, <2>2, WriteRowType DEF TypeOK
<1>5. ASSUME NEW w \in Workers, NEW j \in Jobs, RecordFailure(w, j)
      PROVE  TypeOK'
  <2>1. PICK t \in Stamps, b \in BOOLEAN, d \in RetryDelays :
          /\ WriteRow(j, FailureRecorded(table[j], b, t + d, t))
          /\ UNCHANGED <<clock, tx>>
    BY <1>5 DEF RecordFailure
  <2>2. t \in Nat /\ t + d \in Nat
    BY StampType, OutboxAssumption
  <2>3. FailureRecorded(table[j], b, t + d, t) \in Rows
    BY <2>2, FailureRecordedType DEF TypeOK
  <2>4. QED
    BY <2>1, <2>3, WriteRowType DEF TypeOK
<1>6. ASSUME NEW w \in Workers, NEW j \in Jobs,
             CheckLeaseInTransaction(w, j) \/ CompleteInTransaction(w, j)
      PROVE  TypeOK'
  <2>1. \A t \in Stamps : t \in Nat
    BY StampType
  <2>2. PICK c \in BOOLEAN, at \in Nat :
          /\ tx' = [tx EXCEPT ![j] = [owner |-> w, completed |-> c, at |-> at]]
          /\ UNCHANGED <<table, clock, rejected>>
    BY <1>6, <2>1 DEF CheckLeaseInTransaction, CompleteInTransaction
  <2>3. QED
    BY <2>2 DEF TypeOK, Txs
<1>7. ASSUME NEW j \in Jobs, CommitTransaction(j) \/ RollbackTransaction(j)
      PROVE  TypeOK'
  <2>1. NoTx \in Txs
    BY NoTxType
  <2>2. tx' \in [Jobs -> Txs] /\ clock' = clock
    BY <1>7, <2>1 DEF CommitTransaction, RollbackTransaction, TypeOK
  <2>3. tx[j].at \in Nat
    BY DEF TypeOK, Txs
  <2>4. Finished(table[j], "succeeded", tx[j].at) \in Rows
    BY <2>3, FinishedType DEF TypeOK
  <2>5. table' \in [Jobs -> Rows] /\ rejected' \subseteq {"early", "schema"}
    <3>1. CASE WriteRow(j, Finished(table[j], "succeeded", tx[j].at))
      BY <3>1, <2>4, WriteRowType
    <3>2. CASE UNCHANGED <<table, rejected>>
      BY <3>2 DEF TypeOK
    <3>3. QED
      BY <1>7, <3>1, <3>2 DEF CommitTransaction, RollbackTransaction
  <2>6. QED
    BY <2>2, <2>5 DEF TypeOK
<1>8. ASSUME NEW j \in Jobs, RequestCancellation(j)
      PROVE  TypeOK'
  <2>1. PICK t \in Stamps :
          /\ WriteRow(j, CancellationApplied(table[j], t))
          /\ UNCHANGED <<clock, tx>>
    BY <1>8 DEF RequestCancellation
  <2>2. CancellationApplied(table[j], t) \in Rows
    BY StampType, CancellationAppliedType DEF TypeOK
  <2>3. QED
    BY <2>1, <2>2, WriteRowType DEF TypeOK
<1>9. ASSUME NEW type \in JobTypes, NEW keys \in SUBSET Keys,
             RequestCancellationByKey(type, keys)
      PROVE  TypeOK'
  <2>1. PICK t \in Stamps :
          /\ Write([j \in Jobs |-> IF KeyMatches(table[j], type, keys)
                                   THEN CancellationApplied(table[j], t)
                                   ELSE table[j]])
          /\ UNCHANGED <<clock, tx>>
    BY <1>9 DEF RequestCancellationByKey
  <2>2. t \in Nat
    BY StampType
  <2>3. [j \in Jobs |-> IF KeyMatches(table[j], type, keys)
                        THEN CancellationApplied(table[j], t)
                        ELSE table[j]] \in [Jobs -> Rows]
    BY <2>2, CancellationAppliedType DEF TypeOK
  <2>4. QED
    BY <2>1, <2>3, WriteType DEF TypeOK
<1>10. ASSUME NEW batch \in BatchSizes, CleanupTerminalJobs(batch)
       PROVE  TypeOK'
  <2>1. PICK deleted \in SUBSET Jobs :
          /\ Write([j \in Jobs |-> IF j \in deleted THEN DeletedRow ELSE table[j]])
          /\ UNCHANGED <<clock, tx>>
    BY <1>10 DEF CleanupTerminalJobs, Free
  <2>2. [j \in Jobs |-> IF j \in deleted THEN DeletedRow ELSE table[j]]
          \in [Jobs -> Rows]
    BY UnusedRowType DEF TypeOK
  <2>3. QED
    BY <2>1, <2>2, WriteType DEF TypeOK
<1>11. CASE Tick
  BY <1>11 DEF Tick, TypeOK
<1>12. CASE UNCHANGED vars
  BY <1>12 DEF vars, TypeOK
<1>13. QED
  BY <1>1, <1>2, <1>3, <1>4, <1>5, <1>6, <1>7, <1>8, <1>9, <1>10, <1>11, <1>12
  DEF Next

(***************************************************************************)
(* The variables of the store keep their types in every behaviour.         *)
(***************************************************************************)
THEOREM TypeCorrect == Spec => []TypeOK
<1>1. Init => TypeOK
  <2> SUFFICES ASSUME Init PROVE TypeOK
    OBVIOUS
  <2>1. table \in [Jobs -> Rows]
    BY UnusedRowType DEF Init
  <2>2. tx \in [Jobs -> Txs]
    BY NoTxType DEF Init
  <2>3. clock \in Nat /\ rejected \subseteq {"early", "schema"}
    BY DEF Init
  <2>4. QED
    BY <2>1, <2>2, <2>3 DEF TypeOK
<1>2. QED
  BY <1>1, NextType, PTL DEF Spec

-----------------------------------------------------------------------------
(***************************************************************************)
(* PostgreSQL refuses a write of the store only for a time before a row's  *)
(* creation: what the schema says but for the times is an inductive        *)
(* invariant once it is known that a running row was claimed and that a    *)
(* claimed row has no pending key; and no row is created in the future, so *)
(* that times that do not lag (Lag = 0) are never refused.                 *)
(***************************************************************************)
SchemaInv ==
  /\ TypeOK
  /\ Constraints(table)
  /\ RefusedOnlyIfEarly
  /\ HeldLeaseStable
  /\ \A j \in Jobs : GoodRow(table[j]) /\ table[j].created_at <= clock
  /\ Lag = 0 => \A j \in Jobs : tx[j].completed => table[j].created_at <= tx[j].at
  /\ \A j \in Jobs : tx[j].owner = None => tx[j] = NoTx

\* A step that is in time if the callers' times are exact.
Fits(a, b) == FitStep(a, b) /\ (Lag = 0 => Timely(b))

LEMMA StepFits ==
  ASSUME NEW a, NEW b, NEW t, StepAt(a, b, t), Lag = 0 => a.created_at <= t
  PROVE  Fits(a, b)
BY DEF StepAt, Fits

LEMMA StutterFits ==
  ASSUME NEW row \in Rows, GoodRow(row)
  PROVE  Fits(row, row)
BY GoodStutter DEF StepAt, Fits, GoodRow

LEMMA GoodDelete ==
  ASSUME NEW row \in Rows
  PROVE  Fits(row, DeletedRow)
BY DEF Fits, FitStep, FitRow, ShapeChecks, Timely, Narrower, DeletedRow, UnusedRow, Rows

\* What becomes of a write whose rows all fit: it is made, or it is early.
LEMMA FitWrite ==
  ASSUME SchemaInv, NEW tab \in [Jobs -> Rows], Write(tab),
         \A j \in Jobs : Fits(table[j], tab[j])
  PROVE  /\ RefusedOnlyIfEarly'
         /\ Constraints(table')
         /\ table' \in {table, tab}
         /\ \A j \in Jobs : GoodRow(table'[j]) /\ table'[j].created_at <= table[j].created_at
<1>1. Shaped(tab) /\ (Lag = 0 => Constraints(tab))
  BY FitTable DEF SchemaInv, TypeOK, Fits, Constraints
<1>2. \A j \in Jobs : /\ FitRow(tab[j]) /\ tab[j].created_at <= table[j].created_at
                      /\ GoodRow(table[j]) /\ table[j].created_at \in Nat
  BY DEF Fits, FitStep, SchemaInv, TypeOK, Rows
<1>3. CASE Constraints(tab)
  <2>1. table' = tab /\ rejected' = rejected
    BY <1>3 DEF Write
  <2>2. \A j \in Jobs : GoodRow(tab[j])
    BY <1>2, <1>3 DEF GoodRow, Constraints
  <2>3. QED
    BY <1>2, <1>3, <2>1, <2>2 DEF SchemaInv, RefusedOnlyIfEarly
<1>4. CASE ~Constraints(tab)
  <2>1. table' = table /\ rejected' = rejected \union {"early"} /\ Lag # 0
    BY <1>1, <1>4 DEF Write, Refusal
  <2>2. QED
    BY <1>2, <2>1 DEF SchemaInv, RefusedOnlyIfEarly
<1>5. QED
  BY <1>3, <1>4

(***************************************************************************)
(* An operation outside handler transactions: good steps of rows that no   *)
(* transaction holds.                                                      *)
(***************************************************************************)
LEMMA GoodWrite ==
  ASSUME SchemaInv, NEW tab \in [Jobs -> Rows], Write(tab),
         UNCHANGED <<clock, tx>>,
         \A j \in Jobs : \/ tab[j] = table[j]
                         \/ j \in Free /\ Fits(table[j], tab[j])
  PROVE  SchemaInv'
<1>1. \A j \in Jobs : Fits(table[j], tab[j])
  BY StutterFits DEF SchemaInv, TypeOK
<1>2. /\ RefusedOnlyIfEarly' /\ Constraints(table') /\ table' \in {table, tab}
      /\ \A j \in Jobs : GoodRow(table'[j]) /\ table'[j].created_at <= table[j].created_at
  BY <1>1, FitWrite
<1>4. TypeOK'
  <2>1. table' \in [Jobs -> Rows] /\ rejected' \subseteq {"early", "schema"}
    BY WriteType DEF SchemaInv
  <2>2. QED
    BY <2>1 DEF SchemaInv, TypeOK
<1>5. HeldLeaseStable'
  <2> SUFFICES ASSUME NEW j \in Jobs, tx[j].owner # None
               PROVE  tab[j] = table[j]
    BY <1>2 DEF HeldLeaseStable, SchemaInv
  <2>1. j \notin Free
    BY DEF Free, NoTx
  <2>2. QED
    BY <2>1
<1>6. \A j \in Jobs : /\ table'[j].created_at \in Nat /\ table[j].created_at \in Nat
                      /\ clock \in Nat /\ tx[j].at \in Nat
  BY <1>4 DEF SchemaInv, TypeOK, Rows, Txs
<1>7. \A j \in Jobs : table'[j].created_at <= clock
  BY <1>2, <1>6 DEF SchemaInv
<1>8. ASSUME Lag = 0, NEW j \in Jobs, tx[j].completed
      PROVE  table'[j].created_at <= tx[j].at
  <2>1. table[j].created_at <= tx[j].at
    BY <1>8 DEF SchemaInv
  <2>2. QED
    BY <1>2, <1>6, <2>1
<1>9. QED
  BY <1>2, <1>4, <1>5, <1>7, <1>8 DEF SchemaInv

LEMMA GoodWriteRow ==
  ASSUME SchemaInv, NEW j \in Free, NEW row \in Rows, WriteRow(j, row),
         UNCHANGED <<clock, tx>>, Fits(table[j], row)
  PROVE  SchemaInv'
<1> DEFINE tab == [table EXCEPT ![j] = row]
<1>1. j \in Jobs
  BY DEF Free
<1>2. tab \in [Jobs -> Rows]
  BY <1>1 DEF SchemaInv, TypeOK
<1>3. tab[j] = row /\ \A k \in Jobs \ {j} : tab[k] = table[k]
  BY <1>1 DEF SchemaInv, TypeOK
<1>4. Write(tab)
  BY DEF WriteRow
<1> HIDE DEF tab
<1>5. QED
  BY <1>1, <1>2, <1>3, <1>4, GoodWrite

-----------------------------------------------------------------------------
LEMMA ExactStamp ==
  ASSUME SchemaInv, NEW t \in Stamps
  PROVE  /\ t \in Nat /\ t <= clock
         /\ Lag = 0 => \A j \in Jobs : table[j].created_at <= t
<1>1. clock \in Nat /\ t \in 0..clock /\ clock - t <= Lag
  BY DEF SchemaInv, TypeOK, Stamps
<1>2. Lag = 0 => t = clock
  BY <1>1
<1>3. QED
  BY <1>1, <1>2 DEF SchemaInv

LEMMA InsertSchema ==
  ASSUME SchemaInv, NEW j \in Jobs, NEW new \in NewJobs,
         NEW t \in Stamps, Insert(j, new, t)
  PROVE  SchemaInv'
<1> DEFINE r == ScheduledAt(t, new.delay)
           row == InsertedRow([job_type |-> new.job_type,
                    max_attempts |-> new.max_attempts, run_after |-> r,
                    mode |-> new.mode, key |-> new.key], t)
           tab == [table EXCEPT ![j] = row]
<1>1. t <= clock /\ t \in Nat /\ new.delay \in Int
  BY ExactStamp, OutboxAssumption
<1>2. r \in Nat
  BY <1>1 DEF ScheduledAt
<1>3. row \in Rows
  BY <1>1, <1>2, InsertedRowType, OutboxAssumption
<1>4. row.status = "pending" /\ row.created_at = t /\ GoodRow(row)
  BY <1>1, <1>2, GoodInsert, OutboxAssumption DEF InsertedRow
<1>5. \A k \in Jobs : ~Collides(row, table[k])
  BY DEF Insert
<1>6. Write(tab) /\ UNCHANGED <<clock, tx>> /\ table[j].status = "unused"
  BY DEF Insert, WriteRow
<1> HIDE DEF row
<1>7. /\ tab \in [Jobs -> Rows] /\ tab[j] = row
      /\ \A k \in Jobs \ {j} : tab[k] = table[k]
  BY <1>3 DEF SchemaInv, TypeOK
<1> HIDE DEF tab
<1>8. Constraints(tab)
  BY <1>3, <1>4, <1>5, InsertTable DEF SchemaInv, TypeOK, tab
<1>9. table' = tab /\ rejected' = rejected
  BY <1>6, <1>8 DEF Write
<1>10. tx[j] = NoTx
  BY <1>6 DEF SchemaInv, HeldLeaseStable
<1>11. TypeOK'
  BY <1>6, <1>7, <1>9 DEF SchemaInv, TypeOK
<1>12. HeldLeaseStable'
  BY <1>6, <1>7, <1>9, <1>10 DEF SchemaInv, HeldLeaseStable, NoTx
<1>13. \A k \in Jobs : GoodRow(tab[k]) /\ tab[k].created_at <= clock
  BY <1>1, <1>4, <1>7 DEF SchemaInv
<1>14. Lag = 0 => \A k \in Jobs : tx[k].completed => tab[k].created_at <= tx[k].at
  BY <1>7, <1>10 DEF SchemaInv, NoTx
<1>15. QED
  BY <1>6, <1>8, <1>9, <1>11, <1>12, <1>13, <1>14 DEF SchemaInv, RefusedOnlyIfEarly

(***************************************************************************)
(* A claim: sweeps and selection together are good steps of free rows.     *)
(***************************************************************************)
LEMMA ClaimSchema ==
  ASSUME SchemaInv, NEW w \in Workers, Claim(w)
  PROVE  SchemaInv'
<1>1. PICK t \in Stamps :
        /\ \A j \in Jobs : SweptByClaim(table[j], t) => j \in Free
        /\ \/ Write(Sweep(t))
           \/ \E j \in ClaimCandidates(Sweep(t), Free, Handles[w], t) :
                Write([Sweep(t) EXCEPT ![j] = Claimed(Sweep(t)[j], w, t)])
        /\ UNCHANGED <<clock, tx>>
  BY DEF Claim
<1>2. t \in Nat /\ (Lag = 0 => \A j \in Jobs : table[j].created_at <= t)
  BY ExactStamp
<1>3. \A j \in Jobs : table[j] \in Rows /\ GoodRow(table[j])
  BY DEF SchemaInv, TypeOK
<1>4. Sweep(t) \in [Jobs -> Rows] /\ \A j \in Jobs : Sweep(t)[j] = Swept(table[j], t)
  BY <1>2, <1>3, SweptType DEF Sweep
<1>5. \A j \in Jobs : \/ Sweep(t)[j] = table[j]
                      \/ j \in Free /\ Fits(table[j], Sweep(t)[j])
  <2> SUFFICES ASSUME NEW j \in Jobs
               PROVE  \/ Sweep(t)[j] = table[j]
                      \/ j \in Free /\ Fits(table[j], Sweep(t)[j])
    OBVIOUS
  <2>1. CASE SweptByClaim(table[j], t)
    BY <1>1, <1>2, <1>3, <1>4, <2>1, GoodSweep, StepFits
  <2>2. CASE ~SweptByClaim(table[j], t)
    BY <1>4, <2>2 DEF Swept
  <2>3. QED
    BY <2>1, <2>2
<1>6. CASE Write(Sweep(t))
  BY <1>1, <1>4, <1>5, <1>6, GoodWrite
<1>7. CASE \E j \in ClaimCandidates(Sweep(t), Free, Handles[w], t) :
             Write([Sweep(t) EXCEPT ![j] = Claimed(Sweep(t)[j], w, t)])
  <2>1. PICK j \in Free :
          /\ Claimable(Sweep(t)[j], Handles[w], t)
          /\ Write([Sweep(t) EXCEPT ![j] = Claimed(Sweep(t)[j], w, t)])
    BY <1>7 DEF ClaimCandidates
  <2>2. j \in Jobs
    BY DEF Free
  <2>3. Sweep(t)[j] = table[j]
    BY <1>2, <1>3, <1>4, <2>1, <2>2, ClaimAfterSweep
  <2> DEFINE row == Claimed(table[j], w, t)
             tab == [Sweep(t) EXCEPT ![j] = row]
  <2>4. row \in Rows /\ Fits(table[j], row)
    BY <1>2, <1>3, <2>1, <2>2, <2>3, ClaimedType, GoodClaim, StepFits
  <2>5. Write(tab)
    BY <2>1, <2>3
  <2> HIDE DEF row
  <2>6. /\ tab \in [Jobs -> Rows] /\ tab[j] = row
        /\ \A k \in Jobs \ {j} : tab[k] = Sweep(t)[k]
    BY <1>4, <2>2, <2>4
  <2> HIDE DEF tab
  <2>7. QED
    BY <1>1, <1>5, <2>1, <2>4, <2>5, <2>6, GoodWrite
<1>8. QED
  BY <1>1, <1>6, <1>7

(***************************************************************************)
(* Operations on one row that no transaction holds.                        *)
(***************************************************************************)
LEMMA RowOperationSchema ==
  ASSUME SchemaInv, NEW w \in Workers, NEW j \in Jobs,
         Complete(w, j) \/ Cancel(w, j) \/ RecordFailure(w, j)
  PROVE  SchemaInv'
<1>1. table[j] \in Rows /\ GoodRow(table[j])
  BY DEF SchemaInv, TypeOK
<1>2. CASE Complete(w, j) \/ Cancel(w, j)
  <2>1. PICK t \in Stamps, s \in {"succeeded", "cancelled"} :
          /\ j \in Free /\ table[j].status = "running"
          /\ WriteRow(j, Finished(table[j], s, t))
          /\ UNCHANGED <<clock, tx>>
    BY <1>2 DEF Complete, Cancel, OwnsLease
  <2>2. t \in Nat /\ (Lag = 0 => table[j].created_at <= t)
    BY ExactStamp
  <2>3. /\ Finished(table[j], s, t) \in Rows
        /\ Fits(table[j], Finished(table[j], s, t))
    BY <1>1, <2>1, <2>2, FinishedType, GoodFinish, StepFits
  <2>4. QED
    BY <2>1, <2>3, GoodWriteRow
<1>3. CASE RecordFailure(w, j)
  <2>1. PICK t \in Stamps, b \in BOOLEAN, d \in RetryDelays :
          /\ j \in Free /\ table[j].status = "running"
          /\ WriteRow(j, FailureRecorded(table[j], b, t + d, t))
          /\ UNCHANGED <<clock, tx>>
    BY <1>3 DEF RecordFailure, FailureAccepted, OwnsLease
  <2>2. t \in Nat /\ t + d \in Nat /\ (Lag = 0 => table[j].created_at <= t)
    BY ExactStamp, OutboxAssumption
  <2>3. /\ FailureRecorded(table[j], b, t + d, t) \in Rows
        /\ Fits(table[j], FailureRecorded(table[j], b, t + d, t))
    BY <1>1, <2>1, <2>2, FailureRecordedType, GoodFailure, StepFits
  <2>4. QED
    BY <2>1, <2>3, GoodWriteRow
<1>4. QED
  BY <1>2, <1>3

LEMMA CancellationSchema ==
  ASSUME SchemaInv, NEW j \in Jobs, RequestCancellation(j)
  PROVE  SchemaInv'
<1>1. PICK t \in Stamps :
        /\ j \in Free /\ table[j].status \in Active
        /\ WriteRow(j, CancellationApplied(table[j], t))
        /\ UNCHANGED <<clock, tx>>
  BY DEF RequestCancellation
<1>2. t \in Nat /\ (Lag = 0 => table[j].created_at <= t)
  BY ExactStamp
<1>3. table[j] \in Rows /\ GoodRow(table[j])
  BY DEF SchemaInv, TypeOK
<1>4. /\ CancellationApplied(table[j], t) \in Rows
      /\ Fits(table[j], CancellationApplied(table[j], t))
  BY <1>1, <1>2, <1>3, CancellationAppliedType, GoodCancellation, StepFits
<1>5. QED
  BY <1>1, <1>4, GoodWriteRow

(***************************************************************************)
(* Operations on many rows: cancellation by key, and cleanup.              *)
(***************************************************************************)
LEMMA CancellationByKeySchema ==
  ASSUME SchemaInv, NEW type \in JobTypes, NEW keys \in SUBSET Keys,
         RequestCancellationByKey(type, keys)
  PROVE  SchemaInv'
<1>1. PICK t \in Stamps :
        /\ \A j \in Jobs : KeyMatches(table[j], type, keys) => j \in Free
        /\ Write([j \in Jobs |-> IF KeyMatches(table[j], type, keys)
                                 THEN CancellationApplied(table[j], t)
                                 ELSE table[j]])
        /\ UNCHANGED <<clock, tx>>
  BY DEF RequestCancellationByKey
<1>2. t \in Nat /\ (Lag = 0 => \A j \in Jobs : table[j].created_at <= t)
  BY ExactStamp
<1>3. \A j \in Jobs : table[j] \in Rows /\ GoodRow(table[j])
  BY DEF SchemaInv, TypeOK
<1> DEFINE tab == [j \in Jobs |-> IF KeyMatches(table[j], type, keys)
                                  THEN CancellationApplied(table[j], t)
                                  ELSE table[j]]
<1>4. tab \in [Jobs -> Rows]
  BY <1>2, <1>3, CancellationAppliedType
<1>5. ASSUME NEW j \in Jobs, KeyMatches(table[j], type, keys)
      PROVE  j \in Free /\ Fits(table[j], tab[j])
  <2>1. Fits(table[j], CancellationApplied(table[j], t))
    BY <1>2, <1>3, <1>5, GoodCancellation, StepFits DEF KeyMatches
  <2>2. QED
    BY <1>1, <1>5, <2>1
<1>6. ASSUME NEW j \in Jobs, ~KeyMatches(table[j], type, keys)
      PROVE  tab[j] = table[j]
  BY <1>6
<1>7. Write(tab)
  BY <1>1
<1> HIDE DEF tab
<1>8. QED
  BY <1>1, <1>4, <1>5, <1>6, <1>7, GoodWrite

LEMMA CleanupSchema ==
  ASSUME SchemaInv, NEW batch \in BatchSizes, CleanupTerminalJobs(batch)
  PROVE  SchemaInv'
<1>1. PICK deleted \in SUBSET Free :
        /\ Write([j \in Jobs |-> IF j \in deleted THEN DeletedRow ELSE table[j]])
        /\ UNCHANGED <<clock, tx>>
  BY DEF CleanupTerminalJobs
<1>2. \A j \in Jobs : table[j] \in Rows
  BY DEF SchemaInv, TypeOK
<1> DEFINE tab == [j \in Jobs |-> IF j \in deleted THEN DeletedRow ELSE table[j]]
<1>3. tab \in [Jobs -> Rows]
  BY <1>2, UnusedRowType
<1>4. ASSUME NEW j \in Jobs
      PROVE  \/ tab[j] = table[j]
             \/ j \in Free /\ Fits(table[j], tab[j])
  BY <1>2, GoodDelete
<1>5. Write(tab)
  BY <1>1
<1> HIDE DEF tab
<1>6. QED
  BY <1>1, <1>3, <1>4, <1>5, GoodWrite

(***************************************************************************)
(* The handler's transaction: taking the lock needs an owned lease, which  *)
(* the lock then preserves, so the commit finishes a running row.          *)
(***************************************************************************)
LEMMA LockSchema ==
  ASSUME SchemaInv, NEW w \in Workers, NEW j \in Jobs,
         CheckLeaseInTransaction(w, j) \/ CompleteInTransaction(w, j)
  PROVE  SchemaInv'
<1>1. PICK t \in Stamps, held \in Txs :
        /\ OwnsLease(table[j], w, t, FALSE)
        /\ held.owner = w
        /\ held.completed => held.at = t
        /\ tx' = [tx EXCEPT ![j] = held]
        /\ UNCHANGED <<table, clock, rejected>>
  <2>1. PICK t \in Stamps, c \in BOOLEAN :
          /\ OwnsLease(table[j], w, t, FALSE)
          /\ tx' = [tx EXCEPT ![j] = [owner |-> w, completed |-> c,
                                      at |-> IF c THEN t ELSE 0]]
          /\ UNCHANGED <<table, clock, rejected>>
    BY DEF CheckLeaseInTransaction, CompleteInTransaction
  <2>2. t \in Nat
    BY ExactStamp
  <2> DEFINE held == [owner |-> w, completed |-> c, at |-> IF c THEN t ELSE 0]
  <2>3. held \in Txs
    BY <2>2 DEF Txs
  <2>4. held.owner = w /\ (held.completed => held.at = t)
    OBVIOUS
  <2>5. QED
    BY <2>1, <2>3, <2>4
<1>2. Lag = 0 => table[j].created_at <= t
  BY ExactStamp
<1>3. /\ tx'[j] = held
      /\ \A k \in Jobs \ {j} : tx'[k] = tx[k]
  BY <1>1 DEF SchemaInv, TypeOK
<1>4. w # None
  BY RowsAssumption
<1>5. TypeOK'
  BY <1>1 DEF SchemaInv, TypeOK
<1>6. HeldLeaseStable'
  BY <1>1, <1>3 DEF SchemaInv, HeldLeaseStable, OwnsLease
<1>7. Lag = 0 => \A k \in Jobs : tx'[k].completed => table[k].created_at <= tx'[k].at
  BY <1>1, <1>2, <1>3 DEF SchemaInv
<1>8. \A k \in Jobs : tx'[k].owner = None => tx'[k] = NoTx
  BY <1>1, <1>3, <1>4 DEF SchemaInv
<1>9. QED
  BY <1>1, <1>5, <1>6, <1>7, <1>8 DEF SchemaInv, RefusedOnlyIfEarly

LEMMA UnlockSchema ==
  ASSUME SchemaInv, NEW j \in Jobs,
         CommitTransaction(j) \/ RollbackTransaction(j)
  PROVE  SchemaInv'
<1> DEFINE row == Finished(table[j], "succeeded", tx[j].at)
           tab == IF CommitTransaction(j) /\ tx[j].completed
                  THEN [table EXCEPT ![j] = row] ELSE table
<1>1. tx[j].owner # None
  BY DEF CommitTransaction, RollbackTransaction, Free, SchemaInv
<1>2. /\ table[j] \in Rows /\ GoodRow(table[j]) /\ table[j].status = "running"
      /\ tx[j].at \in Nat
  BY <1>1 DEF SchemaInv, TypeOK, HeldLeaseStable, Txs
<1>3. ASSUME tx[j].completed
      PROVE  row \in Rows /\ Fits(table[j], row)
  <2>1. Lag = 0 => table[j].created_at <= tx[j].at
    BY <1>3 DEF SchemaInv
  <2>2. QED
    BY <1>2, <2>1, FinishedType, GoodFinish, StepFits
<1>4. /\ tx' = [tx EXCEPT ![j] = NoTx] /\ clock' = clock
      /\ Write(tab) \/ (tab = table /\ UNCHANGED <<table, rejected>>)
  BY DEF CommitTransaction, RollbackTransaction, WriteRow
<1> HIDE DEF row
<1>5. /\ tab \in [Jobs -> Rows]
      /\ Fits(table[j], tab[j])
      /\ \A k \in Jobs \ {j} : tab[k] = table[k]
  BY <1>2, <1>3, StutterFits DEF SchemaInv, TypeOK
<1> HIDE DEF tab
<1>6. \A k \in Jobs : Fits(table[k], tab[k])
  <2>1. \A k \in Jobs \ {j} : Fits(table[k], tab[k])
    BY <1>5, StutterFits DEF SchemaInv, TypeOK
  <2>2. QED
    BY <1>5, <2>1
<1>7. /\ RefusedOnlyIfEarly' /\ Constraints(table') /\ table' \in {table, tab}
      /\ \A k \in Jobs : GoodRow(table'[k]) /\ table'[k].created_at <= table[k].created_at
  <2>1. CASE Write(tab)
    BY <1>5, <1>6, <2>1, FitWrite
  <2>2. CASE tab = table /\ UNCHANGED <<table, rejected>>
    BY <2>2 DEF SchemaInv, RefusedOnlyIfEarly, TypeOK, Rows
  <2>3. QED
    BY <1>4, <2>1, <2>2
<1>8. /\ tx'[j] = NoTx
      /\ \A k \in Jobs \ {j} : tx'[k] = tx[k] /\ table'[k] = table[k]
  BY <1>4, <1>5, <1>7 DEF SchemaInv, TypeOK
<1>9. TypeOK'
  BY NextType DEF Next, SchemaInv
<1>10. HeldLeaseStable'
  BY <1>8 DEF SchemaInv, HeldLeaseStable, NoTx
<1>11. \A k \in Jobs : table'[k].created_at <= clock
  <2>1. \A k \in Jobs : /\ table'[k].created_at \in Nat /\ table[k].created_at \in Nat
                        /\ clock \in Nat /\ table[k].created_at <= clock
    BY <1>9 DEF SchemaInv, TypeOK, Rows
  <2>2. QED
    BY <1>7, <2>1
<1>12. Lag = 0 => \A k \in Jobs : tx'[k].completed => table'[k].created_at <= tx'[k].at
  BY <1>8 DEF SchemaInv, NoTx
<1>13. \A k \in Jobs : tx'[k].owner = None => tx'[k] = NoTx
  BY <1>8 DEF SchemaInv
<1>14. QED
  BY <1>4, <1>7, <1>9, <1>10, <1>11, <1>12, <1>13 DEF SchemaInv

-----------------------------------------------------------------------------
(***************************************************************************)
(* The invariant is inductive.                                             *)
(***************************************************************************)
LEMMA InitSchema == Init => SchemaInv
<1> SUFFICES ASSUME Init PROVE SchemaInv
  OBVIOUS
<1>1. TypeOK
  BY UnusedRowType, NoTxType DEF Init, TypeOK
<1>2. \A j \in Jobs : /\ table[j].status = "unused" /\ tx[j] = NoTx
                      /\ table[j].pending_dedupe_key = None
                      /\ table[j].created_at = 0
  BY DEF Init, UnusedRow
<1>3. \A j \in Jobs : GoodRow(table[j])
  BY <1>2 DEF GoodRow, FitRow, ShapeChecks, Timely
<1>4. Constraints(table)
  BY <1>2 DEF Constraints, Shaped, ShapeChecks, Timely, Collides
<1>5. clock = 0 /\ rejected = {}
  BY DEF Init
<1>6. QED
  <2>1. \A j \in Jobs : tx[j].owner = None /\ ~tx[j].completed
    BY <1>2 DEF NoTx
  <2>2. HeldLeaseStable
    BY <2>1 DEF HeldLeaseStable
  <2>3. \A j \in Jobs : table[j].created_at <= clock
    BY <1>2, <1>5
  <2>4. QED
    BY <1>1, <1>2, <1>3, <1>4, <1>5, <2>1, <2>2, <2>3
    DEF SchemaInv, RefusedOnlyIfEarly

LEMMA NextSchema ==
  ASSUME SchemaInv, [Next]_vars
  PROVE  SchemaInv'
<1>1. ASSUME NEW j \in Jobs, Enqueue(j) \/ EnqueueDeduplicated(j)
      PROVE  SchemaInv'
  BY <1>1, InsertSchema DEF Enqueue, EnqueueDeduplicated
<1>2. ASSUME NEW w \in Workers, Claim(w)
      PROVE  SchemaInv'
  BY <1>2, ClaimSchema
<1>3. ASSUME NEW w \in Workers, NEW j \in Jobs,
             Complete(w, j) \/ Cancel(w, j) \/ RecordFailure(w, j)
      PROVE  SchemaInv'
  BY <1>3, RowOperationSchema
<1>4. ASSUME NEW w \in Workers, NEW j \in Jobs,
             CheckLeaseInTransaction(w, j) \/ CompleteInTransaction(w, j)
      PROVE  SchemaInv'
  BY <1>4, LockSchema
<1>5. ASSUME NEW j \in Jobs, CommitTransaction(j) \/ RollbackTransaction(j)
      PROVE  SchemaInv'
  BY <1>5, UnlockSchema
<1>6. ASSUME NEW j \in Jobs, RequestCancellation(j)
      PROVE  SchemaInv'
  BY <1>6, CancellationSchema
<1>7. ASSUME NEW type \in JobTypes, NEW keys \in SUBSET Keys,
             RequestCancellationByKey(type, keys)
      PROVE  SchemaInv'
  BY <1>7, CancellationByKeySchema
<1>8. ASSUME NEW batch \in BatchSizes, CleanupTerminalJobs(batch)
      PROVE  SchemaInv'
  BY <1>8, CleanupSchema
<1>9. CASE Tick
  <2>1. clock \in Nat /\ \A j \in Jobs : table[j].created_at \in Nat
    BY DEF SchemaInv, TypeOK, Rows
  <2>2. QED
    BY <1>9, <2>1
    DEF Tick, SchemaInv, TypeOK, RefusedOnlyIfEarly, HeldLeaseStable
<1>10. CASE UNCHANGED vars
  BY <1>10 DEF vars, SchemaInv, TypeOK, RefusedOnlyIfEarly, HeldLeaseStable
<1>11. QED
  BY <1>1, <1>2, <1>3, <1>4, <1>5, <1>6, <1>7, <1>8, <1>9, <1>10 DEF Next

(***************************************************************************)
(* The schema's constraints and what they rest on hold in every behaviour, *)
(* however far the times of the callers lag.                               *)
(***************************************************************************)
THEOREM SchemaInvariant == Spec => []SchemaInv
<1>1. SchemaInv /\ [Next]_vars => SchemaInv'
  BY NextSchema
<1>2. QED
  BY <1>1, InitSchema, PTL DEF Spec

(***************************************************************************)
(* No retry, claim, cancellation, sweep or commit of a handler breaks a    *)
(* CHECK or a unique index, but for a time before a row's creation.        *)
(***************************************************************************)
THEOREM WritesRefusedOnlyIfEarly == Spec => []RefusedOnlyIfEarly
<1>1. SchemaInv => RefusedOnlyIfEarly
  BY DEF SchemaInv
<1>2. QED
  BY <1>1, SchemaInvariant, PTL
-----------------------------------------------------------------------------
(***************************************************************************)
(* However far the timestamps of its callers lag, the store implements the *)
(* lifecycle of every job, a handler's row lock keeps the lease it checked *)
(* and no cancelled attempt succeeds.  The three are proved together: each *)
(* operation moves each row as the lifecycle allows, and only a held lock  *)
(* makes the commit of a handler such a move.                              *)
(***************************************************************************)

LifeOf(a) ==
  [status |-> a.status, attempts |-> a.attempts, max_attempts |-> a.max_attempts]

RowInv(a) ==
  /\ a.status = "unused" => a.attempts = 0 /\ a.max_attempts = 0
  /\ a.status = "running" => a.attempts > 0
  /\ a.pending_dedupe_key # None => a.attempts = 0
  /\ a.cancel_requested => a.status = "running"
  /\ a.attempts <= a.max_attempts
  /\ a.failure_reason = "attempts_exhausted" => a.attempts = a.max_attempts

StoreInv ==
  /\ TypeOK
  /\ HeldLeaseStable
  /\ \A j \in Jobs : RowInv(table[j])
  /\ \A j \in Jobs : tx[j].owner = None => tx[j] = NoTx

\* What an operation may do to one row.
Move(a, b) ==
  /\ RowInv(b)
  /\ LifeOf(b) = LifeOf(a) \/ Lifecycle!JobStep(LifeOf(a), LifeOf(b))
  /\ a.cancel_requested => b.status # "succeeded"

Moves == \A j \in Jobs : Move(table[j], table'[j])

-----------------------------------------------------------------------------
(***************************************************************************)
(* Each transition of a row is a move.                                     *)
(***************************************************************************)
\* Released, and the assignments that accompany it.
Ends(row, b, status) ==
  /\ b.status = status
  /\ b.attempts = row.attempts /\ b.max_attempts = row.max_attempts
  /\ b.pending_dedupe_key = row.pending_dedupe_key
  /\ b.cancel_requested = FALSE
  /\ b.failure_reason = "attempts_exhausted" => row.attempts = row.max_attempts

LEMMA ReleasedEnds ==
  ASSUME NEW row \in Rows, RowInv(row), NEW t \in Nat, NEW s \in Statuses
  PROVE  Released(row, s, t) \in Rows /\ Ends(row, Released(row, s, t), s)
<1> DEFINE b == Released(row, s, t)
<1>1. /\ b \in Rows /\ b.status = s
      /\ b.attempts = row.attempts /\ b.max_attempts = row.max_attempts
      /\ b.pending_dedupe_key = row.pending_dedupe_key
      /\ b.cancel_requested = FALSE /\ b.failure_reason = row.failure_reason
  BY DEF Released, Rows
<1> HIDE DEF b
<1>2. b \in Rows /\ Ends(row, b, s)
  BY <1>1 DEF Ends, RowInv
<1>3. QED
  BY <1>2 DEF b

LEMMA FurtherAssignments ==
  ASSUME NEW row, NEW a \in Rows, NEW s, Ends(row, a, s), NEW r \in Nat,
         NEW x \in {"none", "permanent", "attempts_exhausted"},
         x = "attempts_exhausted" => row.attempts = row.max_attempts
  PROVE  /\ Ends(row, [a EXCEPT !.failure_reason = x], s)
         /\ Ends(row, [a EXCEPT !.run_after = r, !.failure_reason = x], s)
<1>1. Ends(row, [a EXCEPT !.failure_reason = x], s)
  BY DEF Ends, Rows
<1>2. Ends(row, [a EXCEPT !.run_after = r, !.failure_reason = x], s)
  BY DEF Ends, Rows
<1>3. QED
  BY <1>1, <1>2

LEMMA StutterMoves ==
  ASSUME NEW row \in Rows, RowInv(row)
  PROVE  Move(row, row)
BY DEF Move, RowInv, Rows

LEMMA EndMoves ==
  ASSUME NEW row \in Rows, row.status = "running", RowInv(row),
         NEW s \in Terminal, s = "succeeded" => ~row.cancel_requested,
         NEW b, Ends(row, b, s)
  PROVE  Move(row, b)
<1>1. LifeOf(b) = [LifeOf(row) EXCEPT !.status = s]
  BY DEF LifeOf, Ends
<1>2. Lifecycle!End(LifeOf(row), LifeOf(b))
  BY <1>1 DEF Lifecycle!End, Lifecycle!Ended, LifeOf
<1>3. RowInv(b) /\ (row.cancel_requested => b.status # "succeeded")
  BY DEF RowInv, Ends
<1>4. QED
  BY <1>2, <1>3 DEF Move, Lifecycle!JobStep

LEMMA FinishMoves ==
  ASSUME NEW row \in Rows, NEW t \in Nat, row.status = "running", RowInv(row),
         NEW s \in Terminal, s = "succeeded" => ~row.cancel_requested
  PROVE  Move(row, Finished(row, s, t))
<1>1. Ends(row, Finished(row, s, t), s)
  BY ReleasedEnds, FurtherAssignments, 0 \in Nat DEF Finished
<1>2. QED
  BY <1>1, EndMoves

LEMMA FailureMoves ==
  ASSUME NEW row \in Rows, NEW t \in Nat, row.status = "running", RowInv(row),
         NEW retryable \in BOOLEAN, NEW r \in Nat
  PROVE  Move(row, FailureRecorded(row, retryable, r, t))
<1> DEFINE b == FailureRecorded(row, retryable, r, t)
<1> SUFFICES Move(row, b)
  OBVIOUS
<1>1. CASE WillRetry(row, retryable)
  <2>1. Ends(row, b, "pending")
    BY <1>1, ReleasedEnds, FurtherAssignments DEF FailureRecorded
  <2>2. row.attempts < row.max_attempts
    BY <1>1 DEF WillRetry
  <2> HIDE DEF b
  <2>3. LifeOf(b) = [LifeOf(row) EXCEPT !.status = "pending"]
    BY <2>1 DEF LifeOf, Ends
  <2>4. Lifecycle!Retry(LifeOf(row), LifeOf(b))
    BY <2>2, <2>3 DEF Lifecycle!Retry, LifeOf
  <2>5. QED
    BY <2>1, <2>4 DEF Move, RowInv, Ends, Lifecycle!JobStep
<1>2. CASE ~WillRetry(row, retryable)
  <2>1. retryable => row.attempts = row.max_attempts
    BY <1>2 DEF WillRetry, RowInv, Rows
  <2>2. Ends(row, b, "failed")
    BY <1>2, <2>1, ReleasedEnds, FurtherAssignments DEF FailureRecorded
  <2> HIDE DEF b
  <2>3. QED
    BY <2>2, EndMoves
<1>3. QED
  BY <1>1, <1>2

LEMMA CancellationMoves ==
  ASSUME NEW row \in Rows, NEW t \in Nat, row.status \in Active, RowInv(row)
  PROVE  Move(row, CancellationApplied(row, t))
<1> DEFINE b == CancellationApplied(row, t)
<1> SUFFICES Move(row, b)
  OBVIOUS
<1>1. CASE row.status = "pending"
  <2>1. Ends(row, b, "cancelled")
    BY <1>1, ReleasedEnds DEF CancellationApplied
  <2> HIDE DEF b
  <2>2. LifeOf(b) = [LifeOf(row) EXCEPT !.status = "cancelled"]
    BY <2>1 DEF LifeOf, Ends
  <2>3. Lifecycle!Discard(LifeOf(row), LifeOf(b))
    BY <1>1, <2>2 DEF Lifecycle!Discard, LifeOf
  <2>4. QED
    BY <2>1, <2>3 DEF Move, RowInv, Ends, Lifecycle!JobStep
<1>2. CASE row.status = "running"
  <2>1. /\ b.status = "running" /\ b.attempts = row.attempts
        /\ b.max_attempts = row.max_attempts
        /\ b.pending_dedupe_key = row.pending_dedupe_key
        /\ b.failure_reason = row.failure_reason
    BY <1>2 DEF CancellationApplied, Rows
  <2> HIDE DEF b
  <2>2. QED
    BY <1>2, <2>1 DEF Move, RowInv, LifeOf
<1>3. QED
  BY <1>1, <1>2

LEMMA SweepMoves ==
  ASSUME NEW row \in Rows, NEW t \in Nat, RowInv(row)
  PROVE  Move(row, Swept(row, t))
<1>1. CASE ~SweptByClaim(row, t)
  BY <1>1, StutterMoves DEF Swept
<1>2. CASE SweptByClaim(row, t)
  <2>1. row.status = "running"
    BY <1>2 DEF SweptByClaim, Expired
  <2>2. CASE row.cancel_requested
    <3>1. Ends(row, Swept(row, t), "cancelled")
      BY <1>2, <2>2, ReleasedEnds DEF Swept
    <3>2. QED
      BY <2>1, <3>1, EndMoves
  <2>3. CASE ~row.cancel_requested
    <3>1. Swept(row, t) = [Released(row, "failed", t) EXCEPT
                             !.failure_reason = "attempts_exhausted"]
      BY <1>2, <2>3 DEF Swept
    <3>2. Ends(row, Swept(row, t), "failed")
      <4>1. /\ Released(row, "failed", t) \in Rows
            /\ Ends(row, Released(row, "failed", t), "failed")
        BY ReleasedEnds
      <4> DEFINE a == Released(row, "failed", t)
      <4>2. a \in Rows /\ Ends(row, a, "failed")
        BY <4>1
      <4> HIDE DEF a
      <4>3. row.attempts = row.max_attempts
        BY <1>2, <2>3 DEF SweptByClaim, RowInv, Rows
      <4>4. Ends(row, [a EXCEPT !.failure_reason = "attempts_exhausted"], "failed")
        BY <4>2, <4>3, FurtherAssignments, 0 \in Nat
      <4>5. QED
        BY <3>1, <4>4 DEF a
    <3>3. QED
      BY <2>1, <3>2, EndMoves
  <2>4. QED
    BY <2>2, <2>3
<1>3. QED
  BY <1>1, <1>2

LEMMA ClaimMoves ==
  ASSUME NEW row \in Rows, NEW t \in Nat, RowInv(row), NEW w \in Workers,
         NEW types, Claimable(row, types, t)
  PROVE  Move(row, Claimed(row, w, t))
<1> DEFINE b == Claimed(row, w, t)
<1> SUFFICES Move(row, b)
  OBVIOUS
<1>1. /\ row.status \in Active /\ row.attempts < row.max_attempts
      /\ ~row.cancel_requested /\ row.attempts \in Nat
  BY DEF Claimable, Expired, Rows
<1>2. b.status = "running" /\ b.attempts = row.attempts + 1
  BY DEF Claimed, Rows
<1>3. b.max_attempts = row.max_attempts /\ b.pending_dedupe_key = None
  BY DEF Claimed, Rows
<1>4. b.cancel_requested = row.cancel_requested /\ b.failure_reason = "none"
  BY DEF Claimed, Rows
<1> HIDE DEF b
<1>5. LifeOf(b) = [status |-> "running", attempts |-> LifeOf(row).attempts + 1,
                   max_attempts |-> LifeOf(row).max_attempts]
  BY <1>2, <1>3 DEF LifeOf
<1>6. Lifecycle!Start(LifeOf(row), LifeOf(b))
  BY <1>1, <1>5 DEF Lifecycle!Start, LifeOf
<1>7. RowInv(b)
  BY <1>1, <1>2, <1>3, <1>4 DEF RowInv, Rows
<1>8. QED
  BY <1>1, <1>6, <1>7 DEF Move, Lifecycle!JobStep

LEMMA DeleteMoves ==
  ASSUME NEW row \in Rows, row.status \in Terminal, RowInv(row)
  PROVE  Move(row, DeletedRow)
<1>1. /\ DeletedRow.status = "deleted" /\ DeletedRow.attempts = 0
      /\ DeletedRow.max_attempts = 0 /\ DeletedRow.pending_dedupe_key = None
      /\ ~DeletedRow.cancel_requested /\ DeletedRow.failure_reason = "none"
  BY DEF DeletedRow, UnusedRow
<1>2. Lifecycle!Delete(LifeOf(row), LifeOf(DeletedRow))
  BY <1>1 DEF Lifecycle!Delete, Lifecycle!Ended, Lifecycle!Unborn, LifeOf
<1>3. QED
  BY <1>1, <1>2 DEF Move, RowInv, Lifecycle!JobStep

-----------------------------------------------------------------------------
(***************************************************************************)
(* Operations outside handler transactions: moves of rows whose lock is    *)
(* free, or no write at all when PostgreSQL refuses it.                    *)
(***************************************************************************)
LEMMA NoMoves ==
  ASSUME StoreInv, UNCHANGED <<table, tx>>, TypeOK'
  PROVE  StoreInv' /\ Moves
<1>1. StoreInv'
  BY DEF StoreInv, HeldLeaseStable
<1>2. \A j \in Jobs : table[j] \in Rows /\ RowInv(table[j])
  BY DEF StoreInv, TypeOK
<1>3. QED
  BY <1>1, <1>2, StutterMoves DEF Moves

LEMMA WriteMoves ==
  ASSUME StoreInv, NEW tab \in [Jobs -> Rows], Write(tab),
         UNCHANGED <<clock, tx>>,
         \A j \in Jobs : \/ tab[j] = table[j]
                         \/ j \in Free /\ Move(table[j], tab[j])
  PROVE  StoreInv' /\ Moves
<1>1. TypeOK'
  <2>1. table' \in [Jobs -> Rows] /\ rejected' \subseteq {"early", "schema"}
    BY WriteType DEF StoreInv
  <2>2. QED
    BY <2>1 DEF StoreInv, TypeOK
<1>2. CASE table' = table
  BY <1>1, <1>2, NoMoves
<1>3. CASE table' = tab
  <2>1. ASSUME NEW j \in Jobs
        PROVE  Move(table[j], tab[j])
    <3>1. table[j] \in Rows /\ RowInv(table[j])
      BY DEF StoreInv, TypeOK
    <3>2. QED
      BY <3>1, StutterMoves
  <2>2. ASSUME NEW j \in Jobs, tx[j].owner # None
        PROVE  tab[j] = table[j]
    <3>1. j \notin Free
      BY <2>2 DEF Free, NoTx
    <3>2. QED
      BY <3>1
  <2>3. HeldLeaseStable'
    BY <1>3, <2>2 DEF StoreInv, HeldLeaseStable
  <2>4. \A j \in Jobs : RowInv(tab[j])
    BY <2>1 DEF Move
  <2>5. QED
    BY <1>1, <1>3, <2>1, <2>3, <2>4 DEF StoreInv, Moves
<1>4. QED
  BY <1>2, <1>3 DEF Write

LEMMA WriteRowMoves ==
  ASSUME StoreInv, NEW j \in Free, NEW row \in Rows, WriteRow(j, row),
         UNCHANGED <<clock, tx>>, Move(table[j], row)
  PROVE  StoreInv' /\ Moves
<1> DEFINE tab == [table EXCEPT ![j] = row]
<1>1. j \in Jobs
  BY DEF Free
<1>2. tab \in [Jobs -> Rows]
  BY <1>1 DEF StoreInv, TypeOK
<1>3. tab[j] = row /\ \A k \in Jobs \ {j} : tab[k] = table[k]
  BY <1>1 DEF StoreInv, TypeOK
<1>4. Write(tab)
  BY DEF WriteRow
<1> HIDE DEF tab
<1>5. QED
  BY <1>1, <1>2, <1>3, <1>4, WriteMoves

LEMMA InsertMoves ==
  ASSUME StoreInv, NEW j \in Jobs, NEW new \in NewJobs, NEW t \in Stamps,
         Insert(j, new, t)
  PROVE  StoreInv' /\ Moves
<1> DEFINE r == ScheduledAt(t, new.delay)
           row == InsertedRow([job_type |-> new.job_type,
                    max_attempts |-> new.max_attempts, run_after |-> r,
                    mode |-> new.mode, key |-> new.key], t)
<1>1. t \in Nat /\ new.delay \in Int /\ new.max_attempts \in Nat \ {0}
  BY StampType, OutboxAssumption DEF StoreInv
<1>2. r \in Nat
  BY <1>1 DEF ScheduledAt
<1>3. row \in Rows
  BY <1>1, <1>2, InsertedRowType, OutboxAssumption
<1>4. /\ row.status = "pending" /\ row.attempts = 0
      /\ row.max_attempts = new.max_attempts
      /\ row.cancel_requested = FALSE /\ row.failure_reason = "none"
  BY DEF InsertedRow
<1>5. /\ WriteRow(j, row) /\ UNCHANGED <<clock, tx>>
      /\ table[j].status = "unused"
  BY DEF Insert
<1> HIDE DEF row
<1>6. /\ RowInv(table[j]) /\ table[j] \in Rows
      /\ table[j].attempts = 0 /\ table[j].max_attempts = 0
      /\ table[j].status = "unused"
  BY <1>5 DEF StoreInv, TypeOK, RowInv
<1>7. Lifecycle!Create(LifeOf(table[j]), LifeOf(row))
  <2>1. LifeOf(table[j]) = Lifecycle!Unborn
    BY <1>6 DEF LifeOf, Lifecycle!Unborn
  <2>2. /\ LifeOf(row).status = "pending" /\ LifeOf(row).attempts = 0
        /\ LifeOf(row).max_attempts = new.max_attempts
    BY <1>4 DEF LifeOf
  <2>3. QED
    BY <1>1, <2>1, <2>2 DEF Lifecycle!Create
<1>8. Move(table[j], row)
  BY <1>1, <1>4, <1>7 DEF Move, RowInv, Lifecycle!JobStep
<1>9. j \in Free
  BY <1>6 DEF StoreInv, HeldLeaseStable, Free
<1>10. QED
  BY <1>3, <1>5, <1>8, <1>9, WriteRowMoves

LEMMA ClaimOperationMoves ==
  ASSUME StoreInv, NEW w \in Workers, Claim(w)
  PROVE  StoreInv' /\ Moves
<1>1. PICK t \in Stamps :
        /\ \A j \in Jobs : SweptByClaim(table[j], t) => j \in Free
        /\ \/ Write(Sweep(t))
           \/ \E j \in ClaimCandidates(Sweep(t), Free, Handles[w], t) :
                Write([Sweep(t) EXCEPT ![j] = Claimed(Sweep(t)[j], w, t)])
        /\ UNCHANGED <<clock, tx>>
  BY DEF Claim
<1>2. t \in Nat
  BY StampType DEF StoreInv
<1>3. \A j \in Jobs : table[j] \in Rows /\ RowInv(table[j])
  BY DEF StoreInv, TypeOK
<1>4. Sweep(t) \in [Jobs -> Rows] /\ \A j \in Jobs : Sweep(t)[j] = Swept(table[j], t)
  BY <1>2, <1>3, SweptType DEF Sweep
<1>5. ASSUME NEW j \in Jobs
      PROVE  \/ Sweep(t)[j] = table[j]
             \/ j \in Free /\ Move(table[j], Sweep(t)[j])
  <2>1. CASE SweptByClaim(table[j], t)
    BY <1>1, <1>2, <1>3, <1>4, <2>1, SweepMoves
  <2>2. CASE ~SweptByClaim(table[j], t)
    BY <1>4, <2>2 DEF Swept
  <2>3. QED
    BY <2>1, <2>2
<1>6. CASE Write(Sweep(t))
  BY <1>1, <1>4, <1>5, <1>6, WriteMoves
<1>7. CASE \E j \in ClaimCandidates(Sweep(t), Free, Handles[w], t) :
             Write([Sweep(t) EXCEPT ![j] = Claimed(Sweep(t)[j], w, t)])
  <2>1. PICK j \in Free :
          /\ Claimable(Sweep(t)[j], Handles[w], t)
          /\ Write([Sweep(t) EXCEPT ![j] = Claimed(Sweep(t)[j], w, t)])
    BY <1>7 DEF ClaimCandidates
  <2>2. j \in Jobs
    BY DEF Free
  <2>3. Sweep(t)[j] = table[j]
    BY <1>2, <1>3, <1>4, <2>1, <2>2, ClaimAfterSweep
  <2> DEFINE row == Claimed(table[j], w, t)
             tab == [Sweep(t) EXCEPT ![j] = row]
  <2>4. row \in Rows /\ Move(table[j], row)
    BY <1>2, <1>3, <2>1, <2>2, <2>3, ClaimedType, ClaimMoves
  <2>5. Write(tab)
    BY <2>1, <2>3
  <2> HIDE DEF row
  <2>6. /\ tab \in [Jobs -> Rows] /\ tab[j] = row
        /\ \A k \in Jobs \ {j} : tab[k] = Sweep(t)[k]
    BY <1>4, <2>2, <2>4
  <2> HIDE DEF tab
  <2>7. QED
    BY <1>1, <1>5, <2>1, <2>4, <2>5, <2>6, WriteMoves
<1>8. QED
  BY <1>1, <1>6, <1>7

LEMMA EndOperationMoves ==
  ASSUME StoreInv, NEW w \in Workers, NEW j \in Jobs,
         Complete(w, j) \/ Cancel(w, j) \/ RecordFailure(w, j)
  PROVE  StoreInv' /\ Moves
<1>1. table[j] \in Rows /\ RowInv(table[j]) /\ \A t \in Stamps : t \in Nat
  BY StampType DEF StoreInv, TypeOK
<1>2. CASE Complete(w, j) \/ Cancel(w, j)
  <2>1. PICK t \in Stamps, s \in {"succeeded", "cancelled"} :
          /\ j \in Free /\ table[j].status = "running"
          /\ s = "succeeded" => ~table[j].cancel_requested
          /\ WriteRow(j, Finished(table[j], s, t))
          /\ UNCHANGED <<clock, tx>>
    BY <1>2 DEF Complete, Cancel, OwnsLease
  <2>2. /\ Finished(table[j], s, t) \in Rows
        /\ Move(table[j], Finished(table[j], s, t))
    BY <1>1, <2>1, FinishedType, FinishMoves
  <2>3. QED
    BY <2>1, <2>2, WriteRowMoves
<1>3. CASE RecordFailure(w, j)
  <2>1. PICK t \in Stamps, b \in BOOLEAN, d \in RetryDelays :
          /\ j \in Free /\ table[j].status = "running"
          /\ WriteRow(j, FailureRecorded(table[j], b, t + d, t))
          /\ UNCHANGED <<clock, tx>>
    BY <1>3 DEF RecordFailure, FailureAccepted, OwnsLease
  <2>2. t \in Nat /\ t + d \in Nat
    BY <1>1, OutboxAssumption
  <2>3. /\ FailureRecorded(table[j], b, t + d, t) \in Rows
        /\ Move(table[j], FailureRecorded(table[j], b, t + d, t))
    BY <1>1, <2>1, <2>2, FailureRecordedType, FailureMoves
  <2>4. QED
    BY <2>1, <2>3, WriteRowMoves
<1>4. QED
  BY <1>2, <1>3

LEMMA CancellationOperationMoves ==
  ASSUME StoreInv, NEW j \in Jobs, RequestCancellation(j)
  PROVE  StoreInv' /\ Moves
<1>1. PICK t \in Stamps :
        /\ j \in Free /\ table[j].status \in Active
        /\ WriteRow(j, CancellationApplied(table[j], t))
        /\ UNCHANGED <<clock, tx>>
  BY DEF RequestCancellation
<1>2. t \in Nat /\ table[j] \in Rows /\ RowInv(table[j])
  BY StampType DEF StoreInv, TypeOK
<1>3. /\ CancellationApplied(table[j], t) \in Rows
      /\ Move(table[j], CancellationApplied(table[j], t))
  BY <1>1, <1>2, CancellationAppliedType, CancellationMoves
<1>4. QED
  BY <1>1, <1>3, WriteRowMoves

LEMMA CancellationByKeyMoves ==
  ASSUME StoreInv, NEW type \in JobTypes, NEW keys \in SUBSET Keys,
         RequestCancellationByKey(type, keys)
  PROVE  StoreInv' /\ Moves
<1>1. PICK t \in Stamps :
        /\ \A j \in Jobs : KeyMatches(table[j], type, keys) => j \in Free
        /\ Write([j \in Jobs |-> IF KeyMatches(table[j], type, keys)
                                 THEN CancellationApplied(table[j], t)
                                 ELSE table[j]])
        /\ UNCHANGED <<clock, tx>>
  BY DEF RequestCancellationByKey
<1>2. t \in Nat /\ \A j \in Jobs : table[j] \in Rows /\ RowInv(table[j])
  BY StampType DEF StoreInv, TypeOK
<1> DEFINE tab == [j \in Jobs |-> IF KeyMatches(table[j], type, keys)
                                  THEN CancellationApplied(table[j], t)
                                  ELSE table[j]]
<1>3. tab \in [Jobs -> Rows]
  BY <1>2, CancellationAppliedType
<1>4. ASSUME NEW j \in Jobs, KeyMatches(table[j], type, keys)
      PROVE  j \in Free /\ Move(table[j], tab[j])
  <2>1. Move(table[j], CancellationApplied(table[j], t))
    BY <1>2, <1>4, CancellationMoves DEF KeyMatches
  <2>2. QED
    BY <1>1, <1>4, <2>1
<1>5. ASSUME NEW j \in Jobs, ~KeyMatches(table[j], type, keys)
      PROVE  tab[j] = table[j]
  BY <1>5
<1>6. Write(tab)
  BY <1>1
<1> HIDE DEF tab
<1>7. QED
  BY <1>1, <1>3, <1>4, <1>5, <1>6, WriteMoves

LEMMA CleanupMoves ==
  ASSUME StoreInv, NEW batch \in BatchSizes, CleanupTerminalJobs(batch)
  PROVE  StoreInv' /\ Moves
<1>1. PICK deleted \in SUBSET Free :
        /\ \A j \in deleted : table[j].status \in Terminal
        /\ Write([j \in Jobs |-> IF j \in deleted THEN DeletedRow ELSE table[j]])
        /\ UNCHANGED <<clock, tx>>
  BY DEF CleanupTerminalJobs, CleanupEligible
<1>2. \A j \in Jobs : table[j] \in Rows /\ RowInv(table[j])
  BY DEF StoreInv, TypeOK
<1> DEFINE tab == [j \in Jobs |-> IF j \in deleted THEN DeletedRow ELSE table[j]]
<1>3. tab \in [Jobs -> Rows]
  BY <1>2, UnusedRowType
<1>4. ASSUME NEW j \in Jobs
      PROVE  \/ tab[j] = table[j]
             \/ j \in Free /\ Move(table[j], tab[j])
  BY <1>1, <1>2, DeleteMoves
<1>5. Write(tab)
  BY <1>1
<1> HIDE DEF tab
<1>6. QED
  BY <1>1, <1>3, <1>4, <1>5, WriteMoves

(***************************************************************************)
(* The handler's transaction.                                              *)
(***************************************************************************)
LEMMA LockMoves ==
  ASSUME StoreInv, TypeOK', NEW w \in Workers, NEW j \in Jobs,
         CheckLeaseInTransaction(w, j) \/ CompleteInTransaction(w, j)
  PROVE  StoreInv' /\ Moves
<1>1. PICK t \in Stamps, c \in BOOLEAN, at \in Nat :
        /\ OwnsLease(table[j], w, t, FALSE)
        /\ tx' = [tx EXCEPT ![j] = [owner |-> w, completed |-> c, at |-> at]]
        /\ UNCHANGED <<table, clock, rejected>>
  <2>1. \A t \in Stamps : t \in Nat
    BY StampType DEF StoreInv
  <2>2. QED
    BY <2>1 DEF CheckLeaseInTransaction, CompleteInTransaction
<1>2. /\ tx'[j].owner = w
      /\ \A k \in Jobs \ {j} : tx'[k] = tx[k]
  BY <1>1 DEF StoreInv, TypeOK
<1>3. w # None
  BY RowsAssumption
<1>4. HeldLeaseStable'
  BY <1>1, <1>2 DEF StoreInv, HeldLeaseStable, OwnsLease
<1>5. \A k \in Jobs : tx'[k].owner = None => tx'[k] = NoTx
  BY <1>2, <1>3 DEF StoreInv
<1>6. \A k \in Jobs : table'[k] = table[k] /\ RowInv(table[k]) /\ table[k] \in Rows
  BY <1>1 DEF StoreInv, TypeOK
<1>7. QED
  BY <1>4, <1>5, <1>6, StutterMoves DEF StoreInv, Moves

LEMMA UnlockMoves ==
  ASSUME StoreInv, TypeOK', NEW j \in Jobs,
         CommitTransaction(j) \/ RollbackTransaction(j)
  PROVE  StoreInv' /\ Moves
<1> DEFINE row == Finished(table[j], "succeeded", tx[j].at)
<1>1. tx[j].owner # None
  BY DEF CommitTransaction, RollbackTransaction, Free, StoreInv
<1>2. /\ table[j] \in Rows /\ RowInv(table[j]) /\ table[j].status = "running"
      /\ ~table[j].cancel_requested /\ tx[j].at \in Nat
  BY <1>1 DEF StoreInv, TypeOK, HeldLeaseStable, Txs
<1>3. Move(table[j], row)
  BY <1>2, FinishMoves
<1>4. /\ tx' = [tx EXCEPT ![j] = NoTx]
      /\ table' = table \/ table' = [table EXCEPT ![j] = row]
  BY DEF CommitTransaction, RollbackTransaction, WriteRow, Write
<1> HIDE DEF row
<1>5. /\ table'[j] \in {table[j], row}
      /\ \A k \in Jobs \ {j} : table'[k] = table[k]
      /\ tx'[j] = NoTx
      /\ \A k \in Jobs \ {j} : tx'[k] = tx[k]
  BY <1>4 DEF StoreInv, TypeOK
<1>6. Moves
  <2>1. \A k \in Jobs : RowInv(table[k]) /\ table[k] \in Rows
    BY DEF StoreInv, TypeOK
  <2>2. QED
    BY <1>3, <1>5, <2>1, StutterMoves DEF Moves
<1>7. \A k \in Jobs : RowInv(table'[k])
  BY <1>6 DEF Moves, Move
<1>8. HeldLeaseStable'
  BY <1>5 DEF StoreInv, HeldLeaseStable, NoTx
<1>9. \A k \in Jobs : tx'[k].owner = None => tx'[k] = NoTx
  BY <1>5 DEF StoreInv
<1>10. QED
  BY <1>6, <1>7, <1>8, <1>9 DEF StoreInv

-----------------------------------------------------------------------------
(***************************************************************************)
(* Every step keeps the invariant and moves the rows.                      *)
(***************************************************************************)
LEMMA InitStore == Init => StoreInv
<1> SUFFICES ASSUME Init PROVE StoreInv
  OBVIOUS
<1>1. TypeOK
  BY UnusedRowType, NoTxType DEF Init, TypeOK
<1>2. \A j \in Jobs : table[j] = UnusedRow /\ tx[j] = NoTx
  BY DEF Init
<1>3. RowInv(UnusedRow) /\ NoTx.owner = None
  BY DEF RowInv, UnusedRow, NoTx
<1>4. QED
  BY <1>1, <1>2, <1>3 DEF StoreInv, HeldLeaseStable

LEMMA NextStore ==
  ASSUME StoreInv, [Next]_vars
  PROVE  StoreInv' /\ Moves
<1>0. TypeOK'
  BY NextType DEF StoreInv
<1>1. ASSUME NEW j \in Jobs, Enqueue(j) \/ EnqueueDeduplicated(j)
      PROVE  StoreInv' /\ Moves
  BY <1>1, InsertMoves DEF Enqueue, EnqueueDeduplicated
<1>2. ASSUME NEW w \in Workers, Claim(w)
      PROVE  StoreInv' /\ Moves
  BY <1>2, ClaimOperationMoves
<1>3. ASSUME NEW w \in Workers, NEW j \in Jobs,
             Complete(w, j) \/ Cancel(w, j) \/ RecordFailure(w, j)
      PROVE  StoreInv' /\ Moves
  BY <1>3, EndOperationMoves
<1>4. ASSUME NEW w \in Workers, NEW j \in Jobs,
             CheckLeaseInTransaction(w, j) \/ CompleteInTransaction(w, j)
      PROVE  StoreInv' /\ Moves
  BY <1>0, <1>4, LockMoves
<1>5. ASSUME NEW j \in Jobs, CommitTransaction(j) \/ RollbackTransaction(j)
      PROVE  StoreInv' /\ Moves
  BY <1>0, <1>5, UnlockMoves
<1>6. ASSUME NEW j \in Jobs, RequestCancellation(j)
      PROVE  StoreInv' /\ Moves
  BY <1>6, CancellationOperationMoves
<1>7. ASSUME NEW type \in JobTypes, NEW keys \in SUBSET Keys,
             RequestCancellationByKey(type, keys)
      PROVE  StoreInv' /\ Moves
  BY <1>7, CancellationByKeyMoves
<1>8. ASSUME NEW batch \in BatchSizes, CleanupTerminalJobs(batch)
      PROVE  StoreInv' /\ Moves
  BY <1>8, CleanupMoves
<1>9. CASE Tick \/ UNCHANGED vars
  BY <1>0, <1>9, NoMoves DEF Tick, vars
<1>10. QED
  BY <1>1, <1>2, <1>3, <1>4, <1>5, <1>6, <1>7, <1>8, <1>9 DEF Next

LEMMA StoreInvariant == Spec => []StoreInv
<1>1. StoreInv /\ [Next]_vars => StoreInv'
  BY NextStore
<1>2. QED
  BY <1>1, InitStore, PTL DEF Spec

(***************************************************************************)
(* While a handler's transaction holds a row lock, the lease it checked    *)
(* stays its own and stays uncancelled, however long it is open.           *)
(***************************************************************************)
THEOREM LeaseStableUnderLock == Spec => []HeldLeaseStable
<1>1. StoreInv => HeldLeaseStable
  BY DEF StoreInv
<1>2. QED
  BY <1>1, StoreInvariant, PTL

(***************************************************************************)
(* A row that was ever claimed has given up its pending key for good.      *)
(***************************************************************************)
THEOREM PendingKeyReleased == Spec => []PendingKeyBeforeFirstClaim
<1>1. StoreInv => PendingKeyBeforeFirstClaim
  BY DEF StoreInv, RowInv, PendingKeyBeforeFirstClaim
<1>2. QED
  BY <1>1, StoreInvariant, PTL

(***************************************************************************)
(* A job is reported out of attempts only when every attempt was used: by  *)
(* record_failure, by the sweep of a claim, and after a refused write.     *)
(***************************************************************************)
THEOREM ReasonIsTrue == Spec => []ReasonMatchesAttempts
<1>1. StoreInv => ReasonMatchesAttempts
  BY DEF StoreInv, RowInv, ReasonMatchesAttempts
<1>2. QED
  BY <1>1, StoreInvariant, PTL

(***************************************************************************)
(* An attempt whose cancellation was accepted never ends in success.       *)
(***************************************************************************)
THEOREM CancelledNeverSucceeds == Spec => NeverSucceedsOnceCancelled
<1>1. StoreInv /\ [Next]_vars =>
        [\A j \in Jobs :
           table[j].cancel_requested => table'[j].status # "succeeded"]_vars
  BY NextStore DEF Moves, Move
<1>2. QED
  BY <1>1, StoreInvariant, PTL DEF Spec, NeverSucceedsOnceCancelled

(***************************************************************************)
(* The store implements the lifecycle of every job: attempts are counted   *)
(* and bounded, terminal statuses are final, and cleanup alone deletes.    *)
(***************************************************************************)
THEOREM StoreImplementsLifecycle == Spec => ImplementsLifecycle
<1>1. Init => Lifecycle!Init
  BY DEF Init, UnusedRow, Lifecycle!Init, Lifecycle!Unborn
<1>2. StoreInv /\ [Next]_vars => [Lifecycle!Next]_(Lifecycle!vars)
  <2> SUFFICES ASSUME StoreInv, [Next]_vars
               PROVE  Lifecycle!Next
    OBVIOUS
  <2>1. Moves /\ TypeOK'
    BY NextStore DEF StoreInv
  <2> DEFINE life == [j \in Jobs |-> LifeOf(table[j])]
             life1 == [j \in Jobs |-> LifeOf(table'[j])]
  <2>2. \A j \in Jobs : life1[j] \in Lifecycle!Lives
    BY <2>1 DEF TypeOK, LifeOf, Rows, Lifecycle!Lives, Lifecycle!Ended
  <2>3. \A j \in Jobs : life1[j] = life[j] \/ Lifecycle!JobStep(life[j], life1[j])
    BY <2>1 DEF Moves, Move
  <2>4. QED
    BY <2>2, <2>3 DEF Lifecycle!Next, LifeOf
<1>3. QED
  BY <1>1, <1>2, StoreInvariant, PTL DEF Spec, ImplementsLifecycle, Lifecycle!Spec
=============================================================================
