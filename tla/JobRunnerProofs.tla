-------------------------- MODULE JobRunnerProofs --------------------------
(***************************************************************************)
(* Theorems about JobRunner for every number of jobs, workers and attempts *)
(* per worker, every timeout, retry delay and latency of a store call, and *)
(* any number of faults and cancellation requests.                         *)
(***************************************************************************)
EXTENDS JobRunner, TLAPS

USE DEF Terminal, Active, NoRow, Statuses

-----------------------------------------------------------------------------
(***************************************************************************)
(* The first invariant: what the table and the attempts know of each other *)
(* whatever the lease.  A job an attempt holds is a row, the timestamp of  *)
(* its outcome is not before the row's creation, and a handler that        *)
(* committed finds its success in the table for ever.                      *)
(***************************************************************************)
Writing == {"settling", "checking", "cancelling", "orphaned"}

SoundRow(row) ==
  /\ GoodRow(row)
  /\ row.created_at <= Now
  /\ row.status = "running" => row.created_at <= row.locked_until

SoundTable(tab) ==
  /\ tab \in [Jobs -> Rows]
  /\ Constraints(tab)
  /\ \A j \in Jobs : SoundRow(tab[j])

SoundAttempt(tab, a) ==
  /\ a.phase # "idle" => a.job \in Jobs /\ tab[a.job].status \notin NoRow
  /\ a.phase \in Writing => tab[a.job].created_at <= a.at
  /\ a.committed => a.job \in Jobs /\ tab[a.job].status = "succeeded"
  /\ a.marked => a.committed

SoundClaim(tab, c) ==
  c.phase = "returned" => c.job \in Jobs /\ tab[c.job].status \notin NoRow

RowsInv ==
  /\ TypeOK
  /\ SoundTable(table)
  /\ \A w \in Workers : SoundClaim(table, claim[w])
  /\ \A w \in Workers, s \in Slots : SoundAttempt(table, att[w][s])

\* What attempts and claims rely on when a row changes from a to b.
RowKept(a, b) ==
  /\ a.status \notin NoRow => b.status \notin NoRow /\ b.created_at <= a.created_at
  /\ a.status = "succeeded" => b.status = "succeeded"

Advances(tab, new) ==
  SoundTable(new) /\ \A j \in Jobs : RowKept(tab[j], new[j])

-----------------------------------------------------------------------------
(***************************************************************************)
(* The window of time.                                                     *)
(***************************************************************************)
LEMMA Window == Oldest = 1 /\ Now \in Nat /\ Now = Oldest + MaxDelay /\ Oldest <= Now
BY RunnerAssumption DEF Oldest, Now

LEMMA AgedMonotone ==
  ASSUME NEW x \in Nat, NEW y \in Nat
  PROVE  /\ Aged(x) \in Nat /\ Aged(x) <= x
         /\ x <= y => Aged(x) <= Aged(y)
         /\ x = 0 <=> Aged(x) = 0
BY Window DEF Aged

LEMMA IdleType == Idle \in Attempts /\ NoClaim \in Claims
BY DEF Idle, Attempts, NoClaim, Claims, NoJob

-----------------------------------------------------------------------------
(***************************************************************************)
(* Tables.                                                                 *)
(***************************************************************************)
\* A row that stays as it is makes a good step.
LEMMA StutterStep ==
  ASSUME NEW row \in Rows, GoodRow(row)
  PROVE  GoodStep(row, row)
<1>1. StepAt(row, row, 0)
  BY GoodStutter
<1>2. QED
  BY <1>1 DEF StepAt, GoodStep, GoodRow

LEMMA WriteAdvances ==
  ASSUME NEW tab, SoundTable(tab), NEW j \in Jobs, NEW row \in Rows,
         GoodStep(tab[j], row), RowKept(tab[j], row),
         row.status = "running" => row.created_at <= row.locked_until
  PROVE  Advances(tab, [tab EXCEPT ![j] = row])
<1> DEFINE new == [tab EXCEPT ![j] = row]
<1>1. /\ new \in [Jobs -> Rows] /\ new[j] = row
      /\ \A k \in Jobs \ {j} : new[k] = tab[k]
  BY DEF SoundTable
<1> HIDE DEF new
<1>2. \A k \in Jobs : tab[k] \in Rows /\ SoundRow(tab[k])
  BY DEF SoundTable
<1>3. \A k \in Jobs : GoodStep(tab[k], new[k])
  BY <1>1, <1>2, StutterStep DEF SoundRow
<1>4. Constraints(new)
  BY <1>1, <1>3, GoodTable DEF SoundTable
<1>5. SoundRow(row)
  <2>1. row.created_at \in Nat /\ tab[j].created_at \in Nat
    BY <1>2 DEF Rows
  <2>2. QED
    BY <1>2, <2>1, Window DEF SoundRow, GoodStep, GoodRow, FitStep
<1>6. \A k \in Jobs : RowKept(tab[k], new[k])
  BY <1>1, <1>2 DEF RowKept, Rows
<1>7. Advances(tab, new)
  BY <1>1, <1>2, <1>4, <1>5, <1>6 DEF Advances, SoundTable
<1>8. QED
  BY <1>7 DEF new

LEMMA StutterAdvances ==
  ASSUME NEW tab, SoundTable(tab)
  PROVE  Advances(tab, tab)
BY DEF Advances, SoundTable, RowKept, Rows

\* An enqueue.
LEMMA InsertAdvances ==
  ASSUME NEW tab, SoundTable(tab), NEW j \in Jobs, tab[j].status = "unused",
         NEW row \in Rows, SoundRow(row),
         \A k \in Jobs : ~Collides(row, tab[k])
  PROVE  Advances(tab, [tab EXCEPT ![j] = row])
<1>1. Constraints([tab EXCEPT ![j] = row])
  BY InsertTable DEF SoundTable, SoundRow
<1> DEFINE new == [tab EXCEPT ![j] = row]
<1>2. /\ new \in [Jobs -> Rows] /\ new[j] = row
      /\ \A k \in Jobs \ {j} : new[k] = tab[k]
  BY DEF SoundTable
<1> HIDE DEF new
<1>3. \A k \in Jobs : SoundRow(new[k])
  BY <1>2 DEF SoundTable
<1>4. \A k \in Jobs : RowKept(tab[k], new[k])
  BY <1>2 DEF RowKept, SoundTable, Rows
<1>5. Advances(tab, new)
  BY <1>1, <1>2, <1>3, <1>4 DEF Advances, SoundTable, new
<1>6. QED
  BY <1>5 DEF new

\* The writes of an attempt that owns its lease.
LEMMA FinishAdvances ==
  ASSUME NEW tab, SoundTable(tab), NEW j \in Jobs, NEW t \in Nat,
         tab[j].status = "running", tab[j].created_at <= t,
         NEW s \in {"succeeded", "cancelled"}
  PROVE  Advances(tab, [tab EXCEPT ![j] = Finished(tab[j], s, t)])
<1>1. tab[j] \in Rows /\ GoodRow(tab[j])
  BY DEF SoundTable, SoundRow
<1> DEFINE row == Finished(tab[j], s, t)
<1>2. row \in Rows /\ GoodStep(tab[j], row)
  BY <1>1, FinishedType, GoodFinish, InTime
<1>3. row.status = s /\ row.created_at = tab[j].created_at
  BY <1>1 DEF Finished, Released, Rows
<1> HIDE DEF row
<1>4. RowKept(tab[j], row)
  BY <1>1, <1>3 DEF RowKept, Rows
<1>5. Advances(tab, [tab EXCEPT ![j] = row])
  BY <1>2, <1>3, <1>4, WriteAdvances
<1>6. QED
  BY <1>5 DEF row

LEMMA FailureAdvances ==
  ASSUME NEW tab, SoundTable(tab), NEW j \in Jobs, NEW t \in Nat, NEW r \in Nat,
         tab[j].status = "running", tab[j].created_at <= t, NEW b \in BOOLEAN
  PROVE  Advances(tab, [tab EXCEPT ![j] = FailureRecorded(tab[j], b, r, t)])
<1>1. tab[j] \in Rows /\ GoodRow(tab[j])
  BY DEF SoundTable, SoundRow
<1> DEFINE row == FailureRecorded(tab[j], b, r, t)
<1>2. row \in Rows /\ GoodStep(tab[j], row)
  BY <1>1, FailureRecordedType, GoodFailure, InTime
<1>3. row.status \in {"pending", "failed"} /\ row.created_at = tab[j].created_at
  BY <1>1 DEF FailureRecorded, Released, Rows
<1> HIDE DEF row
<1>4. RowKept(tab[j], row)
  BY <1>1, <1>3 DEF RowKept, Rows
<1>5. Advances(tab, [tab EXCEPT ![j] = row])
  BY <1>2, <1>3, <1>4, WriteAdvances
<1>6. QED
  BY <1>5 DEF row

LEMMA OutcomeAdvances ==
  ASSUME NEW tab, SoundTable(tab), NEW j \in Jobs, NEW t \in Nat,
         tab[j].status = "running", tab[j].created_at <= t, NEW verdict
  PROVE  Advances(tab, [tab EXCEPT ![j] = Outcome(tab[j], verdict, t)])
<1>1. CASE verdict = "ok"
  BY <1>1, FinishAdvances DEF Outcome
<1>2. CASE verdict = "cancelled"
  BY <1>2, FinishAdvances DEF Outcome
<1>3. CASE verdict # "ok" /\ verdict # "cancelled"
  <2>1. Outcome(tab[j], verdict, t)
          = FailureRecorded(tab[j], verdict = "retry", t + RetryDelay, t)
    BY <1>3 DEF Outcome
  <2>2. t + RetryDelay \in Nat /\ (verdict = "retry") \in BOOLEAN
    BY RunnerAssumption
  <2>3. \A b \in BOOLEAN :
          Advances(tab, [tab EXCEPT ![j] =
                           FailureRecorded(tab[j], b, t + RetryDelay, t)])
    BY <2>2, FailureAdvances
  <2>4. QED
    BY <2>1, <2>2, <2>3, Zenon
<1>4. QED
  BY <1>1, <1>2, <1>3

\* A caller that cancels.
LEMMA CancellationAdvances ==
  ASSUME NEW tab, SoundTable(tab), NEW j \in Jobs, tab[j].status \in Active
  PROVE  Advances(tab, [tab EXCEPT ![j] = CancellationApplied(tab[j], Now)])
<1>1. /\ tab[j] \in Rows /\ SoundRow(tab[j]) /\ GoodRow(tab[j])
      /\ tab[j].created_at <= Now
  BY DEF SoundTable, SoundRow
<1> DEFINE row == CancellationApplied(tab[j], Now)
<1>2. row \in Rows /\ GoodStep(tab[j], row)
  BY <1>1, Window, CancellationAppliedType, GoodCancellation, InTime
<1>3. /\ row.status \notin NoRow /\ row.created_at = tab[j].created_at
      /\ row.status = "running" =>
           tab[j].status = "running" /\ row.locked_until = tab[j].locked_until
  BY <1>1 DEF CancellationApplied, Released, Rows
<1> HIDE DEF row
<1>4. RowKept(tab[j], row)
  BY <1>1, <1>3 DEF RowKept, Rows
<1>5. row.status = "running" => row.created_at <= row.locked_until
  BY <1>1, <1>3 DEF SoundRow
<1>6. Advances(tab, [tab EXCEPT ![j] = row])
  BY <1>2, <1>4, <1>5, WriteAdvances
<1>7. QED
  BY <1>6 DEF row

\* The sweeps of a claim: a row whose lease expired by t was created by t.
LEMMA SweepAdvances ==
  ASSUME SoundTable(table), NEW t \in Nat
  PROVE  Advances(table, Sweep(t))
<1>1. /\ Sweep(t) \in [Jobs -> Rows]
      /\ \A j \in Jobs : Sweep(t)[j] = Swept(table[j], t)
  BY SweptType DEF Sweep, SoundTable
<1>2. ASSUME NEW row \in Rows, SoundRow(row)
      PROVE  /\ GoodStep(row, Swept(row, t))
             /\ RowKept(row, Swept(row, t))
             /\ SoundRow(Swept(row, t))
  <2>1. CASE ~SweptByClaim(row, t)
    <3>1. Swept(row, t) = row
      BY <2>1 DEF Swept
    <3>2. QED
      BY <1>2, <3>1, StutterStep DEF SoundRow, RowKept, Rows
  <2>2. CASE SweptByClaim(row, t)
    <3>1. row.status = "running" /\ row.locked_until <= t
      BY <2>2 DEF SweptByClaim, Expired
    <3>2. row.created_at \in Nat /\ row.locked_until \in Nat
      BY DEF Rows
    <3>3. row.created_at <= t
      BY <1>2, <3>1, <3>2 DEF SoundRow
    <3>4. GoodStep(row, Swept(row, t))
      BY <1>2, <3>3, GoodSweep, InTime DEF SoundRow
    <3>5. /\ Swept(row, t).created_at = row.created_at
          /\ Swept(row, t).status \in {"cancelled", "failed"}
      <4>1. CASE row.cancel_requested
        <5>1. Swept(row, t) = Released(row, "cancelled", t)
          BY <2>2, <4>1 DEF Swept
        <5>2. QED
          BY <5>1 DEF Released, Rows
      <4>2. CASE ~row.cancel_requested
        <5>1. Swept(row, t) = [Released(row, "failed", t) EXCEPT
                                 !.failure_reason = "attempts_exhausted"]
          BY <2>2, <4>2 DEF Swept
        <5>2. QED
          BY <5>1 DEF Released, Rows
      <4>3. QED
        BY <4>1, <4>2
    <3>6. QED
      BY <1>2, <3>1, <3>2, <3>4, <3>5 DEF SoundRow, RowKept, GoodStep, FitStep, GoodRow
  <2>3. QED
    BY <2>1, <2>2
<1>3. \A j \in Jobs : table[j] \in Rows /\ SoundRow(table[j])
  BY DEF SoundTable
<1>4. Constraints(Sweep(t))
  BY <1>1, <1>2, <1>3, GoodTable DEF SoundTable
<1>5. QED
  BY <1>1, <1>2, <1>3, <1>4 DEF Advances, SoundTable

\* The selection after the sweeps, when the constraints admit it.
LEMMA ClaimAdvances ==
  ASSUME SoundTable(table), NEW t \in Nat, NEW w \in Workers,
         NEW j \in Candidates(t), Constraints(Taken(j, w, t))
  PROVE  /\ j \in Jobs /\ Sweep(t)[j] = table[j]
         /\ Claimable(table[j], JobTypes, t)
         /\ Advances(table, Taken(j, w, t))
<1>1. j \in Jobs /\ Claimable(Sweep(t)[j], JobTypes, t)
  BY DEF Candidates, ClaimCandidates
<1>2. /\ Sweep(t) \in [Jobs -> Rows]
      /\ \A k \in Jobs : RowKept(table[k], Sweep(t)[k]) /\ SoundRow(Sweep(t)[k])
  BY SweepAdvances DEF Advances, SoundTable
<1>3. table[j] \in Rows /\ Sweep(t)[j] = Swept(table[j], t)
  BY <1>1 DEF Sweep, SoundTable
<1>4. Sweep(t)[j] = table[j]
  BY <1>1, <1>3, ClaimAfterSweep
<1> DEFINE row == Claimed(table[j], w, t)
           new == [Sweep(t) EXCEPT ![j] = row]
<1>5. row \in Rows
  BY <1>3, ClaimedType
<1>6. /\ row.status = "running" /\ row.locked_until = t + Lease
      /\ row.updated_at = t /\ row.created_at = table[j].created_at
      /\ row.attempts = table[j].attempts + 1
      /\ row.pending_dedupe_key = None
  BY <1>3 DEF Claimed, Rows
<1>7. Constraints(new)
  BY <1>4 DEF Taken
<1> HIDE DEF row
<1>8. /\ new \in [Jobs -> Rows] /\ new[j] = row
      /\ \A k \in Jobs \ {j} : new[k] = Sweep(t)[k]
  BY <1>1, <1>2, <1>5
<1> HIDE DEF new
<1>9. SoundRow(row)
  <2>1. ShapeChecks(row) /\ Timely(row)
    BY <1>1, <1>7, <1>8 DEF Constraints, Shaped
  <2>2. /\ row.created_at \in Nat /\ row.attempts \in Nat
        /\ table[j].attempts \in Nat /\ Lease \in Nat
    BY <1>3, <1>5, RowsAssumption DEF Rows
  <2>3. GoodRow(row)
    BY <1>6, <2>1, <2>2 DEF GoodRow, FitRow
  <2>4. row.created_at <= t /\ row.created_at <= Now
    BY <1>1, <1>2, <1>4, <1>6, <2>1 DEF Timely, SoundRow
  <2>5. QED
    BY <1>6, <2>2, <2>3, <2>4 DEF SoundRow
<1>10. RowKept(table[j], row)
  <2>1. table[j].status \in {"pending", "running"}
    BY <1>1, <1>4 DEF Claimable, Expired
  <2>2. QED
    BY <1>3, <1>6, <2>1 DEF RowKept, Rows
<1>11. Advances(table, new)
  BY <1>2, <1>7, <1>8, <1>9, <1>10 DEF Advances, SoundTable
<1>12. QED
  BY <1>1, <1>4, <1>11 DEF new, row, Taken

\* A tick: instants keep their order.
AgedRow(row) == [row EXCEPT !.run_after = Aged(@), !.locked_until = Aged(@),
                            !.created_at = Aged(@), !.updated_at = Aged(@)]

LEMMA AgedRowFields ==
  ASSUME NEW row \in Rows
  PROVE  /\ AgedRow(row) \in Rows
         /\ AgedRow(row).status = row.status
         /\ AgedRow(row).job_type = row.job_type
         /\ AgedRow(row).attempts = row.attempts
         /\ AgedRow(row).max_attempts = row.max_attempts
         /\ AgedRow(row).locked_by = row.locked_by
         /\ AgedRow(row).locked_until = Aged(row.locked_until)
         /\ AgedRow(row).idempotency_key = row.idempotency_key
         /\ AgedRow(row).dedupe_key = row.dedupe_key
         /\ AgedRow(row).pending_dedupe_key = row.pending_dedupe_key
         /\ AgedRow(row).failure_reason = row.failure_reason
         /\ AgedRow(row).cancel_requested = row.cancel_requested
         /\ AgedRow(row).created_at = Aged(row.created_at)
         /\ AgedRow(row).updated_at = Aged(row.updated_at)
<1>1. \A x \in Nat : Aged(x) \in Nat
  BY AgedMonotone
<1>2. QED
  BY <1>1 DEF AgedRow, Rows

LEMMA TickAdvances ==
  ASSUME SoundTable(table), NEW new \in [Jobs -> Rows],
         \A j \in Jobs : new[j] = AgedRow(table[j])
  PROVE  Advances(table, new)
<1>1. ASSUME NEW j \in Jobs
      PROVE  GoodStep(table[j], new[j]) /\ SoundRow(new[j]) /\ RowKept(table[j], new[j])
  <2> DEFINE row == table[j]
  <2>1. row \in Rows /\ SoundRow(row) /\ new[j] = AgedRow(row)
    BY <1>1 DEF SoundTable
  <2> HIDE DEF row
  <2>2. /\ row.locked_until \in Nat /\ row.created_at \in Nat /\ row.updated_at \in Nat
    BY <2>1 DEF Rows
  <2>3. /\ Aged(row.created_at) \in Nat /\ Aged(row.created_at) <= row.created_at
        /\ Aged(row.locked_until) \in Nat /\ Aged(row.updated_at) \in Nat
        /\ row.locked_until = 0 <=> Aged(row.locked_until) = 0
        /\ row.created_at <= row.updated_at =>
             Aged(row.created_at) <= Aged(row.updated_at)
        /\ row.created_at <= row.locked_until =>
             Aged(row.created_at) <= Aged(row.locked_until)
    BY <2>2, AgedMonotone
  <2>4. ShapeChecks(row) /\ Timely(row)
    BY <2>1 DEF SoundRow, GoodRow, FitRow
  <2>5. ShapeChecks(new[j]) /\ Timely(new[j])
    BY <2>1, <2>2, <2>3, <2>4, AgedRowFields DEF ShapeChecks, Timely
  <2>6. GoodRow(new[j])
    BY <2>1, <2>5, AgedRowFields DEF GoodRow, FitRow, SoundRow
  <2>7. GoodStep(row, new[j])
    BY <2>1, <2>3, <2>6, AgedRowFields DEF GoodStep, GoodRow, FitStep, Narrower
  <2>8. SoundRow(new[j])
    BY <2>1, <2>2, <2>3, <2>6, AgedRowFields, Window DEF SoundRow
  <2>9. RowKept(row, new[j])
    BY <2>1, <2>3, AgedRowFields DEF RowKept
  <2>10. QED
    BY <2>7, <2>8, <2>9 DEF row
<1>2. Constraints(new)
  BY <1>1, GoodTable DEF SoundTable
<1>3. QED
  BY <1>1, <1>2 DEF Advances, SoundTable

-----------------------------------------------------------------------------
(***************************************************************************)
(* Attempts and claims when the table advances.                            *)
(***************************************************************************)
LEMMA AttemptKept ==
  ASSUME NEW new, Advances(table, new), SoundTable(table),
         NEW a \in Attempts, SoundAttempt(table, a)
  PROVE  SoundAttempt(new, a)
<1>1. a.job \in Jobs => /\ RowKept(table[a.job], new[a.job])
                        /\ table[a.job].created_at \in Nat
                        /\ new[a.job].created_at \in Nat
  BY DEF Advances, SoundTable, Rows
<1>2. a.at \in Nat
  BY DEF Attempts
<1>3. QED
  BY <1>1, <1>2 DEF SoundAttempt, RowKept, Writing

LEMMA ClaimKept ==
  ASSUME NEW new, Advances(table, new), NEW c \in Claims, SoundClaim(table, c)
  PROVE  SoundClaim(new, c)
BY DEF Advances, SoundClaim, RowKept

\* A step after which every attempt and claim is an old one or a sound one.
LEMMA Frame ==
  ASSUME RowsInv, TypeOK', Advances(table, table'),
         \A w \in Workers : claim'[w] = claim[w] \/ SoundClaim(table', claim'[w]),
         \A w \in Workers, s \in Slots :
           att'[w][s] = att[w][s] \/ SoundAttempt(table', att'[w][s])
  PROVE  RowsInv'
<1>1. SoundTable(table')
  BY DEF Advances
<1>2. \A w \in Workers : SoundClaim(table', claim'[w])
  BY ClaimKept DEF RowsInv, TypeOK
<1>3. \A w \in Workers, s \in Slots : SoundAttempt(table', att'[w][s])
  BY AttemptKept DEF RowsInv, TypeOK
<1>4. QED
  BY <1>1, <1>2, <1>3 DEF RowsInv

\* A step of one attempt.
LEMMA FrameAttempt ==
  ASSUME RowsInv, Advances(table, table'), NEW w \in Workers, NEW s \in Slots,
         NEW a \in Attempts, SetAttempt(w, s, a), SoundAttempt(table', a),
         UNCHANGED <<mode, claim, abandoned, requests>>, faults' \in 0..MaxFaults
  PROVE  RowsInv'
<1>1. att' \in [Workers -> [Slots -> Attempts]]
  BY DEF RowsInv, TypeOK, SetAttempt
<1>2. TypeOK'
  BY <1>1 DEF RowsInv, TypeOK, Advances, SoundTable
<1>3. \A v \in Workers, r \in Slots :
        att'[v][r] = att[v][r] \/ att'[v][r] = a
  BY DEF RowsInv, TypeOK, SetAttempt
<1>4. QED
  BY <1>2, <1>3, Frame

LEMMA TableStutters ==
  ASSUME RowsInv, UNCHANGED table
  PROVE  Advances(table, table')
BY StutterAdvances DEF RowsInv

LEMMA IdleSound == \A tab : SoundAttempt(tab, Idle) /\ SoundClaim(tab, NoClaim)
BY DEF SoundAttempt, SoundClaim, Idle, NoClaim, Writing

-----------------------------------------------------------------------------
(***************************************************************************)
(* Every action keeps the invariant.                                       *)
(***************************************************************************)
LEMMA EnqueueRows ==
  ASSUME RowsInv, NEW j \in Jobs, Enqueue(j)
  PROVE  RowsInv'
<1> DEFINE row(new) == InsertedRow(
             [job_type |-> new.job_type, max_attempts |-> new.max_attempts,
              run_after |-> ScheduledAt(new.delay),
              mode |-> new.mode, key |-> new.key], Now)
<1>1. PICK new \in NewJobs :
        /\ \A k \in Jobs : ~Collides(row(new), table[k])
        /\ table' = [table EXCEPT ![j] = row(new)]
  BY DEF Enqueue, SetRow
<1>2. /\ table[j].status = "unused"
      /\ UNCHANGED <<mode, claim, abandoned, att, faults, requests>>
  BY DEF Enqueue
<1>3. ScheduledAt(new.delay) \in Nat /\ Now \in Nat
  BY Window, RunnerAssumption DEF ScheduledAt
<1>4. row(new) \in Rows /\ GoodRow(row(new))
  BY <1>3, InsertedRowType, GoodInsert, RunnerAssumption
<1>5. row(new).status = "pending" /\ row(new).created_at = Now
  BY DEF InsertedRow
<1>6. SoundRow(row(new))
  BY <1>3, <1>4, <1>5 DEF SoundRow
<1> HIDE DEF row
<1>7. Advances(table, table')
  BY <1>1, <1>2, <1>4, <1>6, InsertAdvances DEF RowsInv
<1>8. TypeOK'
  BY <1>2, <1>7 DEF RowsInv, TypeOK, Advances, SoundTable
<1>9. QED
  BY <1>2, <1>7, <1>8, Frame

LEMMA RequestCancellationRows ==
  ASSUME RowsInv, NEW j \in Jobs, RequestCancellation(j)
  PROVE  RowsInv'
<1>1. Advances(table, table')
  BY CancellationAdvances DEF RequestCancellation, SetRow, RowsInv
<1>2. requests' \in 0..MaxRequests
  BY RunnerAssumption DEF RequestCancellation, RowsInv, TypeOK
<1>3. UNCHANGED <<mode, claim, abandoned, att, faults>>
  BY DEF RequestCancellation
<1>4. TypeOK'
  BY <1>1, <1>2, <1>3 DEF RowsInv, TypeOK, Advances, SoundTable
<1>5. QED
  BY <1>1, <1>3, <1>4, Frame

LEMMA CallClaimRows ==
  ASSUME RowsInv, NEW w \in Workers, CallClaim(w)
  PROVE  RowsInv'
<1> DEFINE c == [NoClaim EXCEPT !.phase = "called", !.at = Now]
<1>1. c \in Claims /\ c.phase = "called"
  BY Window, IdleType DEF NoClaim, Claims
<1>2. /\ claim' = [claim EXCEPT ![w] = c]
      /\ UNCHANGED <<table, mode, abandoned, att, faults, requests>>
  BY DEF CallClaim
<1> HIDE DEF c
<1>3. TypeOK'
  BY <1>1, <1>2 DEF RowsInv, TypeOK
<1>4. \A v \in Workers : claim'[v] = claim[v] \/ SoundClaim(table', claim'[v])
  BY <1>1, <1>2 DEF RowsInv, TypeOK, SoundClaim
<1>5. QED
  BY <1>2, <1>3, <1>4, TableStutters, Frame

LEMMA ExecuteClaimRows ==
  ASSUME RowsInv, NEW w \in Workers, ExecuteClaim(w)
  PROVE  RowsInv'
<1> DEFINE t == claim[w].at
           got(j) == [phase |-> "returned", at |-> t, job |-> j,
                      number |-> table[j].attempts + 1]
           refused == [NoClaim EXCEPT !.phase = "refused"]
<1>1. t \in Nat
  BY DEF RowsInv, TypeOK, Claims
<1>2. UNCHANGED <<mode, abandoned, att, faults, requests>>
  BY DEF ExecuteClaim
<1>3. ASSUME NEW c \in Claims, claim' = [claim EXCEPT ![w] = c],
             Advances(table, table'), SoundClaim(table', c)
      PROVE  RowsInv'
  <2>1. TypeOK'
    BY <1>2, <1>3 DEF RowsInv, TypeOK, Advances, SoundTable
  <2>2. \A v \in Workers : claim'[v] = claim[v] \/ SoundClaim(table', claim'[v])
    BY <1>3 DEF RowsInv, TypeOK
  <2>3. QED
    BY <1>2, <1>3, <2>1, <2>2, Frame
<1>4. CASE table' = Sweep(t) /\ claim' = [claim EXCEPT ![w] = NoClaim]
  BY <1>1, <1>3, <1>4, SweepAdvances, IdleType, IdleSound DEF RowsInv
<1>5. ASSUME NEW j \in Candidates(t), Constraints(Taken(j, w, t)),
             table' = Taken(j, w, t), claim' = [claim EXCEPT ![w] = got(j)]
      PROVE  RowsInv'
  <2>1. /\ j \in Jobs /\ Claimable(table[j], JobTypes, t)
        /\ Advances(table, table')
    BY <1>1, <1>5, ClaimAdvances DEF RowsInv
  <2>2. got(j) \in Claims
    BY <1>1, <2>1 DEF RowsInv, TypeOK, Claims, Rows
  <2>3. table[j].status \notin NoRow
    BY <2>1 DEF Claimable, Expired
  <2>4. table'[j].status \notin NoRow
    BY <2>1, <2>3 DEF Advances, RowKept
  <2>5. SoundClaim(table', got(j))
    BY <2>1, <2>4 DEF SoundClaim
  <2> HIDE DEF got
  <2>6. QED
    BY <1>3, <1>5, <2>1, <2>2, <2>5
<1>6. CASE UNCHANGED table /\ claim' = [claim EXCEPT ![w] = refused]
  <2>1. refused \in Claims /\ SoundClaim(table', refused)
    BY DEF NoClaim, NoJob, Claims, SoundClaim
  <2> HIDE DEF refused
  <2>2. QED
    BY <1>3, <1>6, <2>1, TableStutters
<1>7. QED
  BY <1>4, <1>5, <1>6 DEF ExecuteClaim

\* What an abandoned claim may do to the table.
LEMMA AbandonedWrites ==
  ASSUME NEW w \in Workers, NEW t \in Oldest..Now, ExecuteAbandoned(w, t)
  PROVE  /\ \/ table' = table \/ table' = Sweep(t)
            \/ \E j \in Candidates(t) :
                 Constraints(Taken(j, w, t)) /\ table' = Taken(j, w, t)
         /\ abandoned[w][t] > 0
         /\ abandoned' = [abandoned EXCEPT ![w][t] = @ - 1]
         /\ UNCHANGED <<mode, claim, att, faults, requests>>
BY DEF ExecuteAbandoned

LEMMA ExecuteAbandonedRows ==
  ASSUME RowsInv, NEW w \in Workers, NEW t \in Oldest..Now, ExecuteAbandoned(w, t)
  PROVE  RowsInv'
<1>1. t \in Nat
  BY Window
<1>2. Advances(table, table')
  BY <1>1, AbandonedWrites, SweepAdvances, ClaimAdvances, StutterAdvances DEF RowsInv
<1>3. abandoned' \in [Workers -> Calls]
  <2>1. abandoned[w] \in Calls /\ abandoned[w][t] - 1 \in Nat
    <3>1. abandoned[w][t] > 0
      BY AbandonedWrites
    <3>2. abandoned[w] \in [Oldest..Now -> Nat]
      BY DEF RowsInv, TypeOK, Calls
    <3>3. abandoned[w][t] \in Nat
      BY <3>2
    <3>4. QED
      BY <3>1, <3>2, <3>3 DEF Calls
  <2>2. [abandoned[w] EXCEPT ![t] = abandoned[w][t] - 1] \in Calls
    BY <2>1 DEF Calls
  <2>3. abandoned' = [abandoned EXCEPT
                        ![w] = [abandoned[w] EXCEPT ![t] = abandoned[w][t] - 1]]
    BY AbandonedWrites
  <2>4. QED
    BY <2>2, <2>3 DEF RowsInv, TypeOK
<1>4. TypeOK'
  BY <1>2, <1>3, AbandonedWrites DEF RowsInv, TypeOK, Advances, SoundTable
<1>5. QED
  BY <1>2, <1>4, AbandonedWrites, Frame

LEMMA SpawnRows ==
  ASSUME RowsInv, NEW w \in Workers, NEW s \in Slots, SpawnAttempt(w, s)
  PROVE  RowsInv'
<1> DEFINE a == [Idle EXCEPT !.phase = "handling", !.job = claim[w].job,
                             !.number = claim[w].number,
                             !.deadline = Now + JobTimeout]
<1>1. /\ claim[w].phase = "returned" /\ SetAttempt(w, s, a)
      /\ claim' = [claim EXCEPT ![w] = NoClaim]
      /\ UNCHANGED <<table, mode, abandoned, faults, requests>>
  BY DEF SpawnAttempt
<1>2. Now + JobTimeout \in Nat /\ claim[w] \in Claims /\ SoundClaim(table, claim[w])
  BY Window, RunnerAssumption DEF RowsInv, TypeOK
<1>3. a \in Attempts
  BY <1>2 DEF Idle, Attempts, Claims, NoJob
<1>4. SoundAttempt(table', a)
  BY <1>1, <1>2 DEF SoundClaim, SoundAttempt, Idle, Writing
<1> HIDE DEF a
<1>5. TypeOK'
  BY <1>1, <1>3, IdleType DEF RowsInv, TypeOK, SetAttempt
<1>6. \A v \in Workers : claim'[v] = claim[v] \/ claim'[v] = NoClaim
  BY <1>1 DEF RowsInv, TypeOK
<1>7. \A v \in Workers, r \in Slots : att'[v][r] = att[v][r] \/ att'[v][r] = a
  BY <1>1 DEF RowsInv, TypeOK, SetAttempt
<1>8. QED
  BY <1>1, <1>4, <1>5, <1>6, <1>7, TableStutters, IdleSound, Frame

\* Changes of one attempt that write nothing.
LEMMA AttemptRows ==
  ASSUME RowsInv, NEW w \in Workers, NEW s \in Slots,
         NEW a \in Attempts, SetAttempt(w, s, a), SoundAttempt(table, a),
         UNCHANGED <<table, mode, claim, abandoned, requests>>, faults' \in 0..MaxFaults
  PROVE  RowsInv'
BY TableStutters, FrameAttempt

LEMMA FaultsKept == RowsInv /\ UNCHANGED faults => faults' \in 0..MaxFaults
BY DEF RowsInv, TypeOK

LEMMA AttemptIs ==
  ASSUME RowsInv, NEW w \in Workers, NEW s \in Slots
  PROVE  /\ att[w][s] \in Attempts /\ SoundAttempt(table, att[w][s])
         /\ att[w][s].phase # "idle" =>
              /\ att[w][s].job \in Jobs
              /\ Row(w, s) \in Rows /\ SoundRow(Row(w, s))
BY DEF RowsInv, TypeOK, SoundTable, SoundAttempt, Row

LEMMA CommitRows ==
  ASSUME RowsInv, NEW w \in Workers, NEW s \in Slots, CommitInHandler(w, s)
  PROVE  RowsInv'
<1> DEFINE old == att[w][s]
           j == old.job
           a == [old EXCEPT !.committed = TRUE]
<1>1. /\ old.phase = "handling" /\ Row(w, s).status = "running"
      /\ table' = [table EXCEPT ![j] = Finished(table[j], "succeeded", Now)]
      /\ SetAttempt(w, s, a)
      /\ UNCHANGED <<mode, claim, abandoned, faults, requests>>
  BY DEF CommitInHandler, Handling, OwnsLease, SetRow, Row
<1>2. /\ old \in Attempts /\ SoundAttempt(table, old)
      /\ j \in Jobs /\ table[j] \in Rows /\ SoundRow(table[j])
      /\ table[j].status = "running"
  BY <1>1, AttemptIs DEF Row
<1>3. Advances(table, table')
  BY <1>1, <1>2, Window, FinishAdvances DEF SoundRow, RowsInv
<1>4. table'[j].status = "succeeded"
  BY <1>1, <1>2 DEF RowsInv, TypeOK, Finished, Released, Rows
<1>5. a \in Attempts
  BY <1>2 DEF Attempts
<1>6. SoundAttempt(table', a)
  BY <1>1, <1>2, <1>4 DEF SoundAttempt, Writing, Attempts
<1> HIDE DEF a
<1>7. QED
  BY <1>1, <1>3, <1>5, <1>6, FaultsKept, FrameAttempt

LEMMA HandlingRows ==
  ASSUME RowsInv, NEW w \in Workers, NEW s \in Slots,
         \/ MarkCompleted(w, s)
         \/ HandlerReturns(w, s) \/ TimesOut(w, s) \/ ObserveCancellation(w, s)
  PROVE  RowsInv'
<1> DEFINE old == att[w][s]
<1>1. old \in Attempts /\ SoundAttempt(table, old)
  BY AttemptIs
<1>2. ASSUME NEW verdict \in {"ok", "retry", "permanent", "cancelled"},
             StopHandling(w, s, verdict)
      PROVE  RowsInv'
  <2> DEFINE a == [old EXCEPT !.phase = "ended", !.verdict = verdict]
  <2>1. /\ SetAttempt(w, s, a) /\ old.phase = "handling"
        /\ UNCHANGED <<table, mode, claim, abandoned, faults, requests>>
    BY <1>2 DEF StopHandling, Handling
  <2>2. a \in Attempts
    BY <1>1 DEF Attempts
  <2>3. SoundAttempt(table, a)
    BY <1>1, <2>1 DEF SoundAttempt, Writing, Attempts
  <2> HIDE DEF a
  <2>4. QED
    BY <2>1, <2>2, <2>3, FaultsKept, AttemptRows
<1>3. CASE MarkCompleted(w, s)
  <2> DEFINE a == [old EXCEPT !.marked = TRUE]
  <2>1. /\ SetAttempt(w, s, a) /\ old.phase = "handling" /\ old.committed
        /\ UNCHANGED <<table, mode, claim, abandoned, faults, requests>>
    BY <1>3 DEF MarkCompleted, Handling
  <2>2. a \in Attempts
    BY <1>1 DEF Attempts
  <2>3. SoundAttempt(table, a)
    BY <1>1, <2>1 DEF SoundAttempt, Writing, Attempts
  <2> HIDE DEF a
  <2>4. QED
    BY <2>1, <2>2, <2>3, FaultsKept, AttemptRows
<1>4. QED
  BY <1>2, <1>3 DEF HandlerReturns, TimesOut, ObserveCancellation

LEMMA BeginSettlingRows ==
  ASSUME RowsInv, NEW w \in Workers, NEW s \in Slots, BeginSettling(w, s)
  PROVE  RowsInv'
<1> DEFINE old == att[w][s]
           a == [old EXCEPT !.phase = "settling", !.at = Now]
<1>1. /\ old \in Attempts /\ SoundAttempt(table, old) /\ old.phase = "ended"
      /\ old.job \in Jobs /\ SoundRow(table[old.job])
  BY AttemptIs DEF BeginSettling, Row
<1>2. /\ SetAttempt(w, s, Idle) \/ SetAttempt(w, s, a)
      /\ UNCHANGED <<table, mode, claim, abandoned, faults, requests>>
  BY DEF BeginSettling
<1>3. a \in Attempts
  BY <1>1, Window DEF Attempts
<1>4. SoundAttempt(table, a)
  BY <1>1 DEF SoundAttempt, SoundRow, Writing, Attempts
<1> HIDE DEF a
<1>5. QED
  BY <1>2, <1>3, <1>4, IdleType, IdleSound, FaultsKept, AttemptRows

\* The outcome of an attempt that owns its lease.
LEMMA WritingRow ==
  ASSUME RowsInv, NEW w \in Workers, NEW s \in Slots,
         att[w][s].phase \in Writing
  PROVE  /\ att[w][s] \in Attempts /\ SoundAttempt(table, att[w][s])
         /\ att[w][s].job \in Jobs /\ att[w][s].at \in Nat
         /\ Row(w, s) = table[att[w][s].job]
         /\ table[att[w][s].job].created_at <= att[w][s].at
<1>1. att[w][s].phase # "idle"
  BY DEF Writing
<1>2. QED
  BY <1>1, AttemptIs DEF SoundAttempt, Attempts, Row

LEMMA PhaseRows ==
  ASSUME RowsInv, NEW w \in Workers, NEW s \in Slots,
         att[w][s].phase \in Writing, NEW p \in Writing \union {"lost"}
  PROVE  LET a == [att[w][s] EXCEPT !.phase = p]
         IN  a \in Attempts /\ SoundAttempt(table, a)
<1> DEFINE old == att[w][s]
           a == [old EXCEPT !.phase = p]
<1>1. old \in Attempts /\ SoundAttempt(table, old) /\ old.phase \in Writing
  BY WritingRow
<1>2. p \in {"settling", "checking", "cancelling", "orphaned", "lost"}
  BY DEF Writing
<1>3. a \in Attempts
  BY <1>1, <1>2 DEF Attempts
<1>4. SoundAttempt(table, a)
  BY <1>1, <1>2 DEF SoundAttempt, Writing, Attempts
<1>5. QED
  BY <1>3, <1>4

LEMMA SettleRows ==
  ASSUME RowsInv, NEW w \in Workers, NEW s \in Slots,
         Settle(w, s) \/ CheckCancellation(w, s)
  PROVE  RowsInv'
<1> DEFINE a == att[w][s]
<1>1. a.phase \in Writing /\ UNCHANGED <<mode, claim, abandoned, faults, requests>>
  BY DEF Settle, CheckCancellation, Writing
<1>2. CASE /\ OwnsLease(Row(w, s), w, a.at, a.verdict # "ok")
           /\ SetRow(a.job, Outcome(Row(w, s), a.verdict, a.at))
           /\ SetAttempt(w, s, Idle)
  <2>1. Advances(table, table')
    BY <1>1, <1>2, WritingRow, OutcomeAdvances DEF OwnsLease, SetRow, RowsInv
  <2>2. QED
    BY <1>1, <1>2, <2>1, IdleType, IdleSound, FaultsKept, FrameAttempt
<1>3. ASSUME NEW p \in Writing \union {"lost"},
             SetAttempt(w, s, [a EXCEPT !.phase = p]), UNCHANGED table
      PROVE  RowsInv'
  <2> DEFINE b == [a EXCEPT !.phase = p]
  <2>1. b \in Attempts /\ SoundAttempt(table, b) /\ SetAttempt(w, s, b)
    BY <1>1, <1>3, PhaseRows
  <2> HIDE DEF b
  <2>2. QED
    BY <1>1, <1>3, <2>1, FaultsKept, AttemptRows
<1>4. QED
  BY <1>2, <1>3 DEF Settle, CheckCancellation, Writing

LEMMA CancelInsteadRows ==
  ASSUME RowsInv, NEW w \in Workers, NEW s \in Slots, CancelInstead(w, s)
  PROVE  RowsInv'
<1> DEFINE a == att[w][s]
<1>1. a.phase \in Writing /\ UNCHANGED <<mode, claim, abandoned, faults, requests>>
  BY DEF CancelInstead, Writing
<1>2. CASE /\ OwnsLease(Row(w, s), w, a.at, TRUE)
           /\ SetRow(a.job, Finished(Row(w, s), "cancelled", a.at))
           /\ SetAttempt(w, s, Idle)
  <2>1. Advances(table, table')
    BY <1>1, <1>2, WritingRow, FinishAdvances DEF OwnsLease, SetRow, RowsInv
  <2>2. QED
    BY <1>1, <1>2, <2>1, IdleType, IdleSound, FaultsKept, FrameAttempt
<1>3. CASE SetAttempt(w, s, [a EXCEPT !.phase = "lost"]) /\ UNCHANGED table
  <2> DEFINE b == [a EXCEPT !.phase = "lost"]
  <2>1. b \in Attempts /\ SoundAttempt(table, b) /\ SetAttempt(w, s, b)
    BY <1>1, <1>3, PhaseRows
  <2> HIDE DEF b
  <2>2. QED
    BY <1>1, <1>3, <2>1, FaultsKept, AttemptRows
<1>4. QED
  BY <1>2, <1>3 DEF CancelInstead

LEMMA OrphanSettlesRows ==
  ASSUME RowsInv, NEW w \in Workers, NEW s \in Slots, OrphanSettles(w, s)
  PROVE  RowsInv'
<1> DEFINE a == att[w][s]
<1>1. /\ a.phase \in Writing /\ UNCHANGED <<mode, claim, abandoned, faults, requests>>
      /\ SetAttempt(w, s, Idle)
  BY DEF OrphanSettles, Writing
<1>2. CASE /\ OwnsLease(Row(w, s), w, a.at, a.verdict # "ok")
           /\ SetRow(a.job, Outcome(Row(w, s), a.verdict, a.at))
  <2>1. Advances(table, table')
    BY <1>1, <1>2, WritingRow, OutcomeAdvances DEF OwnsLease, SetRow, RowsInv
  <2>2. QED
    BY <1>1, <2>1, IdleType, IdleSound, FaultsKept, FrameAttempt
<1>3. CASE UNCHANGED table
  BY <1>1, <1>3, IdleType, IdleSound, FaultsKept, AttemptRows
<1>4. QED
  BY <1>2, <1>3 DEF OrphanSettles

LEMMA StoreFailsRows ==
  ASSUME RowsInv, NEW w \in Workers, NEW s \in Slots, StoreFails(w, s)
  PROVE  RowsInv'
<1> DEFINE old == att[w][s]
           a == [old EXCEPT !.phase = "lost"]
<1>1. old \in Attempts /\ SoundAttempt(table, old)
  BY AttemptIs
<1>2. /\ SetAttempt(w, s, a) /\ old.phase # "idle"
      /\ UNCHANGED <<table, mode, claim, abandoned, requests>>
      /\ faults < MaxFaults /\ faults' = faults + 1
  BY DEF StoreFails
<1>3. faults' \in 0..MaxFaults
  BY <1>2, RunnerAssumption DEF RowsInv, TypeOK
<1>4. a \in Attempts
  BY <1>1 DEF Attempts
<1>5. SoundAttempt(table, a)
  BY <1>1, <1>2 DEF SoundAttempt, Writing, Attempts
<1> HIDE DEF a
<1>6. QED
  BY <1>2, <1>3, <1>4, <1>5, AttemptRows

(***************************************************************************)
(* The end of a process.                                                   *)
(***************************************************************************)
LEMMA DroppedIs ==
  ASSUME NEW a, NEW b \in Dropped(a)
  PROVE  \/ b = Idle \/ b = a
         \/ b = Orphan(a) /\ a.phase \in {"settling", "cancelling"}
<1>1. CASE a.phase \in {"settling", "cancelling"}
  <2>1. Dropped(a) = {Idle, Orphan(a)}
    BY <1>1 DEF Dropped
  <2>2. QED
    BY <1>1, <2>1
<1>2. CASE a.phase = "orphaned"
  <2>1. Dropped(a) = {a}
    BY <1>2 DEF Dropped
  <2>2. QED
    BY <2>1
<1>3. CASE a.phase \notin {"settling", "cancelling", "orphaned"}
  <2>1. Dropped(a) = {Idle}
    BY <1>3 DEF Dropped
  <2>2. QED
    BY <2>1
<1>4. QED
  BY <1>1, <1>2, <1>3

LEMMA DroppedRows ==
  ASSUME RowsInv, NEW w \in Workers, NEW s \in Slots, NEW b \in Dropped(att[w][s])
  PROVE  b \in Attempts /\ SoundAttempt(table, b)
<1> DEFINE a == att[w][s]
<1>1. a \in Attempts /\ SoundAttempt(table, a)
  BY AttemptIs
<1>2. CASE b = Idle
  BY <1>2, IdleType, IdleSound
<1>3. CASE b = a
  BY <1>1, <1>3
<1>4. CASE b = Orphan(a) /\ a.phase \in {"settling", "cancelling"}
  <2>1. b \in Attempts
    BY <1>1, <1>4 DEF Orphan, Attempts
  <2>2. /\ b.phase = "orphaned" /\ b.job = a.job /\ b.at = a.at
        /\ b.committed = a.committed /\ b.marked = a.marked
    BY <1>1, <1>4 DEF Orphan, Attempts
  <2>3. QED
    BY <1>1, <1>4, <2>1, <2>2 DEF SoundAttempt, Writing
<1>5. \/ b = Idle \/ b = a
      \/ b = Orphan(a) /\ a.phase \in {"settling", "cancelling"}
  BY DroppedIs
<1>6. QED
  BY <1>2, <1>3, <1>4, <1>5

LEMMA DropRows ==
  ASSUME RowsInv, NEW w \in Workers, DropAttempts(w)
  PROVE  /\ att' \in [Workers -> [Slots -> Attempts]]
         /\ \A v \in Workers, s \in Slots :
              att'[v][s] = att[v][s] \/ SoundAttempt(table, att'[v][s])
<1>1. PICK left : /\ left \in [Slots -> UNION {Dropped(att[w][s]) : s \in Slots}]
                  /\ \A s \in Slots : left[s] \in Dropped(att[w][s])
                  /\ att' = [att EXCEPT ![w] = left]
  BY DEF DropAttempts
<1>2. \A s \in Slots : left[s] \in Attempts /\ SoundAttempt(table, left[s])
  BY <1>1, DroppedRows
<1>3. left \in [Slots -> Attempts]
  BY <1>1, <1>2
<1>4. QED
  BY <1>1, <1>2, <1>3 DEF RowsInv, TypeOK

LEMMA OneMoreCall ==
  ASSUME NEW f \in [Oldest..Now -> Nat], NEW t
  PROVE  [f EXCEPT ![t] = f[t] + 1] \in [Oldest..Now -> Nat]
<1>1. CASE t \in Oldest..Now
  <2>1. f[t] \in Nat
    BY <1>1
  <2>2. f[t] + 1 \in Nat
    BY <2>1
  <2>3. QED
    BY <1>1, <2>2
<1>2. CASE t \notin Oldest..Now
  BY <1>2
<1>3. QED
  BY <1>1, <1>2

LEMMA ProcessClaim ==
  ASSUME RowsInv, NEW w \in Workers,
         \/ RunFails(w) \/ Shutdown(w) \/ DrainEnds(w) \/ Crash(w) \/ Restart(w)
  PROVE  /\ claim' = claim \/ claim' = [claim EXCEPT ![w] = NoClaim]
         /\ abandoned' \in [Workers -> Calls]
<1>1. claim' = claim \/ claim' = [claim EXCEPT ![w] = NoClaim]
  BY DEF RunFails, Shutdown, DrainEnds, Crash, Restart, AbandonClaim
<1> DEFINE t == claim[w].at
           one == [abandoned EXCEPT ![w] = [abandoned[w] EXCEPT ![t] = abandoned[w][t] + 1]]
<1>2. abandoned' = abandoned \/ abandoned' = one
  BY DEF RunFails, Shutdown, DrainEnds, Crash, Restart, AbandonClaim
<1>3. one \in [Workers -> Calls]
  <2>1. abandoned[w] \in [Oldest..Now -> Nat]
    BY DEF RowsInv, TypeOK, Calls
  <2>2. [abandoned[w] EXCEPT ![t] = abandoned[w][t] + 1] \in [Oldest..Now -> Nat]
    BY <2>1, OneMoreCall
  <2>3. QED
    BY <2>2 DEF RowsInv, TypeOK, Calls
<1>4. QED
  BY <1>1, <1>2, <1>3 DEF RowsInv, TypeOK

LEMMA ProcessRows ==
  ASSUME RowsInv, NEW w \in Workers,
         \/ RunFails(w) \/ Shutdown(w) \/ DrainEnds(w) \/ Crash(w) \/ Restart(w)
  PROVE  RowsInv'
<1>1. NoClaim \in Claims
  BY IdleType
<1>2. SoundClaim(table, NoClaim)
  BY IdleSound
<1>3. /\ mode' \in [Workers -> Modes] /\ faults' \in 0..MaxFaults
      /\ UNCHANGED <<table, requests>>
  <2>1. /\ mode' = mode \/ \E m \in Modes : mode' = [mode EXCEPT ![w] = m]
        /\ faults' = faults \/ (faults < MaxFaults /\ faults' = faults + 1)
        /\ UNCHANGED <<table, requests>>
    BY DEF RunFails, Shutdown, DrainEnds, Crash, Restart, Modes
  <2>2. mode \in [Workers -> Modes] /\ faults \in 0..MaxFaults /\ MaxFaults \in Nat
    BY RunnerAssumption DEF RowsInv, TypeOK
  <2>3. mode' \in [Workers -> Modes]
    BY <2>1, <2>2
  <2>4. faults' \in 0..MaxFaults
    BY <2>1, <2>2
  <2>5. QED
    BY <2>1, <2>3, <2>4
<1>4. /\ att' \in [Workers -> [Slots -> Attempts]]
      /\ \A v \in Workers, s \in Slots :
           att'[v][s] = att[v][s] \/ SoundAttempt(table, att'[v][s])
  <2>1. DropAttempts(w) \/ UNCHANGED att
    BY DEF RunFails, Shutdown, DrainEnds, Crash, Restart
  <2>2. QED
    BY <2>1, DropRows DEF RowsInv, TypeOK
<1>5. /\ claim' = claim \/ claim' = [claim EXCEPT ![w] = NoClaim]
      /\ abandoned' \in [Workers -> Calls]
  BY ProcessClaim
<1>6. claim' \in [Workers -> Claims]
  BY <1>1, <1>5 DEF RowsInv, TypeOK
<1>7. \A v \in Workers : claim'[v] = claim[v] \/ SoundClaim(table, claim'[v])
  BY <1>1, <1>2, <1>5 DEF RowsInv, TypeOK
<1>8. TypeOK'
  BY <1>3, <1>4, <1>5, <1>6 DEF RowsInv, TypeOK
<1>9. QED
  BY <1>3, <1>4, <1>7, <1>8, TableStutters, Frame

(***************************************************************************)
(* Time.                                                                   *)
(***************************************************************************)
LEMMA TickFields ==
  ASSUME RowsInv, Tick
  PROVE  /\ \A j \in Jobs : table'[j] = AgedRow(table[j])
         /\ table' \in [Jobs -> Rows]
         /\ \A w \in Workers :
              /\ claim'[w] \in Claims
              /\ claim'[w].phase = claim[w].phase /\ claim'[w].job = claim[w].job
              /\ claim'[w].number = claim[w].number
              /\ claim'[w].at = Aged(claim[w].at)
         /\ claim' \in [Workers -> Claims]
         /\ \A w \in Workers, s \in Slots :
              /\ att'[w][s] \in Attempts
              /\ att'[w][s].phase = att[w][s].phase /\ att'[w][s].job = att[w][s].job
              /\ att'[w][s].number = att[w][s].number
              /\ att'[w][s].deadline = Aged(att[w][s].deadline)
              /\ att'[w][s].at = Aged(att[w][s].at)
              /\ att'[w][s].committed = att[w][s].committed
              /\ att'[w][s].marked = att[w][s].marked
         /\ att' \in [Workers -> [Slots -> Attempts]]
         /\ abandoned' \in [Workers -> Calls]
         /\ UNCHANGED <<mode, faults, requests>>
<1>1. \A x \in Nat : Aged(x) \in Nat
  BY AgedMonotone
<1>2. table' = [j \in Jobs |-> AgedRow(table[j])]
  BY DEF Tick, AgedRow
<1>3. \A j \in Jobs : AgedRow(table[j]) \in Rows
  BY AgedRowFields DEF RowsInv, TypeOK
<1>4. claim' = [w \in Workers |-> [claim[w] EXCEPT !.at = Aged(@)]]
  BY DEF Tick
<1>5. \A c \in Claims : /\ [c EXCEPT !.at = Aged(@)] \in Claims
                        /\ [c EXCEPT !.at = Aged(@)].phase = c.phase
                        /\ [c EXCEPT !.at = Aged(@)].job = c.job
                        /\ [c EXCEPT !.at = Aged(@)].number = c.number
                        /\ [c EXCEPT !.at = Aged(@)].at = Aged(c.at)
  BY <1>1 DEF Claims
<1> DEFINE aged(a) == [a EXCEPT !.deadline = Aged(@), !.at = Aged(@)]
<1>6. att' = [w \in Workers |-> [s \in Slots |-> aged(att[w][s])]]
  BY DEF Tick
<1>7. \A a \in Attempts : /\ aged(a) \in Attempts
                          /\ aged(a).phase = a.phase /\ aged(a).job = a.job
                          /\ aged(a).number = a.number
                          /\ aged(a).deadline = Aged(a.deadline)
                          /\ aged(a).at = Aged(a.at)
                          /\ aged(a).committed = a.committed
                          /\ aged(a).marked = a.marked
  BY <1>1 DEF Attempts
<1> HIDE DEF aged
<1>8. \A w \in Workers : claim[w] \in Claims
  BY DEF RowsInv, TypeOK
<1>9. \A w \in Workers, s \in Slots : att[w][s] \in Attempts
  BY DEF RowsInv, TypeOK
<1>10. claim' \in [Workers -> Claims]
  BY <1>4, <1>5, <1>8
<1>11. att' \in [Workers -> [Slots -> Attempts]]
  BY <1>6, <1>7, <1>9
<1>12. UNCHANGED <<mode, faults, requests>>
  BY DEF Tick
<1>13. \A w \in Workers : claim'[w] = [claim[w] EXCEPT !.at = Aged(@)]
  BY <1>4
<1>14. \A w \in Workers, s \in Slots : att'[w][s] = aged(att[w][s])
  BY <1>6
<1>15. \A j \in Jobs : table'[j] = AgedRow(table[j])
  BY <1>2
<1>16. table' \in [Jobs -> Rows]
  BY <1>2, <1>3
<1>17. ASSUME NEW w \in Workers
       PROVE  /\ claim'[w] \in Claims
              /\ claim'[w].phase = claim[w].phase /\ claim'[w].job = claim[w].job
              /\ claim'[w].number = claim[w].number
              /\ claim'[w].at = Aged(claim[w].at)
  BY <1>5, <1>8, <1>13
<1>18. ASSUME NEW w \in Workers, NEW s \in Slots
       PROVE  /\ att'[w][s] \in Attempts
              /\ att'[w][s].phase = att[w][s].phase /\ att'[w][s].job = att[w][s].job
              /\ att'[w][s].number = att[w][s].number
              /\ att'[w][s].deadline = Aged(att[w][s].deadline)
              /\ att'[w][s].at = Aged(att[w][s].at)
              /\ att'[w][s].committed = att[w][s].committed
              /\ att'[w][s].marked = att[w][s].marked
  BY <1>7, <1>9, <1>14
<1>19. abandoned' \in [Workers -> Calls]
  <2>1. \A w \in Workers : abandoned[w] \in [Oldest..Now -> Nat]
    BY DEF RowsInv, TypeOK, Calls
  <2>2. \A w \in Workers, t \in Oldest..Now :
          (IF t = Now THEN 0 ELSE abandoned[w][t + 1]) \in Nat
    BY <2>1, Window
  <2>3. abandoned' = [w \in Workers |-> [t \in Oldest..Now |->
                        IF t = Now THEN 0 ELSE abandoned[w][t + 1]]]
    BY DEF Tick
  <2>4. QED
    BY <2>2, <2>3 DEF Calls
<1>20. QED
  BY <1>10, <1>11, <1>12, <1>15, <1>16, <1>17, <1>18, <1>19

LEMMA TickRows == RowsInv /\ Tick => RowsInv'
<1> SUFFICES ASSUME RowsInv, Tick PROVE RowsInv'
  OBVIOUS
<1>1. Advances(table, table')
  BY TickFields, TickAdvances DEF RowsInv
<1>2. TypeOK'
  BY TickFields DEF RowsInv, TypeOK
<1>3. ASSUME NEW w \in Workers
      PROVE  SoundClaim(table', claim'[w])
  BY <1>1, TickFields, ClaimKept DEF RowsInv, TypeOK, SoundClaim
<1>4. ASSUME NEW w \in Workers, NEW s \in Slots
      PROVE  SoundAttempt(table', att'[w][s])
  <2>1. att[w][s] \in Attempts /\ SoundAttempt(table, att[w][s])
    BY AttemptIs
  <2>2. SoundAttempt(table', att[w][s])
    BY <1>1, <2>1, AttemptKept DEF RowsInv
  <2>3. ASSUME att[w][s].phase \in Writing
        PROVE  table'[att[w][s].job].created_at <= Aged(att[w][s].at)
    <3>1. /\ att[w][s].job \in Jobs /\ att[w][s].at \in Nat
          /\ table[att[w][s].job].created_at <= att[w][s].at
      BY <2>3, WritingRow
    <3>2. /\ table[att[w][s].job] \in Rows
          /\ table'[att[w][s].job].created_at = Aged(table[att[w][s].job].created_at)
      BY <3>1, TickFields, AgedRowFields DEF RowsInv, TypeOK
    <3>3. QED
      BY <3>1, <3>2, AgedMonotone DEF Rows
  <2>4. QED
    BY <2>2, <2>3, TickFields DEF SoundAttempt
<1>5. QED
  BY <1>1, <1>2, <1>3, <1>4 DEF RowsInv, Advances

-----------------------------------------------------------------------------
(***************************************************************************)
(* The invariant is inductive.                                             *)
(***************************************************************************)
LEMMA InitRows == Init => RowsInv
<1> SUFFICES ASSUME Init PROVE RowsInv
  OBVIOUS
<1>1. TypeOK
  BY UnusedIsRow, IdleType, RunnerAssumption, Window DEF Init, TypeOK, Modes, Calls
<1>2. \A j \in Jobs : /\ table[j].status = "unused" /\ table[j].created_at = 0
                      /\ table[j].pending_dedupe_key = None
  BY DEF Init, UnusedRow
<1>3. \A j \in Jobs : SoundRow(table[j])
  BY <1>2, Window DEF SoundRow, GoodRow, FitRow, ShapeChecks, Timely
<1>4. Constraints(table)
  BY <1>2 DEF Constraints, Shaped, ShapeChecks, Timely, Collides
<1>5. \A w \in Workers : claim[w] = NoClaim /\ \A s \in Slots : att[w][s] = Idle
  BY DEF Init
<1>6. QED
  BY <1>1, <1>3, <1>4, <1>5, IdleSound DEF RowsInv, SoundTable, TypeOK

LEMMA NextRows == RowsInv /\ [Next]_vars => RowsInv'
<1> SUFFICES ASSUME RowsInv, [Next]_vars PROVE RowsInv'
  OBVIOUS
<1>1. ASSUME NEW j \in Jobs, Enqueue(j) \/ RequestCancellation(j)
      PROVE  RowsInv'
  BY <1>1, EnqueueRows, RequestCancellationRows
<1>2. ASSUME NEW w \in Workers,
             \/ CallClaim(w) \/ ExecuteClaim(w)
             \/ \E t \in Oldest..Now : ExecuteAbandoned(w, t)
      PROVE  RowsInv'
  BY <1>2, CallClaimRows, ExecuteClaimRows, ExecuteAbandonedRows
<1>3. ASSUME NEW w \in Workers,
             RunFails(w) \/ Shutdown(w) \/ DrainEnds(w) \/ Crash(w) \/ Restart(w)
      PROVE  RowsInv'
  BY <1>3, ProcessRows
<1>4. ASSUME NEW w \in Workers, NEW s \in Slots,
             \/ SpawnAttempt(w, s) \/ CommitInHandler(w, s) \/ MarkCompleted(w, s)
             \/ HandlerReturns(w, s) \/ TimesOut(w, s) \/ ObserveCancellation(w, s)
      PROVE  RowsInv'
  BY <1>4, SpawnRows, CommitRows, HandlingRows
<1>5. ASSUME NEW w \in Workers, NEW s \in Slots,
             AttemptStep(w, s) \/ StoreFails(w, s)
      PROVE  RowsInv'
  BY <1>5, BeginSettlingRows, SettleRows, CancelInsteadRows, OrphanSettlesRows,
     StoreFailsRows DEF AttemptStep
<1>6. CASE Tick
  BY <1>6, TickRows
<1>7. CASE UNCHANGED vars
  <2>1. TypeOK' /\ UNCHANGED <<table, claim, att>>
    BY <1>7 DEF vars, RowsInv, TypeOK
  <2>2. QED
    BY <2>1, TableStutters, Frame
<1>8. QED
  BY <1>1, <1>2, <1>3, <1>4, <1>5, <1>6, <1>7 DEF Next

(***************************************************************************)
(* The invariant holds in every behaviour, with any lease and latency.     *)
(***************************************************************************)
THEOREM RowsInvariant == Spec => []RowsInv
BY InitRows, NextRows, PTL DEF Spec

(***************************************************************************)
(* The runner's state keeps its types.                                     *)
(***************************************************************************)
THEOREM RunnerTypes == Spec => []TypeOK
<1>1. RowsInv => TypeOK
  BY DEF RowsInv
<1>2. QED
  BY <1>1, RowsInvariant, PTL

(***************************************************************************)
(* Outcomes, cancellations and sweeps are written without a test of the    *)
(* schema's constraints and keep them: a lease settled by a claim expired  *)
(* after the job was created, and no outcome is dated before its job.      *)
(***************************************************************************)
THEOREM RunnerKeepsSchema == Spec => []SchemaHolds
<1>1. RowsInv => SchemaHolds
  BY DEF RowsInv, SoundTable, SchemaHolds
<1>2. QED
  BY <1>1, RowsInvariant, PTL

(***************************************************************************)
(* A success reported from the mark of a handler, without a store call,    *)
(* is in the table, through crashes, cancellations, sweeps and restarts.   *)
(***************************************************************************)
THEOREM MarkedSuccessIsStored == Spec => []MarkedIsDurable
<1>1. RowsInv => MarkedIsDurable
  BY DEF RowsInv, SoundAttempt, MarkedIsDurable, Row
<1>2. QED
  BY <1>1, RowsInvariant, PTL

-----------------------------------------------------------------------------
(***************************************************************************)
(* The second invariant, which needs a lease that outlives the attempt by  *)
(* twice the latency of a store call: once for the time between the        *)
(* timestamp of the claim and the start of the handler, once for the time  *)
(* between the end of the handler and the end of the write of its outcome. *)
(* Every attempt that may still write holds the lease of its job, beyond   *)
(* the last instant at which it may write, and alone.                      *)
(***************************************************************************)
LeaseMargin == Lease > JobTimeout + 2 * MaxDelay

Live(a) == a.phase \notin {"idle", "lost"}
Returned(c) == c.phase = "returned"

\* The last timestamp a running handler has, or the one its outcome carries.
Until(a) == IF a.phase \in {"handling", "ended"} THEN a.deadline ELSE a.at

TimelyAttempt(a) ==
  /\ a.phase \in {"handling", "ended"} => a.deadline >= Now
  /\ a.phase \in Writing => a.at \in Oldest..Now

TimelyClaim(c) ==
  c.phase \in {"called", "returned"} => c.at \in Oldest..Now

Leased(tab, w, a) ==
  /\ tab[a.job].attempts = a.number
  /\ \/ /\ tab[a.job].status = "running"
        /\ tab[a.job].locked_by = w
        /\ Until(a) + MaxDelay < tab[a.job].locked_until
     \/ tab[a.job].status = "succeeded" /\ a.committed

ClaimHolds(tab, w, c) ==
  /\ tab[c.job].attempts = c.number
  /\ tab[c.job].status = "running"
  /\ tab[c.job].locked_by = w
  /\ c.at + Lease <= tab[c.job].locked_until

OneOwner ==
  /\ \A v, w \in Workers, r, s \in Slots :
       Live(att[v][r]) /\ Live(att[w][s]) /\ att[v][r].job = att[w][s].job =>
         v = w /\ r = s
  /\ \A v, w \in Workers, s \in Slots :
       Returned(claim[v]) /\ Live(att[w][s]) => claim[v].job # att[w][s].job
  /\ \A v, w \in Workers :
       Returned(claim[v]) /\ Returned(claim[w]) /\ claim[v].job = claim[w].job =>
         v = w

LeaseInv ==
  /\ \A w \in Workers : TimelyClaim(claim[w])
  /\ \A w \in Workers, s \in Slots : TimelyAttempt(att[w][s])
  /\ OneOwner
  /\ \A w \in Workers : Returned(claim[w]) => ClaimHolds(table, w, claim[w])
  /\ \A w \in Workers, s \in Slots : Live(att[w][s]) => Leased(table, w, att[w][s])

\* A row whose owner nothing but the owner may change, and what is kept of it.
Held(row) ==
  row.status = "succeeded" \/ (row.status = "running" /\ row.locked_until > Now)

LeaseKept(a, b) ==
  Held(a) => /\ b.status = a.status /\ b.attempts = a.attempts
             /\ b.locked_by = a.locked_by /\ b.locked_until = a.locked_until

\* The same attempt, later.
Descends(a, b) ==
  /\ Live(a)
  /\ b.job = a.job /\ b.number = a.number
  /\ a.committed => b.committed
  /\ Until(b) <= Until(a)

-----------------------------------------------------------------------------
(***************************************************************************)
(* Owners hold their rows.                                                 *)
(***************************************************************************)
LEMMA LivePhase ==
  ASSUME NEW a \in Attempts
  PROVE  Live(a) <=> a.phase \in {"handling", "ended"} \union Writing
BY DEF Attempts, Live, Writing

LEMMA AttemptHolds ==
  ASSUME RowsInv, LeaseInv, NEW w \in Workers, NEW s \in Slots, Live(att[w][s])
  PROVE  /\ att[w][s] \in Attempts /\ att[w][s].job \in Jobs
         /\ Leased(table, w, att[w][s]) /\ Held(table[att[w][s].job])
<1> DEFINE a == att[w][s]
<1>1. /\ a \in Attempts /\ a.job \in Jobs /\ table[a.job] \in Rows
      /\ TimelyAttempt(a) /\ Leased(table, w, a)
  BY AttemptIs DEF Live, LeaseInv, Row
<1> HIDE DEF a
<1>2. a.deadline \in Nat /\ a.at \in Nat /\ table[a.job].locked_until \in Nat
  BY <1>1 DEF Attempts, Rows
<1>3. Live(a)
  BY DEF a
<1>4. Until(a) \in Nat /\ Until(a) >= Oldest
  BY <1>1, <1>2, <1>3, LivePhase, Window DEF Until, TimelyAttempt
<1>5. Held(table[a.job])
  BY <1>1, <1>2, <1>4, Window, RunnerAssumption DEF Leased, Held
<1>6. QED
  BY <1>1, <1>5 DEF a

LEMMA ClaimIs ==
  ASSUME RowsInv, LeaseInv, LeaseMargin, NEW w \in Workers, Returned(claim[w])
  PROVE  /\ claim[w] \in Claims /\ claim[w].job \in Jobs
         /\ claim[w].at \in Oldest..Now
         /\ ClaimHolds(table, w, claim[w]) /\ Held(table[claim[w].job])
<1> DEFINE c == claim[w]
<1>1. /\ c \in Claims /\ c.job \in Jobs /\ table[c.job] \in Rows
      /\ TimelyClaim(c) /\ ClaimHolds(table, w, c)
  BY DEF RowsInv, TypeOK, SoundClaim, Returned, LeaseInv
<1>2. c.at \in Oldest..Now
  BY <1>1 DEF TimelyClaim, Returned
<1> HIDE DEF c
<1>3. table[c.job].locked_until \in Nat /\ Lease \in Nat
  BY <1>1, RowsAssumption DEF Rows
<1>4. Held(table[c.job])
  BY <1>1, <1>2, <1>3, Window, RunnerAssumption DEF ClaimHolds, Held, LeaseMargin
<1>5. QED
  BY <1>1, <1>2, <1>4 DEF c

LEMMA LeasedKept ==
  ASSUME NEW tab, NEW new, NEW w, NEW a \in Attempts, NEW b \in Attempts,
         Descends(a, b), Leased(tab, w, a), Held(tab[a.job]),
         tab[a.job] \in Rows, LeaseKept(tab[a.job], new[a.job])
  PROVE  Leased(new, w, b)
<1>1. /\ new[b.job].status = tab[a.job].status
      /\ new[b.job].attempts = tab[a.job].attempts
      /\ new[b.job].locked_by = tab[a.job].locked_by
      /\ new[b.job].locked_until = tab[a.job].locked_until
  BY DEF LeaseKept, Descends
<1>2. tab[a.job].locked_until \in Nat /\ Until(a) \in Nat /\ Until(b) \in Nat
      /\ MaxDelay \in Nat
  BY RunnerAssumption DEF Rows, Attempts, Until
<1>3. QED
  BY <1>1, <1>2 DEF Leased, Descends

\* A step that leaves attempts with their jobs and rows with their owners.
LEMMA LeaseFrame ==
  ASSUME RowsInv, LeaseInv, LeaseMargin,
         \A w \in Workers : TimelyClaim(claim'[w]),
         \A w \in Workers, s \in Slots :
           att'[w][s] \in Attempts /\ TimelyAttempt(att'[w][s]),
         \A w \in Workers, s \in Slots :
           Live(att'[w][s]) =>
             /\ Descends(att[w][s], att'[w][s])
             /\ \/ Leased(table', w, att'[w][s])
                \/ LeaseKept(table[att[w][s].job], table'[att[w][s].job]),
         \A w \in Workers :
           Returned(claim'[w]) =>
             /\ claim'[w] = claim[w]
             /\ LeaseKept(table[claim[w].job], table'[claim[w].job])
  PROVE  LeaseInv'
<1>1. OneOwner'
  <2>1. \A w \in Workers, s \in Slots :
          Live(att'[w][s]) =>
            Live(att[w][s]) /\ att'[w][s].job = att[w][s].job
    BY DEF Descends
  <2>2. OneOwner
    BY DEF LeaseInv
  <2>3. QED
    BY <2>1, <2>2 DEF OneOwner
<1>2. ASSUME NEW w \in Workers, NEW s \in Slots, Live(att'[w][s])
      PROVE  Leased(table', w, att'[w][s])
  <2>1. Live(att[w][s]) /\ Descends(att[w][s], att'[w][s])
    BY <1>2 DEF Descends
  <2>2. /\ att[w][s] \in Attempts /\ att[w][s].job \in Jobs
        /\ Leased(table, w, att[w][s]) /\ Held(table[att[w][s].job])
        /\ table[att[w][s].job] \in Rows
    BY <2>1, AttemptHolds DEF RowsInv, TypeOK
  <2>3. QED
    BY <1>2, <2>1, <2>2, LeasedKept
<1>3. ASSUME NEW w \in Workers, Returned(claim'[w])
      PROVE  ClaimHolds(table', w, claim'[w])
  <2>1. Returned(claim[w]) /\ claim'[w] = claim[w]
    BY <1>3
  <2>2. ClaimHolds(table, w, claim[w]) /\ Held(table[claim[w].job])
    BY <2>1, ClaimIs
  <2>3. QED
    BY <1>3, <2>1, <2>2 DEF ClaimHolds, LeaseKept
<1>4. QED
  BY <1>1, <1>2, <1>3 DEF LeaseInv

LEMMA SameRow == \A row : LeaseKept(row, row)
BY DEF LeaseKept

\* A change of one attempt that writes nothing.
LEMMA LeaseAttempt ==
  ASSUME RowsInv, LeaseInv, LeaseMargin, NEW w \in Workers, NEW s \in Slots,
         NEW b \in Attempts, SetAttempt(w, s, b), UNCHANGED <<table, claim>>,
         TimelyAttempt(b), Live(b) => Descends(att[w][s], b)
  PROVE  LeaseInv'
<1>1. /\ att'[w][s] = b
      /\ \A v \in Workers, r \in Slots :
           <<v, r>> # <<w, s>> => att'[v][r] = att[v][r]
      /\ \A v \in Workers, r \in Slots : att[v][r] \in Attempts
  BY DEF SetAttempt, RowsInv, TypeOK
<1>2. \A v \in Workers, r \in Slots : Live(att[v][r]) => Descends(att[v][r], att[v][r])
  BY <1>1 DEF Descends, Until, Attempts
<1>3. \A v \in Workers, r \in Slots :
        att'[v][r] \in Attempts /\ TimelyAttempt(att'[v][r])
  BY <1>1 DEF LeaseInv
<1>4. \A v \in Workers, r \in Slots :
        Live(att'[v][r]) => Descends(att[v][r], att'[v][r])
  BY <1>1, <1>2
<1>5. \A v \in Workers : TimelyClaim(claim'[v])
  BY DEF LeaseInv
<1>6. QED
  BY <1>3, <1>4, <1>5, SameRow, LeaseFrame

\* An attempt that may write the row of its job.
LEMMA LeaseWrite ==
  ASSUME RowsInv, LeaseInv, LeaseMargin, NEW w \in Workers, NEW s \in Slots,
         Live(att[w][s]), NEW row, SetRow(att[w][s].job, row),
         NEW b \in Attempts, SetAttempt(w, s, b), UNCHANGED claim, TimelyAttempt(b),
         Live(b) => Descends(att[w][s], b) /\ Leased(table', w, b)
  PROVE  LeaseInv'
<1>1. /\ att'[w][s] = b
      /\ \A v \in Workers, r \in Slots :
           <<v, r>> # <<w, s>> => att'[v][r] = att[v][r]
      /\ \A v \in Workers, r \in Slots : att[v][r] \in Attempts
  BY DEF SetAttempt, RowsInv, TypeOK
<1>2. \A k : k # att[w][s].job /\ k \in Jobs => table'[k] = table[k]
  BY DEF SetRow, RowsInv, TypeOK
<1>3. ASSUME NEW v \in Workers, NEW r \in Slots, <<v, r>> # <<w, s>>,
             Live(att[v][r])
      PROVE  /\ Descends(att[v][r], att[v][r])
             /\ LeaseKept(table[att[v][r].job], table'[att[v][r].job])
  <2>1. att[v][r].job # att[w][s].job
    BY <1>3 DEF LeaseInv, OneOwner
  <2>2. att[v][r].job \in Jobs
    BY <1>3, AttemptHolds
  <2>3. Descends(att[v][r], att[v][r])
    BY <1>1, <1>3 DEF Descends, Until, Attempts
  <2>4. QED
    BY <1>2, <2>1, <2>2, <2>3, SameRow
<1>4. ASSUME NEW v \in Workers, Returned(claim[v])
      PROVE  LeaseKept(table[claim[v].job], table'[claim[v].job])
  <2>1. claim[v].job # att[w][s].job
    BY <1>4 DEF LeaseInv, OneOwner
  <2>2. claim[v].job \in Jobs
    BY <1>4, ClaimIs
  <2>3. QED
    BY <1>2, <2>1, <2>2, SameRow
<1>5. \A v \in Workers, r \in Slots :
        att'[v][r] \in Attempts /\ TimelyAttempt(att'[v][r])
  BY <1>1 DEF LeaseInv
<1>6. \A v \in Workers, r \in Slots :
        Live(att'[v][r]) =>
          /\ Descends(att[v][r], att'[v][r])
          /\ \/ Leased(table', v, att'[v][r])
             \/ LeaseKept(table[att[v][r].job], table'[att[v][r].job])
  BY <1>1, <1>3
<1>7. \A v \in Workers : TimelyClaim(claim'[v])
  BY DEF LeaseInv
<1>8. QED
  BY <1>4, <1>5, <1>6, <1>7, LeaseFrame

-----------------------------------------------------------------------------
(***************************************************************************)
(* Every action keeps the second invariant.                                *)
(***************************************************************************)
LEMMA IdleTimely == Idle \in Attempts /\ ~Live(Idle) /\ TimelyAttempt(Idle)
BY IdleType DEF Idle, Live, TimelyAttempt, Writing

\* A change of a row that no owner holds.
LEMMA LeaseTable ==
  ASSUME RowsInv, LeaseInv, LeaseMargin, UNCHANGED <<claim, att>>,
         \A j \in Jobs : LeaseKept(table[j], table'[j])
  PROVE  LeaseInv'
<1>1. \A w \in Workers, s \in Slots : att[w][s] \in Attempts
  BY DEF RowsInv, TypeOK
<1>2. \A w \in Workers, s \in Slots :
        Live(att[w][s]) => Descends(att[w][s], att[w][s]) /\ att[w][s].job \in Jobs
  BY <1>1, AttemptHolds DEF Descends, Until, Attempts
<1>3. \A w \in Workers : Returned(claim[w]) => claim[w].job \in Jobs
  BY ClaimIs
<1>4. \A w \in Workers : TimelyClaim(claim[w])
  BY DEF LeaseInv
<1>5. \A w \in Workers, s \in Slots : TimelyAttempt(att[w][s])
  BY DEF LeaseInv
<1>6. QED
  BY <1>1, <1>2, <1>3, <1>4, <1>5, LeaseFrame

LEMMA EnqueueLease ==
  ASSUME RowsInv, LeaseInv, LeaseMargin, NEW j \in Jobs, Enqueue(j)
  PROVE  LeaseInv'
<1>1. table[j].status = "unused" /\ UNCHANGED <<claim, att>>
  BY DEF Enqueue
<1>2. \A k \in Jobs \ {j} : table'[k] = table[k]
  BY DEF Enqueue, SetRow, RowsInv, TypeOK
<1>3. \A k \in Jobs : LeaseKept(table[k], table'[k])
  BY <1>1, <1>2 DEF LeaseKept, Held
<1>4. QED
  BY <1>1, <1>3, LeaseTable

LEMMA RequestCancellationLease ==
  ASSUME RowsInv, LeaseInv, LeaseMargin, NEW j \in Jobs, RequestCancellation(j)
  PROVE  LeaseInv'
<1>1. /\ UNCHANGED <<claim, att>> /\ table[j].status \in Active
      /\ table' = [table EXCEPT ![j] = CancellationApplied(table[j], Now)]
  BY DEF RequestCancellation, SetRow
<1>2. /\ table[j] \in Rows /\ table'[j] = CancellationApplied(table[j], Now)
      /\ \A k \in Jobs \ {j} : table'[k] = table[k]
  BY <1>1 DEF RowsInv, TypeOK
<1>3. LeaseKept(table[j], table'[j])
  <2>1. CASE table[j].status = "running"
    BY <1>2, <2>1 DEF CancellationApplied, LeaseKept, Rows
  <2>2. CASE table[j].status = "pending"
    BY <2>2 DEF LeaseKept, Held
  <2>3. QED
    BY <1>1, <2>1, <2>2
<1>4. \A k \in Jobs : LeaseKept(table[k], table'[k])
  BY <1>2, <1>3 DEF LeaseKept
<1>5. QED
  BY <1>1, <1>4, LeaseTable

LEMMA CallClaimLease ==
  ASSUME RowsInv, LeaseInv, LeaseMargin, NEW w \in Workers, CallClaim(w)
  PROVE  LeaseInv'
<1> DEFINE c == [NoClaim EXCEPT !.phase = "called", !.at = Now]
<1>1. c.phase = "called" /\ c.at = Now
  BY DEF NoClaim
<1>2. claim' = [claim EXCEPT ![w] = c] /\ UNCHANGED <<table, att>>
  BY DEF CallClaim
<1> HIDE DEF c
<1>3. \A v \in Workers : claim'[v] = claim[v] \/ claim'[v] = c
  BY <1>2 DEF RowsInv, TypeOK
<1>4. ~Returned(c) /\ TimelyClaim(c)
  BY <1>1, Window DEF Returned, TimelyClaim
<1>5. \A v \in Workers : TimelyClaim(claim'[v])
  BY <1>3, <1>4 DEF LeaseInv
<1>6. \A v \in Workers : Returned(claim'[v]) => claim'[v] = claim[v]
  BY <1>3, <1>4
<1>7. QED
  BY <1>2, <1>5, <1>6 DEF LeaseInv, OneOwner

\* The sweeps change only rows whose lease expired by t.
LEMMA SweepKeeps ==
  ASSUME RowsInv, NEW t \in Oldest..Now, NEW j \in Jobs
  PROVE  /\ Sweep(t)[j] = Swept(table[j], t)
         /\ LeaseKept(table[j], Sweep(t)[j])
<1>1. table[j] \in Rows /\ Sweep(t)[j] = Swept(table[j], t)
  BY DEF Sweep, RowsInv, TypeOK
<1>2. CASE ~SweptByClaim(table[j], t)
  BY <1>1, <1>2, SameRow DEF Swept
<1>3. CASE SweptByClaim(table[j], t)
  <2>1. table[j].status = "running" /\ table[j].locked_until <= t
    BY <1>3 DEF SweptByClaim, Expired
  <2>2. ~Held(table[j])
    BY <1>1, <2>1, Window DEF Held, Rows
  <2>3. QED
    BY <1>1, <2>2 DEF LeaseKept
<1>4. QED
  BY <1>2, <1>3

\* So does the selection.
LEMMA ClaimKeeps ==
  ASSUME RowsInv, NEW t \in Oldest..Now, NEW w \in Workers,
         NEW j \in Candidates(t), Constraints(Taken(j, w, t))
  PROVE  /\ j \in Jobs /\ table[j] \in Rows /\ ~Held(table[j])
         /\ Taken(j, w, t)[j] = Claimed(table[j], w, t)
         /\ \A k \in Jobs : LeaseKept(table[k], Taken(j, w, t)[k])
<1>1. t \in Nat
  BY Window
<1>2. /\ j \in Jobs /\ Claimable(table[j], JobTypes, t)
      /\ Sweep(t)[j] = table[j]
  BY <1>1, ClaimAdvances DEF RowsInv
<1>3. table[j] \in Rows /\ Sweep(t) \in [Jobs -> Rows]
  BY <1>1, <1>2, SweepAdvances DEF RowsInv, TypeOK, Advances, SoundTable
<1>4. ~Held(table[j])
  BY <1>1, <1>2, <1>3, Window DEF Claimable, Expired, Held, Rows
<1>5. /\ Taken(j, w, t)[j] = Claimed(table[j], w, t)
      /\ \A k \in Jobs \ {j} : Taken(j, w, t)[k] = Sweep(t)[k]
  BY <1>2, <1>3 DEF Taken
<1>6. \A k \in Jobs : LeaseKept(table[k], Taken(j, w, t)[k])
  BY <1>4, <1>5, SweepKeeps DEF LeaseKept
<1>7. QED
  BY <1>2, <1>3, <1>4, <1>5, <1>6

LEMMA ExecuteClaimLease ==
  ASSUME RowsInv, LeaseInv, LeaseMargin, NEW w \in Workers, ExecuteClaim(w)
  PROVE  LeaseInv'
<1> DEFINE t == claim[w].at
           got(j) == [phase |-> "returned", at |-> t, job |-> j,
                      number |-> table[j].attempts + 1]
           refused == [NoClaim EXCEPT !.phase = "refused"]
<1>1. /\ claim[w].phase = "called"
      /\ t \in Oldest..Now /\ t \in Nat
      /\ UNCHANGED att
  BY Window DEF ExecuteClaim, LeaseInv, TimelyClaim
<1>2. /\ \A v \in Workers, s \in Slots :
           /\ att[v][s] \in Attempts /\ TimelyAttempt(att[v][s])
           /\ Live(att[v][s]) => Descends(att[v][s], att[v][s])
                                 /\ att[v][s].job \in Jobs
  <2>1. \A v \in Workers, s \in Slots : att[v][s] \in Attempts
    BY DEF RowsInv, TypeOK
  <2>2. \A v \in Workers, s \in Slots : TimelyAttempt(att[v][s])
    BY DEF LeaseInv
  <2>3. QED
    BY <2>1, <2>2, AttemptHolds DEF Descends, Until, Attempts
\* The call ends without a job for its process.
<1>3. ASSUME NEW c, claim' = [claim EXCEPT ![w] = c], ~Returned(c), TimelyClaim(c),
             \A j \in Jobs : LeaseKept(table[j], table'[j])
      PROVE  LeaseInv'
  <2>1. \A v \in Workers : claim'[v] = claim[v] \/ claim'[v] = c
    BY <1>3 DEF RowsInv, TypeOK
  <2>2. \A v \in Workers : TimelyClaim(claim'[v])
    BY <1>3, <2>1 DEF LeaseInv
  <2>3. \A v \in Workers :
          Returned(claim'[v]) => claim'[v] = claim[v] /\ claim[v].job \in Jobs
    BY <1>3, <2>1, ClaimIs
  <2>4. QED
    BY <1>1, <1>2, <1>3, <2>2, <2>3, LeaseFrame
<1>4. ~Returned(NoClaim) /\ TimelyClaim(NoClaim)
  BY DEF NoClaim, Returned, TimelyClaim
<1>5. CASE table' = Sweep(t) /\ claim' = [claim EXCEPT ![w] = NoClaim]
  BY <1>1, <1>3, <1>4, <1>5, SweepKeeps
<1>6. CASE UNCHANGED table /\ claim' = [claim EXCEPT ![w] = refused]
  <2>1. ~Returned(refused) /\ TimelyClaim(refused)
    BY DEF NoClaim, Returned, TimelyClaim
  <2> HIDE DEF refused
  <2>2. QED
    BY <1>3, <1>6, <2>1, SameRow
<1>7. ASSUME NEW j \in Candidates(t), Constraints(Taken(j, w, t)),
             table' = Taken(j, w, t), claim' = [claim EXCEPT ![w] = got(j)]
      PROVE  LeaseInv'
  <2>1. /\ j \in Jobs /\ table[j] \in Rows /\ ~Held(table[j])
        /\ table'[j] = Claimed(table[j], w, t)
        /\ \A k \in Jobs : LeaseKept(table[k], table'[k])
    BY <1>1, <1>7, ClaimKeeps
  <2>2. /\ claim'[w] = got(j)
        /\ \A v \in Workers \ {w} : claim'[v] = claim[v]
    BY <1>7 DEF RowsInv, TypeOK
  <2>3. ClaimHolds(table', w, got(j))
    <3>1. /\ table'[j].status = "running" /\ table'[j].locked_by = w
          /\ table'[j].attempts = table[j].attempts + 1
          /\ table'[j].locked_until = t + Lease
      BY <2>1 DEF Claimed, Rows
    <3>2. /\ got(j).job = j /\ got(j).number = table[j].attempts + 1
          /\ got(j).at = t
      OBVIOUS
    <3>3. t + Lease \in Nat
      BY <1>1, RowsAssumption
    <3> HIDE DEF got
    <3>4. QED
      BY <3>1, <3>2, <3>3 DEF ClaimHolds
  <2>4. \A v \in Workers, s \in Slots : Live(att[v][s]) => att[v][s].job # j
    BY <2>1, AttemptHolds
  <2>5. \A v \in Workers : Returned(claim[v]) => claim[v].job # j /\ v # w
    BY <1>1, <2>1, ClaimIs DEF Returned
  <2>6. OneOwner'
    <3>1. got(j).job = j
      OBVIOUS
    <3>2. OneOwner
      BY DEF LeaseInv
    <3>3. QED
      BY <1>1, <2>2, <2>4, <2>5, <3>1, <3>2 DEF OneOwner
  <2>7. ASSUME NEW v \in Workers, Returned(claim'[v])
        PROVE  ClaimHolds(table', v, claim'[v])
    <3>1. CASE v = w
      BY <2>2, <2>3, <3>1
    <3>2. CASE v # w
      <4>1. claim'[v] = claim[v] /\ Returned(claim[v])
        BY <2>2, <2>7, <3>2
      <4>2. /\ ClaimHolds(table, v, claim[v]) /\ Held(table[claim[v].job])
            /\ LeaseKept(table[claim[v].job], table'[claim[v].job])
        BY <2>1, <4>1, ClaimIs
      <4>3. QED
        BY <4>1, <4>2 DEF ClaimHolds, LeaseKept
    <3>3. QED
      BY <3>1, <3>2
  <2>8. ASSUME NEW v \in Workers, NEW s \in Slots, Live(att'[v][s])
        PROVE  Leased(table', v, att'[v][s])
    <3>1. /\ att'[v][s] = att[v][s] /\ att[v][s] \in Attempts
          /\ Live(att[v][s]) /\ att[v][s].job \in Jobs
          /\ Descends(att[v][s], att[v][s])
      BY <1>1, <1>2, <2>8
    <3>2. /\ Leased(table, v, att[v][s]) /\ Held(table[att[v][s].job])
          /\ table[att[v][s].job] \in Rows
      BY <3>1, AttemptHolds DEF RowsInv, TypeOK
    <3>3. QED
      BY <2>1, <3>1, <3>2, LeasedKept
  <2>9. TimelyClaim(got(j))
    BY <1>1 DEF TimelyClaim
  <2>10. \A v \in Workers : TimelyClaim(claim'[v])
    BY <2>2, <2>9 DEF LeaseInv
  <2>11. QED
    BY <1>1, <1>2, <2>6, <2>7, <2>8, <2>10 DEF LeaseInv
<1>8. QED
  BY <1>5, <1>6, <1>7 DEF ExecuteClaim

LEMMA ExecuteAbandonedLease ==
  ASSUME RowsInv, LeaseInv, LeaseMargin,
         NEW w \in Workers, NEW t \in Oldest..Now, ExecuteAbandoned(w, t)
  PROVE  LeaseInv'
<1>1. \A j \in Jobs : LeaseKept(table[j], table'[j])
  <2>1. CASE table' = table
    BY <2>1 DEF LeaseKept
  <2>2. CASE table' = Sweep(t)
    BY <2>2, SweepKeeps
  <2>3. CASE \E j \in Candidates(t) :
               Constraints(Taken(j, w, t)) /\ table' = Taken(j, w, t)
    BY <2>3, ClaimKeeps
  <2>4. QED
    BY <2>1, <2>2, <2>3, AbandonedWrites
<1>2. UNCHANGED <<claim, att>>
  BY AbandonedWrites
<1>3. QED
  BY <1>1, <1>2, LeaseTable

LEMMA SpawnLease ==
  ASSUME RowsInv, LeaseInv, LeaseMargin, NEW w \in Workers, NEW s \in Slots,
         SpawnAttempt(w, s)
  PROVE  LeaseInv'
<1> DEFINE c == claim[w]
           a == [Idle EXCEPT !.phase = "handling", !.job = c.job,
                             !.number = c.number, !.deadline = Now + JobTimeout]
<1>1. /\ Returned(c) /\ att[w][s] = Idle /\ SetAttempt(w, s, a)
      /\ claim' = [claim EXCEPT ![w] = NoClaim] /\ UNCHANGED table
  BY DEF SpawnAttempt, Returned
<1>2. /\ a.phase = "handling" /\ a.job = c.job /\ a.number = c.number
      /\ a.deadline = Now + JobTimeout
  BY DEF Idle
<1>3. /\ c.job \in Jobs /\ c.at \in Oldest..Now /\ ClaimHolds(table, w, c)
      /\ table[c.job] \in Rows
  BY <1>1, ClaimIs DEF RowsInv, TypeOK
<1> HIDE DEF a, c
<1>4. /\ att'[w][s] = a
      /\ \A v \in Workers, r \in Slots :
           <<v, r>> # <<w, s>> => att'[v][r] = att[v][r]
  BY <1>1 DEF SetAttempt, RowsInv, TypeOK
<1>5. /\ claim'[w] = NoClaim /\ \A v \in Workers \ {w} : claim'[v] = claim[v]
  BY <1>1 DEF RowsInv, TypeOK
<1>6. ~Returned(NoClaim) /\ TimelyClaim(NoClaim)
  BY DEF NoClaim, Returned, TimelyClaim
<1>7. TimelyAttempt(a) /\ Live(a)
  BY <1>2, Window, RunnerAssumption DEF TimelyAttempt, Live, Writing
<1>8. Leased(table', w, a)
  <2>1. /\ table[c.job].locked_until \in Nat /\ Lease \in Nat /\ JobTimeout \in Nat
        /\ MaxDelay \in Nat
    BY <1>3, RowsAssumption, RunnerAssumption DEF Rows
  <2>2. Now + JobTimeout + MaxDelay < c.at + Lease
    BY <1>3, <2>1, Window DEF LeaseMargin
  <2>3. Until(a) = Now + JobTimeout
    BY <1>2 DEF Until
  <2>4. Until(a) + MaxDelay < table[c.job].locked_until
    BY <1>3, <2>1, <2>2, <2>3, Window DEF ClaimHolds
  <2>5. QED
    BY <1>1, <1>2, <1>3, <2>4 DEF Leased, ClaimHolds
<1>9. OneOwner'
  <2>1. /\ \A v \in Workers, r \in Slots : Live(att[v][r]) => att[v][r].job # c.job
        /\ \A v \in Workers : Returned(claim[v]) /\ claim[v].job = c.job => v = w
    BY <1>1 DEF LeaseInv, OneOwner, c
  <2>2. OneOwner
    BY DEF LeaseInv
  <2>3. ASSUME NEW v \in Workers, NEW u \in Workers, NEW r \in Slots, NEW q \in Slots,
               Live(att'[v][r]), Live(att'[u][q]), att'[v][r].job = att'[u][q].job
        PROVE  v = u /\ r = q
    <3>1. CASE <<v, r>> = <<w, s>> /\ <<u, q>> = <<w, s>>
      BY <3>1
    <3>2. CASE <<v, r>> = <<w, s>> /\ <<u, q>> # <<w, s>>
      BY <1>2, <1>4, <2>1, <2>3, <3>2
    <3>3. CASE <<v, r>> # <<w, s>> /\ <<u, q>> = <<w, s>>
      BY <1>2, <1>4, <2>1, <2>3, <3>3
    <3>4. CASE <<v, r>> # <<w, s>> /\ <<u, q>> # <<w, s>>
      BY <1>4, <2>2, <2>3, <3>4 DEF OneOwner
    <3>5. QED
      BY <3>1, <3>2, <3>3, <3>4
  <2>4. ASSUME NEW v \in Workers, NEW u \in Workers, NEW q \in Slots,
               Returned(claim'[v]), Live(att'[u][q])
        PROVE  claim'[v].job # att'[u][q].job
    <3>1. v # w /\ claim'[v] = claim[v]
      BY <1>5, <1>6, <2>4
    <3>2. CASE <<u, q>> = <<w, s>>
      BY <1>2, <1>4, <2>1, <2>4, <3>1, <3>2
    <3>3. CASE <<u, q>> # <<w, s>>
      BY <1>4, <2>2, <2>4, <3>1, <3>3 DEF OneOwner
    <3>4. QED
      BY <3>2, <3>3
  <2>5. \A v, u \in Workers :
          Returned(claim'[v]) /\ Returned(claim'[u]) /\ claim'[v].job = claim'[u].job =>
            v = u
    BY <1>5, <1>6, <2>2 DEF OneOwner
  <2>6. QED
    BY <2>3, <2>4, <2>5 DEF OneOwner
<1>10. \A v \in Workers, r \in Slots :
         /\ TimelyAttempt(att'[v][r])
         /\ Live(att'[v][r]) => Leased(table', v, att'[v][r])
  BY <1>1, <1>4, <1>7, <1>8 DEF LeaseInv
<1>11. \A v \in Workers :
         /\ TimelyClaim(claim'[v])
         /\ Returned(claim'[v]) => ClaimHolds(table', v, claim'[v])
  BY <1>1, <1>5, <1>6 DEF LeaseInv
<1>12. QED
  BY <1>9, <1>10, <1>11 DEF LeaseInv

LEMMA CommitLease ==
  ASSUME RowsInv, LeaseInv, LeaseMargin, NEW w \in Workers, NEW s \in Slots,
         CommitInHandler(w, s)
  PROVE  LeaseInv'
<1> DEFINE a == att[w][s]
           b == [a EXCEPT !.committed = TRUE]
           row == Finished(table[a.job], "succeeded", Now)
<1>1. /\ a.phase = "handling" /\ SetRow(a.job, row) /\ SetAttempt(w, s, b)
      /\ UNCHANGED claim
  BY DEF CommitInHandler, Handling, Row
<1>2. Live(a)
  BY <1>1 DEF Live
<1>3. /\ a \in Attempts /\ a.job \in Jobs /\ table[a.job] \in Rows
      /\ Leased(table, w, a) /\ TimelyAttempt(a)
  BY <1>2, AttemptHolds DEF RowsInv, TypeOK, LeaseInv
<1>4. /\ b \in Attempts /\ b.phase = "handling" /\ b.job = a.job
      /\ b.number = a.number /\ b.deadline = a.deadline /\ b.committed
  BY <1>1, <1>3 DEF Attempts
<1>5. /\ row.status = "succeeded" /\ row.attempts = table[a.job].attempts
      /\ table'[a.job] = row
  BY <1>1, <1>3 DEF Finished, Released, Rows, SetRow, RowsInv, TypeOK
<1> HIDE DEF b, row
<1>6. TimelyAttempt(b)
  BY <1>1, <1>3, <1>4 DEF TimelyAttempt, Writing
<1>7. Descends(a, b)
  <2>1. Until(a) = a.deadline /\ Until(b) = a.deadline /\ a.deadline \in Nat
    BY <1>1, <1>3, <1>4 DEF Until, Attempts
  <2>2. QED
    BY <1>2, <1>4, <2>1 DEF Descends
<1>8. Leased(table', w, b)
  BY <1>3, <1>4, <1>5 DEF Leased
<1> HIDE DEF a
<1>9. QED
  BY <1>1, <1>2, <1>4, <1>6, <1>7, <1>8, LeaseWrite DEF a

LEMMA HandlingLease ==
  ASSUME RowsInv, LeaseInv, LeaseMargin, NEW w \in Workers, NEW s \in Slots,
         \/ MarkCompleted(w, s)
         \/ HandlerReturns(w, s) \/ TimesOut(w, s) \/ ObserveCancellation(w, s)
  PROVE  LeaseInv'
<1> DEFINE a == att[w][s]
<1>1. /\ a \in Attempts /\ TimelyAttempt(a) /\ a.phase = "handling"
      /\ UNCHANGED <<table, claim>>
  BY DEF RowsInv, TypeOK, LeaseInv, MarkCompleted, HandlerReturns, TimesOut,
         ObserveCancellation, StopHandling, Handling
<1>2. ASSUME NEW b \in Attempts, SetAttempt(w, s, b), b.phase \in {"handling", "ended"},
             b.job = a.job, b.number = a.number, b.deadline = a.deadline,
             b.committed = a.committed
      PROVE  LeaseInv'
  <2>1. TimelyAttempt(b)
    BY <1>1, <1>2 DEF TimelyAttempt, Writing
  <2>2. Descends(a, b)
    BY <1>1, <1>2 DEF Descends, Live, Until, Attempts
  <2> HIDE DEF a
  <2>3. QED
    BY <1>1, <1>2, <2>1, <2>2, LeaseAttempt DEF a
<1>3. ASSUME NEW verdict \in {"ok", "retry", "permanent", "cancelled"},
             StopHandling(w, s, verdict)
      PROVE  LeaseInv'
  <2> DEFINE b == [a EXCEPT !.phase = "ended", !.verdict = verdict]
  <2>1. SetAttempt(w, s, b)
    BY <1>3 DEF StopHandling
  <2>2. /\ b \in Attempts /\ b.phase = "ended" /\ b.job = a.job
        /\ b.number = a.number /\ b.deadline = a.deadline /\ b.committed = a.committed
    BY <1>1 DEF Attempts
  <2> HIDE DEF a, b
  <2>3. QED
    BY <1>2, <2>1, <2>2
<1>4. CASE MarkCompleted(w, s)
  <2> DEFINE b == [a EXCEPT !.marked = TRUE]
  <2>1. SetAttempt(w, s, b)
    BY <1>4 DEF MarkCompleted
  <2>2. /\ b \in Attempts /\ b.phase = "handling" /\ b.job = a.job
        /\ b.number = a.number /\ b.deadline = a.deadline /\ b.committed = a.committed
    BY <1>1 DEF Attempts
  <2> HIDE DEF a, b
  <2>3. QED
    BY <1>2, <2>1, <2>2
<1>5. QED
  BY <1>3, <1>4 DEF HandlerReturns, TimesOut, ObserveCancellation

LEMMA BeginSettlingLease ==
  ASSUME RowsInv, LeaseInv, LeaseMargin, NEW w \in Workers, NEW s \in Slots,
         BeginSettling(w, s)
  PROVE  LeaseInv'
<1> DEFINE a == att[w][s]
           b == [a EXCEPT !.phase = "settling", !.at = Now]
<1>1. /\ a \in Attempts /\ TimelyAttempt(a) /\ a.phase = "ended"
      /\ UNCHANGED <<table, claim>>
      /\ SetAttempt(w, s, Idle) \/ SetAttempt(w, s, b)
  BY DEF RowsInv, TypeOK, LeaseInv, BeginSettling
<1>2. /\ b \in Attempts /\ b.phase = "settling" /\ b.job = a.job
      /\ b.number = a.number /\ b.at = Now /\ b.committed = a.committed
  BY <1>1, Window DEF Attempts
<1> HIDE DEF b
<1>3. TimelyAttempt(b)
  BY <1>2, Window DEF TimelyAttempt
<1>4. Descends(a, b)
  <2>1. Until(a) = a.deadline /\ a.deadline >= Now
    BY <1>1 DEF Until, TimelyAttempt
  <2>2. Until(b) = Now
    BY <1>2 DEF Until
  <2>3. QED
    BY <1>1, <1>2, <2>1, <2>2 DEF Descends, Live, Attempts
<1>5. CASE SetAttempt(w, s, b)
  <2> HIDE DEF a
  <2>1. QED
    BY <1>1, <1>2, <1>3, <1>4, <1>5, LeaseAttempt DEF a
<1>6. CASE SetAttempt(w, s, Idle)
  BY <1>1, <1>6, IdleTimely, LeaseAttempt
<1>7. QED
  BY <1>1, <1>5, <1>6

\* A later step of the same write, with the same timestamp.
LEMMA PhaseLease ==
  ASSUME RowsInv, LeaseInv, LeaseMargin, NEW w \in Workers, NEW s \in Slots,
         att[w][s].phase \in Writing, NEW p \in Writing \union {"lost"},
         SetAttempt(w, s, [att[w][s] EXCEPT !.phase = p]), UNCHANGED <<table, claim>>
  PROVE  LeaseInv'
<1> DEFINE a == att[w][s]
           b == [a EXCEPT !.phase = p]
<1>1. a \in Attempts /\ TimelyAttempt(a) /\ b \in Attempts
  BY PhaseRows DEF RowsInv, TypeOK, LeaseInv
<1>2. /\ b.phase = p /\ b.job = a.job /\ b.number = a.number /\ b.at = a.at
      /\ b.committed = a.committed /\ SetAttempt(w, s, b)
  BY <1>1 DEF Attempts
<1> HIDE DEF b
<1>3. TimelyAttempt(b)
  BY <1>1, <1>2 DEF TimelyAttempt, Writing
<1>4. Live(b) => Descends(a, b)
  BY <1>1, <1>2 DEF Descends, Live, Until, Attempts, Writing
<1> HIDE DEF a
<1>5. QED
  BY <1>1, <1>2, <1>3, <1>4, LeaseAttempt DEF a

\* The last step of a write.
LEMMA WrittenLease ==
  ASSUME RowsInv, LeaseInv, LeaseMargin, NEW w \in Workers, NEW s \in Slots,
         att[w][s].phase \in Writing, NEW row, SetRow(att[w][s].job, row),
         SetAttempt(w, s, Idle), UNCHANGED claim
  PROVE  LeaseInv'
<1>1. Live(att[w][s])
  BY DEF Live, Writing
<1>2. QED
  BY <1>1, IdleTimely, LeaseWrite

LEMMA WritingLease ==
  ASSUME RowsInv, LeaseInv, LeaseMargin, NEW w \in Workers, NEW s \in Slots,
         \/ Settle(w, s) \/ CheckCancellation(w, s)
         \/ CancelInstead(w, s) \/ OrphanSettles(w, s)
  PROVE  LeaseInv'
<1>1. att[w][s].phase \in Writing /\ UNCHANGED claim
  BY DEF Settle, CheckCancellation, CancelInstead, OrphanSettles, Writing
<1>2. \/ \E row : SetRow(att[w][s].job, row) /\ SetAttempt(w, s, Idle)
      \/ /\ \E p \in Writing \union {"lost"} :
              SetAttempt(w, s, [att[w][s] EXCEPT !.phase = p])
         /\ UNCHANGED table
      \/ SetAttempt(w, s, Idle) /\ UNCHANGED table
  BY DEF Settle, CheckCancellation, CancelInstead, OrphanSettles, Writing
<1>3. CASE SetAttempt(w, s, Idle) /\ UNCHANGED table
  BY <1>1, <1>3, IdleTimely, LeaseAttempt
<1>4. QED
  BY <1>1, <1>2, <1>3, WrittenLease, PhaseLease

(***************************************************************************)
(* The end of a process: what it drops stays fenced, what it sent goes on. *)
(***************************************************************************)
LEMMA DroppedLease ==
  ASSUME RowsInv, LeaseInv, NEW w \in Workers, NEW s \in Slots,
         NEW b \in Dropped(att[w][s])
  PROVE  TimelyAttempt(b) /\ (Live(b) => Descends(att[w][s], b))
<1> DEFINE a == att[w][s]
<1>1. a \in Attempts /\ TimelyAttempt(a)
  BY DEF RowsInv, TypeOK, LeaseInv
<1>2. CASE b = Idle
  BY <1>2, IdleTimely
<1>3. CASE b = a
  BY <1>1, <1>3 DEF Descends, Until, Attempts
<1>4. CASE b = Orphan(a) /\ a.phase \in {"settling", "cancelling"}
  <2>1. /\ b.phase = "orphaned" /\ b.job = a.job /\ b.at = a.at
        /\ b.number = a.number /\ b.committed = a.committed
    BY <1>1, <1>4 DEF Orphan, Attempts
  <2>2. TimelyAttempt(b)
    BY <1>1, <1>4, <2>1 DEF TimelyAttempt, Writing
  <2>3. Descends(a, b)
    BY <1>1, <1>4, <2>1 DEF Descends, Live, Until, Attempts
  <2>4. QED
    BY <2>2, <2>3
<1>5. \/ b = Idle \/ b = a
      \/ b = Orphan(a) /\ a.phase \in {"settling", "cancelling"}
  BY DroppedIs
<1>6. QED
  BY <1>2, <1>3, <1>4, <1>5

LEMMA DropLease ==
  ASSUME RowsInv, LeaseInv, NEW w \in Workers, DropAttempts(w)
  PROVE  \A v \in Workers, s \in Slots :
           /\ att'[v][s] \in Attempts /\ TimelyAttempt(att'[v][s])
           /\ Live(att'[v][s]) => Descends(att[v][s], att'[v][s])
<1>1. PICK left : /\ left \in [Slots -> UNION {Dropped(att[w][s]) : s \in Slots}]
                  /\ \A s \in Slots : left[s] \in Dropped(att[w][s])
                  /\ att' = [att EXCEPT ![w] = left]
  BY DEF DropAttempts
<1>2. att' \in [Workers -> [Slots -> Attempts]]
  BY DropRows
<1>3. /\ \A s \in Slots : att'[w][s] = left[s]
      /\ \A v \in Workers \ {w} : att'[v] = att[v]
  BY <1>1 DEF RowsInv, TypeOK
<1>4. \A s \in Slots :
        TimelyAttempt(left[s]) /\ (Live(left[s]) => Descends(att[w][s], left[s]))
  BY <1>1, DroppedLease
<1>5. \A v \in Workers, s \in Slots :
        /\ att[v][s] \in Attempts /\ TimelyAttempt(att[v][s])
        /\ Live(att[v][s]) => Descends(att[v][s], att[v][s])
  BY DEF RowsInv, TypeOK, LeaseInv, Descends, Until, Attempts
<1>6. QED
  BY <1>2, <1>3, <1>4, <1>5

LEMMA ProcessLease ==
  ASSUME RowsInv, LeaseInv, LeaseMargin, NEW w \in Workers,
         \/ RunFails(w) \/ Shutdown(w) \/ DrainEnds(w) \/ Crash(w) \/ Restart(w)
  PROVE  LeaseInv'
<1>1. UNCHANGED table
  BY DEF RunFails, Shutdown, DrainEnds, Crash, Restart
<1>2. \A v \in Workers, s \in Slots :
        /\ att'[v][s] \in Attempts /\ TimelyAttempt(att'[v][s])
        /\ Live(att'[v][s]) => Descends(att[v][s], att'[v][s])
  <2>1. DropAttempts(w) \/ UNCHANGED att
    BY DEF RunFails, Shutdown, DrainEnds, Crash, Restart
  <2>2. CASE UNCHANGED att
    BY <2>2 DEF RowsInv, TypeOK, LeaseInv, Descends, Until, Attempts
  <2>3. QED
    BY <2>1, <2>2, DropLease
<1>3. claim' = claim \/ claim' = [claim EXCEPT ![w] = NoClaim]
  BY ProcessClaim
<1>4. TimelyClaim(NoClaim) /\ ~Returned(NoClaim)
  BY DEF NoClaim, Returned, TimelyClaim
<1>5. \A v \in Workers :
        \/ claim'[v] = claim[v]
        \/ TimelyClaim(claim'[v]) /\ ~Returned(claim'[v])
  BY <1>3, <1>4 DEF RowsInv, TypeOK
<1>6. \A v \in Workers : TimelyClaim(claim'[v])
  BY <1>5 DEF LeaseInv
<1>7. QED
  BY <1>1, <1>2, <1>5, <1>6, SameRow, LeaseFrame

LEMMA StoreFailsLease ==
  ASSUME RowsInv, LeaseInv, LeaseMargin, NEW w \in Workers, NEW s \in Slots,
         StoreFails(w, s)
  PROVE  LeaseInv'
<1> DEFINE b == [att[w][s] EXCEPT !.phase = "lost"]
<1>1. SetAttempt(w, s, b) /\ UNCHANGED <<table, claim>>
  BY DEF StoreFails
<1>2. b \in Attempts /\ b.phase = "lost"
  <2>1. att[w][s] \in Attempts
    BY DEF RowsInv, TypeOK
  <2>2. QED
    BY <2>1 DEF Attempts
<1> HIDE DEF b
<1>3. ~Live(b) /\ TimelyAttempt(b)
  BY <1>2 DEF Live, TimelyAttempt, Writing
<1>4. QED
  BY <1>1, <1>2, <1>3, LeaseAttempt

(***************************************************************************)
(* Time: every instant that counts moves back by one, with its bounds.     *)
(***************************************************************************)
LEMMA AgedBack == \A x \in Nat : x > Oldest => Aged(x) = x - 1
BY Window DEF Aged

LEMMA TickLease ==
  ASSUME RowsInv, LeaseInv, LeaseMargin, Tick
  PROVE  LeaseInv'
<1>1. ASSUME NEW w \in Workers
      PROVE  TimelyClaim(claim'[w])
  <2>1. /\ claim[w] \in Claims /\ TimelyClaim(claim[w])
        /\ claim[w].phase \in {"called", "returned"} =>
             claim[w].at > Oldest
    BY DEF RowsInv, TypeOK, LeaseInv, Tick
  <2>2. claim'[w].phase = claim[w].phase /\ claim'[w].at = Aged(claim[w].at)
    BY TickFields
  <2>3. QED
    BY <2>1, <2>2, AgedBack, Window DEF TimelyClaim, Claims
<1>2. ASSUME NEW w \in Workers, Returned(claim'[w])
      PROVE  ClaimHolds(table', w, claim'[w])
  <2>1. Returned(claim[w]) /\ claim[w].at > Oldest
    BY <1>2, TickFields DEF Returned, Tick
  <2>2. /\ claim[w] \in Claims /\ claim[w].job \in Jobs
        /\ ClaimHolds(table, w, claim[w]) /\ table[claim[w].job] \in Rows
    BY <2>1, ClaimIs DEF RowsInv, TypeOK
  <2> DEFINE row == table[claim[w].job]
             new == table'[claim[w].job]
  <2>3. /\ claim'[w].job = claim[w].job /\ claim'[w].number = claim[w].number
        /\ claim'[w].at = Aged(claim[w].at)
    BY TickFields
  <2>4. /\ new.status = row.status /\ new.attempts = row.attempts
        /\ new.locked_by = row.locked_by
        /\ new.locked_until = Aged(row.locked_until)
    BY <2>2, TickFields, AgedRowFields
  <2>5. /\ claim[w].at \in Nat /\ row.locked_until \in Nat /\ Lease \in Nat
        /\ claim[w].at + Lease <= row.locked_until
    BY <2>2, RowsAssumption DEF Claims, Rows, ClaimHolds
  <2>6. Aged(claim[w].at) + Lease <= Aged(row.locked_until)
    BY <2>1, <2>5, AgedBack, Window
  <2>7. QED
    BY <2>2, <2>3, <2>4, <2>6 DEF ClaimHolds
<1>3. ASSUME NEW w \in Workers, NEW s \in Slots
      PROVE  /\ TimelyAttempt(att'[w][s])
             /\ Live(att'[w][s]) => Leased(table', w, att'[w][s])
  <2> DEFINE a == att[w][s]
             b == att'[w][s]
  <2>1. /\ a \in Attempts /\ TimelyAttempt(a)
        /\ a.phase = "handling" => a.deadline > Now
        /\ a.phase # "ended"
        /\ a.phase \in Writing => a.at > Oldest
    BY DEF RowsInv, TypeOK, LeaseInv, Tick, Handling, Writing
  <2>2. /\ b.phase = a.phase /\ b.job = a.job /\ b.number = a.number
        /\ b.deadline = Aged(a.deadline) /\ b.at = Aged(a.at)
        /\ b.committed = a.committed
    BY TickFields
  <2>3. ASSUME Live(b)
        PROVE  Live(a) /\ a.job \in Jobs /\ table[a.job] \in Rows /\ Leased(table, w, a)
               /\ Held(table[a.job])
    <3>1. Live(a)
      BY <2>2, <2>3 DEF Live
    <3>2. QED
      BY <3>1, AttemptHolds DEF RowsInv, TypeOK
  <2>4. ASSUME Live(b)
        PROVE  /\ table'[a.job].status = table[a.job].status
               /\ table'[a.job].attempts = table[a.job].attempts
               /\ table'[a.job].locked_by = table[a.job].locked_by
               /\ table'[a.job].locked_until = Aged(table[a.job].locked_until)
    BY <2>3, <2>4, TickFields, AgedRowFields
  <2> HIDE DEF a, b
  <2>5. a.deadline \in Nat /\ a.at \in Nat
    BY <2>1 DEF Attempts
  <2>6. TimelyAttempt(b)
    BY <2>1, <2>2, <2>5, AgedBack, Window DEF TimelyAttempt
  <2>7. ASSUME Live(b)
        PROVE  Until(b) = Until(a) - 1 /\ Until(a) \in Nat
    <3>1. a.phase \in {"handling"} \union Writing
      BY <2>1, <2>3, <2>7, LivePhase
    <3>2. a.deadline > Oldest \/ a.phase \in Writing
      BY <2>1, <2>5, <3>1, Window
    <3>3. QED
      BY <2>1, <2>2, <2>5, <3>1, <3>2, AgedBack DEF Until, Writing
  <2>8. ASSUME Live(b)
        PROVE  Leased(table', w, b)
    <3>1. CASE table[a.job].status = "running"
      <4>1. /\ table[a.job].locked_by = w /\ table[a.job].locked_until \in Nat
            /\ Until(a) + MaxDelay < table[a.job].locked_until
            /\ table[a.job].locked_until > Now
        BY <2>3, <2>8, <3>1 DEF Leased, Held, Rows
      <4>2. table'[a.job].locked_until = table[a.job].locked_until - 1
        BY <2>4, <2>8, <4>1, AgedBack, Window
      <4>3. Until(b) + MaxDelay < table'[a.job].locked_until
        BY <2>7, <2>8, <4>1, <4>2, RunnerAssumption
      <4>4. QED
        BY <2>2, <2>3, <2>4, <2>8, <3>1, <4>1, <4>3 DEF Leased
    <3>2. CASE table[a.job].status = "succeeded"
      BY <2>2, <2>3, <2>4, <2>8, <3>2 DEF Leased
    <3>3. QED
      BY <2>3, <2>8, <3>1, <3>2 DEF Leased
  <2>9. QED
    BY <2>6, <2>8 DEF b
<1>4. OneOwner'
  <2>1. /\ \A w \in Workers : /\ claim'[w].phase = claim[w].phase
                              /\ claim'[w].job = claim[w].job
        /\ \A w \in Workers, s \in Slots : /\ att'[w][s].phase = att[w][s].phase
                                           /\ att'[w][s].job = att[w][s].job
    BY TickFields
  <2>2. OneOwner
    BY DEF LeaseInv
  <2>3. QED
    BY <2>1, <2>2 DEF OneOwner, Live, Returned
<1>5. QED
  BY <1>1, <1>2, <1>3, <1>4 DEF LeaseInv

-----------------------------------------------------------------------------
(***************************************************************************)
(* The second invariant is inductive, given the first.                     *)
(***************************************************************************)
LEMMA InitLease == Init => LeaseInv
<1> SUFFICES ASSUME Init PROVE LeaseInv
  OBVIOUS
<1>1. \A w \in Workers : claim[w] = NoClaim /\ \A s \in Slots : att[w][s] = Idle
  BY DEF Init
<1>2. ~Returned(NoClaim) /\ TimelyClaim(NoClaim)
  BY DEF NoClaim, Returned, TimelyClaim
<1>3. QED
  BY <1>1, <1>2, IdleTimely DEF LeaseInv, OneOwner

LEMMA NextLease ==
  ASSUME RowsInv, LeaseInv, LeaseMargin, [Next]_vars
  PROVE  LeaseInv'
<1>1. ASSUME NEW j \in Jobs, Enqueue(j) \/ RequestCancellation(j)
      PROVE  LeaseInv'
  BY <1>1, EnqueueLease, RequestCancellationLease
<1>2. ASSUME NEW w \in Workers,
             \/ CallClaim(w) \/ ExecuteClaim(w)
             \/ \E t \in Oldest..Now : ExecuteAbandoned(w, t)
      PROVE  LeaseInv'
  BY <1>2, CallClaimLease, ExecuteClaimLease, ExecuteAbandonedLease
<1>3. ASSUME NEW w \in Workers,
             RunFails(w) \/ Shutdown(w) \/ DrainEnds(w) \/ Crash(w) \/ Restart(w)
      PROVE  LeaseInv'
  BY <1>3, ProcessLease
<1>4. ASSUME NEW w \in Workers, NEW s \in Slots,
             \/ SpawnAttempt(w, s) \/ CommitInHandler(w, s) \/ MarkCompleted(w, s)
             \/ HandlerReturns(w, s) \/ TimesOut(w, s) \/ ObserveCancellation(w, s)
      PROVE  LeaseInv'
  BY <1>4, SpawnLease, CommitLease, HandlingLease
<1>5. ASSUME NEW w \in Workers, NEW s \in Slots,
             AttemptStep(w, s) \/ StoreFails(w, s)
      PROVE  LeaseInv'
  BY <1>5, BeginSettlingLease, WritingLease, StoreFailsLease DEF AttemptStep
<1>6. CASE Tick
  BY <1>6, TickLease
<1>7. CASE UNCHANGED vars
  BY <1>7 DEF vars, LeaseInv, OneOwner
<1>8. QED
  BY <1>1, <1>2, <1>3, <1>4, <1>5, <1>6, <1>7 DEF Next

(***************************************************************************)
(* With the margin, every attempt that runs or may still write its outcome *)
(* holds the lease of its job alone: through crashes, restarts under the   *)
(* same worker_id, abandoned claims and statements of dropped futures.     *)
(***************************************************************************)
THEOREM LeaseInvariant == LeaseMargin => (Spec => []LeaseInv)
<1> SUFFICES ASSUME LeaseMargin PROVE Spec => []LeaseInv
  OBVIOUS
<1>1. RowsInv /\ RowsInv' /\ LeaseInv /\ [Next]_vars => LeaseInv'
  BY NextLease
<1>2. QED
  BY <1>1, InitLease, RowsInvariant, PTL DEF Spec

(***************************************************************************)
(* Two handlers never run one job at the same time, in any two processes.  *)
(***************************************************************************)
THEOREM HandlersExclude == LeaseMargin => (Spec => []OneHandlerPerJob)
<1> SUFFICES ASSUME LeaseMargin PROVE Spec => []OneHandlerPerJob
  OBVIOUS
<1>1. LeaseInv => OneHandlerPerJob
  BY DEF LeaseInv, OneOwner, OneHandlerPerJob, Handling, Live
<1>2. QED
  BY <1>1, LeaseInvariant, PTL

(***************************************************************************)
(* The lease predicate of a write, which names a worker and no attempt,    *)
(* never accepts an outcome for a later attempt of the same job.           *)
(***************************************************************************)
THEOREM StaleAttemptsFenced == LeaseMargin => (Spec => []StaleAttemptFenced)
<1> SUFFICES ASSUME LeaseMargin PROVE Spec => []StaleAttemptFenced
  OBVIOUS
<1>1. LeaseInv => StaleAttemptFenced
  BY DEF LeaseInv, Leased, Live, StaleAttemptFenced, Row
<1>2. QED
  BY <1>1, LeaseInvariant, PTL
=============================================================================
