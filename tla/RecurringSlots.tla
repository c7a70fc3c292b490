--------------------------- MODULE RecurringSlots ----------------------------
(***************************************************************************)
(* Recurring work on fixed UTC slots: the arithmetic of                    *)
(* baukit-jobs/src/recurring.rs, and the chain of jobs that the platform   *)
(* worker's purge handler keeps going with it.  Every replica enqueues the *)
(* current slot when it starts; the handler of a slot's job enqueues the   *)
(* next slot in the transaction that completes the job.  Replicas read     *)
(* clocks that differ, jobs are retried, leases expire, and cleanup        *)
(* deletes terminal rows with their idempotency keys.                      *)
(***************************************************************************)
EXTENDS Integers

CONSTANTS
  Replicas,
  Interval,   \* seconds of the FixedUtcInterval
  JitterNum, JitterDen, Hash, \* the jitter fraction and the key's fnv1a hash
  Skew,       \* how far a clock reading may be behind the fastest clock
  Lease, MaxAttempts,
  Retention,  \* how long cleanup keeps a terminal row
  LastTime,   \* bound on the clock
  None

RecurringAssumption ==
  /\ Interval \in Nat \ {0} /\ Skew \in Nat /\ Lease \in Nat \ {0}
  /\ MaxAttempts \in Nat \ {0} /\ Retention \in Nat /\ LastTime \in Nat
  /\ JitterNum \in Nat /\ JitterDen \in Nat \ {0} /\ JitterNum <= JitterDen
  /\ Hash \in Nat

VARIABLES
  now,
  rows,    \* the job of each slot, by its idempotency key
  work,    \* what each replica's handler holds: its slot, and the next slot
  done,    \* how often the job of a slot succeeded
  gaveUp   \* whether a job used up its attempts

vars == <<now, rows, work, done, gaveUp>>

-----------------------------------------------------------------------------
(* FixedUtcInterval, in seconds since the epoch. *)
SlotAt(t) == (t \div Interval) * Interval

NextSlot(current, t) ==
  (IF SlotAt(t) > current THEN SlotAt(t) ELSE current) + Interval

JitterBound ==
  LET b == (Interval * JitterNum) \div JitterDen
  IN  IF b < Interval THEN b ELSE Interval - 1

RunAt(slot) == slot + (Hash % (JitterBound + 1))

Slots == {i * Interval : i \in SlotAt(-Skew) \div Interval ..
                                 LastTime \div Interval + 2}
\* now is the fastest clock.
Readings == {now - Skew, now}

-----------------------------------------------------------------------------
Absent == [status |-> "absent", attempts |-> 0, worker |-> None, until |-> 0]
Live == {"pending", "running"}

Init ==
  /\ now = 0
  /\ rows = [s \in Slots |-> Absent]
  /\ work = [r \in Replicas |-> None]
  /\ done = [s \in Slots |-> 0]
  /\ gaveUp = FALSE

\* enqueue with the slot's identifier: the existing row wins, terminal or not.
Inserted(table, s) ==
  IF table[s].status # "absent" THEN table
  ELSE [table EXCEPT ![s].status = "pending"]

Ended(table, s, status) ==
  [table EXCEPT ![s] = [Absent EXCEPT !.status = status, !.until = now]]

EnqueueInitial(r) ==
  /\ \E t \in Readings : rows' = Inserted(rows, SlotAt(t))
  /\ UNCHANGED <<now, work, done, gaveUp>>

Due(s, t) ==
  \/ rows[s].status = "pending" /\ RunAt(s) <= t
  \/ rows[s].status = "running" /\ rows[s].until <= t

\* The claim's sweep: expired leases of jobs without an attempt left.
Exhausted(t) ==
  {s \in Slots : rows[s].status = "running" /\ rows[s].until <= t
                   /\ rows[s].attempts = MaxAttempts}

Claim(r) ==
  /\ work[r] = None
  /\ \E t \in Readings, s \in Slots :
       /\ Exhausted(t) = {} /\ Due(s, t)
       /\ rows' = [rows EXCEPT ![s] =
            [status |-> "running", attempts |-> @.attempts + 1,
             worker |-> r, until |-> t + Lease]]
       /\ work' = [work EXCEPT ![r] = [slot |-> s, next |-> None]]
  /\ UNCHANGED <<now, done, gaveUp>>

Sweep ==
  /\ \E t \in Readings : \E s \in Exhausted(t) : rows' = Ended(rows, s, "failed")
  /\ gaveUp' = TRUE
  /\ UNCHANGED <<now, work, done>>

\* The handler has purged and computes the next slot from its own clock.
ComputeNext(r) ==
  /\ work[r] # None /\ work[r].next = None
  /\ \E t \in Readings : work' = [work EXCEPT ![r].next = NextSlot(work[r].slot, t)]
  /\ UNCHANGED <<now, rows, done, gaveUp>>

Owns(r, s, t) ==
  rows[s].status = "running" /\ rows[s].worker = r /\ rows[s].until > t

\* Mutant: the job completes without enqueueing the next slot.
CompleteFirst(r) ==
  /\ work[r] # None
  /\ \E t \in Readings :
       IF Owns(r, work[r].slot, t)
       THEN /\ rows' = Ended(rows, work[r].slot, "succeeded")
            /\ done' = [done EXCEPT ![work[r].slot] = @ + 1]
       ELSE UNCHANGED <<rows, done>>
  /\ work' = [work EXCEPT ![r] = None]
  /\ UNCHANGED <<now, gaveUp>>

\* Enqueue the next slot and complete, in one transaction; without the lease
\* the transaction is dropped and nothing is written.
Complete(r) ==
  /\ work[r] # None /\ work[r].next # None
  /\ \E t \in Readings :
       IF Owns(r, work[r].slot, t)
       THEN /\ rows' = Ended(Inserted(rows, work[r].next), work[r].slot, "succeeded")
            /\ done' = [done EXCEPT ![work[r].slot] = @ + 1]
       ELSE UNCHANGED <<rows, done>>
  /\ work' = [work EXCEPT ![r] = None]
  /\ UNCHANGED <<now, gaveUp>>

\* A retryable error anywhere in the handler, recorded if the lease is held.
Fail(r) ==
  /\ work[r] # None
  /\ \E t \in Readings :
       IF ~Owns(r, work[r].slot, t) THEN UNCHANGED <<rows, gaveUp>>
       ELSE IF rows[work[r].slot].attempts < MaxAttempts
       THEN /\ rows' = [rows EXCEPT ![work[r].slot].status = "pending",
                                    ![work[r].slot].worker = None]
            /\ UNCHANGED gaveUp
       ELSE rows' = Ended(rows, work[r].slot, "failed") /\ gaveUp' = TRUE
  /\ work' = [work EXCEPT ![r] = None]
  /\ UNCHANGED <<now, done>>

Crash(r) ==
  /\ work[r] # None
  /\ work' = [work EXCEPT ![r] = None]
  /\ UNCHANGED <<now, rows, done, gaveUp>>

CleanUp ==
  /\ \E s \in Slots :
       /\ rows[s].status \in {"succeeded", "failed"}
       /\ rows[s].until + Retention < now
       /\ rows' = [rows EXCEPT ![s] = Absent]
  /\ UNCHANGED <<now, work, done, gaveUp>>

Tick == now < LastTime /\ now' = now + 1 /\ UNCHANGED <<rows, work, done, gaveUp>>

Next ==
  \/ \E r \in Replicas : EnqueueInitial(r) \/ Claim(r) \/ ComputeNext(r)
                           \/ Complete(r) \/ Fail(r) \/ Crash(r)
  \/ Sweep \/ CleanUp \/ Tick

Spec == Init /\ [][Next]_vars

-----------------------------------------------------------------------------
TypeOK ==
  /\ now \in 0..LastTime
  /\ rows \in [Slots -> [status : {"absent", "pending", "running", "succeeded", "failed"},
                         attempts : 0..MaxAttempts, worker : Replicas \union {None},
                         until : -Skew..(LastTime + Lease)]]
  /\ \A r \in Replicas : work[r] = None \/ work[r].slot \in Slots
  /\ done \in [Slots -> Nat] /\ gaveUp \in BOOLEAN

\* The chain does not break: after the first job there is always one that is
\* pending or running, unless a job used up its attempts, although replicas
\* disagree on the time and several chains may run into each other's rows.
ChainContinues ==
  (\E s \in Slots : done[s] > 0) /\ ~gaveUp
     => \E s \in Slots : rows[s].status \in Live

\* Slow or skewed handlers never enqueue further ahead than the slot after the
\* one the fastest clock is in: a chain cannot run away from the clock.
NeverRunsAhead ==
  \A s \in Slots : rows[s].status # "absent" => s <= SlotAt(now) + Interval

\* The work of one slot completes once, whichever replicas enqueue, reclaim and
\* retry it, as long as cleanup keeps rows longer than clocks differ.
SlotCompletesOnce == \A s \in Slots : done[s] <= 1

\* The jitter keeps a job inside its slot, also when the fraction is one, so
\* that the time at which it may run belongs to the slot that names it.
JobsRunInTheirSlot ==
  \A s \in Slots : rows[s].status = "running" => SlotAt(RunAt(s)) = s
==============================================================================
