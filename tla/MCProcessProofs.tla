--------------------------- MODULE MCProcessProofs ---------------------------
(***************************************************************************)
(* Two of the machines of MCProcess: the chain of recurring jobs           *)
(* (RecurringSlots), for any number of replicas and slots, any interval,   *)
(* jitter, clock skew, lease, number of attempts and bound of the clock,   *)
(* and the shutdown of a process (Process), for any hooks, tasks, restart  *)
(* limit and drain timeout.  What is proved of them as parts of MCProcess  *)
(* holds whatever the other machines of that module do.                    *)
(***************************************************************************)
EXTENDS MCProcess, Integers, TLAPS

(* How long a completed row must be kept, so that neither a lagging replica *)
(* that starts nor a handler that computed its next slot long ago inserts   *)
(* the slot again: longer than an interval and the skew, and longer than    *)
(* the lease that handler may still hold.                                   *)
RetentionMargin ==
  /\ Interval + Skew <= Retention + 1
  /\ 2 * Skew + Lease <= Retention + 2

Held(r) == rows[work[r].slot].status = "running" /\ rows[work[r].slot].worker = r

RowTyped(a) ==
  /\ a.status \in {"absent", "pending", "running", "succeeded", "failed"}
  /\ a.attempts \in 0..MaxAttempts /\ a.worker \in Replicas \union {None}
  /\ a.until \in -Skew..(LastTime + Lease)
  /\ a = [status |-> a.status, attempts |-> a.attempts, worker |-> a.worker, until |-> a.until]

RowSound(s) ==
  /\ RowTyped(rows[s])
  /\ rows[s].status \in {"absent", "pending"} => rows[s].attempts < MaxAttempts
  /\ rows[s].status # "absent" => s <= Recur!SlotAt(slotsNow) + Interval
  /\ rows[s].status = "running" => s <= slotsNow /\ rows[s].until <= slotsNow + Lease
  /\ rows[s].status = "failed" => gaveUp
  /\ rows[s].status = "succeeded" => done[s] = 1 /\ s <= rows[s].until

DoneSound(s) ==
  /\ done[s] \in {0, 1}
  /\ done[s] = 1 => \/ rows[s].status = "succeeded"
                    \/ rows[s].status = "absent" /\ s + Retention < slotsNow

(* The last line: a handler that still holds its lease completes before the *)
(* slot it enqueues can have been completed and cleaned up.                 *)
WorkSound(r) ==
  work[r] # None =>
    /\ work[r] = [slot |-> work[r].slot, next |-> work[r].next]
    /\ work[r].slot \in Recur!Slots /\ work[r].slot <= slotsNow
    /\ work[r].next # None =>
         /\ work[r].next \in Recur!Slots /\ work[r].slot < work[r].next
         /\ work[r].next <= Recur!SlotAt(slotsNow) + Interval
         /\ Held(r) => rows[work[r].slot].until < work[r].next + Lease + Skew

(* The newest link of the chain: a live job beyond every completed slot.    *)
NewestLink(s) ==
  rows[s].status \in Recur!Live /\ \A d \in Recur!Slots : done[d] = 1 => d < s

Chained ==
  (\E s \in Recur!Slots : done[s] = 1) /\ ~gaveUp => \E s \in Recur!Slots : NewestLink(s)

Tables ==
  /\ slotsNow \in 0..LastTime /\ gaveUp \in BOOLEAN
  /\ rows = [s \in Recur!Slots |-> rows[s]]
  /\ done = [s \in Recur!Slots |-> done[s]]
  /\ work = [r \in Replicas |-> work[r]]

SlotsInv ==
  /\ Tables
  /\ \A s \in Recur!Slots : RowSound(s) /\ DoneSound(s)
  /\ \A r \in Replicas : WorkSound(r)
  /\ Chained
-----------------------------------------------------------------------------
(* Slots and the jitter. *)

LEMMA Bounds ==
  /\ Interval \in Nat \ {0} /\ Skew \in Nat /\ Lease \in Nat \ {0}
  /\ MaxAttempts \in Nat \ {0} /\ Retention \in Nat /\ LastTime \in Nat
  /\ JitterNum \in Nat /\ JitterDen \in Nat \ {0} /\ JitterNum <= JitterDen
  /\ Hash \in Nat
BY ProcessAssumption DEF Recur!RecurringAssumption

LEMMA Multiplied ==
  ASSUME NEW d \in Nat \ {0}, NEW i \in Int, NEW j \in Int
  PROVE  i * d \in Int /\ (i <= j <=> i * d <= j * d)
OBVIOUS

LEMMA Divided ==
  ASSUME NEW t \in Int, NEW d \in Nat \ {0}
  PROVE  /\ t \div d \in Int /\ (t \div d) * d \in Int
         /\ (t \div d) * d <= t /\ t < (t \div d) * d + d
OBVIOUS

LEMMA DividedOnce ==
  ASSUME NEW i \in Int, NEW d \in Nat \ {0}, NEW t \in Int,
         i * d <= t, t < i * d + d
  PROVE  t \div d = i
OBVIOUS

LEMMA DividedUp ==
  ASSUME NEW t \in Int, NEW u \in Int, NEW d \in Nat \ {0}, t <= u
  PROVE  t \div d <= u \div d
<1>1. (t \div d) * d <= u /\ u < (u \div d + 1) * d
  BY Divided, Multiplied
<1>2. (t \div d) * d < (u \div d + 1) * d
  BY <1>1, Divided, Multiplied
<1> QED
  BY <1>2, Divided, Multiplied

LEMMA SlotAround ==
  ASSUME NEW t \in Int
  PROVE  Recur!SlotAt(t) \in Int /\ Recur!SlotAt(t) <= t /\ t < Recur!SlotAt(t) + Interval
BY Bounds, Divided DEF Recur!SlotAt

LEMMA SlotIndex ==
  ASSUME NEW s \in Recur!Slots
  PROVE  \E i \in Int : /\ s = i * Interval
                        /\ Recur!SlotAt(-Skew) \div Interval <= i
                        /\ i <= LastTime \div Interval + 2
<1>1. Recur!SlotAt(-Skew) \div Interval \in Int /\ LastTime \div Interval + 2 \in Int
  BY Bounds, SlotAround, Divided
<1> QED
  BY <1>1 DEF Recur!Slots

LEMMA SlotIsInt == \A s \in Recur!Slots : s \in Int
BY SlotIndex, Bounds, Multiplied

(* A slot that has begun is the current one or an earlier one. *)
LEMMA SlotBegun ==
  ASSUME NEW s \in Recur!Slots, NEW t \in Int, s <= t
  PROVE  s <= Recur!SlotAt(t)
<1>1. PICK i \in Int : s = i * Interval
  BY SlotIndex
<1>2. i * Interval < (t \div Interval + 1) * Interval
  BY <1>1, Bounds, Divided, Multiplied
<1>3. i <= t \div Interval
  BY <1>2, Bounds, Divided, Multiplied
<1> QED
  BY <1>1, <1>3, Bounds, Divided, Multiplied DEF Recur!SlotAt

LEMMA SlotOf ==
  ASSUME NEW s \in Recur!Slots, NEW t \in Int, s <= t, t < s + Interval
  PROVE  Recur!SlotAt(t) = s
<1>1. PICK i \in Int : s = i * Interval
  BY SlotIndex
<1>2. t \div Interval = i
  BY <1>1, Bounds, DividedOnce
<1> QED
  BY <1>1, <1>2 DEF Recur!SlotAt

LEMMA SlotUp ==
  ASSUME NEW t \in Int, NEW u \in Int, t <= u
  PROVE  Recur!SlotAt(t) <= Recur!SlotAt(u)
BY Bounds, Divided, DividedUp, Multiplied DEF Recur!SlotAt

LEMMA SlotExists ==
  ASSUME NEW t \in Int, -Skew <= t, t <= LastTime
  PROVE  Recur!SlotAt(t) \in Recur!Slots
<1>1. Recur!SlotAt(-Skew) \div Interval = (-Skew) \div Interval
  BY Bounds, Divided, DividedOnce DEF Recur!SlotAt
<1>2. /\ (-Skew) \div Interval <= t \div Interval
      /\ t \div Interval <= LastTime \div Interval
  BY Bounds, DividedUp
<1>3. t \div Interval \in Recur!SlotAt(-Skew) \div Interval .. LastTime \div Interval + 2
  BY <1>1, <1>2, Bounds, Divided
<1> QED
  BY <1>3 DEF Recur!Slots, Recur!SlotAt

LEMMA SlotFollows ==
  ASSUME NEW s \in Recur!Slots, s <= LastTime
  PROVE  s + Interval \in Recur!Slots
<1>1. PICK i \in Int : s = i * Interval /\ Recur!SlotAt(-Skew) \div Interval <= i
  BY SlotIndex
<1>2. i <= LastTime \div Interval
  <2>1. i * Interval < (LastTime \div Interval + 1) * Interval
    BY <1>1, Bounds, Divided, Multiplied
  <2> QED
    BY <2>1, Bounds, Divided, Multiplied
<1>3. i + 1 \in Recur!SlotAt(-Skew) \div Interval .. LastTime \div Interval + 2
  BY <1>1, <1>2, Bounds, Divided, SlotAround
<1>4. s + Interval = (i + 1) * Interval
  BY <1>1, Bounds
<1> QED
  BY <1>3, <1>4 DEF Recur!Slots

(* The jitter never reaches the next slot, whatever the fraction. *)
LEMMA JitterInside ==
  Recur!JitterBound \in Nat /\ Recur!JitterBound < Interval
<1>1. Interval * JitterNum \in Nat
  BY Bounds
<1>2. (Interval * JitterNum) \div JitterDen \in Nat
  BY <1>1, Bounds
<1> QED
  BY <1>2, Bounds DEF Recur!JitterBound

LEMMA RunsInside ==
  ASSUME NEW s \in Recur!Slots
  PROVE  /\ Recur!RunAt(s) \in Int
         /\ s <= Recur!RunAt(s) /\ Recur!RunAt(s) < s + Interval
<1>1. Hash % (Recur!JitterBound + 1) \in 0..Recur!JitterBound
  BY JitterInside, Bounds
<1> QED
  BY <1>1, JitterInside, SlotIsInt, Bounds DEF Recur!RunAt

-----------------------------------------------------------------------------
(* What a step leaves as it was. *)

LEMMA SlotsNowInt == SlotsInv => slotsNow \in 0..LastTime /\ slotsNow \in Int /\ slotsNow <= LastTime
BY Bounds DEF SlotsInv, Tables

LEMMA ReadingBounds ==
  ASSUME SlotsInv, NEW t \in Recur!Readings
  PROVE  /\ t \in Int /\ slotsNow - Skew <= t /\ t <= slotsNow
         /\ -Skew <= t /\ t <= LastTime
BY SlotsNowInt, Bounds DEF Recur!Readings

LEMMA RowKept ==
  ASSUME SlotsInv, NEW s \in Recur!Slots, slotsNow' = slotsNow, gaveUp => gaveUp',
         rows'[s] = rows[s], done'[s] = done[s]
  PROVE  RowSound(s)' /\ DoneSound(s)'
BY DEF SlotsInv, RowSound, DoneSound, RowTyped, Recur!SlotAt

LEMMA WorkKept ==
  ASSUME SlotsInv, NEW r \in Replicas, slotsNow' = slotsNow, work'[r] = work[r],
         work[r] # None => \/ rows'[work[r].slot] = rows[work[r].slot]
                           \/ rows'[work[r].slot].status # "running"
                           \/ rows'[work[r].slot].worker # r
  PROVE  WorkSound(r)'
BY DEF SlotsInv, WorkSound, Held, Recur!Slots, Recur!SlotAt

LEMMA Unemployed ==
  ASSUME NEW r, work'[r] = None
  PROVE  WorkSound(r)'
BY DEF WorkSound

LEMMA ChainKept ==
  ASSUME SlotsInv, gaveUp => gaveUp',
         \A s \in Recur!Slots : done'[s] = done[s],
         \A s \in Recur!Slots :
           rows[s].status \in Recur!Live => rows'[s].status \in Recur!Live \/ gaveUp'
  PROVE  Chained'
<1> SUFFICES ASSUME \E s \in Recur!Slots : done'[s] = 1, ~gaveUp'
             PROVE  \E s \in Recur!Slots : NewestLink(s)'
  BY DEF Chained, Recur!Slots, Recur!SlotAt
<1>1. PICK s \in Recur!Slots : NewestLink(s)
  BY DEF SlotsInv, Chained
<1>2. NewestLink(s)'
  BY <1>1 DEF NewestLink, Recur!Live, Recur!Slots, Recur!SlotAt
<1> QED
  BY <1>2

LEMMA TablesKept ==
  ASSUME SlotsInv, slotsNow' = slotsNow, gaveUp' \in BOOLEAN,
         rows' = [s \in Recur!Slots |-> rows'[s]], done' = [s \in Recur!Slots |-> done'[s]],
         work' = [r \in Replicas |-> work'[r]]
  PROVE  Tables'
BY DEF SlotsInv, Tables, Recur!Slots, Recur!SlotAt

LEMMA Split ==
  ASSUME Tables', \A s \in Recur!Slots : (RowSound(s) /\ DoneSound(s))',
         \A r \in Replicas : WorkSound(r)', Chained'
  PROVE  SlotsInv'
BY DEF SlotsInv, Recur!Slots, Recur!SlotAt

(* What the statements do to one row. *)

LEMMA InsertedRows ==
  ASSUME SlotsInv, NEW n \in Recur!Slots
  PROVE  /\ Recur!Inserted(rows, n) = [s \in Recur!Slots |-> Recur!Inserted(rows, n)[s]]
         /\ \A s \in Recur!Slots : s # n => Recur!Inserted(rows, n)[s] = rows[s]
         /\ rows[n].status # "absent" => Recur!Inserted(rows, n) = rows
         /\ rows[n].status = "absent" =>
              Recur!Inserted(rows, n)[n] = [rows[n] EXCEPT !.status = "pending"]
BY DEF SlotsInv, Tables, Recur!Inserted

LEMMA PendingRow ==
  ASSUME SlotsInv, NEW n \in Recur!Slots, n <= Recur!SlotAt(slotsNow) + Interval,
         rows[n].status = "absent", done[n] = 0, slotsNow' = slotsNow,
         rows'[n] = [rows[n] EXCEPT !.status = "pending"], done'[n] = done[n]
  PROVE  RowSound(n)' /\ DoneSound(n)'
<1>1. RowTyped(rows[n]) /\ rows[n].attempts < MaxAttempts
  BY DEF SlotsInv, RowSound
<1>2. rows'[n] = [status |-> "pending", attempts |-> rows[n].attempts,
                  worker |-> rows[n].worker, until |-> rows[n].until]
  BY <1>1 DEF RowTyped
<1>3. RowTyped(rows[n])'
  BY <1>1, <1>2 DEF RowTyped
<1>4. RowSound(n)'
  BY <1>1, <1>2, <1>3 DEF RowSound, Recur!SlotAt
<1>5. DoneSound(n)'
  BY <1>2 DEF DoneSound
<1> QED
  BY <1>4, <1>5

LEMMA EndedRow ==
  ASSUME SlotsInv, NEW s \in Recur!Slots, NEW status \in {"succeeded", "failed"},
         rows[s].status = "running", slotsNow' = slotsNow,
         rows'[s] = [Recur!Absent EXCEPT !.status = status, !.until = slotsNow],
         status = "failed" => gaveUp' /\ done'[s] = done[s],
         status = "succeeded" => done'[s] = done[s] + 1
  PROVE  RowSound(s)' /\ DoneSound(s)'
<1>1. /\ rows'[s].status = status /\ rows'[s].attempts = 0
      /\ rows'[s].worker = None /\ rows'[s].until = slotsNow
      /\ rows'[s] = [status |-> status, attempts |-> 0, worker |-> None, until |-> slotsNow]
  BY DEF Recur!Absent
<1>2. s <= slotsNow /\ done[s] = 0 /\ s <= Recur!SlotAt(slotsNow) + Interval
  BY DEF SlotsInv, RowSound, DoneSound
<1>3. RowTyped(rows[s])'
  BY <1>1, SlotsNowInt, Bounds DEF RowTyped
<1>4. RowSound(s)'
  BY <1>1, <1>2, <1>3, Bounds DEF RowSound, Recur!SlotAt
<1>5. DoneSound(s)'
  BY <1>1, <1>2 DEF DoneSound
<1> QED
  BY <1>4, <1>5

-----------------------------------------------------------------------------
(* The actions. *)

LEMMA EnqueueInitialSlots ==
  ASSUME SlotsInv, RetentionMargin, NEW r \in Replicas, Recur!EnqueueInitial(r)
  PROVE  SlotsInv'
<1>1. /\ slotsNow' = slotsNow /\ work' = work /\ done' = done /\ gaveUp' = gaveUp
  BY DEF Recur!EnqueueInitial
<1>2. PICK t \in Recur!Readings : rows' = Recur!Inserted(rows, Recur!SlotAt(t))
  BY DEF Recur!EnqueueInitial
<1> DEFINE n == Recur!SlotAt(t)
<1>3. n \in Recur!Slots /\ n \in Int /\ n <= t /\ t < n + Interval
  BY ReadingBounds, SlotExists, SlotAround
<1>4. n <= Recur!SlotAt(slotsNow) + Interval
  BY <1>3, ReadingBounds, SlotsNowInt, SlotUp, SlotAround, Bounds
<1>5. ASSUME rows[n].status = "absent" PROVE done[n] = 0
  <2>1. CASE done[n] = 1
    <3>1. n + Retention < slotsNow
      BY <1>3, <1>5, <2>1 DEF SlotsInv, DoneSound
    <3> QED
      BY <1>3, <3>1, ReadingBounds, SlotsNowInt, Bounds DEF RetentionMargin
  <2> QED
    BY <1>3, <2>1 DEF SlotsInv, DoneSound
<1> HIDE DEF n
<1>6. rows' = Recur!Inserted(rows, n)
  BY <1>2 DEF n
<1>7. \A s \in Recur!Slots : (RowSound(s) /\ DoneSound(s))'
  <2> SUFFICES ASSUME NEW s \in Recur!Slots PROVE (RowSound(s) /\ DoneSound(s))'
    OBVIOUS
  <2>1. CASE s = n /\ rows[n].status = "absent"
    <3>1. rows'[n] = [rows[n] EXCEPT !.status = "pending"]
      BY <1>3, <1>6, <2>1, InsertedRows
    <3> QED
      BY <1>1, <1>3, <1>4, <1>5, <2>1, <3>1, PendingRow
  <2>2. CASE s # n \/ rows[n].status # "absent"
    <3>1. rows'[s] = rows[s]
      BY <1>3, <1>6, <2>2, InsertedRows
    <3> QED
      BY <1>1, <3>1, RowKept
  <2> QED
    BY <2>1, <2>2
<1>8. \A q \in Replicas : WorkSound(q)'
  <2> SUFFICES ASSUME NEW q \in Replicas PROVE WorkSound(q)'
    OBVIOUS
  <2>1. work[q] # None => \/ rows'[work[q].slot] = rows[work[q].slot]
                          \/ rows'[work[q].slot].status # "running"
    <3>1. work[q] # None => work[q].slot \in Recur!Slots
      BY DEF SlotsInv, WorkSound
    <3>2. rows[n].status = "absent" => rows'[n].status # "running"
      BY <1>3, <1>6, InsertedRows DEF SlotsInv, RowSound, RowTyped
    <3> QED
      BY <1>3, <1>6, <3>1, <3>2, InsertedRows
  <2> QED
    BY <1>1, <2>1, WorkKept
<1>9. Chained'
  <2>1. \A s \in Recur!Slots : rows[s].status \in Recur!Live => rows'[s] = rows[s]
    BY <1>3, <1>6, InsertedRows DEF Recur!Live
  <2> QED
    BY <1>1, <2>1, ChainKept
<1>10. Tables'
  BY <1>1, <1>3, <1>6, InsertedRows, TablesKept DEF SlotsInv, Tables
<1> QED
  BY <1>7, <1>8, <1>9, <1>10, Split

LEMMA ClaimSlots ==
  ASSUME SlotsInv, NEW r \in Replicas, Recur!Claim(r)
  PROVE  SlotsInv'
<1>1. slotsNow' = slotsNow /\ done' = done /\ gaveUp' = gaveUp
  BY DEF Recur!Claim
<1>2. PICK t \in Recur!Readings, n \in Recur!Slots :
        /\ Recur!Exhausted(t) = {} /\ Recur!Due(n, t)
        /\ rows' = [rows EXCEPT ![n] = [status |-> "running", attempts |-> @.attempts + 1,
                                        worker |-> r, until |-> t + Lease]]
        /\ work' = [work EXCEPT ![r] = [slot |-> n, next |-> None]]
  BY DEF Recur!Claim
<1>3. rows[n].status \in Recur!Live /\ rows[n].attempts < MaxAttempts /\ n <= slotsNow
  <2>1. CASE rows[n].status = "pending" /\ Recur!RunAt(n) <= t
    <3>1. n <= slotsNow
      BY <2>1, RunsInside, ReadingBounds, SlotIsInt, SlotsNowInt
    <3> QED
      BY <2>1, <3>1 DEF SlotsInv, RowSound, Recur!Live
  <2>2. CASE rows[n].status = "running" /\ rows[n].until <= t
    <3>1. rows[n].attempts # MaxAttempts
      BY <1>2, <2>2 DEF Recur!Exhausted
    <3>2. RowSound(n) /\ rows[n].attempts \in 0..MaxAttempts
      BY DEF SlotsInv, RowSound, RowTyped
    <3>3. rows[n].attempts < MaxAttempts
      BY <3>1, <3>2, Bounds
    <3> QED
      BY <2>2, <3>2, <3>3 DEF RowSound, Recur!Live
  <2> QED
    BY <1>2, <2>1, <2>2 DEF Recur!Due
<1>4. /\ rows'[n] = [status |-> "running", attempts |-> rows[n].attempts + 1,
                     worker |-> r, until |-> t + Lease]
      /\ \A s \in Recur!Slots : s # n => rows'[s] = rows[s]
      /\ rows' = [s \in Recur!Slots |-> rows'[s]]
  BY <1>2 DEF SlotsInv, Tables
<1>5. /\ work'[r] = [slot |-> n, next |-> None]
      /\ \A q \in Replicas : q # r => work'[q] = work[q]
      /\ work' = [q \in Replicas |-> work'[q]]
  BY <1>2 DEF SlotsInv, Tables
<1>6. RowSound(n)' /\ DoneSound(n)'
  <2> rows[n].attempts \in 0..MaxAttempts
    BY DEF SlotsInv, RowSound, RowTyped
  <2> t + Lease \in -Skew..(LastTime + Lease)
    BY ReadingBounds, Bounds
  <2>1. RowTyped(rows[n])'
    BY <1>3, <1>4, Bounds DEF RowTyped
  <2>2. n <= Recur!SlotAt(slotsNow) + Interval
    BY <1>3, SlotBegun, SlotsNowInt, SlotAround, SlotIsInt, Bounds
  <2>3. rows'[n].until <= slotsNow + Lease
    BY <1>4, ReadingBounds, SlotsNowInt, Bounds
  <2>4. done[n] = 0
    BY <1>3 DEF SlotsInv, DoneSound, Recur!Live
  <2> QED
    BY <1>1, <1>3, <1>4, <2>1, <2>2, <2>3, <2>4 DEF RowSound, DoneSound, Recur!SlotAt
<1>7. \A s \in Recur!Slots : (RowSound(s) /\ DoneSound(s))'
  BY <1>1, <1>4, <1>6, RowKept
<1>8. \A q \in Replicas : WorkSound(q)'
  <2>1. WorkSound(r)'
    BY <1>1, <1>3, <1>5 DEF WorkSound, Recur!Slots, Recur!SlotAt
  <2>2. ASSUME NEW q \in Replicas, q # r PROVE WorkSound(q)'
    <3>1. work[q] # None => work[q].slot \in Recur!Slots
      BY DEF SlotsInv, WorkSound
    <3>2. rows'[n].worker # q
      BY <1>4, <2>2
    <3>3. work[q] # None => \/ rows'[work[q].slot] = rows[work[q].slot]
                            \/ rows'[work[q].slot].worker # q
      BY <1>4, <3>1, <3>2
    <3> QED
      BY <1>1, <1>5, <2>2, <3>3, WorkKept
  <2> QED
    BY <2>1, <2>2
<1>9. Chained'
  <2>1. \A s \in Recur!Slots : rows[s].status \in Recur!Live => rows'[s].status \in Recur!Live
    BY <1>4 DEF Recur!Live
  <2> QED
    BY <1>1, <2>1, ChainKept
<1>10. Tables'
  BY <1>1, <1>4, <1>5, TablesKept DEF SlotsInv, Tables
<1> QED
  BY <1>7, <1>8, <1>9, <1>10, Split

LEMMA SweepSlots ==
  ASSUME SlotsInv, Recur!Sweep
  PROVE  SlotsInv'
<1>1. slotsNow' = slotsNow /\ work' = work /\ done' = done /\ gaveUp' = TRUE
  BY DEF Recur!Sweep
<1>2. PICK t \in Recur!Readings : \E s \in Recur!Exhausted(t) : rows' = Recur!Ended(rows, s, "failed")
  BY DEF Recur!Sweep
<1>3. PICK n \in Recur!Slots : /\ rows[n].status = "running"
                               /\ rows' = Recur!Ended(rows, n, "failed")
  BY <1>2 DEF Recur!Exhausted
<1>4. /\ rows'[n] = [Recur!Absent EXCEPT !.status = "failed", !.until = slotsNow]
      /\ rows'[n].status = "failed"
      /\ \A s \in Recur!Slots : s # n => rows'[s] = rows[s]
      /\ rows' = [s \in Recur!Slots |-> rows'[s]]
  BY <1>3 DEF SlotsInv, Tables, Recur!Ended, Recur!Absent
<1>5. \A s \in Recur!Slots : (RowSound(s) /\ DoneSound(s))'
  <2> SUFFICES ASSUME NEW s \in Recur!Slots PROVE (RowSound(s) /\ DoneSound(s))'
    OBVIOUS
  <2>1. CASE s = n
    BY <1>1, <1>3, <1>4, <2>1, EndedRow
  <2>2. CASE s # n
    BY <1>1, <1>4, <2>2, RowKept
  <2> QED
    BY <2>1, <2>2
<1>6. \A q \in Replicas : WorkSound(q)'
  <2> SUFFICES ASSUME NEW q \in Replicas PROVE WorkSound(q)'
    OBVIOUS
  <2>1. work[q] # None => work[q].slot \in Recur!Slots
    BY DEF SlotsInv, WorkSound
  <2>2. work[q] # None => \/ rows'[work[q].slot] = rows[work[q].slot]
                          \/ rows'[work[q].slot].status # "running"
    BY <1>4, <2>1
  <2> QED
    BY <1>1, <2>2, WorkKept
<1>7. Chained'
  BY <1>1, ChainKept
<1>8. Tables'
  BY <1>1, <1>4, TablesKept DEF SlotsInv, Tables
<1> QED
  BY <1>5, <1>6, <1>7, <1>8, Split

(* The next slot lies within the clock's slot and the one after it. *)
LEMMA NextSlotBounds ==
  ASSUME SlotsInv, NEW s \in Recur!Slots, s <= slotsNow, NEW t \in Recur!Readings
  PROVE  /\ Recur!NextSlot(s, t) \in Recur!Slots
         /\ s < Recur!NextSlot(s, t) /\ t < Recur!NextSlot(s, t)
         /\ Recur!NextSlot(s, t) <= Recur!SlotAt(slotsNow) + Interval
<1> DEFINE m == IF Recur!SlotAt(t) > s THEN Recur!SlotAt(t) ELSE s
<1>1. /\ Recur!SlotAt(t) \in Recur!Slots /\ Recur!SlotAt(t) \in Int
      /\ Recur!SlotAt(t) <= t /\ t < Recur!SlotAt(t) + Interval
      /\ Recur!SlotAt(t) <= Recur!SlotAt(slotsNow)
  BY ReadingBounds, SlotsNowInt, SlotExists, SlotAround, SlotUp
<1>2. s \in Int /\ s <= Recur!SlotAt(slotsNow) /\ Recur!SlotAt(slotsNow) \in Int
  BY SlotIsInt, SlotBegun, SlotsNowInt, SlotAround
<1>3. /\ m \in Recur!Slots /\ m \in Int /\ s <= m /\ Recur!SlotAt(t) <= m
      /\ m <= Recur!SlotAt(slotsNow)
  BY <1>1, <1>2
<1>4. m <= LastTime
  BY <1>1, <1>2, <1>3, SlotsNowInt, SlotAround, Bounds
<1>5. m + Interval \in Recur!Slots
  BY <1>3, <1>4, SlotFollows
<1>6. Recur!NextSlot(s, t) = m + Interval
  BY DEF Recur!NextSlot
<1> HIDE DEF m
<1> QED
  BY <1>1, <1>2, <1>3, <1>5, <1>6, ReadingBounds, Bounds

LEMMA ComputeNextSlots ==
  ASSUME SlotsInv, NEW r \in Replicas, Recur!ComputeNext(r)
  PROVE  SlotsInv'
<1>1. /\ slotsNow' = slotsNow /\ rows' = rows /\ done' = done /\ gaveUp' = gaveUp
      /\ work[r] # None
  BY DEF Recur!ComputeNext
<1>2. PICK t \in Recur!Readings : work' = [work EXCEPT ![r].next = Recur!NextSlot(work[r].slot, t)]
  BY DEF Recur!ComputeNext
<1> DEFINE s == work[r].slot
           n == Recur!NextSlot(s, t)
<1>3. /\ s \in Recur!Slots /\ s <= slotsNow
      /\ work[r] = [slot |-> s, next |-> work[r].next]
  BY <1>1 DEF SlotsInv, WorkSound
<1>4. /\ n \in Recur!Slots /\ s < n /\ t < n /\ n <= Recur!SlotAt(slotsNow) + Interval
      /\ n \in Int
  BY <1>3, NextSlotBounds, SlotIsInt
<1>5. /\ work'[r] = [work[r] EXCEPT !.next = n]
      /\ \A q \in Replicas : q # r => work'[q] = work[q]
      /\ work' = [q \in Replicas |-> work'[q]]
  BY <1>2 DEF SlotsInv, Tables
<1>6. work'[r] = [slot |-> s, next |-> n]
  BY <1>3, <1>5
<1>7. rows[s].status = "running" => rows[s].until < n + Lease + Skew
  <2> SUFFICES ASSUME rows[s].status = "running"
               PROVE  rows[s].until < n + Lease + Skew
    OBVIOUS
  <2>1. RowSound(s) /\ rows[s].until \in -Skew..(LastTime + Lease)
    BY <1>3 DEF SlotsInv, RowSound, RowTyped
  <2>2. rows[s].until <= slotsNow + Lease /\ rows[s].until \in Int
    BY <2>1, Bounds DEF RowSound
  <2> QED
    BY <1>4, <2>2, ReadingBounds, SlotsNowInt, Bounds
<1> HIDE DEF n, s
<1>8. \A q \in Replicas : WorkSound(q)'
  <2>1. WorkSound(r)'
    <3>1. work'[r].slot = s /\ work'[r].next = n
      BY <1>6
    <3>2. Held(r)' => rows'[s].status = "running"
      BY <3>1 DEF Held
    <3> QED
      BY <1>1, <1>3, <1>4, <1>6, <1>7, <3>1, <3>2
         DEF WorkSound, Recur!Slots, Recur!SlotAt
  <2>2. ASSUME NEW q \in Replicas, q # r PROVE WorkSound(q)'
    BY <1>1, <1>5, <2>2, WorkKept
  <2> QED
    BY <2>1, <2>2
<1>9. \A x \in Recur!Slots : (RowSound(x) /\ DoneSound(x))'
  BY <1>1, RowKept
<1>10. Chained'
  BY <1>1, ChainKept
<1>11. Tables'
  BY <1>1, <1>5, TablesKept DEF SlotsInv, Tables
<1> QED
  BY <1>8, <1>9, <1>10, <1>11, Split

(* The other replicas when one row changes that is no longer, or was never, *)
(* theirs.                                                                  *)
LEMMA OthersWork ==
  ASSUME SlotsInv, NEW r \in Replicas, slotsNow' = slotsNow,
         work' = [work EXCEPT ![r] = None],
         \A s \in Recur!Slots : rows'[s] = rows[s] \/ rows'[s].status # "running"
  PROVE  /\ \A q \in Replicas : WorkSound(q)'
         /\ work' = [q \in Replicas |-> work'[q]]
<1>1. /\ work'[r] = None
      /\ \A q \in Replicas : q # r => work'[q] = work[q]
      /\ work' = [q \in Replicas |-> work'[q]]
  BY DEF SlotsInv, Tables
<1>2. WorkSound(r)'
  BY <1>1, Unemployed
<1>3. ASSUME NEW q \in Replicas, q # r PROVE WorkSound(q)'
  <2>1. work[q] # None => work[q].slot \in Recur!Slots
    BY DEF SlotsInv, WorkSound
  <2> QED
    BY <1>1, <1>3, <2>1, WorkKept
<1> QED
  BY <1>1, <1>2, <1>3

LEMMA CompleteSlots ==
  ASSUME SlotsInv, RetentionMargin, NEW r \in Replicas, Recur!Complete(r)
  PROVE  SlotsInv'
<1>1. /\ slotsNow' = slotsNow /\ gaveUp' = gaveUp
      /\ work[r] # None /\ work[r].next # None
      /\ work' = [work EXCEPT ![r] = None]
  BY DEF Recur!Complete
<1>0. PICK s, n : s = work[r].slot /\ n = work[r].next
  OBVIOUS
<1>2. PICK t \in Recur!Readings :
        IF Recur!Owns(r, s, t)
        THEN /\ rows' = Recur!Ended(Recur!Inserted(rows, n), s, "succeeded")
             /\ done' = [done EXCEPT ![s] = @ + 1]
        ELSE UNCHANGED <<rows, done>>
  BY <1>0 DEF Recur!Complete
<1>3. /\ s \in Recur!Slots /\ n \in Recur!Slots /\ s < n
      /\ n <= Recur!SlotAt(slotsNow) + Interval
      /\ Held(r) => rows[s].until < n + Lease + Skew
  BY <1>0, <1>1 DEF SlotsInv, WorkSound
<1>4. s \in Int /\ n \in Int /\ s # n
  BY <1>3, SlotIsInt
<1>5. CASE ~Recur!Owns(r, s, t)
  <2>1. rows' = rows /\ done' = done
    BY <1>2, <1>5
  <2>2. /\ \A q \in Replicas : WorkSound(q)'
        /\ work' = [q \in Replicas |-> work'[q]]
    BY <1>1, <2>1, OthersWork
  <2>3. \A x \in Recur!Slots : (RowSound(x) /\ DoneSound(x))'
    BY <1>1, <2>1, RowKept
  <2>4. Chained'
    BY <1>1, <2>1, ChainKept
  <2>5. Tables'
    BY <1>1, <2>1, <2>2, TablesKept DEF SlotsInv, Tables
  <2> QED
    BY <2>2, <2>3, <2>4, <2>5, Split
<1>6. CASE Recur!Owns(r, s, t)
  <2>1. /\ rows[s].status = "running" /\ rows[s].until > t /\ Held(r)
    BY <1>0, <1>6 DEF Recur!Owns, Held
  <2>2. /\ rows' = Recur!Ended(Recur!Inserted(rows, n), s, "succeeded")
        /\ done' = [done EXCEPT ![s] = @ + 1]
    BY <1>2, <1>6
  <2>3. ASSUME rows[n].status = "absent" PROVE done[n] = 0
    <3>1. CASE done[n] = 1
      <4>1. n + Retention < slotsNow
        BY <1>3, <2>3, <3>1 DEF SlotsInv, DoneSound
      <4>2. rows[s].until \in -Skew..(LastTime + Lease)
        BY <1>3 DEF SlotsInv, RowSound, RowTyped
      <4>3. rows[s].until \in Int /\ rows[s].until > t /\ rows[s].until < n + Lease + Skew
        BY <1>3, <2>1, <4>2, Bounds
      <4> QED
        BY <1>4, <4>1, <4>3, ReadingBounds, SlotsNowInt, Bounds DEF RetentionMargin
    <3> QED
      BY <1>3, <3>1 DEF SlotsInv, DoneSound
  <2> DEFINE mid == Recur!Inserted(rows, n)
  <2>4. /\ mid = [x \in Recur!Slots |-> mid[x]]
        /\ \A x \in Recur!Slots : x # n => mid[x] = rows[x]
        /\ rows[n].status # "absent" => mid = rows
        /\ rows[n].status = "absent" => mid[n] = [rows[n] EXCEPT !.status = "pending"]
    BY <1>3, InsertedRows
  <2>5. rows' = Recur!Ended(mid, s, "succeeded")
    BY <2>2
  <2> HIDE DEF mid
  <2>6. /\ rows'[s] = [Recur!Absent EXCEPT !.status = "succeeded", !.until = slotsNow]
        /\ rows'[s].status = "succeeded"
        /\ \A x \in Recur!Slots : x # s => rows'[x] = mid[x]
        /\ rows' = [x \in Recur!Slots |-> rows'[x]]
    BY <1>3, <2>4, <2>5 DEF Recur!Ended, Recur!Absent
  <2>7. /\ done'[s] = done[s] + 1
        /\ \A x \in Recur!Slots : x # s => done'[x] = done[x]
        /\ done' = [x \in Recur!Slots |-> done'[x]]
    BY <1>3, <2>2 DEF SlotsInv, Tables
  <2>8. /\ rows[n].status # "absent" => rows'[n] = rows[n]
        /\ rows[n].status = "absent" => /\ rows'[n] = [rows[n] EXCEPT !.status = "pending"]
                                        /\ rows'[n].status = "pending"
    <3>1. rows[n].status = "absent" => [rows[n] EXCEPT !.status = "pending"].status = "pending"
      BY <1>3 DEF SlotsInv, RowSound, RowTyped
    <3> QED
      BY <1>3, <1>4, <2>4, <2>6, <3>1
  <2>9. ASSUME NEW x \in Recur!Slots, x # s, x # n PROVE rows'[x] = rows[x]
    BY <2>4, <2>6, <2>9
  <2>10. \A x \in Recur!Slots : (RowSound(x) /\ DoneSound(x))'
    <3> SUFFICES ASSUME NEW x \in Recur!Slots PROVE (RowSound(x) /\ DoneSound(x))'
      OBVIOUS
    <3>1. CASE x = s
      BY <1>1, <2>1, <2>6, <2>7, <3>1, EndedRow
    <3>2. CASE x = n /\ rows[n].status = "absent"
      BY <1>1, <1>3, <1>4, <2>3, <2>7, <2>8, <3>2, PendingRow
    <3>3. CASE x # s /\ (x # n \/ rows[n].status # "absent")
      BY <1>1, <2>7, <2>8, <2>9, <3>3, RowKept
    <3> QED
      BY <3>1, <3>2, <3>3
  <2>11. /\ \A q \in Replicas : WorkSound(q)'
         /\ work' = [q \in Replicas |-> work'[q]]
    <3>1. \A x \in Recur!Slots : rows'[x] = rows[x] \/ rows'[x].status # "running"
      BY <2>6, <2>8, <2>9
    <3> QED
      BY <1>1, <3>1, OthersWork
  <2>12. Chained'
    <3> SUFFICES ASSUME ~gaveUp PROVE \E x \in Recur!Slots : NewestLink(x)'
      BY <1>1 DEF Chained, Recur!Slots, Recur!SlotAt
    <3>1. done[s] = 0
      BY <1>3, <2>1 DEF SlotsInv, DoneSound
    <3>2. CASE \E x \in Recur!Slots : NewestLink(x) /\ s < x
      <4>1. PICK x \in Recur!Slots : NewestLink(x) /\ s < x
        BY <3>2
      <4>2. x # s /\ rows[x].status # "absent"
        BY <1>4, <4>1, SlotIsInt DEF NewestLink, Recur!Live
      <4>3. rows'[x] = rows[x]
        BY <2>8, <2>9, <4>2
      <4>4. NewestLink(x)'
        BY <2>7, <4>1, <4>3 DEF NewestLink, Recur!Live, Recur!Slots, Recur!SlotAt
      <4> QED
        BY <4>4
    <3>3. CASE \A x \in Recur!Slots : NewestLink(x) => x <= s
      <4>1. ASSUME NEW d \in Recur!Slots, done[d] = 1 PROVE d < n
        <5>1. PICK x \in Recur!Slots : NewestLink(x)
          BY <3>1, <4>1 DEF SlotsInv, Chained
        <5>2. x <= s /\ d < x /\ x \in Int /\ d \in Int
          BY <3>3, <4>1, <5>1, SlotIsInt DEF NewestLink
        <5> QED
          BY <1>3, <1>4, <5>2
      <4>2. done[n] = 0
        BY <1>3, <1>4, <4>1 DEF SlotsInv, DoneSound
      <4>3. rows'[n].status \in Recur!Live
        <5>1. rows[n].status \in {"absent", "pending", "running"}
          <6>1. RowSound(n)
            BY <1>3 DEF SlotsInv
          <6>2. rows[n].status # "failed" /\ rows[n].status # "succeeded"
            BY <4>2, <6>1 DEF RowSound
          <6> QED
            BY <6>1, <6>2 DEF RowSound, RowTyped
        <5> QED
          BY <2>8, <5>1 DEF Recur!Live
      <4>4. ASSUME NEW d \in Recur!Slots, done'[d] = 1 PROVE d < n
        BY <1>3, <2>7, <4>1, <4>4
      <4>5. NewestLink(n)'
        BY <4>3, <4>4 DEF NewestLink, Recur!Live, Recur!Slots, Recur!SlotAt
      <4> QED
        BY <1>3, <4>5
    <3>4. ASSUME NEW x \in Recur!Slots PROVE s < x \/ x <= s
      BY <1>4, SlotIsInt
    <3> QED
      BY <3>2, <3>3, <3>4
  <2>13. Tables'
    BY <1>1, <2>6, <2>7, <2>11, TablesKept DEF SlotsInv, Tables
  <2> QED
    BY <2>10, <2>11, <2>12, <2>13, Split
<1> QED
  BY <1>5, <1>6

LEMMA FailSlots ==
  ASSUME SlotsInv, NEW r \in Replicas, Recur!Fail(r)
  PROVE  SlotsInv'
<1>1. /\ slotsNow' = slotsNow /\ done' = done /\ work[r] # None
      /\ work' = [work EXCEPT ![r] = None]
  BY DEF Recur!Fail
<1>0. PICK s : s = work[r].slot
  OBVIOUS
<1>2. PICK t \in Recur!Readings :
        IF ~Recur!Owns(r, s, t) THEN UNCHANGED <<rows, gaveUp>>
        ELSE IF rows[s].attempts < MaxAttempts
        THEN /\ rows' = [rows EXCEPT ![s].status = "pending", ![s].worker = None]
             /\ UNCHANGED gaveUp
        ELSE rows' = Recur!Ended(rows, s, "failed") /\ gaveUp' = TRUE
  BY <1>0 DEF Recur!Fail
<1>3. s \in Recur!Slots /\ s \in Int
  BY <1>0, <1>1, SlotIsInt DEF SlotsInv, WorkSound
<1>4. RowSound(s) /\ RowTyped(rows[s])
  BY <1>3 DEF SlotsInv, RowSound
<1>5. CASE ~Recur!Owns(r, s, t)
  <2>1. rows' = rows /\ gaveUp' = gaveUp
    BY <1>2, <1>5
  <2>2. /\ \A q \in Replicas : WorkSound(q)'
        /\ work' = [q \in Replicas |-> work'[q]]
    BY <1>1, <2>1, OthersWork
  <2>3. \A x \in Recur!Slots : (RowSound(x) /\ DoneSound(x))'
    BY <1>1, <2>1, RowKept
  <2>4. Chained'
    BY <1>1, <2>1, ChainKept
  <2>5. Tables'
    BY <1>1, <2>1, <2>2, TablesKept DEF SlotsInv, Tables
  <2> QED
    BY <2>2, <2>3, <2>4, <2>5, Split
<1>6. CASE Recur!Owns(r, s, t) /\ rows[s].attempts < MaxAttempts
  <2>1. rows[s].status = "running"
    BY <1>6 DEF Recur!Owns
  <2>2. /\ rows' = [rows EXCEPT ![s].status = "pending", ![s].worker = None]
        /\ gaveUp' = gaveUp
    BY <1>2, <1>6
  <2>3. /\ rows'[s] = [rows[s] EXCEPT !.status = "pending", !.worker = None]
        /\ \A x \in Recur!Slots : x # s => rows'[x] = rows[x]
        /\ rows' = [x \in Recur!Slots |-> rows'[x]]
    BY <1>3, <2>2 DEF SlotsInv, Tables
  <2>4. rows'[s] = [status |-> "pending", attempts |-> rows[s].attempts,
                    worker |-> None, until |-> rows[s].until]
    BY <1>4, <2>3 DEF RowTyped
  <2>5. RowSound(s)' /\ DoneSound(s)'
    <3>1. RowTyped(rows[s])'
      BY <1>4, <2>4 DEF RowTyped
    <3>2. RowSound(s)'
      BY <1>1, <1>4, <1>6, <2>1, <2>4, <3>1 DEF RowSound, Recur!SlotAt
    <3>3. done[s] = 0
      BY <1>3, <2>1 DEF SlotsInv, DoneSound
    <3>4. DoneSound(s)'
      BY <1>1, <3>3 DEF DoneSound
    <3> QED
      BY <3>2, <3>4
  <2>6. \A x \in Recur!Slots : (RowSound(x) /\ DoneSound(x))'
    BY <1>1, <2>2, <2>3, <2>5, RowKept
  <2>7. /\ \A q \in Replicas : WorkSound(q)'
        /\ work' = [q \in Replicas |-> work'[q]]
    <3>1. \A x \in Recur!Slots : rows'[x] = rows[x] \/ rows'[x].status # "running"
      BY <2>3, <2>4
    <3> QED
      BY <1>1, <3>1, OthersWork
  <2>8. Chained'
    <3>1. \A x \in Recur!Slots : rows[x].status \in Recur!Live => rows'[x].status \in Recur!Live
      BY <2>3, <2>4 DEF Recur!Live
    <3> QED
      BY <1>1, <2>2, <3>1, ChainKept
  <2>9. Tables'
    BY <1>1, <2>2, <2>3, <2>7, TablesKept DEF SlotsInv, Tables
  <2> QED
    BY <2>6, <2>7, <2>8, <2>9, Split
<1>7. CASE Recur!Owns(r, s, t) /\ ~(rows[s].attempts < MaxAttempts)
  <2>1. rows[s].status = "running"
    BY <1>7 DEF Recur!Owns
  <2>2. rows' = Recur!Ended(rows, s, "failed") /\ gaveUp' = TRUE
    BY <1>2, <1>7
  <2>3. /\ rows'[s] = [Recur!Absent EXCEPT !.status = "failed", !.until = slotsNow]
        /\ rows'[s].status = "failed"
        /\ \A x \in Recur!Slots : x # s => rows'[x] = rows[x]
        /\ rows' = [x \in Recur!Slots |-> rows'[x]]
    BY <1>3, <2>2 DEF SlotsInv, Tables, Recur!Ended, Recur!Absent
  <2>4. RowSound(s)' /\ DoneSound(s)'
    BY <1>1, <1>3, <2>1, <2>2, <2>3, EndedRow
  <2>5. \A x \in Recur!Slots : (RowSound(x) /\ DoneSound(x))'
    BY <1>1, <2>2, <2>3, <2>4, RowKept
  <2>6. /\ \A q \in Replicas : WorkSound(q)'
        /\ work' = [q \in Replicas |-> work'[q]]
    <3>1. \A x \in Recur!Slots : rows'[x] = rows[x] \/ rows'[x].status # "running"
      BY <2>3
    <3> QED
      BY <1>1, <3>1, OthersWork
  <2>7. Chained'
    BY <1>1, <2>2, ChainKept
  <2>8. Tables'
    BY <1>1, <2>2, <2>3, <2>6, TablesKept DEF SlotsInv, Tables
  <2> QED
    BY <2>5, <2>6, <2>7, <2>8, Split
<1> QED
  BY <1>5, <1>6, <1>7

LEMMA CrashSlots ==
  ASSUME SlotsInv, NEW r \in Replicas, Recur!Crash(r)
  PROVE  SlotsInv'
<1>1. /\ slotsNow' = slotsNow /\ rows' = rows /\ done' = done /\ gaveUp' = gaveUp
      /\ work' = [work EXCEPT ![r] = None]
  BY DEF Recur!Crash
<1>2. /\ \A q \in Replicas : WorkSound(q)'
      /\ work' = [q \in Replicas |-> work'[q]]
  BY <1>1, OthersWork
<1>3. \A x \in Recur!Slots : (RowSound(x) /\ DoneSound(x))'
  BY <1>1, RowKept
<1>4. Chained'
  BY <1>1, ChainKept
<1>5. Tables'
  BY <1>1, <1>2, TablesKept DEF SlotsInv, Tables
<1> QED
  BY <1>2, <1>3, <1>4, <1>5, Split

LEMMA CleanUpSlots ==
  ASSUME SlotsInv, Recur!CleanUp
  PROVE  SlotsInv'
<1>1. slotsNow' = slotsNow /\ work' = work /\ done' = done /\ gaveUp' = gaveUp
  BY DEF Recur!CleanUp
<1>2. PICK s \in Recur!Slots : /\ rows[s].status \in {"succeeded", "failed"}
                               /\ rows[s].until + Retention < slotsNow
                               /\ rows' = [rows EXCEPT ![s] = Recur!Absent]
  BY DEF Recur!CleanUp
<1>3. /\ rows'[s] = Recur!Absent
      /\ \A x \in Recur!Slots : x # s => rows'[x] = rows[x]
      /\ rows' = [x \in Recur!Slots |-> rows'[x]]
  BY <1>2 DEF SlotsInv, Tables
<1>4. rows'[s] = [status |-> "absent", attempts |-> 0, worker |-> None, until |-> 0]
  BY <1>3 DEF Recur!Absent
<1>5. RowSound(s)' /\ DoneSound(s)'
  <2>1. RowTyped(rows[s])'
    BY <1>4, Bounds DEF RowTyped
  <2>2. RowSound(s)'
    BY <1>4, <2>1, Bounds DEF RowSound
  <2>3. RowSound(s) /\ DoneSound(s) /\ RowTyped(rows[s])
    BY DEF SlotsInv, RowSound
  <2>4. ASSUME done[s] = 1 PROVE s + Retention < slotsNow
    <3>1. rows[s].until \in -Skew..(LastTime + Lease) /\ s <= rows[s].until
      BY <1>2, <2>3, <2>4 DEF RowSound, DoneSound, RowTyped
    <3> QED
      BY <1>2, <3>1, SlotsNowInt, SlotIsInt, Bounds
  <2>5. DoneSound(s)'
    BY <1>1, <1>4, <2>3, <2>4 DEF DoneSound
  <2> QED
    BY <2>2, <2>5
<1>6. \A x \in Recur!Slots : (RowSound(x) /\ DoneSound(x))'
  BY <1>1, <1>3, <1>5, RowKept
<1>7. \A q \in Replicas : WorkSound(q)'
  <2> SUFFICES ASSUME NEW q \in Replicas PROVE WorkSound(q)'
    OBVIOUS
  <2>1. work[q] # None => work[q].slot \in Recur!Slots
    BY DEF SlotsInv, WorkSound
  <2> QED
    BY <1>1, <1>3, <1>4, <2>1, WorkKept
<1>8. Chained'
  <2>1. \A x \in Recur!Slots : rows[x].status \in Recur!Live => rows'[x] = rows[x]
    BY <1>2, <1>3 DEF Recur!Live
  <2> QED
    BY <1>1, <2>1, ChainKept
<1>9. Tables'
  BY <1>1, <1>3, TablesKept DEF SlotsInv, Tables
<1> QED
  BY <1>6, <1>7, <1>8, <1>9, Split

LEMMA TickSlots ==
  ASSUME SlotsInv, Recur!Tick
  PROVE  SlotsInv'
<1>1. /\ slotsNow < LastTime /\ slotsNow' = slotsNow + 1
      /\ rows' = rows /\ work' = work /\ done' = done /\ gaveUp' = gaveUp
  BY DEF Recur!Tick
<1>2. /\ slotsNow' \in 0..LastTime /\ slotsNow <= slotsNow'
      /\ Recur!SlotAt(slotsNow) <= Recur!SlotAt(slotsNow')
      /\ Recur!SlotAt(slotsNow) \in Int /\ Recur!SlotAt(slotsNow') \in Int
  BY <1>1, SlotsNowInt, SlotUp, SlotAround, Bounds
<1>3. Recur!SlotAt(slotsNow)' = Recur!SlotAt(slotsNow')
  BY DEF Recur!SlotAt
<1>4. ASSUME NEW s \in Recur!Slots PROVE (RowSound(s) /\ DoneSound(s))'
  <2>1. RowSound(s) /\ DoneSound(s) /\ RowTyped(rows[s]) /\ s \in Int
    BY SlotIsInt DEF SlotsInv, RowSound
  <2>2. rows[s].until \in Int
    BY <2>1, Bounds DEF RowTyped
  <2>3. RowTyped(rows[s])'
    BY <1>1, <2>1 DEF RowTyped
  <2>4. rows[s].status # "absent" => s <= Recur!SlotAt(slotsNow') + Interval
    BY <1>2, <2>1, Bounds DEF RowSound
  <2>5. rows[s].status = "running" => s <= slotsNow' /\ rows[s].until <= slotsNow' + Lease
    BY <1>2, <2>1, <2>2, SlotsNowInt, Bounds DEF RowSound
  <2>6. RowSound(s)'
    BY <1>1, <1>3, <2>1, <2>3, <2>4, <2>5 DEF RowSound
  <2>7. DoneSound(s)'
    BY <1>1, <1>2, <2>1, SlotsNowInt, Bounds DEF DoneSound
  <2> QED
    BY <2>6, <2>7
<1>5. ASSUME NEW r \in Replicas PROVE WorkSound(r)'
  <2> SUFFICES ASSUME work[r] # None PROVE WorkSound(r)'
    BY <1>1 DEF WorkSound
  <2>1. WorkSound(r)
    BY DEF SlotsInv
  <2>2. work[r].slot \in Int /\ work[r].slot <= slotsNow'
    BY <1>2, <2>1, SlotIsInt, SlotsNowInt DEF WorkSound
  <2>3. work[r].next # None => work[r].next <= Recur!SlotAt(slotsNow') + Interval
    BY <1>2, <2>1, SlotIsInt, Bounds DEF WorkSound
  <2> QED
    BY <1>1, <1>3, <2>1, <2>2, <2>3 DEF WorkSound, Held, Recur!Slots, Recur!SlotAt
<1>6. Chained'
  BY <1>1 DEF SlotsInv, Chained, NewestLink, Recur!Slots, Recur!SlotAt
<1>7. Tables'
  BY <1>1, <1>2 DEF SlotsInv, Tables, Recur!Slots, Recur!SlotAt
<1> QED
  BY <1>4, <1>5, <1>6, <1>7, Split

LEMMA SlotsStep == RetentionMargin /\ SlotsInv /\ Recur!Next => SlotsInv'
BY EnqueueInitialSlots, ClaimSlots, ComputeNextSlots, CompleteSlots, FailSlots,
   CrashSlots, SweepSlots, CleanUpSlots, TickSlots DEF Recur!Next

LEMMA SlotsStart == Recur!Init => SlotsInv
<1> SUFFICES ASSUME Recur!Init PROVE SlotsInv
  OBVIOUS
<1>1. /\ slotsNow = 0 /\ gaveUp = FALSE
      /\ rows = [s \in Recur!Slots |-> Recur!Absent]
      /\ work = [r \in Replicas |-> None]
      /\ done = [s \in Recur!Slots |-> 0]
  BY DEF Recur!Init
<1>2. ASSUME NEW s \in Recur!Slots PROVE RowSound(s) /\ DoneSound(s)
  <2>1. rows[s] = [status |-> "absent", attempts |-> 0, worker |-> None, until |-> 0]
    BY <1>1 DEF Recur!Absent
  <2>2. RowTyped(rows[s])
    BY <2>1, Bounds DEF RowTyped
  <2> QED
    BY <1>1, <2>1, <2>2, Bounds DEF RowSound, DoneSound
<1>3. \A r \in Replicas : WorkSound(r)
  BY <1>1 DEF WorkSound
<1>4. Tables
  <2>1. rows = [s \in Recur!Slots |-> rows[s]] /\ done = [s \in Recur!Slots |-> done[s]]
    BY <1>1
  <2>2. work = [r \in Replicas |-> work[r]]
    BY <1>1
  <2>3. slotsNow \in 0..LastTime
    BY <1>1, Bounds
  <2>4. gaveUp \in BOOLEAN
    BY <1>1
  <2> QED
    BY <2>1, <2>2, <2>3, <2>4 DEF Tables
<1>5. \A s \in Recur!Slots : done[s] = 0
  BY <1>1
<1>6. Chained
  BY <1>5 DEF Chained
<1> QED
  BY <1>2, <1>3, <1>4, <1>6 DEF SlotsInv

-----------------------------------------------------------------------------
LEMMA SlotsPromise == SlotsInv => Recur!TypeOK /\ Recur!ChainContinues
                                    /\ Recur!NeverRunsAhead /\ Recur!SlotCompletesOnce
                                    /\ Recur!JobsRunInTheirSlot
<1> SUFFICES ASSUME SlotsInv
             PROVE  Recur!TypeOK /\ Recur!ChainContinues /\ Recur!NeverRunsAhead
                      /\ Recur!SlotCompletesOnce /\ Recur!JobsRunInTheirSlot
  OBVIOUS
<1>1. Recur!TypeOK
  <2>1. \A s \in Recur!Slots :
          rows[s] \in [status : {"absent", "pending", "running", "succeeded", "failed"},
                       attempts : 0..MaxAttempts, worker : Replicas \union {None},
                       until : -Skew..(LastTime + Lease)]
    <3> SUFFICES ASSUME NEW s \in Recur!Slots
                 PROVE  rows[s] \in
          [status : {"absent", "pending", "running", "succeeded", "failed"},
           attempts : 0..MaxAttempts, worker : Replicas \union {None},
           until : -Skew..(LastTime + Lease)]
      OBVIOUS
    <3>1. RowTyped(rows[s])
      BY DEF SlotsInv, RowSound
    <3>2. PICK a, b, c, d :
            /\ rows[s] = [status |-> a, attempts |-> b, worker |-> c, until |-> d]
            /\ a \in {"absent", "pending", "running", "succeeded", "failed"}
            /\ b \in 0..MaxAttempts /\ c \in Replicas \union {None}
            /\ d \in -Skew..(LastTime + Lease)
      BY <3>1 DEF RowTyped
    <3> QED
      BY <3>2
  <2>2. \A s \in Recur!Slots : done[s] \in Nat
    BY DEF SlotsInv, DoneSound
  <2>3. \A r \in Replicas : work[r] = None \/ work[r].slot \in Recur!Slots
    BY DEF SlotsInv, WorkSound
  <2> QED
    BY <2>1, <2>2, <2>3 DEF SlotsInv, Tables, Recur!TypeOK
<1>2. Recur!ChainContinues
  <2> SUFFICES ASSUME \E s \in Recur!Slots : done[s] > 0, ~gaveUp
               PROVE  \E s \in Recur!Slots : rows[s].status \in Recur!Live
    BY DEF Recur!ChainContinues
  <2>1. \E s \in Recur!Slots : done[s] = 1
    BY DEF SlotsInv, DoneSound
  <2> QED
    BY <2>1 DEF SlotsInv, Chained, NewestLink
<1>3. Recur!NeverRunsAhead
  BY DEF SlotsInv, RowSound, Recur!NeverRunsAhead
<1>4. Recur!SlotCompletesOnce
  BY DEF SlotsInv, DoneSound, Recur!SlotCompletesOnce
<1>5. Recur!JobsRunInTheirSlot
  BY RunsInside, SlotOf DEF Recur!JobsRunInTheirSlot
<1> QED
  BY <1>1, <1>2, <1>3, <1>4, <1>5

(* Whenever finished rows are kept longer than replicas' clocks and leases *)
(* can reach back (RetentionMargin), the chain of a recurring job never    *)
(* breaks before a job used up its attempts, never runs ahead of the clock,*)
(* completes each slot at most once and starts each job inside its slot    *)
(* (recurring.rs and the handlers that re-enqueue with it).                *)
THEOREM SlotsOnce == RetentionMargin => (Spec => []OneNextSlot)
<1> SUFFICES ASSUME RetentionMargin PROVE Spec => []OneNextSlot
  OBVIOUS
<1> DEFINE Inv == part = "slots" => SlotsInv
<1>1. Init => Inv
  <2>1. ASSUME Init, part = "slots" PROVE Recur!Init
    BY <2>1 DEF Init, ShutdownStarts, OpsStarts, PoolStarts, ConfigStarts, SlotsStarts,
      ScaffoldStarts, PortsStarts
  <2> QED
    BY <2>1, SlotsStart
<1>2. Inv /\ [Next]_vars => Inv'
  <2> SUFFICES ASSUME Inv, [Next]_vars, part' = "slots" PROVE SlotsInv'
    OBVIOUS
  <2>1. \/ part = "slots" /\ Recur!Next
        \/ part = "slots" /\ UNCHANGED slotsState
    BY DEF Next, vars, ShutdownMoves, OpsMoves, PoolMoves, ConfigMoves, SlotsMoves,
      ScaffoldMoves, PortsMoves
  <2>2. CASE part = "slots" /\ Recur!Next
    BY <2>2, SlotsStep
  <2>3. CASE part = "slots" /\ UNCHANGED slotsState
    <3>1. /\ slotsNow' = slotsNow /\ rows' = rows /\ work' = work
          /\ done' = done /\ gaveUp' = gaveUp /\ SlotsInv
      BY <2>3 DEF slotsState
    <3>2. \A x \in Recur!Slots : (RowSound(x) /\ DoneSound(x))'
      BY <3>1, RowKept
    <3>3. \A r \in Replicas : WorkSound(r)'
      BY <3>1, WorkKept
    <3>4. Chained' /\ Tables'
      BY <3>1, ChainKept, TablesKept DEF SlotsInv, Tables
    <3> QED
      BY <3>2, <3>3, <3>4, Split
  <2> QED
    BY <2>1, <2>2, <2>3
<1>3. Inv => OneNextSlot
  BY SlotsPromise DEF OneNextSlot
<1> QED
  BY <1>1, <1>2, <1>3, PTL DEF Spec
-----------------------------------------------------------------------------
(* The shutdown of a process. *)

(* The first trigger's race with the registration of hooks: a hook runs when*)
(* it is taken, and after the list was taken none is left in it.            *)
HooksSound ==
  /\ phase = "idle" <=> first = None
  /\ phase \in {"idle", "started"} => taken = {}
  /\ phase \in {"running", "cancelled"} => \A h \in Hooks : hook[h] \in {"new", "taken"}
  /\ phase = "cancelled" => taken = {}
  /\ \A h \in taken : hook[h] = "taken"
  /\ \A h \in Hooks : runs[h] = IF hook[h] = "taken" /\ h \notin taken THEN 1 ELSE 0

TokenInv ==
  /\ first \in Proc!ShutdownCallers \union {None}
  /\ shutdownNow \in Nat /\ startedAt \in 0..shutdownNow
  /\ startedAt <= LatestStart
  /\ IF first = None THEN shutdownNow <= LatestStart
     ELSE shutdownNow <= startedAt + DrainTimeout
  /\ taken \subseteq Hooks /\ phase \in {"idle", "started", "running", "cancelled"}
  /\ hook \in [Hooks -> {"new", "checked", "queued", "taken"}]
  /\ runs \in [Hooks -> 0..1]
  /\ HooksSound

(* An attempt is late by the cancellation that found it running, or by its  *)
(* start after it from a check before it.                                   *)
LateSound ==
  /\ lateRuns \in [Tasks -> 0..1]
  /\ \A t \in Tasks : lateRuns[t] # 0 => phase = "cancelled" /\ task[t] # "checked"

TaskInv ==
  /\ task \in [Tasks -> {"running", "checked", "draining", "triggering", "done", "aborted"}]
  /\ restarts \in [Tasks -> 0..MaxRestarts] /\ LateSound
  /\ joined \in {None, "ok", "timeout"}
  /\ \A t \in Tasks : task[t] = "aborted" => first # None /\ Proc!Expired

(* What a listener that ended and was read from the JoinSet left behind. *)
ReadSound(l) ==
  /\ listener[l] # "aborted"
  /\ listener[l] # "serving" /\ l \notin unread /\ ~firstError
       => phase = "cancelled" /\ listener[l] = "exited"

PairInv ==
  /\ listener \in [Proc!Listeners -> Proc!Gone \union {"serving"}]
  /\ unread \subseteq Proc!Listeners
  /\ opsStop \in BOOLEAN /\ firstError \in BOOLEAN
  /\ pair \in {"serving", "triggering", "draining", "ok", "error", "timeout"}
  /\ \A l \in unread : listener[l] # "serving"
  /\ pair # "timeout" => \A l \in Proc!Listeners : ReadSound(l)
  /\ pair = "draining" => phase = "cancelled"
  /\ pair = "timeout" => first # None /\ Proc!Expired
  /\ opsStop => listener["api"] # "serving"
  /\ OpsOutlivesApi /\ listener["operations"] = "exited" => listener["api"] # "serving"
  /\ Proc!SuccessIsGraceful

ShutdownInv == TokenInv /\ TaskInv /\ PairInv

LEMMA ShutdownBounds ==
  /\ MaxRestarts \in Nat /\ DrainTimeout \in Nat /\ LatestStart \in Nat
  /\ None \notin Proc!ShutdownCallers
BY ProcessAssumption DEF Proc!ShutdownAssumption, Proc!ShutdownCallers

(* trigger, called by anyone at any time. *)
LEMMA TriggerToken ==
  ASSUME TokenInv, NEW c \in Proc!ShutdownCallers, Proc!Trigger(c), shutdownNow' = shutdownNow
  PROVE  /\ TokenInv'
         /\ first # None => first' = first /\ startedAt' = startedAt /\ phase' = phase
         /\ first' # None
         /\ phase = "cancelled" => phase' = "cancelled"
         /\ phase' = "cancelled" => phase = "cancelled"
<1>1. CASE first # None
  BY <1>1 DEF TokenInv, HooksSound, Proc!Trigger, Proc!tokenVars
<1>2. CASE first = None
  <2>1. /\ first' = c /\ startedAt' = shutdownNow /\ phase' = "started"
        /\ taken' = taken /\ hook' = hook /\ runs' = runs
    BY <1>2 DEF Proc!Trigger
  <2>2. HooksSound'
    BY <1>2, <2>1, ShutdownBounds DEF TokenInv, HooksSound
  <2>3. /\ first' \in Proc!ShutdownCallers /\ startedAt' \in 0..shutdownNow'
        /\ startedAt' <= LatestStart /\ shutdownNow' <= startedAt' + DrainTimeout
    BY <1>2, <2>1, ShutdownBounds DEF TokenInv
  <2>4. TokenInv'
    BY <2>1, <2>2, <2>3, ShutdownBounds DEF TokenInv, Proc!ShutdownCallers
  <2> QED
    BY <1>2, <2>1, <2>4, ShutdownBounds DEF TokenInv, HooksSound
<1> QED
  BY <1>1, <1>2

(* Tasks and listeners are not disturbed by a token that only moves on.     *)
LEMMA TasksKept ==
  ASSUME TokenInv, TaskInv, UNCHANGED Proc!taskVars, shutdownNow' \in Nat, shutdownNow <= shutdownNow',
         first # None => first' = first /\ startedAt' = startedAt,
         phase = "cancelled" => phase' = "cancelled"
  PROVE  TaskInv'
BY ShutdownBounds DEF TokenInv, TaskInv, LateSound, Proc!taskVars, Proc!Expired

LEMMA PairKept ==
  ASSUME TokenInv, PairInv, UNCHANGED Proc!pairVars, shutdownNow' \in Nat, shutdownNow <= shutdownNow',
         first # None => first' = first /\ startedAt' = startedAt,
         phase = "cancelled" => phase' = "cancelled"
  PROVE  PairInv'
<1>1. /\ listener' = listener /\ unread' = unread /\ opsStop' = opsStop
      /\ pair' = pair /\ firstError' = firstError
  BY DEF Proc!pairVars
<1>2. pair = "timeout" => first' # None /\ Proc!Expired'
  BY ShutdownBounds DEF TokenInv, PairInv, Proc!Expired
<1> QED
  BY <1>1, <1>2 DEF PairInv, ReadSound, Proc!SuccessIsGraceful, Proc!Cancelled,
     Proc!Gone, Proc!Listeners

LEMMA TokenKept ==
  ASSUME TokenInv, UNCHANGED Proc!tokenVars, shutdownNow' = shutdownNow
  PROVE  TokenInv'
BY DEF TokenInv, HooksSound, Proc!tokenVars, Proc!ShutdownCallers

LEMMA SignalShutdown ==
  ASSUME ShutdownInv, Proc!Signal PROVE ShutdownInv'
<1>1. /\ Proc!Trigger("signal") /\ shutdownNow' = shutdownNow
      /\ UNCHANGED Proc!taskVars /\ UNCHANGED Proc!pairVars
  BY DEF Proc!Signal
<1>2. "signal" \in Proc!ShutdownCallers
  BY DEF Proc!ShutdownCallers
<1>3. shutdownNow \in Nat /\ shutdownNow' \in Nat /\ shutdownNow <= shutdownNow'
  BY <1>1 DEF ShutdownInv, TokenInv
<1> QED
  BY <1>1, <1>2, <1>3, TriggerToken, TasksKept, PairKept DEF ShutdownInv

LEMMA HookShutdown ==
  ASSUME ShutdownInv, NEW h \in Hooks, Proc!OnDrain(h) \/ Proc!Push(h) \/ Proc!RunHook(h)
  PROVE  ShutdownInv'
<1>1. /\ shutdownNow' = shutdownNow /\ first' = first /\ startedAt' = startedAt /\ phase' = phase
      /\ UNCHANGED Proc!taskVars /\ UNCHANGED Proc!pairVars
  BY DEF Proc!OnDrain, Proc!Push, Proc!RunHook
<1>2. shutdownNow \in Nat /\ shutdownNow' \in Nat /\ shutdownNow <= shutdownNow'
  BY <1>1 DEF ShutdownInv, TokenInv
<1>3. ASSUME Proc!OnDrain(h) PROVE TokenInv'
  <2>1. /\ hook[h] = "new" /\ taken' = taken
        /\ IF first = None
           THEN hook' = [hook EXCEPT ![h] = "checked"] /\ runs' = runs
           ELSE /\ hook' = [hook EXCEPT ![h] = "taken"]
                /\ runs' = [runs EXCEPT ![h] = @ + 1]
    BY <1>3 DEF Proc!OnDrain
  <2>2. runs[h] = 0 /\ h \notin taken
    BY <2>1 DEF ShutdownInv, TokenInv, HooksSound
  <2>3. HooksSound'
    BY <1>1, <2>1, <2>2 DEF ShutdownInv, TokenInv, HooksSound
  <2>4. /\ hook' \in [Hooks -> {"new", "checked", "queued", "taken"}]
        /\ runs' \in [Hooks -> 0..1]
    BY <2>1, <2>2 DEF ShutdownInv, TokenInv
  <2> QED
    BY <1>1, <2>1, <2>3, <2>4 DEF ShutdownInv, TokenInv, Proc!ShutdownCallers
<1>4. ASSUME Proc!Push(h) PROVE TokenInv'
  BY <1>1, <1>4 DEF ShutdownInv, TokenInv, HooksSound, Proc!Push, Proc!ShutdownCallers
<1>5. ASSUME Proc!RunHook(h) PROVE TokenInv'
  <2>1. /\ phase = "running" /\ h \in taken /\ taken' = taken \ {h}
        /\ runs' = [runs EXCEPT ![h] = @ + 1] /\ hook' = hook
    BY <1>5 DEF Proc!RunHook
  <2>2. runs[h] = 0 /\ hook[h] = "taken"
    BY <2>1 DEF ShutdownInv, TokenInv, HooksSound
  <2>3. HooksSound'
    BY <1>1, <2>1, <2>2 DEF ShutdownInv, TokenInv, HooksSound
  <2>4. runs' \in [Hooks -> 0..1]
    BY <2>1, <2>2 DEF ShutdownInv, TokenInv
  <2> QED
    BY <1>1, <2>1, <2>3, <2>4 DEF ShutdownInv, TokenInv, Proc!ShutdownCallers
<1>6. TokenInv'
  BY <1>3, <1>4, <1>5
<1> QED
  BY <1>1, <1>2, <1>6, TasksKept, PairKept DEF ShutdownInv

LEMMA TakeHooksShutdown ==
  ASSUME ShutdownInv, Proc!TakeHooks PROVE ShutdownInv'
<1>1. /\ shutdownNow' = shutdownNow /\ first' = first /\ startedAt' = startedAt /\ runs' = runs
      /\ phase = "started" /\ phase' = "running"
      /\ \A h \in Hooks : hook[h] # "checked"
      /\ taken' = {h \in Hooks : hook[h] = "queued"}
      /\ hook' = [h \in Hooks |-> IF hook[h] = "queued" THEN "taken" ELSE hook[h]]
      /\ UNCHANGED Proc!taskVars /\ UNCHANGED Proc!pairVars
  BY DEF Proc!TakeHooks
<1>2. shutdownNow \in Nat /\ shutdownNow' \in Nat /\ shutdownNow <= shutdownNow'
  BY <1>1 DEF ShutdownInv, TokenInv
<1>3. HooksSound'
  BY <1>1 DEF ShutdownInv, TokenInv, HooksSound
<1>4. TokenInv'
  BY <1>1, <1>3 DEF ShutdownInv, TokenInv, Proc!ShutdownCallers
<1> QED
  BY <1>1, <1>2, <1>4, TasksKept, PairKept DEF ShutdownInv

LEMMA CancelShutdown ==
  ASSUME ShutdownInv, Proc!Cancel PROVE ShutdownInv'
<1>1. /\ shutdownNow' = shutdownNow /\ first' = first /\ startedAt' = startedAt /\ runs' = runs
      /\ hook' = hook /\ taken' = taken /\ taken = {}
      /\ phase = "running" /\ phase' = "cancelled"
      /\ task' = [t \in Tasks |-> IF task[t] = "triggering" THEN "done" ELSE task[t]]
      /\ pair' = IF pair = "triggering" THEN "serving" ELSE pair
      /\ lateRuns' = [t \in Tasks |-> IF task[t] = "running" THEN 1 ELSE 0]
      /\ restarts' = restarts /\ joined' = joined /\ listener' = listener /\ unread' = unread
      /\ opsStop' = opsStop /\ firstError' = firstError
  BY DEF Proc!Cancel
<1>2. TokenInv'
  BY <1>1 DEF ShutdownInv, TokenInv, HooksSound, Proc!ShutdownCallers
<1>3. TaskInv'
  BY <1>1 DEF ShutdownInv, TaskInv, LateSound, Proc!Expired
<1>4. PairInv'
  BY <1>1 DEF ShutdownInv, PairInv, ReadSound, Proc!SuccessIsGraceful, Proc!Cancelled,
     Proc!Gone, Proc!Listeners, Proc!Expired
<1> QED
  BY <1>2, <1>3, <1>4 DEF ShutdownInv

LEMMA TaskRestartsShutdown ==
  ASSUME ShutdownInv, NEW t \in Tasks, Proc!TaskEnds(t) \/ Proc!TaskRestarts(t)
  PROVE  ShutdownInv'
<1>1. /\ shutdownNow' = shutdownNow /\ joined' = joined
      /\ UNCHANGED Proc!tokenVars /\ UNCHANGED Proc!pairVars
  BY DEF Proc!TaskEnds, Proc!TaskRestarts
<1>2. /\ TokenInv' /\ first' = first /\ startedAt' = startedAt /\ phase' = phase
      /\ shutdownNow \in Nat /\ shutdownNow <= shutdownNow'
  BY <1>1, TokenKept DEF ShutdownInv, TokenInv, Proc!tokenVars
<1>3. /\ \/ /\ task[t] = "running" /\ restarts' = restarts /\ lateRuns' = lateRuns
            /\ task' = [task EXCEPT ![t] = IF phase = "cancelled" THEN "done" ELSE "checked"]
         \/ /\ task[t] = "checked" /\ restarts[t] < MaxRestarts
            /\ task' = [task EXCEPT ![t] = "running"]
            /\ restarts' = [restarts EXCEPT ![t] = @ + 1]
            /\ lateRuns' = [lateRuns EXCEPT ![t] = @ + (IF phase = "cancelled" THEN 1 ELSE 0)]
  BY DEF Proc!TaskEnds, Proc!TaskRestarts, Proc!Cancelled
<1>4. /\ task' \in [Tasks -> {"running", "checked", "draining", "triggering", "done", "aborted"}]
      /\ \A u \in Tasks : task'[u] = "aborted" => task[u] = "aborted"
  BY <1>3 DEF ShutdownInv, TaskInv
<1>5. restarts' \in [Tasks -> 0..MaxRestarts]
  BY <1>3, ShutdownBounds DEF ShutdownInv, TaskInv
<1>6. LateSound'
  <2>1. lateRuns[t] \in 0..1 /\ (task[t] = "checked" => lateRuns[t] = 0)
    BY DEF ShutdownInv, TaskInv, LateSound
  <2> QED
    BY <1>2, <1>3, <2>1 DEF ShutdownInv, TaskInv, LateSound
<1>7. TaskInv'
  BY <1>1, <1>2, <1>4, <1>5, <1>6 DEF ShutdownInv, TaskInv, Proc!Expired
<1> QED
  BY <1>1, <1>2, <1>7, PairKept DEF ShutdownInv

LEMMA TaskTriggersShutdown ==
  ASSUME ShutdownInv, NEW t \in Tasks, Proc!TaskTriggers(t) PROVE ShutdownInv'
<1>1. /\ task[t] = "checked" /\ shutdownNow' = shutdownNow /\ joined' = joined
      /\ restarts' = restarts /\ lateRuns' = lateRuns
      /\ Proc!Trigger(t) /\ UNCHANGED Proc!pairVars
      /\ \/ task' = [task EXCEPT ![t] = "done"]
         \/ task' = [task EXCEPT ![t] = "triggering"]
  BY DEF Proc!TaskTriggers
<1>2. shutdownNow \in Nat /\ shutdownNow' \in Nat /\ shutdownNow <= shutdownNow'
  BY <1>1 DEF ShutdownInv, TokenInv
<1>3. t \in Proc!ShutdownCallers
  BY DEF Proc!ShutdownCallers
<1>4. /\ TokenInv'
      /\ first # None => first' = first /\ startedAt' = startedAt
      /\ phase = "cancelled" => phase' = "cancelled"
  BY <1>1, <1>3, TriggerToken DEF ShutdownInv
<1>5. /\ task' \in [Tasks -> {"running", "checked", "draining", "triggering", "done", "aborted"}]
      /\ \A u \in Tasks : task'[u] = "aborted" => task[u] = "aborted"
  BY <1>1 DEF ShutdownInv, TaskInv
<1>6. LateSound'
  BY <1>1, <1>4 DEF ShutdownInv, TaskInv, LateSound
<1>7. TaskInv'
  BY <1>1, <1>4, <1>5, <1>6 DEF ShutdownInv, TaskInv, Proc!Expired
<1> QED
  BY <1>1, <1>2, <1>4, <1>7, PairKept DEF ShutdownInv

LEMMA DrainShutdown ==
  ASSUME ShutdownInv,
         Proc!ShutdownJoin \/ \E t \in Tasks : Proc!TaskDrains(t) \/ Proc!TaskDrained(t)
  PROVE  ShutdownInv'
<1>1. /\ shutdownNow' = shutdownNow /\ restarts' = restarts /\ lateRuns' = lateRuns
      /\ UNCHANGED Proc!tokenVars /\ UNCHANGED Proc!pairVars
  BY DEF Proc!ShutdownJoin, Proc!TaskDrains, Proc!TaskDrained
<1>2. shutdownNow \in Nat /\ shutdownNow' \in Nat /\ shutdownNow <= shutdownNow'
  BY <1>1 DEF ShutdownInv, TokenInv
<1>3. /\ first' = first /\ startedAt' = startedAt /\ phase' = phase
  BY <1>1 DEF Proc!tokenVars
<1>4. ASSUME \E t \in Tasks : Proc!TaskDrains(t) \/ Proc!TaskDrained(t) PROVE TaskInv'
  BY <1>1, <1>3, <1>4 DEF ShutdownInv, TaskInv, LateSound, Proc!Expired, Proc!TaskDrains,
     Proc!TaskDrained
<1>5. ASSUME Proc!ShutdownJoin PROVE TaskInv'
  <2>1. /\ joined' \in {None, "ok", "timeout"}
        /\ phase = "cancelled"
        /\ \/ task' = task
           \/ /\ Proc!Expired
              /\ task' = [t \in Tasks |-> IF task[t] = "done" THEN "done" ELSE "aborted"]
    BY <1>5 DEF Proc!ShutdownJoin, Proc!Cancelled
  <2>2. first # None
    BY <2>1 DEF ShutdownInv, TokenInv, HooksSound
  <2> QED
    BY <1>1, <1>3, <2>1, <2>2 DEF ShutdownInv, TaskInv, LateSound, Proc!Expired
<1>6. TaskInv'
  BY <1>4, <1>5
<1>7. TokenInv'
  BY <1>1, TokenKept DEF ShutdownInv
<1> QED
  BY <1>1, <1>2, <1>3, <1>6, <1>7, PairKept DEF ShutdownInv

LEMMA ListenerEndsShutdown ==
  ASSUME ShutdownInv, NEW l \in Proc!Listeners, NEW how \in {"exited", "failed", "panicked"},
         Proc!ListenerEnds(l, how)
  PROVE  ShutdownInv'
<1>1. /\ listener[l] = "serving"
      /\ how = "exited" => Proc!MayStop(l)
      /\ listener' = [listener EXCEPT ![l] = how] /\ unread' = unread \union {l}
      /\ opsStop' = opsStop /\ pair' = pair /\ firstError' = firstError
      /\ shutdownNow' = shutdownNow /\ UNCHANGED Proc!tokenVars /\ UNCHANGED Proc!taskVars
  BY DEF Proc!ListenerEnds
<1>2. shutdownNow \in Nat /\ shutdownNow' \in Nat /\ shutdownNow <= shutdownNow'
  BY <1>1 DEF ShutdownInv, TokenInv
<1>3. /\ first' = first /\ startedAt' = startedAt /\ phase' = phase
  BY <1>1 DEF Proc!tokenVars
<1>4. /\ listener' \in [Proc!Listeners -> Proc!Gone \union {"serving"}]
      /\ listener'[l] = how /\ how # "serving" /\ how # "aborted"
      /\ \A k \in Proc!Listeners : k # l => listener'[k] = listener[k]
  BY <1>1 DEF ShutdownInv, PairInv, Proc!Gone
<1>5. OpsOutlivesApi /\ listener'["operations"] = "exited" => listener'["api"] # "serving"
  <2> SUFFICES ASSUME OpsOutlivesApi, listener'["operations"] = "exited"
               PROVE  listener'["api"] # "serving"
    OBVIOUS
  <2>1. CASE l = "api"
    BY <1>4, <2>1
  <2>2. CASE l = "operations"
    <3>1. how = "exited"
      BY <1>4, <2>2
    <3>2. opsStop
      BY <1>1, <2>2, <3>1 DEF Proc!MayStop
    <3>3. listener["api"] # "serving"
      BY <3>2 DEF ShutdownInv, PairInv
    <3> QED
      BY <1>4, <2>2, <3>3 DEF Proc!Listeners
  <2> QED
    BY <2>1, <2>2 DEF Proc!Listeners
<1>6. pair # "ok"
  <2>1. Proc!SuccessIsGraceful
    BY DEF ShutdownInv, PairInv
  <2>2. pair = "ok" => listener[l] = "exited"
    BY <2>1 DEF Proc!SuccessIsGraceful
  <2> QED
    BY <1>1, <2>2
<1>7. opsStop => listener'["api"] # "serving"
  BY <1>1, <1>4 DEF ShutdownInv, PairInv, Proc!Listeners
<1>8. pair # "timeout" => \A k \in Proc!Listeners : ReadSound(k)'
  BY <1>1, <1>3, <1>4 DEF ShutdownInv, PairInv, ReadSound
<1>9. PairInv'
  BY <1>1, <1>3, <1>4, <1>5, <1>6, <1>7, <1>8
     DEF ShutdownInv, PairInv, Proc!SuccessIsGraceful, Proc!Expired, Proc!Gone, Proc!Listeners
<1> QED
  BY <1>1, <1>2, <1>3, <1>9, TokenKept, TasksKept DEF ShutdownInv

LEMMA PairReadsShutdown ==
  ASSUME ShutdownInv, NEW l \in Proc!Listeners, Proc!PairReads(l)
  PROVE  ShutdownInv'
<1>1. /\ pair \in {"serving", "draining"} /\ l \in unread
      /\ unread' = unread \ {l} /\ listener' = listener /\ shutdownNow' = shutdownNow
      /\ opsStop' = (opsStop \/ Proc!StopsOperations(l))
      /\ UNCHANGED Proc!taskVars
  BY DEF Proc!PairReads
<1>2. shutdownNow \in Nat /\ shutdownNow' \in Nat /\ shutdownNow <= shutdownNow'
  BY <1>1 DEF ShutdownInv, TokenInv
<1>3. opsStop' \in BOOLEAN
  BY <1>1 DEF ShutdownInv, PairInv, Proc!StopsOperations
<1>4. opsStop' => listener["api"] # "serving"
  BY <1>1 DEF ShutdownInv, PairInv, Proc!StopsOperations
<1>5. CASE listener[l] = "exited" /\ phase = "cancelled"
  <2>1. /\ firstError' = firstError /\ pair' = pair /\ UNCHANGED Proc!tokenVars
    BY <1>5 DEF Proc!PairReads, Proc!Cancelled
  <2>2. /\ first' = first /\ startedAt' = startedAt /\ phase' = phase
    BY <2>1 DEF Proc!tokenVars
  <2>3. \A k \in Proc!Listeners : ReadSound(k)'
    BY <1>1, <1>5, <2>1, <2>2 DEF ShutdownInv, PairInv, ReadSound
  <2>4. PairInv'
    BY <1>1, <1>3, <1>4, <2>1, <2>2, <2>3
       DEF ShutdownInv, PairInv, Proc!SuccessIsGraceful, Proc!Expired, Proc!Gone, Proc!Listeners
  <2> QED
    BY <1>1, <1>2, <2>1, <2>2, <2>4, TokenKept, TasksKept DEF ShutdownInv
<1>6. CASE ~(listener[l] = "exited" /\ phase = "cancelled")
  <2>1. /\ firstError' = TRUE /\ Proc!Trigger("pair")
        /\ pair' = IF first = None THEN "triggering" ELSE pair
    BY <1>6 DEF Proc!PairReads, Proc!Cancelled
  <2>2. "pair" \in Proc!ShutdownCallers
    BY DEF Proc!ShutdownCallers
  <2>3. /\ TokenInv'
        /\ first # None => first' = first /\ startedAt' = startedAt /\ phase' = phase
        /\ phase = "cancelled" => phase' = "cancelled"
    BY <1>1, <2>1, <2>2, TriggerToken DEF ShutdownInv
  <2>4. \A k \in Proc!Listeners : ReadSound(k)'
    BY <1>1, <2>1 DEF ShutdownInv, PairInv, ReadSound
  <2>5. pair' \in {"serving", "triggering", "draining"}
    BY <1>1, <2>1
  <2>6. pair' = "draining" => phase' = "cancelled"
    BY <2>1, <2>3 DEF ShutdownInv, PairInv
  <2>7. PairInv'
    BY <1>1, <1>3, <1>4, <2>1, <2>4, <2>5, <2>6
       DEF ShutdownInv, PairInv, Proc!SuccessIsGraceful, Proc!Gone, Proc!Listeners
  <2> QED
    BY <1>1, <1>2, <2>3, <2>7, TasksKept DEF ShutdownInv
<1> QED
  BY <1>5, <1>6

LEMMA PairEndsShutdown ==
  ASSUME ShutdownInv, Proc!PairDrains \/ Proc!PairReturns \/ Proc!PairTimesOut
  PROVE  ShutdownInv'
<1>1. /\ shutdownNow' = shutdownNow /\ opsStop' = opsStop /\ firstError' = firstError
      /\ UNCHANGED Proc!tokenVars /\ UNCHANGED Proc!taskVars
  BY DEF Proc!PairDrains, Proc!PairReturns, Proc!PairTimesOut
<1>2. shutdownNow \in Nat /\ shutdownNow' \in Nat /\ shutdownNow <= shutdownNow'
  BY <1>1 DEF ShutdownInv, TokenInv
<1>3. /\ first' = first /\ startedAt' = startedAt /\ phase' = phase
  BY <1>1 DEF Proc!tokenVars
<1>4. ASSUME Proc!PairDrains PROVE PairInv'
  BY <1>1, <1>3, <1>4 DEF ShutdownInv, PairInv, ReadSound, Proc!PairDrains, Proc!Cancelled,
     Proc!SuccessIsGraceful, Proc!Gone, Proc!Listeners
<1>5. ASSUME Proc!PairReturns PROVE PairInv'
  <2>1. /\ pair \in {"serving", "draining"}
        /\ \A l \in Proc!Listeners : listener[l] \in Proc!Gone /\ l \notin unread
        /\ pair' = IF firstError THEN "error" ELSE "ok"
        /\ listener' = listener /\ unread' = unread
    BY <1>5 DEF Proc!PairReturns
  <2>2. \A l \in Proc!Listeners : ReadSound(l) /\ listener[l] # "serving"
    BY <2>1 DEF ShutdownInv, PairInv, Proc!Gone
  <2>3. Proc!SuccessIsGraceful'
    BY <1>1, <1>3, <2>1, <2>2 DEF Proc!SuccessIsGraceful, Proc!Cancelled, ReadSound, Proc!Listeners
  <2>4. \A l \in Proc!Listeners : ReadSound(l)'
    BY <1>1, <1>3, <2>1, <2>2 DEF ReadSound
  <2>5. pair' \in {"error", "ok"}
    BY <2>1
  <2> QED
    BY <1>1, <1>3, <2>1, <2>3, <2>4, <2>5 DEF ShutdownInv, PairInv, Proc!Gone, Proc!Listeners
<1>6. ASSUME Proc!PairTimesOut PROVE PairInv'
  <2>1. /\ pair = "draining" /\ Proc!Expired /\ pair' = "timeout" /\ unread' = {}
        /\ listener' = [l \in Proc!Listeners |->
                          IF listener[l] = "serving" THEN "aborted" ELSE listener[l]]
    BY <1>6 DEF Proc!PairTimesOut
  <2>2. first # None
    BY <2>1 DEF ShutdownInv, TokenInv, HooksSound, PairInv
  <2>3. \A l \in Proc!Listeners : listener'[l] # "serving" /\ listener'[l] \in Proc!Gone
    BY <2>1 DEF ShutdownInv, PairInv, Proc!Gone
  <2>4. listener' \in [Proc!Listeners -> Proc!Gone \union {"serving"}]
    BY <2>1, <2>3
  <2> QED
    BY <1>1, <1>3, <2>1, <2>2, <2>3, <2>4
       DEF ShutdownInv, PairInv, Proc!SuccessIsGraceful, Proc!Expired, Proc!Listeners
<1> QED
  BY <1>1, <1>2, <1>3, <1>4, <1>5, <1>6, TokenKept, TasksKept DEF ShutdownInv

LEMMA TickShutdown ==
  ASSUME ShutdownInv, Proc!ShutdownTick PROVE ShutdownInv'
<1>1. /\ IF first = None THEN shutdownNow < LatestStart ELSE ~Proc!Expired
      /\ shutdownNow' = shutdownNow + 1
      /\ UNCHANGED Proc!tokenVars /\ UNCHANGED Proc!taskVars /\ UNCHANGED Proc!pairVars
  BY DEF Proc!ShutdownTick
<1>2. shutdownNow \in Nat /\ shutdownNow' \in Nat /\ shutdownNow <= shutdownNow'
  BY <1>1 DEF ShutdownInv, TokenInv
<1>3. /\ first' = first /\ startedAt' = startedAt /\ phase' = phase
      /\ taken' = taken /\ hook' = hook /\ runs' = runs
  BY <1>1 DEF Proc!tokenVars
<1>4. HooksSound'
  BY <1>3 DEF ShutdownInv, TokenInv, HooksSound
<1>5. /\ startedAt' \in 0..shutdownNow'
      /\ IF first' = None THEN shutdownNow' <= LatestStart
         ELSE shutdownNow' <= startedAt' + DrainTimeout
  BY <1>1, <1>2, <1>3, ShutdownBounds DEF ShutdownInv, TokenInv, Proc!Expired
<1>6. TokenInv'
  BY <1>2, <1>3, <1>4, <1>5 DEF ShutdownInv, TokenInv, Proc!ShutdownCallers
<1> QED
  BY <1>1, <1>2, <1>3, <1>6, TasksKept, PairKept DEF ShutdownInv

LEMMA ShutdownStep == ShutdownInv /\ Proc!ShutdownNext => ShutdownInv'
BY SignalShutdown, HookShutdown, TakeHooksShutdown, CancelShutdown, TaskRestartsShutdown, TaskTriggersShutdown,
   DrainShutdown, ListenerEndsShutdown, PairReadsShutdown, PairEndsShutdown, TickShutdown
   DEF Proc!ShutdownNext, Proc!TokenStep, Proc!PairStep, Proc!TaskStep

LEMMA ShutdownStart == Proc!ShutdownInit => ShutdownInv
<1> SUFFICES ASSUME Proc!ShutdownInit PROVE ShutdownInv
  OBVIOUS
<1>1. TokenInv
  BY ShutdownBounds DEF Proc!ShutdownInit, TokenInv, HooksSound
<1>2. TaskInv
  BY ShutdownBounds DEF Proc!ShutdownInit, TaskInv, LateSound
<1>3. PairInv
  BY DEF Proc!ShutdownInit, PairInv, ReadSound, Proc!SuccessIsGraceful, Proc!Gone, Proc!Listeners
<1> QED
  BY <1>1, <1>2, <1>3 DEF ShutdownInv

LEMMA ShutdownPromise ==
  ShutdownInv => /\ Proc!ShutdownTypeOK
                 /\ Proc!HooksBeforeCancellation /\ Proc!SuccessIsGraceful
                 /\ Proc!OperationsOutliveApi /\ Proc!AbortOnlyAtDeadline
                 /\ Proc!OneAttemptAfterCancellation
<1> SUFFICES ASSUME ShutdownInv
             PROVE  /\ Proc!ShutdownTypeOK
                    /\ Proc!HooksBeforeCancellation /\ Proc!SuccessIsGraceful
                    /\ Proc!OperationsOutliveApi /\ Proc!AbortOnlyAtDeadline
                    /\ Proc!OneAttemptAfterCancellation
  OBVIOUS
<1>1. shutdownNow \in 0..(LatestStart + DrainTimeout)
  BY ShutdownBounds DEF ShutdownInv, TokenInv
<1>2. Proc!ShutdownTypeOK
  BY <1>1 DEF ShutdownInv, TokenInv, TaskInv, LateSound, PairInv, Proc!ShutdownTypeOK
<1>3. Proc!HooksBeforeCancellation
  BY DEF ShutdownInv, TokenInv, HooksSound, Proc!HooksBeforeCancellation, Proc!Cancelled
<1>4. Proc!SuccessIsGraceful /\ Proc!OperationsOutliveApi
  BY DEF ShutdownInv, PairInv, Proc!OperationsOutliveApi
<1>5. Proc!AbortOnlyAtDeadline
  BY DEF ShutdownInv, TaskInv, PairInv, ReadSound, Proc!AbortOnlyAtDeadline
<1>6. Proc!OneAttemptAfterCancellation
  BY DEF ShutdownInv, TaskInv, LateSound, Proc!OneAttemptAfterCancellation
<1> QED
  BY <1>2, <1>3, <1>4, <1>5, <1>6

(* However triggers, hooks, tasks, listeners and the deadline race, a       *)
(* process that stops runs each hook once and before anything sees the      *)
(* cancellation, runs at most one attempt of each task after it, keeps the  *)
(* operations listener as long as the API listener serves, aborts only at   *)
(* the deadline and reports success only for a graceful end                 *)
(* (baukit-runtime).                                                        *)
THEOREM ProcessStops == Spec => []StopsInOrder
<1> DEFINE Inv == part = "shutdown" => ShutdownInv
<1>1. Init => Inv
  <2>1. ASSUME Init, part = "shutdown" PROVE Proc!ShutdownInit
    BY <2>1 DEF Init, ShutdownStarts, OpsStarts, PoolStarts, ConfigStarts, SlotsStarts,
      ScaffoldStarts, PortsStarts
  <2> QED
    BY <2>1, ShutdownStart
<1>2. [Next]_vars /\ part' = "shutdown" =>
        part = "shutdown" /\ (Proc!ShutdownNext \/ UNCHANGED shutdownState)
  BY DEF Next, vars, ShutdownMoves, OpsMoves, PoolMoves, ConfigMoves, SlotsMoves,
    ScaffoldMoves, PortsMoves
<1>3. ShutdownInv /\ UNCHANGED shutdownState => ShutdownInv'
  BY DEF shutdownState, ShutdownInv, TokenInv, HooksSound, TaskInv, LateSound, PairInv, ReadSound,
    Proc!SuccessIsGraceful, Proc!Cancelled, Proc!Expired, Proc!Gone, Proc!Listeners,
    Proc!ShutdownCallers
<1>4. Inv /\ [Next]_vars => Inv'
  BY <1>2, <1>3, ShutdownStep
<1>5. Inv => StopsInOrder
  BY ShutdownPromise DEF StopsInOrder
<1> QED
  BY <1>1, <1>4, <1>5, PTL DEF Spec
=============================================================================
