-------------------------- MODULE JobEnqueueProofs --------------------------
(***************************************************************************)
(* For any number of producers: a deduplicated enqueue keeps the row it    *)
(* returns until its transaction ends, and with pending deduplication no   *)
(* update is lost.  The invariant pairs every row lock with the            *)
(* transaction that was given the row, and follows the job of a committed  *)
(* update until its outcome.                                               *)
(***************************************************************************)
EXTENDS JobEnqueue, TLAPS

USE DEF Terminal, Statuses

\* The row a transaction inserted is its own until the commit.
OwnInsert ==
  \A u \in Updates :
    /\ row[u].status = "inserted" => pc[u] = "found" /\ result[u] = u
    /\ pc[u] \notin {"found", "committed"} => row[u].status = "none"
    /\ pc[u] = "found" =>
         row[u].status = IF result[u] = u THEN "inserted" ELSE "none"

ResultKnown ==
  \A u \in Updates :
    pc[u] \in {"lock", "found", "committed"} => result[u] \in Updates

\* A lock belongs to the transaction that returns the row.
LockPaired ==
  \A j, u \in Updates : lock[j] = u => pc[u] = "found" /\ result[u] = j

FoundKept ==
  Mode # "idempotency" =>
    \A u \in Updates : pc[u] = "found" /\ result[u] # u =>
      lock[result[u]] = u /\ Indexed(row[result[u]])

\* What the job of a committed update may be doing.
Promised(u, r, s) ==
  \/ r.status \in {"pending", "failed", "cancelled", "deleted"}
  \/ r.status = "running" /\ (r.read => u \in s)
  \/ r.status = "succeeded" /\ u \in s

PromiseKept ==
  Mode = "pending" =>
    \A u \in Committed : Promised(u, row[result[u]], seen[result[u]])

EnqueueInv ==
  TypeOK /\ OwnInsert /\ ResultKnown /\ LockPaired /\ FoundKept /\ PromiseKept

LEMMA InitEnqueue == Init => EnqueueInv
<1> SUFFICES ASSUME Init PROVE EnqueueInv
  OBVIOUS
<1>1. TypeOK
  BY EnqueueAssumption DEF Init, TypeOK, NoRow
<1>2. OwnInsert /\ ResultKnown /\ FoundKept
  BY DEF Init, NoRow, OwnInsert, ResultKnown, FoundKept
<1>3. LockPaired
  BY EnqueueAssumption DEF Init, LockPaired
<1>4. PromiseKept
  BY DEF Init, PromiseKept, Committed
<1>5. QED
  BY <1>1, <1>2, <1>3, <1>4 DEF EnqueueInv

JobRecord == [status : Statuses, attempts : 0..MaxAttempts, read : BOOLEAN]

LEMMA WithStatus ==
  ASSUME NEW f \in [Updates -> JobRecord], NEW u \in Updates, NEW s \in Statuses
  PROVE  [f EXCEPT ![u].status = s] \in [Updates -> JobRecord]
<1>1. [f[u] EXCEPT !.status = s] \in JobRecord
  BY DEF JobRecord
<1>2. QED
  BY <1>1

(***************************************************************************)
(* Every action keeps the types.                                           *)
(***************************************************************************)
LEMMA NextEnqueueType == TypeOK /\ [Next]_vars => TypeOK'
<1> SUFFICES ASSUME TypeOK, [Next]_vars PROVE TypeOK'
  OBVIOUS
<1> USE DEF TypeOK, JobRecord
<1>1. ASSUME NEW u \in Updates, ProducerStep(u) \/ Rollback(u)
      PROVE  TypeOK'
  <2>1. CASE Begin(u)
    BY <2>1 DEF Begin
  <2>2. CASE Insert(u)
    <3>1. CASE UNCHANGED row
      BY <2>2, <3>1 DEF Insert
    <3>2. CASE row' = [row EXCEPT ![u].status = "inserted"]
      <4>1. row \in [Updates -> JobRecord] /\ "inserted" \in Statuses
        OBVIOUS
      <4>2. row' \in [Updates -> JobRecord]
        <5> HIDE DEF JobRecord, Statuses
        <5> QED
          BY <3>2, <4>1, WithStatus
      <4>3. /\ pc' = [pc EXCEPT ![u] = "select"] \/ pc' = [pc EXCEPT ![u] = "found"]
            /\ result' = result \/ result' = [result EXCEPT ![u] = u]
            /\ UNCHANGED <<lock, seen>>
        BY <2>2 DEF Insert
      <4>4. pc' \in [Updates -> {"begin", "insert", "select", "lock", "found",
                                 "committed", "aborted", "error"}]
        BY <4>3
      <4>5. result' \in [Updates -> Updates \union {None}]
        BY <4>3
      <4>6. lock' = lock /\ seen' = seen
        BY <4>3
      <4>7. QED
        BY <4>2, <4>4, <4>5, <4>6
    <3>3. QED
      BY <2>2, <3>1, <3>2 DEF Insert
  <2>3. CASE Select(u)
    BY <2>3 DEF Select
  <2>4. CASE LockFound(u)
    BY <2>4 DEF LockFound
  <2>5. CASE Commit(u)
    BY <2>5 DEF Commit, Unlock
  <2>6. CASE Rollback(u)
    BY <2>6 DEF Rollback, Unlock
  <2>7. QED
    BY <1>1, <2>1, <2>2, <2>3, <2>4, <2>5, <2>6 DEF ProducerStep
<1>2. ASSUME NEW j \in Updates,
             WorkerStep(j) \/ Reclaim(j) \/ Fail(j) \/ Cancel(j) \/ CleanUp(j)
      PROVE  TypeOK'
  <2>1. CASE Run(j)
    <3>1. row[j].attempts + 1 \in 0..MaxAttempts
      BY <2>1, EnqueueAssumption DEF Run
    <3>2. QED
      BY <2>1, <3>1 DEF Run
  <2>2. CASE HandlerReads(j)
    BY <2>2 DEF HandlerReads, Committed
  <2>3. CASE \E s \in Statuses : EndAs(j, s)
    BY <2>3 DEF EndAs
  <2>4. QED
    BY <1>2, <2>1, <2>2, <2>3
    DEF WorkerStep, Claim, Reclaim, Complete, Fail, Cancel, CleanUp
<1>3. CASE UNCHANGED vars
  BY <1>3 DEF vars
<1>4. QED
  BY <1>1, <1>2, <1>3 DEF Next

(***************************************************************************)
(* The steps of a transaction.                                             *)
(***************************************************************************)
LEMMA BeginEnqueue ==
  ASSUME EnqueueInv, TypeOK', NEW u \in Updates, Begin(u)
  PROVE  EnqueueInv'
<1>1. \A v \in Updates : pc'[v] = IF v = u THEN "insert" ELSE pc[v]
  BY DEF Begin, EnqueueInv, TypeOK
<1>2. pc[u] = "begin" /\ UNCHANGED <<row, lock, result, seen>>
  BY DEF Begin
<1>3. QED
  BY <1>1, <1>2 DEF EnqueueInv, OwnInsert, ResultKnown, LockPaired, FoundKept,
                    PromiseKept, Committed

LEMMA InsertEnqueue ==
  ASSUME EnqueueInv, TypeOK', NEW u \in Updates, Insert(u)
  PROVE  EnqueueInv'
<1>1. CASE \E j \in Updates : Indexed(row[j])
  <2>1. \A v \in Updates : pc'[v] = IF v = u THEN "select" ELSE pc[v]
    BY <1>1 DEF Insert, EnqueueInv, TypeOK
  <2>2. pc[u] = "insert" /\ UNCHANGED <<row, lock, result, seen>>
    BY <1>1 DEF Insert
  <2>3. QED
    BY <2>1, <2>2 DEF EnqueueInv, OwnInsert, ResultKnown, LockPaired,
                      FoundKept, PromiseKept, Committed
<1>2. CASE ~\E j \in Updates : Indexed(row[j])
  <2>1. /\ pc[u] = "insert" /\ row[u].status = "none"
        /\ UNCHANGED <<lock, seen>>
    BY DEF Insert, EnqueueInv, OwnInsert
  <2>2. \A v \in Updates : /\ pc'[v] = IF v = u THEN "found" ELSE pc[v]
                           /\ result'[v] = IF v = u THEN u ELSE result[v]
                           /\ v # u => row'[v] = row[v]
    BY <1>2 DEF Insert, EnqueueInv, TypeOK
  <2>3. row'[u].status = "inserted"
    BY <1>2 DEF Insert, EnqueueInv, TypeOK
  <2>4. OwnInsert' /\ ResultKnown' /\ LockPaired'
    BY <2>1, <2>2, <2>3
    DEF EnqueueInv, OwnInsert, ResultKnown, LockPaired
  <2>5. FoundKept'
    <3> SUFFICES ASSUME Mode # "idempotency",
                        NEW v \in Updates, v # u, pc[v] = "found", result[v] # v
                 PROVE  lock[result[v]] = v /\ Indexed(row'[result[v]])
      BY <2>1, <2>2 DEF FoundKept
    <3>1. lock[result[v]] = v /\ Indexed(row[result[v]]) /\ result[v] \in Updates
      BY DEF EnqueueInv, FoundKept, ResultKnown
    <3>2. QED
      BY <1>2, <3>1
  <2>6. PromiseKept'
    <3> SUFFICES ASSUME Mode = "pending", NEW v \in Updates, pc[v] = "committed"
                 PROVE  Promised(v, row'[result[v]], seen[result[v]])
      BY <2>1, <2>2 DEF PromiseKept, Committed
    <3>1. /\ Promised(v, row[result[v]], seen[result[v]])
          /\ result[v] \in Updates
      BY DEF EnqueueInv, PromiseKept, ResultKnown, Committed
    <3>2. result[v] # u
      BY <2>1, <3>1 DEF Promised
    <3>3. QED
      BY <2>2, <3>1, <3>2
  <2>7. QED
    BY <2>4, <2>5, <2>6 DEF EnqueueInv
<1>3. QED
  BY <1>1, <1>2

LEMMA SelectEnqueue ==
  ASSUME EnqueueInv, TypeOK', NEW u \in Updates, Select(u)
  PROVE  EnqueueInv'
<1>1. /\ pc[u] = "select" /\ row[u].status = "none"
      /\ UNCHANGED <<row, lock, seen>>
  BY DEF Select, EnqueueInv, OwnInsert
<1>2. ~Indexed(row[u])
  BY <1>1, EnqueueAssumption DEF Indexed
<1>3. PICK p \in {"found", "lock", "error", "insert"}, j \in Updates \union {None} :
        /\ p \in {"found", "lock"} => j \in Updates \ {u}
        /\ p = "found" => Mode = "idempotency"
        /\ \A v \in Updates : /\ pc'[v] = IF v = u THEN p ELSE pc[v]
                              /\ v # u => result'[v] = result[v]
        /\ p \in {"found", "lock"} => result'[u] = j
  <2>1. CASE \E j \in Updates :
               /\ Indexed(row[j])
               /\ result' = [result EXCEPT ![u] = j]
               /\ pc' = [pc EXCEPT
                    ![u] = IF Mode = "idempotency" THEN "found" ELSE "lock"]
    BY <1>2, <2>1 DEF EnqueueInv, TypeOK
  <2>2. CASE /\ pc' = [pc EXCEPT
                  ![u] = IF Mode = "idempotency" THEN "error" ELSE "insert"]
             /\ UNCHANGED result
    BY <2>2 DEF EnqueueInv, TypeOK
  <2>3. QED
    BY <2>1, <2>2 DEF Select
<1>4. OwnInsert' /\ ResultKnown' /\ LockPaired'
  BY <1>1, <1>3 DEF EnqueueInv, OwnInsert, ResultKnown, LockPaired
<1>5. FoundKept'
  BY <1>1, <1>3 DEF EnqueueInv, FoundKept
<1>6. PromiseKept'
  BY <1>1, <1>3 DEF EnqueueInv, PromiseKept, Committed
<1>7. QED
  BY <1>4, <1>5, <1>6 DEF EnqueueInv

LEMMA LockEnqueue ==
  ASSUME EnqueueInv, TypeOK', NEW u \in Updates, LockFound(u)
  PROVE  EnqueueInv'
<1>1. /\ pc[u] = "lock" /\ row[u].status = "none" /\ result[u] \in Updates
      /\ lock[result[u]] = None /\ UNCHANGED <<row, seen>>
  BY DEF LockFound, Unlocked, EnqueueInv, OwnInsert, ResultKnown
<1>2. CASE Indexed(row[result[u]])
  <2>1. result[u] # u
    BY <1>1, <1>2, EnqueueAssumption DEF Indexed
  <2>2. /\ \A v \in Updates : /\ pc'[v] = IF v = u THEN "found" ELSE pc[v]
                              /\ lock'[v] = IF v = result[u] THEN u ELSE lock[v]
        /\ result' = result
    BY <1>1, <1>2 DEF LockFound, EnqueueInv, TypeOK
  <2>3. OwnInsert' /\ ResultKnown'
    BY <1>1, <2>1, <2>2 DEF EnqueueInv, OwnInsert, ResultKnown
  <2>4. LockPaired'
    BY <1>1, <2>1, <2>2 DEF EnqueueInv, LockPaired
  <2>5. FoundKept'
    <3> SUFFICES ASSUME Mode # "idempotency",
                        NEW v \in Updates, pc'[v] = "found", result[v] # v
                 PROVE  lock'[result[v]] = v /\ Indexed(row[result[v]])
      BY <1>1, <2>2 DEF FoundKept
    <3>1. CASE v = u
      BY <1>1, <1>2, <2>2, <3>1
    <3>2. CASE v # u
      <4>1. /\ lock[result[v]] = v /\ Indexed(row[result[v]])
            /\ result[v] \in Updates
        BY <2>2, <3>2 DEF EnqueueInv, FoundKept, ResultKnown
      <4>2. result[v] # result[u]
        BY <1>1, <4>1, EnqueueAssumption
      <4>3. QED
        BY <2>2, <4>1, <4>2
    <3>3. QED
      BY <3>1, <3>2
  <2>6. PromiseKept'
    BY <1>1, <2>2 DEF EnqueueInv, PromiseKept, Committed
  <2>7. QED
    BY <2>3, <2>4, <2>5, <2>6 DEF EnqueueInv
<1>3. CASE ~Indexed(row[result[u]])
  <2>1. /\ \A v \in Updates : /\ pc'[v] = IF v = u THEN "insert" ELSE pc[v]
                              /\ v # u => result'[v] = result[v]
        /\ lock' = lock
    BY <1>1, <1>3 DEF LockFound, EnqueueInv, TypeOK
  <2>2. QED
    BY <1>1, <2>1 DEF EnqueueInv, OwnInsert, ResultKnown, LockPaired,
                      FoundKept, PromiseKept, Committed
<1>4. QED
  BY <1>2, <1>3

(***************************************************************************)
(* The end of a transaction releases its locks and settles its own row.    *)
(***************************************************************************)
LEMMA CommitEnqueue ==
  ASSUME EnqueueInv, TypeOK', NEW u \in Updates, Commit(u)
  PROVE  EnqueueInv'
<1>1. /\ pc[u] = "found" /\ result[u] \in Updates
      /\ UNCHANGED <<result, seen>>
  BY DEF Commit, EnqueueInv, ResultKnown
<1>2. \A v \in Updates :
        /\ pc'[v] = IF v = u THEN "committed" ELSE pc[v]
        /\ lock'[v] = IF lock[v] = u THEN None ELSE lock[v]
        /\ v # u => row'[v] = row[v]
  BY DEF Commit, Unlock, EnqueueInv, TypeOK
<1>3. row'[u].status = IF row[u].status = "inserted" THEN "pending"
                                                     ELSE row[u].status
  BY DEF Commit, EnqueueInv, TypeOK
<1>4. row[u].status # "inserted" => row'[u] = row[u]
  BY DEF Commit, EnqueueInv, TypeOK
<1>5. OwnInsert' /\ ResultKnown'
  BY <1>1, <1>2, <1>3 DEF EnqueueInv, OwnInsert, ResultKnown
<1>6. LockPaired'
  BY <1>1, <1>2, EnqueueAssumption DEF EnqueueInv, LockPaired
<1>7. FoundKept'
  <2> SUFFICES ASSUME Mode # "idempotency", NEW v \in Updates, v # u,
                      pc[v] = "found", result[v] # v
               PROVE  lock'[result[v]] = v /\ Indexed(row'[result[v]])
    BY <1>1, <1>2 DEF FoundKept
  <2>1. /\ lock[result[v]] = v /\ Indexed(row[result[v]])
        /\ result[v] \in Updates
    BY DEF EnqueueInv, FoundKept, ResultKnown
  <2>2. row[result[v]].status # "inserted"
    BY <2>1, EnqueueAssumption DEF Indexed
  <2>3. row'[result[v]] = row[result[v]]
    BY <1>2, <1>4, <2>1, <2>2
  <2>4. QED
    BY <1>2, <2>1, <2>3
<1>8. PromiseKept'
  <2> SUFFICES ASSUME Mode = "pending",
                      NEW v \in Updates, v = u \/ pc[v] = "committed"
               PROVE  Promised(v, row'[result[v]], seen[result[v]])
    BY <1>1, <1>2 DEF PromiseKept, Committed
  <2>1. CASE v = u /\ result[u] = u
    <3>1. row'[u].status = "pending"
      BY <1>1, <1>3, <2>1 DEF EnqueueInv, OwnInsert
    <3>2. QED
      BY <2>1, <3>1 DEF Promised
  <2>2. CASE v = u /\ result[u] # u
    <3>1. row[result[u]].status = "pending"
      BY <1>1, <2>2 DEF EnqueueInv, FoundKept, Indexed
    <3>2. QED
      BY <1>1, <1>2, <2>2, <3>1 DEF Promised
  <2>3. CASE v # u
    <3>1. /\ Promised(v, row[result[v]], seen[result[v]])
          /\ result[v] \in Updates
      BY <2>3 DEF EnqueueInv, PromiseKept, ResultKnown, Committed
    <3>2. row[result[v]].status # "inserted"
      BY <3>1 DEF Promised
    <3>3. row'[result[v]] = row[result[v]]
      BY <1>2, <1>4, <3>1, <3>2
    <3>4. QED
      BY <3>1, <3>3
  <2>4. QED
    BY <2>1, <2>2, <2>3
<1>9. QED
  BY <1>5, <1>6, <1>7, <1>8 DEF EnqueueInv

LEMMA RollbackEnqueue ==
  ASSUME EnqueueInv, TypeOK', NEW u \in Updates, Rollback(u)
  PROVE  EnqueueInv'
<1>1. pc[u] \notin {"begin", "committed"} /\ UNCHANGED seen
  BY DEF Rollback
<1>2. \A v \in Updates :
        /\ pc'[v] = IF v = u THEN "aborted" ELSE pc[v]
        /\ lock'[v] = IF lock[v] = u THEN None ELSE lock[v]
        /\ v # u => result'[v] = result[v] /\ row'[v] = row[v]
  BY DEF Rollback, Unlock, EnqueueInv, TypeOK
<1>3. row'[u].status = IF row[u].status = "inserted" THEN "none"
                                                     ELSE row[u].status
  BY DEF Rollback, EnqueueInv, TypeOK
<1>4. row[u].status # "inserted" => row'[u] = row[u]
  BY DEF Rollback, EnqueueInv, TypeOK
<1>5. row'[u].status # "inserted"
  BY <1>3
<1>6. row'[u].status = "none"
  BY <1>1, <1>3 DEF EnqueueInv, OwnInsert, Rollback
<1>7. OwnInsert' /\ ResultKnown'
  BY <1>1, <1>2, <1>6 DEF EnqueueInv, OwnInsert, ResultKnown
<1>8. LockPaired'
  BY <1>1, <1>2, EnqueueAssumption DEF EnqueueInv, LockPaired
<1>9. FoundKept'
  <2> SUFFICES ASSUME Mode # "idempotency", NEW v \in Updates, v # u,
                      pc[v] = "found", result[v] # v
               PROVE  lock'[result[v]] = v /\ Indexed(row'[result[v]])
    BY <1>2 DEF FoundKept
  <2>1. /\ lock[result[v]] = v /\ Indexed(row[result[v]])
        /\ result[v] \in Updates
    BY DEF EnqueueInv, FoundKept, ResultKnown
  <2>2. row[result[v]].status # "inserted"
    BY <2>1, EnqueueAssumption DEF Indexed
  <2>3. row'[result[v]] = row[result[v]]
    BY <1>2, <1>4, <2>1, <2>2
  <2>4. QED
    BY <1>2, <2>1, <2>3
<1>10. PromiseKept'
  <2> SUFFICES ASSUME Mode = "pending", NEW v \in Updates, pc[v] = "committed"
               PROVE  Promised(v, row'[result[v]], seen[result[v]]) /\ v # u
    BY <1>1, <1>2 DEF PromiseKept, Committed
  <2>1. /\ Promised(v, row[result[v]], seen[result[v]])
        /\ result[v] \in Updates
    BY DEF EnqueueInv, PromiseKept, ResultKnown, Committed
  <2>2. row[result[v]].status # "inserted"
    BY <2>1 DEF Promised
  <2>3. row'[result[v]] = row[result[v]]
    BY <1>2, <1>4, <2>1, <2>2
  <2>4. QED
    BY <1>1, <2>1, <2>3
<1>11. QED
  BY <1>7, <1>8, <1>9, <1>10 DEF EnqueueInv

(***************************************************************************)
(* A worker changes only a row no transaction holds: what a transaction    *)
(* was given stays, and a promise passes from status to status.            *)
(***************************************************************************)
LEMMA WorkerEnqueue ==
  ASSUME EnqueueInv, TypeOK', NEW j \in Updates,
         UNCHANGED <<lock, pc, result>>,
         \A v \in Updates : v # j => row'[v] = row[v] /\ seen'[v] = seen[v],
         row[j].status \notin {"none", "inserted"},
         row'[j].status \notin {"none", "inserted"},
         lock[j] = None \/ ~Indexed(row[j]) \/ Indexed(row'[j]),
         Mode = "pending" =>
           \A u \in Committed : Promised(u, row[j], seen[j]) =>
             Promised(u, row'[j], seen'[j])
  PROVE  EnqueueInv'
<1>1. OwnInsert'
  BY DEF EnqueueInv, OwnInsert
<1>2. ResultKnown' /\ LockPaired'
  BY DEF EnqueueInv, ResultKnown, LockPaired
<1>3. FoundKept'
  <2> SUFFICES ASSUME Mode # "idempotency",
                      NEW v \in Updates, pc[v] = "found", result[v] # v
               PROVE  lock[result[v]] = v /\ Indexed(row'[result[v]])
    BY DEF FoundKept
  <2>1. /\ lock[result[v]] = v /\ Indexed(row[result[v]])
        /\ result[v] \in Updates
    BY DEF EnqueueInv, FoundKept, ResultKnown
  <2>2. CASE result[v] = j
    BY <2>1, <2>2, EnqueueAssumption
  <2>3. CASE result[v] # j
    BY <2>1, <2>3
  <2>4. QED
    BY <2>2, <2>3
<1>4. PromiseKept'
  <2> SUFFICES ASSUME Mode = "pending", NEW v \in Committed
               PROVE  Promised(v, row'[result[v]], seen'[result[v]])
    BY DEF PromiseKept, Committed
  <2>1. /\ Promised(v, row[result[v]], seen[result[v]])
        /\ result[v] \in Updates
    BY DEF EnqueueInv, PromiseKept, ResultKnown, Committed
  <2>2. CASE result[v] = j
    BY <2>1, <2>2
  <2>3. CASE result[v] # j
    BY <2>1, <2>3
  <2>4. QED
    BY <2>2, <2>3
<1>5. QED
  BY <1>1, <1>2, <1>3, <1>4 DEF EnqueueInv

LEMMA RunEnqueue ==
  ASSUME EnqueueInv, TypeOK', NEW j \in Updates, Claim(j) \/ Reclaim(j)
  PROVE  EnqueueInv'
<1>1. /\ row[j].status \in {"pending", "running"} /\ lock[j] = None
      /\ UNCHANGED <<lock, pc, result>>
  BY DEF Claim, Reclaim, Run, Unlocked
<1>2. /\ row'[j].status = "running" /\ ~row'[j].read
      /\ \A v \in Updates : v # j => row'[v] = row[v] /\ seen'[v] = seen[v]
  BY DEF Claim, Reclaim, Run, EnqueueInv, TypeOK
<1>3. \A u \in Committed : Promised(u, row'[j], seen'[j])
  BY <1>2 DEF Promised
<1>4. QED
  BY <1>1, <1>2, <1>3, WorkerEnqueue

LEMMA ReadEnqueue ==
  ASSUME EnqueueInv, TypeOK', NEW j \in Updates, HandlerReads(j)
  PROVE  EnqueueInv'
<1>1. row[j].status = "running" /\ UNCHANGED <<lock, pc, result>>
  BY DEF HandlerReads
<1>2. /\ \A v \in Updates : v # j => row'[v] = row[v] /\ seen'[v] = seen[v]
      /\ row'[j].status = "running" /\ row'[j].attempts = row[j].attempts
      /\ seen'[j] = Committed
  BY <1>1 DEF HandlerReads, EnqueueInv, TypeOK
<1>3. Indexed(row[j]) => Indexed(row'[j])
  BY <1>1, <1>2, EnqueueAssumption DEF Indexed
<1>4. \A u \in Committed : Promised(u, row'[j], seen'[j])
  BY <1>2 DEF Promised
<1>5. QED
  BY <1>1, <1>2, <1>3, <1>4, WorkerEnqueue

LEMMA EndEnqueue ==
  ASSUME EnqueueInv, TypeOK', NEW j \in Updates,
         Complete(j) \/ Fail(j) \/ Cancel(j) \/ CleanUp(j)
  PROVE  EnqueueInv'
<1>1. PICK s \in {"pending", "succeeded", "failed", "cancelled", "deleted"} :
        /\ EndAs(j, s)
        /\ s = "succeeded" => row[j].status = "running" /\ row[j].read
  BY DEF Complete, Fail, Cancel, CleanUp
<1>2. row[j].status \in {"pending", "running"} \union Terminal
  BY DEF Complete, Fail, Cancel, CleanUp
<1>3. lock[j] = None /\ UNCHANGED <<lock, pc, result, seen>>
  BY <1>1 DEF EndAs, Unlocked
<1>4. /\ \A v \in Updates : v # j => row'[v] = row[v] /\ seen'[v] = seen[v]
      /\ row'[j].status = s
  BY <1>1 DEF EndAs, EnqueueInv, TypeOK
<1>5. \A u \in Committed : Promised(u, row[j], seen[j]) =>
        Promised(u, row'[j], seen'[j])
  BY <1>1, <1>3, <1>4 DEF Promised
<1>6. QED
  BY <1>2, <1>3, <1>4, <1>5, WorkerEnqueue

LEMMA NextEnqueue == EnqueueInv /\ [Next]_vars => EnqueueInv'
<1> SUFFICES ASSUME EnqueueInv, [Next]_vars PROVE EnqueueInv'
  OBVIOUS
<1>1. TypeOK'
  BY NextEnqueueType DEF EnqueueInv
<1>2. ASSUME NEW u \in Updates, ProducerStep(u) \/ Rollback(u)
      PROVE  EnqueueInv'
  BY <1>1, <1>2, BeginEnqueue, InsertEnqueue, SelectEnqueue, LockEnqueue,
     CommitEnqueue, RollbackEnqueue DEF ProducerStep
<1>3. ASSUME NEW j \in Updates,
             WorkerStep(j) \/ Reclaim(j) \/ Fail(j) \/ Cancel(j) \/ CleanUp(j)
      PROVE  EnqueueInv'
  BY <1>1, <1>3, RunEnqueue, ReadEnqueue, EndEnqueue DEF WorkerStep
<1>4. CASE UNCHANGED vars
  BY <1>4 DEF vars, EnqueueInv, TypeOK, OwnInsert, ResultKnown, LockPaired,
              FoundKept, PromiseKept, Committed
<1>5. QED
  BY <1>2, <1>3, <1>4 DEF Next

LEMMA EnqueueInvariant == Spec => []EnqueueInv
<1>1. QED
  BY InitEnqueue, NextEnqueue, PTL DEF Spec

(***************************************************************************)
(* In every mode and for any number of producers and attempts: the row     *)
(* enqueue_with_deduplication returns holds its key until the commit.      *)
(***************************************************************************)
THEOREM RowKeptUntilCommit == Spec => []ReturnedRowKept
<1>1. EnqueueInv => ReturnedRowKept
  BY DEF EnqueueInv, FoundKept, ReturnedRowKept
<1>2. QED
  BY <1>1, EnqueueInvariant, PTL

(***************************************************************************)
(* With Deduplication::Pending no update is lost, for any number of        *)
(* producers and attempts: a job that succeeded read every update whose    *)
(* transaction was given it.                                               *)
(***************************************************************************)
THEOREM NoUpdateLost == Mode = "pending" /\ Spec => []JobSeesUpdate
<1>1. Mode = "pending" /\ EnqueueInv => JobSeesUpdate
  BY DEF EnqueueInv, PromiseKept, Promised, JobSeesUpdate
<1>2. CASE Mode = "pending"
  <2>1. EnqueueInv => JobSeesUpdate
    BY <1>1, <1>2
  <2>2. QED
    BY <2>1, EnqueueInvariant, PTL
<1>3. CASE Mode # "pending"
  BY <1>3
<1>4. QED
  BY <1>2, <1>3
=============================================================================
