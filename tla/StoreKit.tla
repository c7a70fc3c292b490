------------------------------ MODULE StoreKit -------------------------------
(***************************************************************************)
(* The storage cases of baukit-test, each run against correct and faulty   *)
(* stores: a cap on live rows (Cap...), the purge horizon (Purge...) and   *)
(* replayed mutations (Replay...).                                         *)
(***************************************************************************)
EXTENDS Integers, Sequences, FiniteSets

-----------------------------------------------------------------------------
(* check_postgres_live_row_cap_conformance of baukit-test: it fills a scope   *)
(* up to its last slot, races two creates for that slot, and then updates,    *)
(* soft-deletes and replaces a row. The adapter is one of the four strategies *)
(* the repository compares on PostgreSQL, or the naive count it refutes.      *)

CONSTANTS Limit,         \* live rows of the bound scope
          Strategies, Defects,
          MaxAttempts,   \* MAX_SERIALIZATION_ATTEMPTS
          CapMaxFailures,   \* bound: database calls that fail
          None

LimitAssumption == Limit \in Nat \ {0}

VARIABLES strategy, defect,
          capAt,          \* the harness's step
          live, dead,  \* committed rows
          slotOf,      \* the slot of every row of the constraint strategy
          counter,     \* live_count of the scope
          pc, saw, attempt, result,   \* the two raced creates
          held,        \* the racer that holds the scope row's lock
          capViolated,    \* steps with a violation
          failures     \* calls that failed

scope == <<live, dead, slotOf, counter>>
racers == <<pc, saw, attempt, result, held>>
capVars == <<strategy, defect, capAt, scope, racers, capViolated, failures>>

Racers == {Limit - 1, Limit}
Locking == strategy \in {"row_lock", "counter"}

CapInit ==
  /\ strategy \in Strategies /\ defect \in Defects
  /\ capAt = "empty" /\ live = {} /\ dead = {}
  /\ slotOf = [s \in 0..Limit + 1 |-> 0] /\ counter = 0
  /\ pc = [r \in Racers |-> "start"]
  /\ saw = [r \in Racers |-> [room |-> 0, rows |-> {}]]
  /\ attempt = [r \in Racers |-> 0] /\ result = [r \in Racers |-> None]
  /\ held = None /\ capViolated = {} /\ failures = 0

(* A create: what it reads of the scope, 0 when it is full.                   *)
CountedRows == IF defect = "counts_deleted" THEN live \cup dead ELSE live
Taken == {slotOf[s] : s \in CountedRows}
LowestFree == IF 1..Limit \subseteq Taken THEN 0
              ELSE CHOOSE c \in 1..Limit \ Taken : \A d \in 1..Limit \ Taken : c <= d
Room ==
  CASE strategy = "counter" -> IF counter < Limit THEN 1 ELSE 0
    [] strategy = "constraint" -> LowestFree
    [] OTHER -> IF Cardinality(CountedRows) < Limit THEN 1 ELSE 0

Insert(s, slot) ==
  /\ live' = live \cup {s} /\ UNCHANGED dead
  /\ slotOf' = [slotOf EXCEPT ![s] = slot]

Finish(r, res) == pc' = [pc EXCEPT ![r] = "done"] /\ result' = [result EXCEPT ![r] = res]
Goto(r, to) == pc' = [pc EXCEPT ![r] = to] /\ UNCHANGED result

\* The first statement: FOR UPDATE and count, the guarded counter, or a read.
Begin(r) ==
  /\ capAt = "race" /\ pc[r] = "start"
  /\ Locking => held = None
  /\ saw' = [saw EXCEPT ![r] = [room |-> Room, rows |-> live]]
  /\ IF ~Locking THEN Goto(r, "read") /\ UNCHANGED <<held, counter>>
     ELSE IF Room = 0 THEN Finish(r, "limit") /\ UNCHANGED <<held, counter>>
     ELSE /\ Goto(r, "insert") /\ held' = r
          /\ counter' = IF strategy = "counter" THEN counter + 1 ELSE counter
  /\ UNCHANGED <<strategy, defect, capAt, live, dead, slotOf, attempt, capViolated, failures>>

\* read_barrier: the first attempts read before either inserts.
Meet(r) ==
  /\ pc[r] = "read" /\ (attempt[r] > 0 \/ \A q \in Racers : pc[q] # "start")
  /\ IF saw[r].room = 0 THEN Finish(r, "limit") ELSE Goto(r, "insert")
  /\ UNCHANGED <<strategy, defect, capAt, scope, saw, attempt, held, capViolated, failures>>

\* A concurrent commit a serializable transaction did not read, or the unique
\* index of live slots.
Conflict(r) ==
  CASE strategy = "serializable" -> live # saw[r].rows
    [] strategy = "constraint" -> \E s \in live : slotOf[s] = saw[r].room
    [] OTHER -> FALSE
Commit(r) ==
  /\ pc[r] = "insert"
  /\ IF ~Conflict(r)
     THEN /\ Insert(r, IF strategy = "constraint" THEN saw[r].room ELSE 0)
          /\ Finish(r, "row") /\ held' = None /\ UNCHANGED attempt
     ELSE /\ UNCHANGED <<live, dead, slotOf, held>>
          /\ IF strategy = "constraint" THEN Finish(r, "limit") /\ UNCHANGED attempt
             ELSE /\ attempt' = [attempt EXCEPT ![r] = @ + 1]
                  /\ IF attempt[r] + 1 = MaxAttempts THEN Finish(r, "database")
                                                     ELSE Goto(r, "retry")
  /\ UNCHANGED <<strategy, defect, capAt, counter, saw, capViolated, failures>>
\* The insert fails and rolls the transaction back.
CommitFails(r) ==
  /\ pc[r] = "insert" /\ failures < CapMaxFailures /\ failures' = failures + 1
  /\ Finish(r, "database") /\ held' = None
  /\ counter' = IF strategy = "counter" THEN counter - 1 ELSE counter
  /\ UNCHANGED <<strategy, defect, capAt, live, dead, slotOf, saw, attempt, capViolated>>

\* first_attempt_finished: the next snapshot includes the winner's commit.
FirstAttempt(q) == attempt[q] = 0 /\ pc[q] \in {"start", "read", "insert"}
Retry(r) ==
  /\ pc[r] = "retry" /\ ~\E q \in Racers \ {r} : FirstAttempt(q)
  /\ Goto(r, "start")
  /\ UNCHANGED <<strategy, defect, capAt, scope, saw, attempt, held, capViolated, failures>>

(* The harness.                                                               *)
Violate(when) == capViolated' = IF when THEN capViolated \cup {capAt} ELSE capViolated
Answered == UNCHANGED failures
Fails == failures < CapMaxFailures /\ failures' = failures + 1

\* A create that nothing overlaps.
Create(s) ==
  IF Room = 0 THEN UNCHANGED scope
  ELSE /\ Insert(s, IF strategy = "constraint" THEN Room ELSE 0)
       /\ counter' = IF strategy = "counter" THEN counter + 1 ELSE counter

\* live_row_count at a phase, and the next step.
Expected == CASE capAt = "empty" -> 0 [] capAt = "count_deleted" -> Limit - 1 [] OTHER -> Limit
AfterCount ==
  CASE capAt = "empty" -> "fill" [] capAt = "count_raced" -> "update"
    [] capAt = "count_deleted" -> "replace" [] capAt = "count_replaced" -> "done"
Count ==
  /\ capAt \in {"empty", "count_raced", "count_deleted", "count_replaced"}
  /\ \/ Answered /\ Violate(Cardinality(live) # Expected) /\ capAt' = AfterCount
     \/ Fails /\ Violate(TRUE) /\ capAt' = (IF capAt = "empty" THEN "done" ELSE AfterCount)
  /\ UNCHANGED <<strategy, defect, scope, racers>>

Fill ==
  /\ capAt = "fill"
  /\ LET s == Cardinality(live)
     IN  IF s = Limit - 1 THEN capAt' = "race" /\ UNCHANGED <<scope, capViolated, failures>>
         ELSE \/ Answered /\ Create(s) /\ UNCHANGED <<capViolated, capAt>>
              \/ Fails /\ Violate(TRUE) /\ capAt' = "done" /\ UNCHANGED scope
  /\ UNCHANGED <<strategy, defect, racers>>

Accepted == {r \in Racers : result[r] = "row"}
Coded(r) == result[r] = "limit" /\ defect # "wrong_code"
\* Both racers' results, and the verdict on them.
JudgeRace ==
  /\ capAt = "race" /\ \A r \in Racers : pc[r] = "done"
  /\ Violate(Cardinality(Accepted) # 1 \/ \E r \in Racers \ Accepted : ~Coded(r))
  /\ capAt' = "count_raced"
  /\ UNCHANGED <<strategy, defect, scope, racers, failures>>
\* rows.last(): the second racer's, else the first's, else the last fill.
Last == IF Accepted # {} THEN CHOOSE r \in Accepted : \A q \in Accepted : q <= r ELSE Limit - 2
Update ==
  /\ capAt = "update"
  /\ IF Last < 0 THEN Violate(TRUE) /\ capAt' = "done" /\ UNCHANGED failures
     ELSE /\ capAt' = "delete"
          /\ \/ Answered /\ Violate(defect = "update_takes_slot" /\ Room = 0)
             \/ Fails /\ Violate(TRUE)
  /\ UNCHANGED <<strategy, defect, scope, racers>>

Delete ==
  /\ capAt = "delete"
  /\ \/ /\ Answered /\ capAt' = "count_deleted" /\ UNCHANGED capViolated
        /\ live' = live \ {Last} /\ dead' = dead \cup {Last}
        /\ counter' = IF strategy = "counter" /\ defect # "counts_deleted"
                      THEN counter - 1 ELSE counter
     \/ Fails /\ Violate(TRUE) /\ capAt' = "done" /\ UNCHANGED <<live, dead, counter>>
  /\ UNCHANGED <<strategy, defect, slotOf, racers>>

Replace ==
  /\ capAt = "replace" /\ capAt' = "count_replaced"
  /\ \/ Answered /\ Create(Limit + 1) /\ Violate(Room = 0)
     \/ Fails /\ Violate(TRUE) /\ UNCHANGED scope
  /\ UNCHANGED <<strategy, defect, racers>>

Race == \E r \in Racers : Begin(r) \/ Meet(r) \/ Commit(r) \/ CommitFails(r) \/ Retry(r)
CapNext == Count \/ Fill \/ Race \/ JudgeRace \/ Update \/ Delete \/ Replace

CapSpec == CapInit /\ [][CapNext]_capVars

Correct == strategy # "naive" /\ defect = "none"

(* Whatever order the two creates' statements take, none of the four          *)
(* strategies lets the scope hold more live rows than its limit, and the      *)
(* counter agrees with the rows whenever no create is between its statements. *)
CapHolds ==
  Correct => /\ Cardinality(live) <= Limit
             /\ strategy = "counter" /\ held = None => counter = Cardinality(live)

(* The harness reports no violation exactly for a correct adapter none of     *)
(* whose calls failed: it refuses the naive count and every defect, and a     *)
(* correct strategy never exhausts its serialization attempts.                *)
PassesExactlyTheCorrect ==
  capAt = "done" => (capViolated = {} <=> Correct /\ failures = 0)

-----------------------------------------------------------------------------
(* check_purge_horizon_conformance of baukit-test: five cases driven against  *)
(* a product that purges tombstones and keeps, per owner, the greatest        *)
(* revision it purged, below which a sync cursor has to start over. The       *)
(* product here has up to two faults, and its calls may fail.                 *)

CONSTANTS PurgeFaults, PurgePairedFaults,  \* faults, and those that also come in pairs
          PurgeMaxFailures,
          BatchTombstones, BatchLimit

VARIABLES purgeFaults, blocks,  \* the product's faults; whether a purge waits for open pulls
          purgeAt,              \* <<case, step>>
          rows,            \* live rows and tombstones
          revision,        \* revision counter of an owner
          horizon,         \* purge horizon of an owner, 0 for no row
          race,            \* stage of the open pull
          purgeViolated, purgeFailed \* cases with a violation; cases a failing call ended

purgeVars == <<purgeFaults, blocks, purgeAt, rows, revision, horizon, race, purgeViolated, purgeFailed>>

PurgeHas(f) == f \in purgeFaults
Biggest(S) == CHOOSE n \in S : \A x \in S : x <= n
Least(x, y) == IF x < y THEN x ELSE y
\* An owner is <<case, name>>; one nobody created yet reads as 0.
Get(f, o) == IF o \in DOMAIN f THEN f[o] ELSE 0
Put(f, o, n) == [x \in DOMAIN f \cup {o} |-> IF x = o THEN n ELSE f[x]]

(* The product.                                                               *)
Tombs(cutoff) ==
  {r \in rows : r.kind = "expired" \/ (r.kind = "recent" /\ (cutoff = "all" \/ PurgeHas("PurgesRecent")))}
\* One purge transaction that removes b: the horizons it leaves.
HorizonOf(o, b) ==
  LET purged == {r.rev : r \in {x \in b : x.o = o \/ PurgeHas("SharedHorizon")}}
      top == IF PurgeHas("HorizonIsTheCounter") THEN Get(revision, o) ELSE Biggest(purged)
  IN  IF purged = {} \/ PurgeHas("NoHorizon") THEN Get(horizon, o)
      ELSE IF top < Get(horizon, o) /\ ~PurgeHas("HorizonRegresses") THEN Get(horizon, o) ELSE top
RowsAfter(b) == IF PurgeHas("KeepsRows") THEN rows ELSE rows \ b
Purge(b) ==
  /\ rows' = RowsAfter(b)
  /\ horizon' = [o \in DOMAIN revision |-> HorizonOf(o, b)]
PurgeBatches(cutoff) ==
  LET due == Tombs(cutoff)
  IN  IF PurgeHas("UnboundedBatch") THEN {due}
      ELSE {b \in SUBSET due : Cardinality(b) = Least(Cardinality(due), BatchLimit)}
\* A pull answers with a page of revisions, or with the horizon to resync from.
Rejects(o, c) ==
  LET h == Get(horizon, o)
  IN  /\ h # 0 /\ ~PurgeHas("ServesBelow")
      /\ c < h \/ (c = h /\ PurgeHas("RejectsAtHorizon"))
      /\ c # 0 \/ PurgeHas("RejectsZero")
Page(o, c) == {r.rev : r \in {x \in rows : x.o = o /\ x.rev > c /\ ~(PurgeHas("OmitsTombstones") /\ x.kind # "live")}}
PageAnswer(revs) == [is |-> "page", revs |-> revs, h |-> 0]
ResyncAnswer(h) == [is |-> "resync", revs |-> {}, h |-> h]
Pull(o, c) ==
  IF Rejects(o, c) THEN ResyncAnswer(IF PurgeHas("ReportsTheCursor") THEN c ELSE Get(horizon, o))
  ELSE PageAnswer(Page(o, c))

(* The harness's cases. Revisions of a fresh owner are 1, 2, 3 and so on.     *)
PurgeI(call, o, n, want, has) == [call |-> call, o |-> o, n |-> n, want |-> want, has |-> has]
Write(o, kind) == PurgeI("write", o, 0, kind, {})
Drain(cutoff) == PurgeI("drain", "a", 0, cutoff, {})
HorizonIs(o, n) == PurgeI("horizon", o, n, "is", {})
Serves(o, c, has) == PurgeI("pull", o, c, "page", has)
Resyncs(o, c, h) == PurgeI("pull", o, c, "resync", {h})

Times(n, i) == [k \in 1..n |-> i]
Monotonic ==
  <<Drain("all"), Write("a", "live"), Write("a", "recent"), Write("a", "expired"),
    HorizonIs("a", 0), Drain("cutoff"), HorizonIs("a", 3), Write("a", "live"),
    Serves("a", 3, {4}), Serves("a", 4, {}), Resyncs("a", 2, 3),
    PurgeI("full", "a", 3, "page", {1, 4}), Drain("all"), HorizonIs("a", 3)>>
BoundedBatches ==
  <<Drain("all")>> \o Times(BatchTombstones, Write("a", "expired"))
  \o Times((BatchTombstones + BatchLimit - 1) \div BatchLimit, PurgeI("batch", "a", 0, "cutoff", {}))
  \o <<PurgeI("batch", "a", 0, "empty", {})>>
PurgeOwnerIsolation ==
  <<Drain("all"), Write("a", "live"), Write("a", "live"), Write("a", "live"), Write("a", "expired"),
    Write("b", "live"), Write("b", "expired"), Write("c", "live"), Write("c", "recent"),
    Drain("cutoff"), HorizonIs("a", 4), HorizonIs("b", 2), HorizonIs("c", 0),
    Serves("b", 2, {}), Serves("c", 1, {2})>>
RacingAnOpenPull ==
  <<Drain("all"), Write("a", "live"), Write("a", "expired"), Write("a", "expired"),
    PurgeI("race", "a", 1, "page", {2, 3}), Drain("cutoff"), HorizonIs("a", 3), Resyncs("a", 1, 0)>>
PurgeErasure ==
  <<Drain("all"), Write("a", "expired"), Write("a", "recent"), Write("b", "expired"),
    Drain("cutoff"), PurgeI("horizon", "a", 0, "some", {}), PurgeI("erase", "a", 0, "", {}),
    HorizonIs("a", 0), Drain("all"), HorizonIs("a", 0), HorizonIs("b", 1)>>
PurgeCases == [c \in 1..5 |->
  CASE c = 1 -> Monotonic
    [] c = 2 -> BoundedBatches
    [] c = 3 -> PurgeOwnerIsolation
    [] c = 4 -> RacingAnOpenPull
    [] c = 5 -> PurgeErasure]

PurgeDone == purgeAt[1] > 5
PurgeStep == PurgeCases[purgeAt[1]][purgeAt[2]]
PurgeOwner == <<purgeAt[1], PurgeStep.o>>

Closed == [stage |-> "closed", page |-> {}]
PurgeInit ==
  /\ purgeFaults \in {{}} \cup {{f} : f \in PurgeFaults} \cup {{f, g} : f, g \in PurgePairedFaults}
  /\ blocks \in BOOLEAN /\ ("ReadCommitted" \in purgeFaults => ~blocks)
  /\ purgeAt = <<1, 1>> /\ rows = {} /\ revision = <<>> /\ horizon = <<>>
  /\ race = Closed /\ purgeViolated = {} /\ purgeFailed = {}

PurgeNextCase == purgeAt' = <<purgeAt[1] + 1, 1>> /\ race' = Closed
PurgeNextStep == /\ purgeAt' = IF purgeAt[2] < Len(PurgeCases[purgeAt[1]]) THEN <<purgeAt[1], purgeAt[2] + 1>> ELSE <<purgeAt[1] + 1, 1>>
                 /\ race' = Closed
PurgeViolation(when) == purgeViolated' = IF when THEN purgeViolated \cup {purgeAt[1]} ELSE purgeViolated
PurgeEnd == purgeViolated' = purgeViolated \cup {purgeAt[1]} /\ PurgeNextCase   \* an Err ends the case
Runs(call) == ~PurgeDone /\ PurgeStep.call = call /\ UNCHANGED <<purgeFaults, blocks, purgeFailed>>
PurgeStored == UNCHANGED <<rows, revision, horizon>>

DoWrite ==
  /\ Runs("write")
  /\ LET n == Get(revision, PurgeOwner) + 1
     IN  /\ rows' = rows \cup {[o |-> PurgeOwner, rev |-> n, kind |-> PurgeStep.want]}
         /\ revision' = Put(revision, PurgeOwner, n)
  /\ PurgeNextStep /\ UNCHANGED <<horizon, purgeViolated>>
\* Batches until one removes nothing, at most MAX_DRAIN_BATCHES.
PurgeDoDrain ==
  /\ Runs("drain") /\ Purge(Tombs(PurgeStep.want)) /\ UNCHANGED revision
  /\ IF RowsAfter(Tombs(PurgeStep.want)) \cap Tombs(PurgeStep.want) # {} THEN PurgeEnd ELSE PurgeNextStep /\ UNCHANGED purgeViolated
\* A batch, and the horizon against the tombstones a full pull no longer returns.
DoBatch ==
  /\ Runs("batch") /\ UNCHANGED revision
  /\ \E b \in PurgeBatches("cutoff") :
       LET left == {r.rev : r \in {x \in rows : x.o = PurgeOwner}}
           kept == {r.rev : r \in {x \in RowsAfter(b) : x.o = PurgeOwner /\ ~PurgeHas("OmitsTombstones")}}
           gone == (1..BatchTombstones) \ kept
       IN  /\ Purge(b)
           /\ IF PurgeStep.want = "empty" THEN PurgeViolation(b # {}) /\ PurgeNextStep
              ELSE IF Cardinality(b) # Least(Cardinality(left), BatchLimit)
                      \/ (PurgeHas("RejectsZero") /\ HorizonOf(PurgeOwner, b) # 0 /\ ~PurgeHas("ServesBelow")) THEN PurgeEnd
              ELSE /\ PurgeViolation(HorizonOf(PurgeOwner, b) # (IF gone = {} THEN 0 ELSE Biggest(gone)))
                   /\ PurgeNextStep
DoHorizon ==
  /\ Runs("horizon") /\ PurgeStored
  /\ IF PurgeStep.want = "is" THEN PurgeViolation(Get(horizon, PurgeOwner) # PurgeStep.n) /\ PurgeNextStep
     ELSE IF Get(horizon, PurgeOwner) = 0 THEN PurgeEnd ELSE PurgeNextStep /\ UNCHANGED purgeViolated
DoPull ==
  /\ Runs("pull") /\ PurgeStored
  /\ LET answer == Pull(PurgeOwner, PurgeStep.n)
     IN  PurgeViolation(\/ answer.is # PurgeStep.want
                        \/ answer.is = "page" /\ ~(PurgeStep.has \subseteq answer.revs)
                        \/ answer.is = "resync" /\ PurgeStep.has # {0} /\ PurgeStep.has # {answer.h})
  /\ PurgeNextStep
\* The cursor zero: every live row, and not the purged tombstone.
DoFullPull ==
  /\ Runs("full") /\ PurgeStored
  /\ LET answer == Pull(PurgeOwner, 0)
     IN  PurgeViolation(answer.is = "resync" \/ PurgeStep.n \in answer.revs \/ ~(PurgeStep.has \subseteq answer.revs))
  /\ PurgeNextStep
PurgeDoErase ==
  /\ Runs("erase")
  /\ rows' = {r \in rows : \/ r.o # PurgeOwner /\ ~(PurgeHas("ErasesEveryone") /\ r.o[1] = purgeAt[1])
                           \/ r.o = PurgeOwner /\ PurgeHas("ErasureKeepsTombstones")}
  /\ horizon' = [o \in DOMAIN horizon |->
       IF (o = PurgeOwner /\ ~PurgeHas("ErasureKeepsHorizon")) \/ PurgeHas("ErasesEveryone") THEN 0 ELSE horizon[o]]
  /\ PurgeNextStep /\ UNCHANGED <<revision, purgeViolated>>

(* race_purge_against_pull: the pull checks its cursor and pauses; the purge   *)
(* gets PURGE_OVERLAP before the pull may go on, and longer if it blocks.      *)
Racing(stage) == Runs("race") /\ race.stage = stage /\ ~PurgeHas("Deadlocks")
RaceOpen ==
  /\ Racing("closed") /\ PurgeStored /\ UNCHANGED <<purgeAt, purgeViolated>>
  /\ race' = [stage |-> IF PurgeHas("NoPause") THEN "unpaused" ELSE IF blocks THEN "released" ELSE "paused",
              page |-> Page(PurgeOwner, PurgeStep.n)]
RacePurge ==
  /\ Racing("paused") /\ Purge(Tombs("cutoff")) /\ race' = [race EXCEPT !.stage = "released"]
  /\ UNCHANGED <<purgeAt, revision, purgeViolated>>
\* The rows come from the snapshot of the open pull, or from what is left; a
\* pull that checks the horizon again may also ask to resync.
Answers ==
  IF PurgeHas("ReadCommitted") THEN {PageAnswer(Page(PurgeOwner, PurgeStep.n))}
  ELSE {PageAnswer(race.page)} \cup (IF blocks THEN {} ELSE {ResyncAnswer(Get(horizon, PurgeOwner))})
RaceJudge ==
  /\ Racing("released") /\ UNCHANGED revision
  /\ \E answer \in Answers :
       PurgeViolation(IF answer.is = "resync" THEN answer.h <= PurgeStep.n ELSE ~(PurgeStep.has \subseteq answer.revs))
  /\ IF blocks THEN Purge(Tombs("cutoff")) ELSE UNCHANGED <<rows, horizon>>
  /\ PurgeNextStep
\* The pull that never paused is an Err, whatever both calls returned.
RaceUnpaused ==
  /\ Racing("unpaused") /\ Purge(Tombs("cutoff")) /\ UNCHANGED revision /\ PurgeEnd
RaceDeadline == Runs("race") /\ PurgeHas("Deadlocks") /\ PurgeStored /\ PurgeEnd

PurgeFailCall ==
  /\ ~PurgeDone /\ Cardinality(purgeFailed) < PurgeMaxFailures
  /\ purgeFailed' = purgeFailed \cup {purgeAt[1]} /\ PurgeEnd
  /\ UNCHANGED <<purgeFaults, blocks>> /\ PurgeStored

Acts == DoWrite \/ PurgeDoDrain \/ DoBatch \/ DoHorizon \/ DoPull \/ DoFullPull \/ PurgeDoErase
        \/ RaceOpen \/ RacePurge \/ RaceJudge \/ RaceUnpaused \/ RaceDeadline
PurgeNext == Acts \/ PurgeFailCall
PurgeSpec == PurgeInit /\ [][PurgeNext]_purgeVars

(* A product without a fault passes every case no failing call ended, whether *)
(* its purge waits for open pulls or they read from a snapshot.               *)
PurgeCorrectPasses == purgeFaults = {} => purgeViolated = purgeFailed

(* No fault and no pair of faults passes all five cases.                      *)
PurgeFaultyFails == PurgeDone /\ purgeFaults # {} => purgeViolated # {}

-----------------------------------------------------------------------------
(* check_replay_safe_mutation_conformance of baukit-test: eleven cases driven *)
(* against a product's adapter, here one that has any of the faults the cases *)
(* are there for, and whose calls may fail.                                   *)

CONSTANTS ReplayFaults,          \* what an adapter may get wrong, by name
          ReplayPairedFaults,    \* the faults that also come in pairs
          ReplayMaxFailures,     \* bound: adapter calls that fail
          CleanupRecords, CleanupLimit

VARIABLES replayFaults,     \* the adapter's faults
          replayAt,         \* <<case, step>>
          records,    \* stored replay records
          effects,    \* committed effects, by owner
          serial,     \* the last effect's identity, the content of its snapshot
          saved,      \* the harness's snapshot of each owner of the case
          replayViolated,   \* cases with a violation
          replayFailed      \* cases an adapter failure ended (history)

replayVars == <<replayFaults, replayAt, records, effects, serial, saved, replayViolated, replayFailed>>

ReplayHas(f) == f \in replayFaults

(* The adapter. An owner is <<case, name>>; a key is new in each case.        *)
Meaning(body) ==
  CASE ReplayHas("RawFingerprint") -> body
    [] body \in {"input", "equivalent"} -> "input"
    [] OTHER -> body
Matches(r, o, op, k) ==
  /\ r.o = o \/ ReplayHas("OwnerUnscoped")
  /\ r.op = op \/ ReplayHas("OperationUnscoped")
  /\ r.k = k
  /\ ~r.expired \/ ReplayHas("IgnoresExpiry")
ReplayStored(o, op, k) == {r \in records : Matches(r, o, op, k)}

\* One keyed request: what it returns, and whether it applies its effect.
Execute(o, op, k, body) ==
  LET found == ReplayStored(o, op, k)
      r == CHOOSE x \in found : TRUE
  IN  IF found = {} THEN [is |-> "applied", snap |-> serial + 1]
      ELSE IF r.fp # Meaning(body) /\ ~ReplayHas("IgnoresFingerprint")
      THEN [is |-> "conflict", snap |-> 0]
      ELSE [is |-> "replayed", snap |-> IF ReplayHas("RebuildsSnapshot") THEN serial + 1 ELSE r.snap]
Record(o, op, k, body, snap) ==
  IF ReplayHas("NoRecord") THEN {}
  ELSE {[o |-> o, op |-> op, k |-> k, fp |-> Meaning(body), snap |-> snap, expired |-> FALSE]}
EffectsOf(o) == IF o \in DOMAIN effects THEN effects[o] ELSE 0
Plus(o, n) == [x \in DOMAIN effects \cup {o} |-> EffectsOf(x) + (IF x = o THEN n ELSE 0)]
\* The expired row of the same scope is replaced.
Without(o, op, k) ==
  {r \in records : ~(r.o = o /\ r.op = op /\ r.k = k) \/ ReplayHas("KeepsExpiredRow")}
\* The stored state after a request that returned `out`.
After(out, o, op, k, body) ==
  IF out.is = "applied"
  THEN /\ records' = Without(o, op, k) \cup Record(o, op, k, body, out.snap)
       /\ effects' = Plus(o, 1) /\ serial' = serial + 1
  ELSE UNCHANGED <<records, effects, serial>>
Purgeable == {r \in records : r.expired \/ ReplayHas("PurgesLive")}
\* What one batch deletes and the number it reports.
ReplayBatches(limit) ==
  IF ReplayHas("UnboundedPurge") THEN {Purgeable}
  ELSE {b \in SUBSET Purgeable :
          Cardinality(b) = IF Cardinality(Purgeable) < limit THEN Cardinality(Purgeable) ELSE limit}
Reported(b, limit) == IF ReplayHas("ReportsTheLimit") THEN limit ELSE Cardinality(b)

(* The harness's cases, as the calls they make and what they expect.          *)
ReplayI(call, owner, body, n, m) == [call |-> call, owner |-> owner, body |-> body, n |-> n, m |-> m]
Apply(owner, n) == ReplayI("apply", owner, "input", n, 0)
Replay(owner, body, n) == ReplayI("replay", owner, body, n, 0)
Counts(owner, e, r) == ReplayI("counts", owner, None, e, r)
RecordsAre(owner, n) == ReplayI("records", owner, None, n, 0)
Does(call, owner) == ReplayI(call, owner, None, 0, 0)

LostResponse == <<Apply("a", 0), Replay("a", "input", 0), Counts("a", 1, 1)>>
EquivalentInput == <<Apply("a", 0), Replay("a", "equivalent", 0), Counts("a", 1, 1)>>
ChangedInput ==
  <<Apply("a", 0), ReplayI("conflict", "a", "changed", 0, 0), Replay("a", "input", 0), Counts("a", 1, 1)>>
SimultaneousRequests ==
  <<ReplayI("race", "a", "input", 0, 0), Replay("a", "input", 0), Counts("a", 1, 1)>>
ReplayOwnerIsolation ==
  <<Apply("a", 0), ReplayI("fresh", "b", "changed", 0, 0), Counts("b", 1, 1),
    Replay("a", "input", 0), Counts("a", 1, 1)>>
OperationIsolation ==
  <<Apply("a", 0), ReplayI("secondary", "a", "secondary", 0, 0), Replay("a", "input", 0), Counts("a", 2, 2)>>
RollbackBeforeCommit ==
  <<ReplayI("rollback", "a", "input", 0, 0), Apply("a", 0), Counts("a", 1, 1)>>
CrashAfterCommit ==
  <<Apply("a", 0), Does("discard", "a"), Replay("a", "input", 0), Counts("a", 1, 1)>>
Expiry ==
  <<Apply("a", 0), Does("expire", "a"), ReplayI("renew", "a", "changed", 0, 0),
    Counts("a", 2, 1), Replay("a", "changed", 0)>>
BoundedCleanup ==
  <<Does("drain", "a")>> \o [n \in 1..CleanupRecords |-> Apply("a", n)]
  \o <<Apply("b", 0), Does("expire", "a")>>
  \o [n \in 1..(CleanupRecords + CleanupLimit - 1) \div CleanupLimit |->
        ReplayI("purge", "a", None, CleanupRecords - (n - 1) * CleanupLimit, 0)]
  \o <<RecordsAre("a", 0), RecordsAre("b", 1), Replay("b", "input", 0)>>
ReplayErasure ==
  <<Apply("a", 0), Apply("b", 0), Does("erase", "a"), RecordsAre("a", 0),
    Counts("b", 1, 1), Replay("b", "input", 0)>>

ReplayCases == [c \in 1..11 |->
  CASE c = 1 -> LostResponse
    [] c = 2 -> EquivalentInput
    [] c = 3 -> ChangedInput
    [] c = 4 -> SimultaneousRequests
    [] c = 5 -> ReplayOwnerIsolation
    [] c = 6 -> OperationIsolation
    [] c = 7 -> RollbackBeforeCommit
    [] c = 8 -> CrashAfterCommit
    [] c = 9 -> Expiry
    [] c = 10 -> BoundedCleanup
    [] c = 11 -> ReplayErasure]

ReplayDone == replayAt[1] > 11
ReplayStep == ReplayCases[replayAt[1]][replayAt[2]]
ReplayOwner == <<replayAt[1], ReplayStep.owner>>
Key == 10 * replayAt[1] + ReplayStep.n

ReplayInit ==
  /\ replayFaults \in {{}} \cup {{f} : f \in ReplayFaults} \cup {{f, g} : f, g \in ReplayPairedFaults}
  /\ replayAt = <<1, 1>>
  /\ records = {} /\ effects = <<>> /\ serial = 0
  /\ saved = <<>> /\ replayViolated = {} /\ replayFailed = {}

ReplayNextCase == replayAt' = <<replayAt[1] + 1, 1>> /\ saved' = <<>>
ReplayNextStep == IF replayAt[2] < Len(ReplayCases[replayAt[1]]) THEN replayAt' = <<replayAt[1], replayAt[2] + 1>> /\ UNCHANGED saved
                                                                 ELSE ReplayNextCase
Save(snap) ==
  /\ replayAt' = <<replayAt[1], replayAt[2] + 1>>
  /\ saved' = [o \in DOMAIN saved \cup {ReplayOwner} |-> IF o = ReplayOwner THEN snap ELSE saved[o]]
ReplayViolation(when) == replayViolated' = IF when THEN replayViolated \cup {replayAt[1]} ELSE replayViolated
\* An Err ends the case.
ReplayEnd == replayViolated' = replayViolated \cup {replayAt[1]} /\ ReplayNextCase

\* A keyed request of the primary operation and the outcome the case wants.
Primary(calls) == ~ReplayDone /\ ReplayStep.call \in calls /\ UNCHANGED <<replayFaults, replayFailed>>
DoApply ==
  /\ Primary({"apply"})
  /\ LET out == Execute(ReplayOwner, "primary", Key, ReplayStep.body)
     IN  /\ After(out, ReplayOwner, "primary", Key, ReplayStep.body)
         /\ IF out.is = "applied" THEN Save(out.snap) /\ UNCHANGED replayViolated ELSE ReplayEnd
DoReplay ==
  /\ Primary({"replay"})
  /\ LET out == Execute(ReplayOwner, "primary", Key, ReplayStep.body)
     IN  /\ After(out, ReplayOwner, "primary", Key, ReplayStep.body)
         /\ ReplayViolation(~(out.is = "replayed" /\ out.snap = saved[ReplayOwner]))
         /\ ReplayNextStep
\* changed_input's and owner_isolation's second request.
DoExpect ==
  /\ Primary({"conflict", "fresh"})
  /\ LET out == Execute(ReplayOwner, "primary", Key, ReplayStep.body)
     IN  /\ After(out, ReplayOwner, "primary", Key, ReplayStep.body)
         /\ ReplayViolation(out.is # (IF ReplayStep.call = "conflict" THEN "conflict" ELSE "applied"))
         /\ ReplayNextStep
DoSecondary ==
  /\ Primary({"secondary"})
  /\ LET out == Execute(ReplayOwner, "secondary", Key, ReplayStep.body)
     IN  /\ After(out, ReplayOwner, "secondary", Key, ReplayStep.body)
         /\ ReplayViolation(out.is # "applied")
         /\ ReplayNextStep
\* After expiry the key is new; any other outcome returns from the case.
DoRenew ==
  /\ Primary({"renew"})
  /\ LET out == Execute(ReplayOwner, "primary", Key, ReplayStep.body)
     IN  /\ After(out, ReplayOwner, "primary", Key, ReplayStep.body)
         /\ IF out.is = "applied" THEN Save(out.snap) /\ UNCHANGED replayViolated ELSE ReplayEnd

\* race_same_key: the second request starts while the first waits at its
\* checkpoint; it blocks and replays, or reports that the first is running.
DoRace ==
  /\ Primary({"race"})
  /\ IF ReplayHas("NoCheckpoint") \/ ReplayHas("BlocksForever")
     THEN /\ records' = records \cup Record(ReplayOwner, "primary", Key, ReplayStep.body, serial + 1)
          /\ effects' = Plus(ReplayOwner, 1) /\ serial' = serial + 1
          /\ ReplayEnd
     ELSE \E second \in {"replayed", "in progress"} :
       LET both == ReplayHas("NoUniqueKey") \/ ReplayHas("NoRecord")
           snap == IF ReplayHas("RebuildsSnapshot") THEN serial + 2 ELSE serial + 1
       IN  /\ records' = records \cup Record(ReplayOwner, "primary", Key, ReplayStep.body, serial + 1)
           /\ effects' = Plus(ReplayOwner, IF both THEN 2 ELSE 1)
           /\ serial' = serial + 1
           /\ ReplayViolation(both \/ (second = "replayed" /\ snap # serial + 1))
           /\ Save(serial + 1)

\* The checkpoint fails: the transaction must roll back and return an error.
DoRollback ==
  /\ Primary({"rollback"})
  /\ IF ReplayHas("SwallowsRollback")
     THEN After([is |-> "applied", snap |-> serial + 1], ReplayOwner, "primary", Key, ReplayStep.body) /\ ReplayEnd
     ELSE /\ effects' = Plus(ReplayOwner, IF ReplayHas("EffectOutsideTransaction") THEN 1 ELSE 0)
          /\ records' = records \cup
               (IF ReplayHas("RecordOutsideTransaction")
                THEN Record(ReplayOwner, "primary", Key, ReplayStep.body, serial + 1) ELSE {})
          /\ UNCHANGED serial
          /\ IF effects'[ReplayOwner] # 0 \/ records' # records THEN ReplayEnd
             ELSE ReplayNextStep /\ UNCHANGED replayViolated

RecordsOf(o) == Cardinality({r \in records : r.o = o})
DoCounts ==
  /\ Primary({"counts", "records"})
  /\ ReplayViolation(\/ ReplayStep.call = "counts" /\ (EffectsOf(ReplayOwner) # ReplayStep.n \/ RecordsOf(ReplayOwner) # ReplayStep.m)
                     \/ ReplayStep.call = "records" /\ RecordsOf(ReplayOwner) # ReplayStep.n)
  /\ ReplayNextStep /\ UNCHANGED <<records, effects, serial>>
DoDiscard ==
  /\ Primary({"discard"})
  /\ records' = IF ReplayHas("TransientRecords") THEN {} ELSE records
  /\ ReplayNextStep /\ UNCHANGED <<effects, serial, replayViolated>>
DoExpire ==
  /\ Primary({"expire"})
  /\ records' = {[r EXCEPT !.expired = @ \/ r.o = ReplayOwner] : r \in records}
  /\ ReplayNextStep /\ UNCHANGED <<effects, serial, replayViolated>>
\* drain: batches until one deletes nothing, at most MAX_DRAIN_BATCHES.
ReplayDoDrain ==
  /\ Primary({"drain"})
  /\ records' = records \ Purgeable
  /\ IF ReplayHas("ReportsTheLimit") THEN ReplayEnd ELSE ReplayNextStep /\ UNCHANGED replayViolated
  /\ UNCHANGED <<effects, serial>>
\* One batch; a wrong count leaves the loop for the checks behind it.
DoPurge ==
  /\ Primary({"purge"})
  /\ \E b \in ReplayBatches(CleanupLimit) :
       LET due == IF ReplayStep.n < CleanupLimit THEN ReplayStep.n ELSE CleanupLimit
           wrong == \/ Reported(b, CleanupLimit) # due
                    \/ Cardinality({r \in records \ b : r.o = ReplayOwner}) # ReplayStep.n - due
       IN  /\ records' = records \ b
           /\ ReplayViolation(wrong)
           /\ IF wrong
              THEN replayAt' = <<replayAt[1], CHOOSE s \in 1..Len(BoundedCleanup) :
                                                 BoundedCleanup[s] = RecordsAre("a", 0)>> /\ UNCHANGED saved
              ELSE ReplayNextStep
  /\ UNCHANGED <<effects, serial>>
ReplayDoErase ==
  /\ Primary({"erase"})
  /\ records' = {r \in records : \/ ReplayHas("ErasureKeepsRecords")
                                 \/ r.o # ReplayOwner /\ ~ReplayHas("ErasureTakesAll")}
  /\ effects' = [effects EXCEPT ![ReplayOwner] = 0]
  /\ ReplayNextStep /\ UNCHANGED <<serial, replayViolated>>

\* step(): any adapter call may fail, which ends its case.
ReplayFailCall ==
  /\ ~ReplayDone /\ Cardinality(replayFailed) < ReplayMaxFailures
  /\ replayFailed' = replayFailed \cup {replayAt[1]}
  /\ ReplayEnd
  /\ UNCHANGED <<replayFaults, records, effects, serial>>

ReplayNext == \/ DoApply \/ DoReplay \/ DoExpect \/ DoSecondary \/ DoRenew \/ DoRace \/ DoRollback
              \/ DoCounts \/ DoDiscard \/ DoExpire \/ ReplayDoDrain \/ DoPurge \/ ReplayDoErase \/ ReplayFailCall
ReplaySpec == ReplayInit /\ [][ReplayNext]_replayVars

\* A correct adapter passes, and of an adapter whose calls fail exactly the
\* cases with a failing call are reported: a failure never spoils another case.
ReplayCorrectPasses == replayFaults = {} => replayViolated = replayFailed

\* An adapter with faults does not pass, whichever they are and however its
\* second request answers: two faults never hide each other.
ReplayFaultyFails == ReplayDone /\ replayFaults # {} => replayViolated # {}

==============================================================================
