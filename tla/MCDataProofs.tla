---------------------------- MODULE MCDataProofs -----------------------------
(***************************************************************************)
(* The machines of MCData that replicate: a client that pulls (Sync), for  *)
(* any rows, writers and page size, the hybrid logical clocks (Sync), for  *)
(* any devices and any range of timestamps, and the client's scheduler     *)
(* (ClientSync), for any retry budget.  And those that erase: the fence    *)
(* and the taking over of leases (Erasure), and the operations on a        *)
(* product's subjects (DataSubject).  What is proved of them as parts of   *)
(* MCData holds whatever the other machines of that module do.             *)
(***************************************************************************)
EXTENDS MCData, FiniteSetTheorems, TLAPS

-----------------------------------------------------------------------------
(* A finite set of numbers has a greatest element, and Max is it. *)

LEMMA Greatest ==
  ASSUME NEW S \in SUBSET Int, IsFiniteSet(S), S # {}
  PROVE  Repl!Max(S) \in S /\ \A y \in S : y <= Repl!Max(S)
<1> DEFINE above(x) == {y \in S : y > x}
           sets == {above(x) : x \in S}
<1>1. sets \subseteq FiniteSubsetsOf(S) /\ sets # {}
  <2>1. \A x \in S : above(x) \in SUBSET S
    OBVIOUS
  <2>2. \A x \in S : IsFiniteSet(above(x))
    BY <2>1, FS_Subset
  <2> QED
    BY <2>1, <2>2 DEF FiniteSubsetsOf
<1>2. PICK b \in sets : \A y \in sets : ~ (<<y, b>> \in StrictSubsetOrdering(S))
  <2> HIDE DEF sets
  <2> QED
    BY <1>1, FS_StrictSubsetOrderingWellFounded, WFMin
<1>3. PICK x \in S : b = above(x)
  BY <1>2
<1>4. \A y \in S : x >= y
  <2> SUFFICES ASSUME NEW y \in S, y > x PROVE FALSE
    OBVIOUS
  <2>1. above(y) \subseteq above(x)
    <3> SUFFICES ASSUME NEW z \in S, z > y PROVE z > x
      OBVIOUS
    <3>1. x \in Int /\ y \in Int /\ z \in Int
      OBVIOUS
    <3> QED
      BY <3>1
  <2>2. y \in above(x) /\ y \notin above(y)
    OBVIOUS
  <2>3. <<above(y), above(x)>> \in StrictSubsetOrdering(S)
    BY <2>1, <2>2 DEF StrictSubsetOrdering
  <2> QED
    BY <1>2, <1>3, <2>3
<1> QED
  BY <1>4 DEF Repl!Max

LEMMA GreatestOfPair ==
  ASSUME NEW a \in Int, NEW b \in Int
  PROVE  Repl!Max({a, b}) = IF a >= b THEN a ELSE b
BY DEF Repl!Max

LEMMA GreatestUpTo ==
  ASSUME NEW n \in Nat, NEW S \in SUBSET (0..n), S # {}
  PROVE  Repl!Max(S) \in S /\ \A y \in S : y <= Repl!Max(S)
<1>1. IsFiniteSet(S)
  <2>1. IsFiniteSet(0..n)
    BY FS_Interval
  <2> QED
    BY <2>1, FS_Subset
<1>2. S \in SUBSET Int
  OBVIOUS
<1> QED
  BY <1>1, <1>2, Greatest

-----------------------------------------------------------------------------
(* Pulls. What a row looks like to a client, and a set of rows held at a    *)
(* cursor that reflects the server: the cursor will be refused, or each row *)
(* either is still to come or is held as it is. A client at cursor 0 is     *)
(* never refused, so it must hold nothing that could have been purged, but  *)
(* for loose rows: those of a first page that it wrote without its cursor.  *)
Shown(i) == Repl!Visible(row[i])

Purged(i, loose) == i \in loose /\ row[i].rev = 0

Reflects(held, c, loose) ==
  /\ held \in [Ids -> 0..PullMaxRevision] /\ c \in 0..last /\ loose \subseteq Ids
  /\ c = 0 => \A i \in Ids \ loose : held[i] = 0
  /\ \/ Repl!Stale(c)
     \/ \A i \in Ids : row[i].rev > c \/ held[i] = Shown(i) \/ Purged(i, loose)

ServerInv ==
  /\ row \in [Ids -> [rev : 0..PullMaxRevision, dead : BOOLEAN]]
  /\ last \in 0..PullMaxRevision /\ horizon \in 0..last
  /\ \A i \in Ids : row[i].rev <= last
  /\ \A i, j \in Ids : row[i].rev = row[j].rev /\ row[i].rev > 0 => i = j

(* At most one writer holds a revision, and it is the next one. *)
WriterSound(w) ==
  writer[w] # None =>
    /\ writer[w].id \in Ids /\ writer[w].dead \in BOOLEAN
    /\ writer[w].rev = last + 1 /\ writer[w].rev <= PullMaxRevision

WritersInv ==
  /\ writer = [w \in Writers |-> writer[w]]
  /\ \A w \in Writers : WriterSound(w)
  /\ \A v, w \in Writers : writer[v] # None /\ writer[w] # None => v = w

PurgeInv ==
  pullPurge # None =>
    /\ pullPurge = [ids |-> pullPurge.ids, locked |-> pullPurge.locked]
    /\ pullPurge.ids \subseteq Repl!Tombstones

(* While the pull holds its lock nothing is purged. A page that is on its   *)
(* way reflects the server at the old cursor once applied, and at its own   *)
(* once that is committed.                                                  *)
Loosened == IF cursor = 0 THEN torn \cup DOMAIN pull.rows ELSE torn
Settled == torn \ DOMAIN pull.rows

AnswerInv ==
  /\ pull.at \in {"none", "guarded", "bounded", "page", "applied", "resync"}
  /\ Repl!Guarded => ~Repl!Purging /\ ~Repl!Stale(cursor)
  /\ pull.at = "bounded" => pull.boundary \in 0..last
  /\ pull.at = "page" => Reflects(Repl!Applied, cursor, Loosened)
  /\ pull.at \in {"page", "applied"} => Reflects(Repl!Applied, pull.next, Settled)
  /\ pull.at = "applied" => local = Repl!Applied
  /\ pull.at = "page" => pull = [at |-> "page", rows |-> pull.rows, next |-> pull.next]

PullInv ==
  ServerInv /\ WritersInv /\ PurgeInv /\ Reflects(local, cursor, torn) /\ AnswerInv

LEMMA PullBounds ==
  /\ PullMaxRevision \in Nat /\ PullMaxFailures \in Nat /\ PageSize \in Nat \ {0}
BY DataAssumption DEF Repl!SyncPullAssumption

(* A step of the server leaves the client and the answer sound, if what     *)
(* reflected it before reflects it afterwards.                              *)
LEMMA ClientKept ==
  ASSUME PullInv, UNCHANGED <<pull, local, cursor, torn>>,
         \A held, c, loose : Reflects(held, c, loose) => Reflects(held, c, loose)',
         last' \in Nat, last <= last',
         Repl!Guarded => ~Repl!Purging' /\ horizon' = horizon
  PROVE  Reflects(local, cursor, torn)' /\ AnswerInv'
<1>1. Reflects(local, cursor, torn)'
  <2>1. PICK held, c, loose : held = local /\ c = cursor /\ loose = torn
    OBVIOUS
  <2>2. Reflects(held, c, loose)'
    BY <2>1 DEF PullInv
  <2>3. local' = held /\ cursor' = c /\ torn' = loose
    BY <2>1
  <2> QED
    BY <2>2, <2>3 DEF Reflects, Repl!Stale, Purged
<1>2. (pull.at = "page" => Reflects(Repl!Applied, cursor, Loosened))'
  <2> SUFFICES ASSUME pull.at = "page" PROVE Reflects(Repl!Applied, cursor, Loosened)'
    OBVIOUS
  <2>1. PICK h, n, loose : h = Repl!Applied /\ n = cursor /\ loose = Loosened
    OBVIOUS
  <2>2. Reflects(h, n, loose)'
    BY <2>1 DEF PullInv, AnswerInv
  <2>3. Repl!Applied' = h /\ cursor' = n /\ Loosened' = loose
    BY <2>1 DEF Repl!Applied, Loosened
  <2> QED
    BY <2>2, <2>3 DEF Reflects, Repl!Stale, Purged
<1>3. (pull.at \in {"page", "applied"} => Reflects(Repl!Applied, pull.next, Settled))'
  <2> SUFFICES ASSUME pull.at \in {"page", "applied"}
               PROVE  Reflects(Repl!Applied, pull.next, Settled)'
    OBVIOUS
  <2>1. PICK h, n, loose : h = Repl!Applied /\ n = pull.next /\ loose = Settled
    OBVIOUS
  <2>2. Reflects(h, n, loose)'
    BY <2>1 DEF PullInv, AnswerInv
  <2>3. Repl!Applied' = h /\ pull'.next = n /\ Settled' = loose
    BY <2>1 DEF Repl!Applied, Settled
  <2> QED
    BY <2>2, <2>3 DEF Reflects, Repl!Stale, Purged
<1>4. last \in Nat
  BY PullBounds DEF PullInv, ServerInv
<1>5. (pull.at = "bounded" => pull.boundary \in 0..last)'
  BY <1>4 DEF PullInv, AnswerInv
<1>6. (Repl!Guarded => ~Repl!Purging /\ ~Repl!Stale(cursor))'
  BY DEF PullInv, AnswerInv, Repl!Guarded, Repl!Stale
<1>7. (pull.at = "applied" => local = Repl!Applied)'
  BY DEF PullInv, AnswerInv, Repl!Applied
<1> QED
  BY <1>1, <1>2, <1>3, <1>5, <1>6, <1>7 DEF PullInv, AnswerInv

LEMMA AllocatePull ==
  ASSUME PullInv, NEW w \in Writers, Repl!Allocate(w) PROVE PullInv'
<1>1. /\ UNCHANGED <<row, last, horizon, pullPurge, pull, local, cursor, torn>>
      /\ writer[w] = None /\ last < PullMaxRevision
      /\ \A v \in Writers : writer[v] = None
  BY DEF Repl!Allocate, Repl!CounterFree, Repl!Writing
<1>2. PICK i \in Ids, dead \in BOOLEAN :
        writer' = [writer EXCEPT ![w] = [id |-> i, dead |-> dead, rev |-> last + 1]]
  BY DEF Repl!Allocate
<1>3. ServerInv' /\ PurgeInv'
  BY <1>1 DEF PullInv, ServerInv, PurgeInv, Repl!Tombstones
<1>4. WritersInv'
  <2>1. last \in Nat /\ PullMaxRevision \in Nat
    BY PullBounds DEF PullInv, ServerInv
  <2>2. \A v \in Writers :
          writer'[v] = IF v = w THEN [id |-> i, dead |-> dead, rev |-> last + 1] ELSE None
    BY <1>1, <1>2 DEF PullInv, WritersInv
  <2>3. \A v \in Writers : WriterSound(v)'
    BY <1>1, <2>1, <2>2 DEF WriterSound
  <2>4. \A u, v \in Writers : writer'[u] # None /\ writer'[v] # None => u = v
    BY <2>2
  <2>5. writer' = [v \in Writers |-> writer'[v]]
    BY <1>2 DEF PullInv, WritersInv
  <2> QED
    BY <2>3, <2>4, <2>5 DEF WritersInv
<1>5. Reflects(local, cursor, torn)' /\ AnswerInv'
  BY <1>1 DEF PullInv, AnswerInv, Reflects, Shown, Repl!Visible, Repl!Stale,
    Repl!Guarded, Repl!Purging,
    Repl!Applied, Purged, Loosened, Settled
<1> QED
  BY <1>3, <1>4, <1>5 DEF PullInv

(* The new revision is above every cursor a client may hold. *)
LEMMA CommitPull ==
  ASSUME PullInv, NEW w \in Writers, Repl!Commit(w) PROVE PullInv'
<1>1. /\ UNCHANGED <<horizon, pullPurge, pull, local, cursor, torn>>
      /\ writer[w] # None /\ writer[w].id \notin Repl!CandidateIds
      /\ row' = [row EXCEPT ![writer[w].id] = [rev |-> writer[w].rev, dead |-> writer[w].dead]]
      /\ last' = writer[w].rev
      /\ writer' = [writer EXCEPT ![w] = None]
  BY DEF Repl!Commit
<1>2. /\ writer[w].id \in Ids /\ writer[w].dead \in BOOLEAN
      /\ writer[w].rev = last + 1 /\ writer[w].rev <= PullMaxRevision
  BY <1>1 DEF PullInv, WritersInv, WriterSound
<1>3. last \in Nat /\ PullMaxRevision \in Nat /\ last' \in 0..PullMaxRevision
      /\ last' = last + 1 /\ horizon \in 0..last'
  BY <1>1, <1>2, PullBounds DEF PullInv, ServerInv
<1>4. \A i \in Ids :
        row'[i] = IF i = writer[w].id THEN [rev |-> last + 1, dead |-> writer[w].dead]
                                      ELSE row[i]
  BY <1>1, <1>2 DEF PullInv, ServerInv
<1>5. row' \in [Ids -> [rev : 0..PullMaxRevision, dead : BOOLEAN]]
  BY <1>1, <1>2, <1>3 DEF PullInv, ServerInv
<1>6. ServerInv'
  <2>1. \A i \in Ids : row[i].rev \in Nat /\ row[i].rev <= last
    BY PullBounds DEF PullInv, ServerInv
  <2>2. \A i \in Ids : row'[i].rev <= last'
    BY <1>3, <1>4, <2>1
  <2>3. \A i, j \in Ids : row'[i].rev = row'[j].rev /\ row'[i].rev > 0 => i = j
    BY <1>3, <1>4, <2>1 DEF PullInv, ServerInv
  <2> QED
    BY <1>1, <1>3, <1>5, <2>2, <2>3 DEF ServerInv
<1>7. WritersInv'
  <2>1. \A v \in Writers : writer'[v] = None
    BY <1>1 DEF PullInv, WritersInv
  <2>2. writer' = [v \in Writers |-> writer'[v]]
    BY <1>1 DEF PullInv, WritersInv
  <2> QED
    BY <2>1, <2>2 DEF WritersInv, WriterSound
<1>8. PurgeInv'
  BY <1>1, <1>4 DEF PullInv, PurgeInv, Repl!Tombstones, Repl!CandidateIds
<1>9. \A held, c, loose : Reflects(held, c, loose) => Reflects(held, c, loose)'
  <2> SUFFICES ASSUME NEW held, NEW c, NEW loose, Reflects(held, c, loose)
               PROVE  Reflects(held, c, loose)'
    OBVIOUS
  <2>1. c \in 0..last /\ c \in Nat
    BY <1>3 DEF Reflects
  <2>2. c \in 0..last' /\ last + 1 > c
    BY <1>3, <2>1
  <2>3. \A i \in Ids : row[i].rev > c \/ held[i] = Shown(i) \/ Purged(i, loose) =>
                         row'[i].rev > c \/ held[i] = Shown(i)' \/ Purged(i, loose)'
    BY <1>4, <2>2 DEF Shown, Repl!Visible, Purged
  <2> QED
    BY <1>1, <2>2, <2>3 DEF Reflects, Repl!Stale
<1>10. Reflects(local, cursor, torn)' /\ AnswerInv'
  <2>1. Repl!Guarded => ~Repl!Purging' /\ horizon' = horizon
    BY <1>1 DEF PullInv, AnswerInv, Repl!Purging
  <2> QED
    BY <1>1, <1>3, <1>9, <2>1, ClientKept
<1> QED
  BY <1>6, <1>7, <1>8, <1>10 DEF PullInv

LEMMA RollbackPull ==
  ASSUME PullInv, NEW w \in Writers, Repl!Rollback(w) PROVE PullInv'
<1>1. /\ UNCHANGED <<row, last, horizon, pullPurge, pull, local, cursor, torn>>
      /\ writer' = [writer EXCEPT ![w] = None]
  BY DEF Repl!Rollback
<1>2. ServerInv' /\ PurgeInv'
  BY <1>1 DEF PullInv, ServerInv, PurgeInv, Repl!Tombstones
<1>3. WritersInv'
  <2>1. \A v \in Writers : writer'[v] = IF v = w THEN None ELSE writer[v]
    BY <1>1 DEF PullInv, WritersInv
  <2>2. writer' = [v \in Writers |-> writer'[v]]
    BY <1>1 DEF PullInv, WritersInv
  <2> QED
    BY <1>1, <2>1, <2>2 DEF PullInv, WritersInv, WriterSound
<1>4. Reflects(local, cursor, torn)' /\ AnswerInv'
  BY <1>1 DEF PullInv, AnswerInv, Reflects, Shown, Repl!Visible, Repl!Stale,
    Repl!Guarded, Repl!Purging,
    Repl!Applied, Purged, Loosened, Settled
<1> QED
  BY <1>2, <1>3, <1>4 DEF PullInv

(* No writer and no open pull: nothing is deleted under a page being read. *)
LEMMA SelectPull ==
  ASSUME PullInv, Repl!SelectCandidates PROVE PullInv'
<1>1. /\ UNCHANGED <<row, last, horizon, writer, pull, local, cursor, torn>>
      /\ pullPurge = None
  BY DEF Repl!SelectCandidates
<1>2. PICK ids \in SUBSET Repl!Tombstones : pullPurge' = [ids |-> ids, locked |-> FALSE]
  BY DEF Repl!SelectCandidates
<1>3. ServerInv' /\ WritersInv'
  BY <1>1 DEF PullInv, ServerInv, WritersInv, WriterSound
<1>4. PurgeInv'
  BY <1>1, <1>2 DEF PurgeInv, Repl!Tombstones
<1>5. ~Repl!Purging'
  BY <1>2 DEF Repl!Purging
<1>6. Reflects(local, cursor, torn)' /\ AnswerInv'
  BY <1>1, <1>5 DEF PullInv, AnswerInv, Reflects, Shown, Repl!Visible, Repl!Stale,
    Repl!Guarded,
    Repl!Applied, Purged, Loosened, Settled
<1> QED
  BY <1>3, <1>4, <1>6 DEF PullInv

LEMMA LockPull ==
  ASSUME PullInv, Repl!LockOwnerCounters PROVE PullInv'
<1>1. /\ UNCHANGED <<row, last, horizon, writer, pull, local, cursor, torn>>
      /\ pullPurge # None
      /\ pullPurge' = IF Repl!Writing \/ Repl!Guarded THEN None
                      ELSE [pullPurge EXCEPT !.locked = TRUE]
  BY DEF Repl!LockOwnerCounters
<1>2. ServerInv' /\ WritersInv'
  BY <1>1 DEF PullInv, ServerInv, WritersInv, WriterSound
<1>3. pullPurge = [ids |-> pullPurge.ids, locked |-> pullPurge.locked]
  BY <1>1 DEF PullInv, PurgeInv
<1>4. pullPurge' = None \/ pullPurge' = [ids |-> pullPurge.ids, locked |-> TRUE]
  BY <1>1, <1>3
<1>5. PurgeInv'
  BY <1>1, <1>4 DEF PullInv, PurgeInv, Repl!Tombstones
<1>6. Repl!Guarded => ~Repl!Purging'
  BY <1>1 DEF Repl!Purging
<1>7. Reflects(local, cursor, torn)' /\ AnswerInv'
  BY <1>1, <1>6 DEF PullInv, AnswerInv, Reflects, Shown, Repl!Visible, Repl!Stale,
    Repl!Guarded,
    Repl!Applied, Purged, Loosened, Settled
<1> QED
  BY <1>2, <1>5, <1>7 DEF PullInv

(* The horizon a purge raises is a revision and covers what it deletes. *)
LEMMA RaisedCovers ==
  ASSUME PullInv, NEW ids \in SUBSET Repl!Tombstones
  PROVE  /\ Repl!Raised(ids) \in 0..last /\ horizon <= Repl!Raised(ids)
         /\ \A i \in ids : row[i].rev <= Repl!Raised(ids)
<1> DEFINE S == {horizon} \cup {row[i].rev : i \in ids}
<1>1. last \in Nat /\ horizon \in 0..last
  BY PullBounds DEF PullInv, ServerInv
<1>2. \A i \in ids : row[i].rev \in 0..last
  BY <1>1, PullBounds DEF PullInv, ServerInv, Repl!Tombstones
<1>3. S \in SUBSET (0..last) /\ S # {}
  BY <1>1, <1>2
<1>4. Repl!Max(S) \in S /\ \A y \in S : y <= Repl!Max(S)
  <2> HIDE DEF S
  <2> QED
    BY <1>1, <1>3, GreatestUpTo
<1>5. Repl!Raised(ids) = Repl!Max(S)
  BY DEF Repl!Raised
<1> QED
  BY <1>3, <1>4, <1>5

LEMMA DeletePull ==
  ASSUME PullInv, Repl!DeleteAndRaise PROVE PullInv'
<1>1. /\ UNCHANGED <<last, writer, pull, local, cursor, torn>>
      /\ Repl!Purging
      /\ row' = [i \in Ids |-> IF i \in pullPurge.ids THEN Repl!Absent ELSE row[i]]
      /\ horizon' = Repl!Raised(pullPurge.ids)
      /\ pullPurge' = None
  BY DEF Repl!DeleteAndRaise
<1>2. pullPurge.ids \subseteq Repl!Tombstones
  BY <1>1 DEF PullInv, PurgeInv, Repl!Purging
<1>3. /\ horizon' \in 0..last /\ horizon <= horizon'
      /\ \A i \in pullPurge.ids : row[i].rev <= horizon'
  BY <1>1, <1>2, RaisedCovers
<1>4. last \in Nat /\ horizon \in 0..last /\ PullMaxRevision \in Nat
      /\ \A i \in Ids : row[i].rev \in Nat
  BY PullBounds DEF PullInv, ServerInv
<1>5. \A i \in Ids : row'[i] = IF i \in pullPurge.ids THEN [rev |-> 0, dead |-> FALSE]
                                                       ELSE row[i]
  BY <1>1 DEF Repl!Absent
<1>6. row' \in [Ids -> [rev : 0..PullMaxRevision, dead : BOOLEAN]]
  BY <1>1, <1>4 DEF PullInv, ServerInv, Repl!Absent
<1>7. ServerInv'
  BY <1>1, <1>3, <1>4, <1>5, <1>6 DEF PullInv, ServerInv
<1>8. WritersInv' /\ PurgeInv'
  BY <1>1 DEF PullInv, WritersInv, WriterSound, PurgeInv
<1>9. \A held, c, loose : Reflects(held, c, loose) => Reflects(held, c, loose)'
  <2> SUFFICES ASSUME NEW held, NEW c, NEW loose, Reflects(held, c, loose)
               PROVE  Reflects(held, c, loose)'
    OBVIOUS
  <2>1. c \in 0..last /\ c \in Nat /\ held \in [Ids -> 0..PullMaxRevision]
        /\ (c = 0 => \A i \in Ids \ loose : held[i] = 0) /\ loose \subseteq Ids
    BY <1>4 DEF Reflects
  <2>2. CASE Repl!Stale(c)
    <3>1. c > 0 /\ c < horizon'
      BY <1>3, <1>4, <2>1, <2>2 DEF Repl!Stale
    <3> QED
      BY <1>1, <2>1, <3>1 DEF Reflects, Repl!Stale
  <2>3. CASE c > 0 /\ c < horizon'
    BY <1>1, <2>1, <2>3 DEF Reflects, Repl!Stale
  <2>4. CASE ~Repl!Stale(c) /\ ~(c > 0 /\ c < horizon')
    <3>1. \A i \in Ids : row[i].rev > c \/ held[i] = Shown(i) \/ Purged(i, loose)
      BY <2>4 DEF Reflects
    <3>2. ASSUME NEW i \in pullPurge.ids PROVE held[i] = 0 \/ i \in loose
      <4>1. i \in Ids /\ row[i].dead
        BY <1>2 DEF Repl!Tombstones
      <4>2. CASE c = 0
        BY <2>1, <4>1, <4>2
      <4>3. CASE c > 0
        <5>1. ~(row[i].rev > c)
          BY <1>3, <1>4, <2>1, <2>4, <4>1, <4>3
        <5> QED
          BY <3>1, <4>1, <5>1 DEF Shown, Repl!Visible, Purged
      <4> QED
        BY <2>1, <4>2, <4>3
    <3>3. \A i \in Ids : row'[i].rev > c \/ held[i] = Shown(i)' \/ Purged(i, loose)'
      BY <1>5, <3>1, <3>2 DEF Shown, Repl!Visible, Purged
    <3> QED
      BY <1>1, <2>1, <3>3 DEF Reflects
  <2> QED
    BY <2>2, <2>3, <2>4
<1>10. Reflects(local, cursor, torn)' /\ AnswerInv'
  <2>1. ~Repl!Guarded
    BY <1>1 DEF PullInv, AnswerInv
  <2> QED
    BY <1>1, <1>4, <1>9, <2>1, ClientKept
<1> QED
  BY <1>7, <1>8, <1>10 DEF PullInv

LEMMA GuardPull ==
  ASSUME PullInv, Repl!GuardPullCursor PROVE PullInv'
<1>1. /\ UNCHANGED <<row, last, horizon, writer, pullPurge, local, cursor, torn>>
      /\ ~Repl!Purging
      /\ pull' = IF Repl!Stale(cursor) THEN [at |-> "resync"] ELSE [at |-> "guarded"]
  BY DEF Repl!GuardPullCursor
<1>2. ServerInv' /\ WritersInv' /\ PurgeInv' /\ Reflects(local, cursor, torn)'
  BY <1>1 DEF PullInv, ServerInv, WritersInv, WriterSound, PurgeInv, Repl!Tombstones,
    Reflects, Shown, Repl!Visible, Repl!Stale, Purged
<1>3. AnswerInv'
  BY <1>1 DEF AnswerInv, Repl!Guarded, Repl!Purging, Repl!Stale
<1> QED
  BY <1>2, <1>3 DEF PullInv

LEMMA BoundPull ==
  ASSUME PullInv, Repl!CurrentRevision PROVE PullInv'
<1>1. /\ UNCHANGED <<row, last, horizon, writer, pullPurge, local, cursor, torn>>
      /\ pull.at = "guarded" /\ pull' = [at |-> "bounded", boundary |-> last]
  BY DEF Repl!CurrentRevision
<1>2. ServerInv' /\ WritersInv' /\ PurgeInv' /\ Reflects(local, cursor, torn)'
  BY <1>1 DEF PullInv, ServerInv, WritersInv, WriterSound, PurgeInv, Repl!Tombstones,
    Reflects, Shown, Repl!Visible, Repl!Stale, Purged
<1>3. last \in 0..last
  BY PullBounds DEF PullInv, ServerInv
<1>4. AnswerInv'
  BY <1>1, <1>3 DEF PullInv, AnswerInv, Repl!Guarded, Repl!Purging, Repl!Stale
<1> QED
  BY <1>2, <1>4 DEF PullInv

LEMMA SameCardinality == \A S : Repl!Cardinality(S) = Cardinality(S)
BY DEF Repl!Cardinality, Cardinality

(* A page is the beginning of what is newer: what it leaves out has larger  *)
(* revisions than what it holds.                                            *)
LEMMA PageIsFirst ==
  ASSUME PullInv, NEW i \in Repl!PageIds(PageSize),
         NEW j \in Repl!Newer \ Repl!PageIds(PageSize)
  PROVE  row[i].rev < row[j].rev
<1> DEFINE Below(k) == {m \in Repl!Newer : row[m].rev < row[k].rev}
<1>1. /\ i \in Ids /\ j \in Ids /\ i # j
      /\ \A m \in Ids : row[m].rev \in Nat /\ row[m].rev \in 0..PullMaxRevision
      /\ row[i].rev > cursor /\ cursor \in Nat
  <2>1. i \in Repl!Newer /\ j \in Repl!Newer /\ i # j
    BY DEF Repl!PageIds
  <2>2. \A m \in Repl!Newer : m \in Ids /\ row[m].rev > cursor
    BY DEF Repl!Newer
  <2>3. last \in Nat /\ PullMaxRevision \in Nat
    BY PullBounds DEF PullInv, ServerInv
  <2>4. cursor \in Nat
    BY <2>3 DEF PullInv, Reflects
  <2>5. \A m \in Ids : row[m].rev \in Nat /\ row[m].rev \in 0..PullMaxRevision
    BY <2>3 DEF PullInv, ServerInv
  <2> QED
    BY <2>1, <2>2, <2>4, <2>5
<1>2. row[i].rev # row[j].rev
  <2>1. row[i].rev > 0
    BY <1>1
  <2> QED
    BY <1>1, <2>1 DEF PullInv, ServerInv
<1>3. SUFFICES ASSUME row[j].rev < row[i].rev PROVE FALSE
  BY <1>1, <1>2
<1>4. IsFiniteSet(Repl!Newer)
  <2> DEFINE f == [m \in Repl!Newer |-> row[m].rev]
  <2>1. \A m \in Repl!Newer : m \in Ids /\ row[m].rev > 0
    BY <1>1 DEF Repl!Newer
  <2>2. f \in [Repl!Newer -> 0..PullMaxRevision]
    BY <1>1, <2>1
  <2>3. \A m, n \in Repl!Newer : f[m] = f[n] => m = n
    BY <2>1 DEF PullInv, ServerInv
  <2>4. f \in Injection(Repl!Newer, 0..PullMaxRevision)
    <3> HIDE DEF f
    <3>1. DOMAIN f = Repl!Newer
      BY <2>2
    <3> QED
      BY <2>2, <2>3, <3>1 DEF Injection, IsInjective
  <2>5. IsFiniteSet(0..PullMaxRevision)
    BY PullBounds, FS_Interval
  <2> QED
    BY <2>4, <2>5, FS_Injection
<1>5. Below(j) \in SUBSET Below(i) /\ Below(i) \in SUBSET Repl!Newer
  <2>1. \A m \in Repl!Newer : row[m].rev < row[j].rev => row[m].rev < row[i].rev
    BY <1>1, <1>3 DEF Repl!Newer
  <2> QED
    BY <2>1
<1>6. /\ Cardinality(Below(j)) <= Cardinality(Below(i))
      /\ Cardinality(Below(i)) \in Nat /\ Cardinality(Below(j)) \in Nat
  <2>1. IsFiniteSet(Below(i))
    BY <1>4, <1>5, FS_Subset
  <2>2. IsFiniteSet(Below(j))
    BY <1>5, <2>1, FS_Subset
  <2> QED
    BY <1>5, <2>1, <2>2, FS_Subset, FS_CardinalityType
<1>7. Cardinality(Below(i)) < PageSize /\ ~(Cardinality(Below(j)) < PageSize)
  BY SameCardinality DEF Repl!PageIds
<1> QED
  BY <1>6, <1>7, PullBounds

LEMMA ServePullSound ==
  ASSUME PullInv, Repl!ServePull PROVE PullInv'
<1> DEFINE ids == Repl!PageIds(PageSize)
           seen == {cursor} \cup {row[i].rev : i \in ids}
           all == IF ids = Repl!Newer THEN seen \cup {pull.boundary} ELSE seen
           rows == [i \in ids |-> Repl!Visible(row[i])]
           held == [i \in Ids |-> IF i \in ids THEN rows[i] ELSE local[i]]
           top == Repl!Max(all)
<1>1. /\ UNCHANGED <<row, last, horizon, writer, pullPurge, local, cursor, torn>>
      /\ pull.at = "bounded" /\ pull' = [at |-> "page", rows |-> rows, next |-> top]
  BY DEF Repl!ServePull
<1>2. /\ last \in Nat /\ cursor \in 0..last /\ pull.boundary \in 0..last
      /\ local \in [Ids -> 0..PullMaxRevision]
      /\ cursor = 0 => \A i \in Ids \ torn : local[i] = 0
      /\ ~Repl!Stale(cursor) /\ torn \subseteq Ids
      /\ \A i \in Ids : row[i].rev > cursor \/ local[i] = Shown(i) \/ Purged(i, torn)
  BY <1>1, PullBounds DEF PullInv, ServerInv, AnswerInv, Repl!Guarded, Reflects
<1>3. /\ \A i \in Ids : row[i].rev \in 0..last /\ row[i].dead \in BOOLEAN
      /\ \A i \in Ids : row[i].rev \in 0..PullMaxRevision
  BY <1>2, PullBounds DEF PullInv, ServerInv
<1>4. ids \subseteq Repl!Newer /\ Repl!Newer \subseteq Ids
  BY DEF Repl!PageIds, Repl!Newer
<1>5. /\ top \in all /\ all \subseteq 0..last /\ cursor <= top
      /\ \A i \in ids : row[i].rev <= top
  <2>1. all \in SUBSET (0..last) /\ all # {} /\ cursor \in all
        /\ \A i \in ids : row[i].rev \in all
    BY <1>2, <1>3, <1>4
  <2>2. top \in all /\ \A y \in all : y <= top
    <3> HIDE DEF all
    <3> QED
      BY <1>2, <2>1, GreatestUpTo
  <2> HIDE DEF all, top
  <2> QED
    BY <2>1, <2>2
<1>6. top \in 0..last
  BY <1>5
<1>7. held \in [Ids -> 0..PullMaxRevision]
  BY <1>2, <1>3, <1>4, PullBounds DEF Repl!Visible
<1>8. ASSUME top = 0 PROVE \A i \in Ids \ (torn \ ids) : held[i] = 0
  <2> HIDE DEF top
  <2>1. cursor = 0
    BY <1>2, <1>5, <1>8
  <2>2. ids = {}
    <3> SUFFICES ASSUME NEW i \in ids PROVE FALSE
      OBVIOUS
    <3>1. row[i].rev > cursor /\ i \in Ids
      BY <1>4 DEF Repl!Newer
    <3> QED
      BY <1>3, <1>5, <1>8, <2>1, <3>1
  <2> QED
    BY <1>2, <2>1, <2>2
<1>9. \A i \in Ids : row[i].rev > top \/ held[i] = Shown(i) \/ Purged(i, torn \ ids)
  <2> TAKE i \in Ids
  <2>1. CASE i \in ids
    BY <2>1 DEF Shown, Repl!Visible
  <2>2. CASE i \notin Repl!Newer
    <3>1. ~(row[i].rev > cursor) /\ i \notin ids
      BY <1>4, <2>2 DEF Repl!Newer
    <3> QED
      BY <1>2, <3>1 DEF Purged
  <2>3. CASE i \in Repl!Newer \ ids
    <3>1. all = seen
      BY <2>3
    <3>2. \A j \in ids : row[j].rev < row[i].rev
      BY <2>3, PageIsFirst
    <3>3. row[i].rev > cursor
      BY <2>3 DEF Repl!Newer
    <3>4. top \in seen
      BY <1>5, <3>1
    <3> QED
      BY <1>2, <1>3, <1>4, <3>2, <3>3, <3>4
  <2> QED
    BY <2>1, <2>2, <2>3
<1>10. ServerInv' /\ WritersInv' /\ PurgeInv' /\ Reflects(local, cursor, torn)'
  BY <1>1 DEF PullInv, ServerInv, WritersInv, WriterSound, PurgeInv, Repl!Tombstones,
    Reflects, Shown, Repl!Visible, Repl!Stale, Purged
<1>11. AnswerInv'
  <2>1. /\ Repl!Applied' = held /\ pull'.next = top /\ Settled' = torn \ ids
        /\ Loosened' = IF cursor = 0 THEN torn \cup ids ELSE torn
    <3>1. DOMAIN pull'.rows = ids /\ pull'.rows = rows
      BY <1>1
    <3> QED
      BY <1>1, <3>1 DEF Repl!Applied, Settled, Loosened
  <2>2. Reflects(Repl!Applied, pull.next, Settled)'
    <3> HIDE DEF held, top
    <3> QED
      BY <1>1, <1>2, <1>6, <1>7, <1>8, <1>9, <2>1 DEF Reflects, Shown, Repl!Visible,
        Repl!Stale, Purged
  <2>3. \A i \in Ids : row[i].rev > cursor \/ held[i] = Shown(i) \/ Purged(i, torn)
    <3> TAKE i \in Ids
    <3>1. CASE i \in ids
      BY <3>1 DEF Shown, Repl!Visible
    <3>2. CASE i \notin ids
      BY <1>2, <3>2
    <3> QED
      BY <3>1, <3>2
  <2>4. cursor = 0 => \A i \in Ids \ (torn \cup ids) : held[i] = 0
    BY <1>2
  <2>5. Reflects(Repl!Applied, cursor, Loosened)'
    <3> HIDE DEF held, top, ids
    <3> QED
      BY <1>1, <1>2, <1>4, <1>7, <2>1, <2>3, <2>4 DEF Reflects, Shown, Repl!Visible,
        Repl!Stale, Purged
  <2> HIDE DEF held, top, ids, rows
  <2> QED
    BY <1>1, <2>2, <2>5 DEF AnswerInv, Repl!Guarded
<1> QED
  BY <1>10, <1>11 DEF PullInv

(* The rows are committed first, then the cursor.                           *)
LEMMA ApplyPull ==
  ASSUME PullInv, Repl!ApplyPage PROVE PullInv'
<1>1. /\ UNCHANGED <<row, last, horizon, writer, pullPurge, cursor>>
      /\ pull.at = "page" /\ local' = Repl!Applied /\ torn' = Loosened
      /\ pull' = [pull EXCEPT !.at = "applied"]
  BY DEF Repl!ApplyPage, Loosened
<1>2. /\ Reflects(Repl!Applied, cursor, Loosened)
      /\ Reflects(Repl!Applied, pull.next, Settled)
  BY <1>1 DEF PullInv, AnswerInv
<1>3. Reflects(local, cursor, torn)'
  BY <1>1, <1>2 DEF Reflects, Shown, Repl!Visible, Repl!Stale, Purged
<1>4. pull'.rows = pull.rows /\ pull'.next = pull.next /\ pull'.at = "applied"
  <2>1. pull = [at |-> "page", rows |-> pull.rows, next |-> pull.next]
    BY <1>1 DEF PullInv, AnswerInv
  <2> QED
    BY <1>1, <2>1
<1>5. Repl!Applied' = Repl!Applied /\ Settled' = Settled
  BY <1>1, <1>4 DEF Repl!Applied, Settled, Loosened
<1>6. Reflects(Repl!Applied, pull.next, Settled)'
  <2>1. PICK h, n, loose : h = Repl!Applied /\ n = pull.next /\ loose = Settled
    OBVIOUS
  <2>2. Reflects(h, n, loose)'
    BY <1>1, <1>2, <2>1 DEF Reflects, Shown, Repl!Visible, Repl!Stale, Purged
  <2> QED
    BY <1>4, <1>5, <2>1, <2>2 DEF Reflects, Repl!Stale, Purged
<1>7. ServerInv' /\ WritersInv' /\ PurgeInv'
  BY <1>1 DEF PullInv, ServerInv, WritersInv, WriterSound, PurgeInv, Repl!Tombstones
<1>8. AnswerInv'
  BY <1>1, <1>4, <1>5, <1>6 DEF AnswerInv, Repl!Guarded
<1> QED
  BY <1>3, <1>7, <1>8 DEF PullInv

LEMMA CursorPull ==
  ASSUME PullInv, Repl!CommitCursor PROVE PullInv'
<1>1. /\ UNCHANGED <<row, last, horizon, writer, pullPurge, local>>
      /\ pull.at = "applied" /\ cursor' = pull.next /\ torn' = Settled
      /\ pull' = [at |-> "none"]
  BY DEF Repl!CommitCursor, Repl!NoPull, Settled
<1>2. Reflects(local, pull.next, Settled)
  BY <1>1 DEF PullInv, AnswerInv
<1>3. Reflects(local, cursor, torn)'
  BY <1>1, <1>2 DEF Reflects, Shown, Repl!Visible, Repl!Stale, Purged
<1>4. ServerInv' /\ WritersInv' /\ PurgeInv' /\ AnswerInv'
  BY <1>1 DEF PullInv, ServerInv, WritersInv, WriterSound, PurgeInv, Repl!Tombstones,
    AnswerInv, Repl!Guarded
<1> QED
  BY <1>3, <1>4 DEF PullInv

LEMMA ResetPull ==
  ASSUME PullInv, Repl!Reset PROVE PullInv'
<1>1. /\ UNCHANGED <<row, last, horizon, writer, pullPurge>>
      /\ local' = [i \in Ids |-> 0] /\ cursor' = 0 /\ torn' = {}
      /\ pull' = [at |-> "none"]
  BY DEF Repl!Reset, Repl!NoPull
<1>2. /\ last \in Nat /\ PullMaxRevision \in Nat
      /\ \A i \in Ids : row[i] \in [rev : 0..PullMaxRevision, dead : BOOLEAN]
  BY PullBounds DEF PullInv, ServerInv
<1>3. \A i \in Ids : row[i].rev > 0 \/ Shown(i) = 0
  BY <1>2 DEF Shown, Repl!Visible
<1>4. Reflects(local, cursor, torn)'
  BY <1>1, <1>2, <1>3 DEF Reflects, Shown, Repl!Visible, Purged
<1>5. ServerInv' /\ WritersInv' /\ PurgeInv' /\ AnswerInv'
  BY <1>1 DEF PullInv, ServerInv, WritersInv, WriterSound, PurgeInv, Repl!Tombstones,
    AnswerInv, Repl!Guarded
<1> QED
  BY <1>4, <1>5 DEF PullInv

LEMMA FailPull ==
  ASSUME PullInv, Repl!ClientFails PROVE PullInv'
<1>1. /\ UNCHANGED <<row, last, horizon, writer, pullPurge, local, cursor, torn>>
      /\ pull' = [at |-> "none"]
  BY DEF Repl!ClientFails, Repl!NoPull
<1> QED
  BY <1>1 DEF PullInv, ServerInv, WritersInv, WriterSound, PurgeInv, Repl!Tombstones,
    AnswerInv, Repl!Guarded, Reflects, Shown, Repl!Visible, Repl!Stale, Purged

LEMMA PullStep == PullInv /\ Repl!PullNext => PullInv'
  BY AllocatePull, CommitPull, RollbackPull, SelectPull, LockPull, DeletePull, GuardPull,
     BoundPull, ServePullSound, ApplyPull, CursorPull, ResetPull, FailPull
     DEF Repl!PullNext, Repl!PurgeStep, Repl!ClientStep

LEMMA PullStart == Repl!PullInit => PullInv
<1> SUFFICES ASSUME Repl!PullInit PROVE PullInv
  OBVIOUS
<1>1. /\ row = [i \in Ids |-> [rev |-> 0, dead |-> FALSE]] /\ last = 0 /\ horizon = 0
      /\ writer = [w \in Writers |-> None] /\ pullPurge = None
      /\ pull = [at |-> "none"] /\ local = [i \in Ids |-> 0] /\ cursor = 0 /\ torn = {}
  BY DEF Repl!PullInit, Repl!Absent, Repl!NoPull
<1>2. ServerInv
  BY <1>1, PullBounds DEF ServerInv
<1>3. WritersInv /\ PurgeInv
  BY <1>1 DEF WritersInv, WriterSound, PurgeInv
<1>4. Reflects(local, cursor, torn) /\ AnswerInv
  BY <1>1, PullBounds DEF Reflects, Shown, Repl!Visible, AnswerInv, Repl!Guarded, Purged
<1> QED
  BY <1>2, <1>3, <1>4 DEF PullInv

LEMMA PullPromise == PullInv => Repl!PullTypeOK /\ Repl!NoGhostNoGap
<1> SUFFICES ASSUME PullInv PROVE Repl!PullTypeOK /\ Repl!NoGhostNoGap
  OBVIOUS
<1>1. pullPurge = None \/ pullPurge.ids \subseteq Repl!Tombstones
  BY DEF PullInv, PurgeInv
<1>2. \A w \in Writers : writer[w] # None => writer[w].id \in Ids
  BY DEF PullInv, WritersInv, WriterSound
<1>3. Repl!PullTypeOK
  BY <1>1, <1>2 DEF PullInv, ServerInv, AnswerInv, Reflects, Repl!PullTypeOK
<1>4. Repl!NoGhostNoGap
  BY DEF PullInv, Reflects, Shown, Repl!Visible, Repl!NoGhostNoGap, Purged
<1> QED
  BY <1>3, <1>4

LEMMA HorizonGrows == PullInv /\ Repl!PullNext => Repl!HorizonCoversPurges
<1> SUFFICES ASSUME PullInv, Repl!PullNext PROVE Repl!HorizonCoversPurges
  OBVIOUS
<1>1. /\ last \in Nat /\ horizon \in Nat /\ horizon \in 0..last
      /\ \A i \in Ids : row[i].rev \in Nat /\ row[i].rev <= last
  BY PullBounds DEF PullInv, ServerInv
<1>2. CASE UNCHANGED <<row, last, horizon>>
  BY <1>1, <1>2 DEF Repl!HorizonCoversPurges
<1>3. ASSUME NEW w \in Writers, Repl!Commit(w) PROVE Repl!HorizonCoversPurges
  <2>1. writer[w].id \in Ids /\ writer[w].rev = last + 1
    BY <1>3 DEF Repl!Commit, PullInv, WritersInv, WriterSound
  <2>2. /\ horizon' = horizon /\ last' = last + 1
        /\ \A i \in Ids : row'[i].rev = IF i = writer[w].id THEN last + 1 ELSE row[i].rev
    BY <1>3, <2>1 DEF Repl!Commit, PullInv, ServerInv
  <2> QED
    BY <1>1, <2>2 DEF Repl!HorizonCoversPurges
<1>4. CASE Repl!DeleteAndRaise
  <2>1. /\ pullPurge.ids \subseteq Repl!Tombstones /\ horizon' = Repl!Raised(pullPurge.ids)
        /\ row' = [i \in Ids |-> IF i \in pullPurge.ids THEN Repl!Absent ELSE row[i]]
        /\ last' = last
    BY <1>4 DEF Repl!DeleteAndRaise, Repl!Purging, PullInv, PurgeInv
  <2>2. /\ horizon' \in 0..last /\ horizon <= horizon'
        /\ \A i \in pullPurge.ids : row[i].rev <= horizon'
    BY <2>1, RaisedCovers
  <2> QED
    BY <1>1, <2>1, <2>2 DEF Repl!HorizonCoversPurges
<1> QED
  BY <1>2, <1>3, <1>4
     DEF Repl!PullNext, Repl!PurgeStep, Repl!ClientStep, Repl!Allocate, Repl!Rollback,
       Repl!SelectCandidates, Repl!LockOwnerCounters, Repl!GuardPullCursor,
       Repl!CurrentRevision, Repl!ServePull, Repl!ApplyPage, Repl!CommitCursor, Repl!Reset,
       Repl!ClientFails

-----------------------------------------------------------------------------
(* Hybrid logical clocks. The states a clock can have, whatever its stamp's *)
(* size, and what a device's operation in flight and its storage have to    *)
(* say of the timestamps it returned.                                       *)
Clock == [wall : Nat, counter : 0..PerMs - 1]

DeviceSound(d) ==
  /\ hlcStored[d] # None => hlcStored[d] \in Repl!States
  /\ issued[d] > 0 => /\ hlcStored[d] # None /\ Repl!Encode(hlcStored[d]) >= issued[d]
                      /\ Repl!Encode(state[d]) >= issued[d]
  /\ busy[d] # None =>
       /\ busy[d].next \in Repl!States
       /\ busy[d].after \in Nat /\ issued[d] <= busy[d].after
       /\ busy[d].after < Repl!Encode(busy[d].next)

HlcInv ==
  /\ physical \in [Devices -> 0..MaxPhysical]
  /\ state \in [Devices -> Repl!States]
  /\ hlcStored = [d \in Devices |-> hlcStored[d]]
  /\ busy = [d \in Devices |-> busy[d]]
  /\ issued \in [Devices -> 0..MaxStamp] /\ sent \subseteq 1..MaxStamp
  /\ \A d \in Devices : DeviceSound(d)

LEMMA HlcBounds ==
  /\ PerMs \in Nat \ {0} /\ MaxStamp \in Nat \ {0} /\ MaxPhysical \in Nat
  /\ None \notin [wall : Nat, counter : Nat]
BY DataAssumption DEF Repl!SyncHlcAssumption

LEMMA LaterWall ==
  ASSUME NEW p \in Nat \ {0}, NEW v \in Nat, NEW w \in Nat
  PROVE  /\ v * p \in Nat /\ w * p \in Nat
         /\ v < w => v * p + p <= w * p
<1>1. v * p \in Nat /\ w * p \in Nat
  OBVIOUS
<1>2. ASSUME v < w PROVE v * p + p <= w * p
  <2>1. PICK k \in Nat : w = v + 1 + k
    <3>1. w - v - 1 \in Nat /\ w = v + 1 + (w - v - 1)
      BY <1>2
    <3> QED
      BY <3>1
  <2>2. (v + 1 + k) * p = v * p + p + k * p
    OBVIOUS
  <2>3. k * p \in Nat
    OBVIOUS
  <2> QED
    BY <1>1, <2>1, <2>2, <2>3
<1> QED
  BY <1>1, <1>2

LEMMA StatesAreClocks ==
  /\ Repl!States \subseteq Clock
  /\ \A s \in Clock : Repl!Encode(s) \in Nat \ {0}
  /\ \A s \in Clock : Repl!Encodable(s) => s \in Repl!States
  /\ \A s \in Repl!States : s # None /\ Repl!Encode(s) \in 1..MaxStamp
<1>1. \A s \in Clock : s.wall * PerMs \in Nat /\ s.counter \in Nat /\ s.wall <= s.wall * PerMs
  <2> SUFFICES ASSUME NEW s \in Clock
               PROVE  s.wall * PerMs \in Nat /\ s.counter \in Nat /\ s.wall <= s.wall * PerMs
    OBVIOUS
  <2>1. s.wall \in Nat /\ s.counter \in Nat
    BY HlcBounds DEF Clock
  <2>2. PICK k \in Nat : PerMs = 1 + k
    <3>1. PerMs - 1 \in Nat /\ PerMs = 1 + (PerMs - 1)
      BY HlcBounds
    <3> QED
      BY <3>1
  <2>3. s.wall * (1 + k) = s.wall + s.wall * k /\ s.wall * k \in Nat
    BY <2>1
  <2> QED
    BY <2>1, <2>2, <2>3
<1>2. Repl!States \subseteq Clock
  BY HlcBounds DEF Repl!States, Clock
<1>3. \A s \in Clock : Repl!Encode(s) \in Nat \ {0} /\ s.wall < Repl!Encode(s)
  BY <1>1 DEF Repl!Encode, Clock
<1>4. \A s \in Clock : Repl!Encodable(s) => s \in Repl!States
  <2> SUFFICES ASSUME NEW s \in Clock, Repl!Encodable(s) PROVE s \in Repl!States
    OBVIOUS
  <2>1. s.wall \in 0..MaxStamp
    BY <1>3, HlcBounds DEF Repl!Encodable, Clock
  <2>2. s \in [wall : 0..MaxStamp, counter : 0..PerMs - 1]
    BY <2>1 DEF Clock
  <2> QED
    BY <2>2 DEF Repl!States
<1>5. ASSUME NEW s \in Repl!States PROVE s # None /\ Repl!Encode(s) \in 1..MaxStamp
  <2>1. s \in [wall : Nat, counter : Nat]
    BY <1>2, HlcBounds DEF Clock
  <2>2. Repl!Encode(s) <= MaxStamp
    BY DEF Repl!States, Repl!Encodable
  <2> QED
    BY <1>2, <1>3, <2>1, <2>2, HlcBounds
<1> QED
  BY <1>2, <1>3, <1>4, <1>5

LEMMA RolledEncodes ==
  ASSUME NEW wall \in Nat, NEW counter \in 0..PerMs
  PROVE  /\ Repl!Rolled(wall, counter) \in Clock
         /\ Repl!Encode(Repl!Rolled(wall, counter)) = wall * PerMs + counter + 1
<1>1. wall * PerMs \in Nat /\ (wall + 1) * PerMs = wall * PerMs + PerMs
  BY HlcBounds
<1>2. CASE counter >= PerMs
  <2>1. Repl!Rolled(wall, counter) = [wall |-> wall + 1, counter |-> 0] /\ counter = PerMs
    BY <1>2, HlcBounds DEF Repl!Rolled
  <2> QED
    BY <1>1, <2>1, HlcBounds DEF Repl!Encode, Clock
<1>3. CASE counter < PerMs
  <2>1. Repl!Rolled(wall, counter) = [wall |-> wall, counter |-> counter]
    BY <1>3, HlcBounds DEF Repl!Rolled
  <2> QED
    BY <1>1, <1>3, <2>1, HlcBounds DEF Repl!Encode, Clock
<1> QED
  BY <1>2, <1>3, HlcBounds

(* A clock at a later wall time, or at the same one with a larger counter,  *)
(* encodes above.                                                           *)
LEMMA EncodesAbove ==
  ASSUME NEW s \in Clock, NEW wall \in Nat, NEW counter \in 0..PerMs,
         s.wall < wall \/ (s.wall = wall /\ s.counter < counter)
  PROVE  Repl!Encode(Repl!Rolled(wall, counter)) > Repl!Encode(s)
<1>1. /\ s.wall \in Nat /\ s.counter \in Nat /\ s.counter < PerMs
      /\ Repl!Encode(s) = s.wall * PerMs + s.counter + 1
  BY HlcBounds DEF Clock, Repl!Encode
<1>2. Repl!Encode(Repl!Rolled(wall, counter)) = wall * PerMs + counter + 1
  BY RolledEncodes
<1>3. s.wall * PerMs \in Nat /\ wall * PerMs \in Nat
      /\ (s.wall < wall => s.wall * PerMs + PerMs <= wall * PerMs)
  BY <1>1, HlcBounds, LaterWall
<1> QED
  BY <1>1, <1>2, <1>3, HlcBounds

LEMMA NowAbove ==
  ASSUME HlcInv, NEW d \in Devices
  PROVE  /\ Repl!NowState(d) \in Clock
         /\ Repl!Encode(Repl!NowState(d)) > Repl!Encode(state[d])
<1>1. state[d] \in Clock /\ physical[d] \in Nat
  BY StatesAreClocks, HlcBounds DEF HlcInv
<1>2. state[d].wall \in Nat /\ state[d].counter \in 0..PerMs - 1
  BY <1>1 DEF Clock
<1> DEFINE wall == Repl!Max({physical[d], state[d].wall})
           counter == IF physical[d] > state[d].wall THEN 0 ELSE state[d].counter + 1
<1>3. wall = IF physical[d] >= state[d].wall THEN physical[d] ELSE state[d].wall
  BY <1>1, <1>2, GreatestOfPair
<1>4. wall \in Nat /\ counter \in 0..PerMs
      /\ (state[d].wall < wall \/ (state[d].wall = wall /\ state[d].counter < counter))
  BY <1>1, <1>2, <1>3, HlcBounds
<1>5. Repl!NowState(d) = Repl!Rolled(wall, counter)
  BY DEF Repl!NowState
<1> HIDE DEF wall, counter
<1> QED
  BY <1>1, <1>4, <1>5, RolledEncodes, EncodesAbove

LEMMA DecodesBack ==
  ASSUME NEW t \in Nat \ {0}
  PROVE  Repl!Decode(t) \in Clock /\ Repl!Encode(Repl!Decode(t)) = t
<1>1. /\ (t - 1) \div PerMs \in Nat /\ (t - 1) % PerMs \in 0..PerMs - 1
      /\ ((t - 1) \div PerMs) * PerMs + ((t - 1) % PerMs) = t - 1
  BY HlcBounds
<1> QED
  BY <1>1, HlcBounds DEF Repl!Decode, Repl!Encode, Clock

LEMMA ObservedAbove ==
  ASSUME HlcInv, NEW d \in Devices, NEW t \in sent
  PROVE  /\ Repl!ObservedState(d, t) \in Clock
         /\ Repl!Encode(Repl!ObservedState(d, t)) > Repl!Encode(state[d])
         /\ Repl!Encode(Repl!ObservedState(d, t)) > t
<1> DEFINE remote == Repl!Decode(t)
           walls == {physical[d], state[d].wall, remote.wall}
           wall == Repl!Max(walls)
           peers == {s \in {state[d], remote} : s.wall = wall}
           counters == {s.counter : s \in peers}
           counter == IF peers = {} THEN 0 ELSE Repl!Max(counters) + 1
<1>1. t \in Nat \ {0}
  BY HlcBounds DEF HlcInv
<1>2. /\ state[d] \in Clock /\ remote \in Clock /\ Repl!Encode(remote) = t
      /\ physical[d] \in Nat
  BY <1>1, StatesAreClocks, HlcBounds, DecodesBack DEF HlcInv
<1> HIDE DEF remote
<1>3. /\ state[d].wall \in Nat /\ state[d].counter \in 0..PerMs - 1
      /\ remote.wall \in Nat /\ remote.counter \in 0..PerMs - 1
  BY <1>2 DEF Clock
<1>4. wall \in walls /\ \A y \in walls : y <= wall
  <2> DEFINE n == physical[d] + state[d].wall + remote.wall
  <2>1. n \in Nat /\ walls \in SUBSET (0..n) /\ walls # {}
    BY <1>2, <1>3
  <2> HIDE DEF walls, n
  <2> QED
    BY <2>1, GreatestUpTo
<1>5. wall \in Nat /\ state[d].wall <= wall /\ remote.wall <= wall
  BY <1>2, <1>3, <1>4
<1> HIDE DEF wall
<1>6. peers # {} =>
        Repl!Max(counters) \in counters /\ \A y \in counters : y <= Repl!Max(counters)
  <2> SUFFICES ASSUME peers # {}
               PROVE  Repl!Max(counters) \in counters /\ \A y \in counters : y <= Repl!Max(counters)
    OBVIOUS
  <2>1. counters \in SUBSET (0..PerMs - 1) /\ counters # {}
    BY <1>3
  <2>2. PerMs - 1 \in Nat
    BY HlcBounds
  <2> HIDE DEF counters
  <2> QED
    BY <2>1, <2>2, GreatestUpTo
<1>7. /\ counter \in 0..PerMs
      /\ state[d].wall = wall => state[d].counter < counter
      /\ remote.wall = wall => remote.counter < counter
  <2>1. \A s \in peers : s.counter \in counters
    OBVIOUS
  <2>2. counters \subseteq 0..PerMs - 1
    BY <1>3
  <2>3. /\ state[d].wall = wall => state[d] \in peers
        /\ remote.wall = wall => remote \in peers
    OBVIOUS
  <2> HIDE DEF peers, counters
  <2>4. CASE peers = {}
    BY <2>3, <2>4, HlcBounds
  <2>5. CASE peers # {}
    <3>1. counter = Repl!Max(counters) + 1 /\ Repl!Max(counters) \in 0..PerMs - 1
      BY <1>6, <2>2, <2>5
    <3>2. \A s \in peers : s.counter \in 0..PerMs - 1 /\ s.counter <= Repl!Max(counters)
      BY <1>6, <2>1, <2>2, <2>5
    <3>3. \A s \in peers : s.counter < counter
      BY <3>1, <3>2, HlcBounds
    <3>4. counter \in 0..PerMs
      BY <3>1, HlcBounds
    <3> QED
      BY <2>3, <3>3, <3>4
  <2> QED
    BY <2>4, <2>5
<1>8. Repl!ObservedState(d, t) = Repl!Rolled(wall, counter)
  BY DEF Repl!ObservedState, remote, wall
<1> HIDE DEF counter
<1>9. Repl!Rolled(wall, counter) \in Clock
  BY <1>5, <1>7, RolledEncodes
<1>10. /\ Repl!Encode(Repl!Rolled(wall, counter)) > Repl!Encode(state[d])
       /\ Repl!Encode(Repl!Rolled(wall, counter)) > Repl!Encode(remote)
  BY <1>2, <1>3, <1>5, <1>7, EncodesAbove
<1> QED
  BY <1>2, <1>8, <1>9, <1>10

LEMMA DeviceKept ==
  ASSUME NEW d, DeviceSound(d), hlcStored'[d] = hlcStored[d], issued'[d] = issued[d],
         state'[d] = state[d], busy'[d] = busy[d]
  PROVE  DeviceSound(d)'
BY DEF DeviceSound, Repl!Encode, Repl!States, Repl!Encodable

LEMMA StartsSound ==
  ASSUME HlcInv, NEW d \in Devices, NEW new \in Clock, NEW after \in Nat,
         issued[d] <= after, after < Repl!Encode(new), Repl!Starts(d, new, after)
  PROVE  HlcInv'
<1>1. /\ UNCHANGED <<physical, state, hlcStored, issued, sent>>
      /\ busy' = [busy EXCEPT ![d] = [next |-> new, after |-> after]]
      /\ new \in Repl!States
  BY StatesAreClocks DEF Repl!Starts
<1>2. \A e \in Devices : DeviceSound(e)'
  <2> TAKE e \in Devices
  <2>1. CASE e # d
    BY <1>1, <2>1, DeviceKept DEF HlcInv
  <2>2. CASE e = d
    <3>1. busy'[d] = [next |-> new, after |-> after]
      BY <1>1 DEF HlcInv
    <3>2. DeviceSound(d)
      BY DEF HlcInv
    <3> QED
      BY <1>1, <2>2, <3>1, <3>2 DEF DeviceSound, Repl!Encode, Repl!States, Repl!Encodable
  <2> QED
    BY <2>1, <2>2
<1>3. busy' = [e \in Devices |-> busy'[e]]
  BY <1>1 DEF HlcInv
<1>4. state' \in [Devices -> Repl!States']
  BY <1>1 DEF HlcInv, Repl!States, Repl!Encodable, Repl!Encode
<1> QED
  BY <1>1, <1>2, <1>3, <1>4 DEF HlcInv

LEMMA NowSound ==
  ASSUME HlcInv, NEW d \in Devices, Repl!Now(d) PROVE HlcInv'
<1>1. PICK new, after : new = Repl!NowState(d) /\ after = issued[d]
  OBVIOUS
<1>2. new \in Clock /\ Repl!Encode(new) > Repl!Encode(state[d])
  BY <1>1, NowAbove
<1>3. after \in Nat /\ issued[d] <= after
  BY <1>1, HlcBounds DEF HlcInv
<1>4. after < Repl!Encode(new)
  <2>1. Repl!Encode(state[d]) \in Nat /\ Repl!Encode(new) \in Nat \ {0}
    BY <1>2, StatesAreClocks DEF HlcInv
  <2>2. issued[d] > 0 => Repl!Encode(state[d]) >= issued[d]
    BY DEF HlcInv, DeviceSound
  <2> QED
    BY <1>1, <1>2, <1>3, <2>1, <2>2
<1> QED
  BY <1>1, <1>2, <1>3, <1>4, StartsSound DEF Repl!Now

LEMMA ObserveSound ==
  ASSUME HlcInv, NEW d \in Devices, Repl!Observe(d) PROVE HlcInv'
<1>1. PICK t \in sent : Repl!Starts(d, Repl!ObservedState(d, t), Repl!Max({t, issued[d]}))
  BY DEF Repl!Observe
<1>2. PICK new, after : new = Repl!ObservedState(d, t) /\ after = Repl!Max({t, issued[d]})
  OBVIOUS
<1>3. new \in Clock /\ Repl!Encode(new) > Repl!Encode(state[d]) /\ Repl!Encode(new) > t
  BY <1>2, ObservedAbove
<1>4. t \in Nat /\ issued[d] \in Nat
  BY HlcBounds DEF HlcInv
<1>5. after = IF t >= issued[d] THEN t ELSE issued[d]
  BY <1>2, <1>4, GreatestOfPair
<1>6. after < Repl!Encode(new)
  <2>1. Repl!Encode(state[d]) \in Nat /\ Repl!Encode(new) \in Nat \ {0}
    BY <1>3, StatesAreClocks DEF HlcInv
  <2>2. issued[d] > 0 => Repl!Encode(state[d]) >= issued[d]
    BY DEF HlcInv, DeviceSound
  <2> QED
    BY <1>3, <1>4, <1>5, <2>1, <2>2
<1>7. after \in Nat /\ issued[d] <= after
  BY <1>4, <1>5
<1> QED
  BY <1>1, <1>2, <1>3, <1>6, <1>7, StartsSound

LEMMA AdvanceSound ==
  ASSUME HlcInv, NEW d \in Devices, Repl!Advance(d)
  PROVE  HlcInv' /\ Repl!TimestampsIncrease
<1>1. PICK new : new = busy[d].next
  OBVIOUS
<1>2. /\ busy[d] # None /\ physical' = physical
      /\ hlcStored' = [hlcStored EXCEPT ![d] = new] /\ state' = [state EXCEPT ![d] = new]
      /\ issued' = [issued EXCEPT ![d] = Repl!Encode(new)]
      /\ sent' = sent \cup {Repl!Encode(new)} /\ busy' = [busy EXCEPT ![d] = None]
  BY <1>1 DEF Repl!Advance
<1>3. /\ new \in Repl!States /\ new # None /\ Repl!Encode(new) \in 1..MaxStamp
      /\ busy[d].after \in Nat /\ issued[d] <= busy[d].after
      /\ busy[d].after < Repl!Encode(new)
  BY <1>1, <1>2, StatesAreClocks DEF HlcInv, DeviceSound
<1>4. /\ hlcStored'[d] = new /\ state'[d] = new /\ busy'[d] = None
      /\ issued'[d] = Repl!Encode(new)
      /\ \A e \in Devices \ {d} : /\ hlcStored'[e] = hlcStored[e] /\ state'[e] = state[e]
                                  /\ busy'[e] = busy[e] /\ issued'[e] = issued[e]
  BY <1>2 DEF HlcInv
<1>5. Repl!TimestampsIncrease
  <2>1. issued[d] \in Nat /\ MaxStamp \in Nat
    BY HlcBounds DEF HlcInv
  <2> QED
    BY <1>3, <1>4, <2>1 DEF Repl!TimestampsIncrease
<1>6. \A e \in Devices : DeviceSound(e)'
  <2> TAKE e \in Devices
  <2>1. CASE e # d
    BY <1>4, <2>1, DeviceKept DEF HlcInv
  <2>2. CASE e = d
    BY <1>3, <1>4, <2>2, HlcBounds DEF DeviceSound, Repl!Encode, Repl!States, Repl!Encodable
  <2> QED
    BY <2>1, <2>2
<1>7. /\ state' \in [Devices -> Repl!States] /\ issued' \in [Devices -> 0..MaxStamp]
      /\ sent' \subseteq 1..MaxStamp
  <2>1. Repl!Encode(new) \in 0..MaxStamp
    BY <1>3, HlcBounds
  <2> QED
    BY <1>2, <1>3, <2>1 DEF HlcInv
<1>8. hlcStored' = [e \in Devices |-> hlcStored'[e]] /\ busy' = [e \in Devices |-> busy'[e]]
  BY <1>2 DEF HlcInv
<1>9. HlcInv'
  BY <1>2, <1>6, <1>7, <1>8 DEF HlcInv, Repl!States, Repl!Encodable, Repl!Encode
<1> QED
  BY <1>5, <1>9

LEMMA SetFailsSound ==
  ASSUME HlcInv, NEW d \in Devices, Repl!SetFails(d) PROVE HlcInv'
<1>1. PICK new : new = busy[d].next
  OBVIOUS
<1>2. /\ busy[d] # None /\ UNCHANGED <<physical, state, issued, sent>>
      /\ hlcStored' \in {hlcStored, [hlcStored EXCEPT ![d] = new]}
      /\ busy' = [busy EXCEPT ![d] = None]
  BY <1>1 DEF Repl!SetFails
<1>3. /\ new \in Repl!States /\ new # None /\ Repl!Encode(new) \in Nat
      /\ issued[d] \in Nat /\ busy[d].after \in Nat /\ issued[d] <= busy[d].after
      /\ busy[d].after < Repl!Encode(new)
  BY <1>1, <1>2, StatesAreClocks, HlcBounds DEF HlcInv, DeviceSound
<1>4. /\ hlcStored'[d] \in {hlcStored[d], new} /\ busy'[d] = None
      /\ \A e \in Devices \ {d} : hlcStored'[e] = hlcStored[e] /\ busy'[e] = busy[e]
  BY <1>2 DEF HlcInv
<1>5. \A e \in Devices : DeviceSound(e)'
  <2> TAKE e \in Devices
  <2>1. CASE e # d
    BY <1>2, <1>4, <2>1, DeviceKept DEF HlcInv
  <2>2. CASE e = d
    <3>1. DeviceSound(d)
      BY DEF HlcInv
    <3>2. Repl!Encode(new) >= issued[d]
      BY <1>3
    <3> QED
      BY <1>2, <1>3, <1>4, <2>2, <3>1, <3>2
         DEF DeviceSound, Repl!Encode, Repl!States, Repl!Encodable
  <2> QED
    BY <2>1, <2>2
<1>6. hlcStored' = [e \in Devices |-> hlcStored'[e]] /\ busy' = [e \in Devices |-> busy'[e]]
  BY <1>2 DEF HlcInv
<1> QED
  BY <1>2, <1>5, <1>6 DEF HlcInv, Repl!States, Repl!Encodable, Repl!Encode

LEMMA ZeroIsState == Repl!Zero \in Repl!States
<1>1. 0 * PerMs = 0
  BY HlcBounds
<1> QED
  BY <1>1, HlcBounds DEF Repl!Zero, Repl!States, Repl!Encodable, Repl!Encode

LEMMA ReopenSound ==
  ASSUME HlcInv, NEW d \in Devices, Repl!Reopen(d) PROVE HlcInv'
<1>1. UNCHANGED <<physical, issued, sent>> /\ busy' = [busy EXCEPT ![d] = None]
  BY DEF Repl!Reopen
<1>2. PICK kept \in {hlcStored[d]} \cup (IF busy[d] = None THEN {} ELSE {busy[d].next}) :
        /\ hlcStored' = [hlcStored EXCEPT ![d] = kept]
        /\ state' = [state EXCEPT ![d] = IF kept = None THEN Repl!Zero ELSE kept]
  BY DEF Repl!Reopen
<1>3. kept = hlcStored[d] \/ (busy[d] # None /\ kept = busy[d].next)
  BY <1>2
<1>4. DeviceSound(d) /\ issued[d] \in Nat
  BY HlcBounds DEF HlcInv
<1>5. /\ kept # None => kept \in Repl!States
      /\ issued[d] > 0 => kept # None /\ Repl!Encode(kept) >= issued[d]
  <2>1. CASE kept = hlcStored[d]
    BY <1>4, <2>1 DEF DeviceSound
  <2>2. CASE busy[d] # None /\ kept = busy[d].next
    <3>1. kept \in Repl!States /\ kept # None /\ Repl!Encode(kept) \in Nat
      BY <1>4, <2>2, StatesAreClocks DEF DeviceSound
    <3> QED
      BY <1>4, <2>2, <3>1 DEF DeviceSound
  <2> QED
    BY <1>3, <2>1, <2>2
<1>6. /\ hlcStored'[d] = kept /\ busy'[d] = None
      /\ state'[d] = IF kept = None THEN Repl!Zero ELSE kept
      /\ \A e \in Devices \ {d} : /\ hlcStored'[e] = hlcStored[e] /\ state'[e] = state[e]
                                  /\ busy'[e] = busy[e]
  BY <1>1, <1>2 DEF HlcInv
<1>7. \A e \in Devices : DeviceSound(e)'
  <2> TAKE e \in Devices
  <2>1. CASE e # d
    BY <1>1, <1>6, <2>1, DeviceKept DEF HlcInv
  <2>2. CASE e = d
    BY <1>1, <1>5, <1>6, <2>2 DEF DeviceSound, Repl!Encode, Repl!States, Repl!Encodable
  <2> QED
    BY <2>1, <2>2
<1>8. state' \in [Devices -> Repl!States]
  BY <1>2, <1>5, ZeroIsState DEF HlcInv
<1>9. hlcStored' = [e \in Devices |-> hlcStored'[e]] /\ busy' = [e \in Devices |-> busy'[e]]
  BY <1>1, <1>2 DEF HlcInv
<1> QED
  BY <1>1, <1>7, <1>8, <1>9 DEF HlcInv, Repl!States, Repl!Encodable, Repl!Encode

LEMMA PhysicalTickSound ==
  ASSUME HlcInv, NEW d \in Devices, Repl!PhysicalTick(d) PROVE HlcInv'
<1>1. /\ UNCHANGED <<state, hlcStored, busy, issued, sent>>
      /\ physical' \in [Devices -> 0..MaxPhysical]
  BY DEF Repl!PhysicalTick, HlcInv
<1>2. \A e \in Devices : DeviceSound(e)'
  BY <1>1, DeviceKept DEF HlcInv
<1> QED
  BY <1>1, <1>2 DEF HlcInv, Repl!States, Repl!Encodable, Repl!Encode

LEMMA HlcStep == HlcInv /\ Repl!HlcNext => HlcInv'
BY NowSound, ObserveSound, AdvanceSound, SetFailsSound, ReopenSound, PhysicalTickSound
   DEF Repl!HlcNext

LEMMA HlcIncreases == HlcInv /\ Repl!HlcNext => Repl!TimestampsIncrease
<1> SUFFICES ASSUME HlcInv, Repl!HlcNext PROVE Repl!TimestampsIncrease
  OBVIOUS
<1>1. CASE issued' = issued
  BY <1>1 DEF Repl!TimestampsIncrease
<1>2. CASE \E d \in Devices : Repl!Advance(d)
  BY <1>2, AdvanceSound
<1> QED
  BY <1>1, <1>2 DEF Repl!HlcNext, Repl!Now, Repl!Observe, Repl!Starts, Repl!SetFails,
    Repl!Reopen, Repl!PhysicalTick

LEMMA HlcStart == Repl!HlcInit => HlcInv
<1> SUFFICES ASSUME Repl!HlcInit PROVE HlcInv
  OBVIOUS
<1>1. /\ physical = [d \in Devices |-> 0] /\ state = [d \in Devices |-> Repl!Zero]
      /\ hlcStored = [d \in Devices |-> None] /\ busy = [d \in Devices |-> None]
      /\ issued = [d \in Devices |-> 0] /\ sent = {}
  BY DEF Repl!HlcInit
<1>2. state \in [Devices -> Repl!States]
  BY <1>1, ZeroIsState
<1>3. \A d \in Devices : DeviceSound(d)
  BY <1>1 DEF DeviceSound
<1> QED
  BY <1>1, <1>2, <1>3, HlcBounds DEF HlcInv

LEMMA HlcPromise == HlcInv => Repl!HlcTypeOK /\ Repl!ReturnedIsStored
BY DEF HlcInv, DeviceSound, Repl!HlcTypeOK, Repl!ReturnedIsStored

-----------------------------------------------------------------------------
(* The scheduler: whoever may begin a run was asked for it since the last   *)
(* stop, unless it belongs to a task that a stop left.                      *)
SchedulerInv ==
  /\ Client!SchedulerTypeOK
  /\ at = "queued" \/ rerun => asked
  /\ at \notin {"none", "queued"} /\ ~restarted => asked
  /\ at \in {"waiting", "woken"} => retryIndex < MaxRetries

LEMMA SchedulerBounds ==
  MaxRetries \in Nat /\ MaxEvents \in Nat /\ 0 \in 0..MaxRetries /\ 0 \in 0..MaxEvents
BY DataAssumption DEF Client!SyncSchedulerAssumption

LEMMA TriggerSound ==
  ASSUME SchedulerInv, Client!Trigger
  PROVE  /\ asked' = TRUE /\ restarted' = restarted
         /\ at' \in {"queued", "running", "ended", "woken", "leaving"}
         /\ wake' \in {"none", "elapsed", "triggered", "stopped"}
         /\ at' = "woken" => retryIndex < MaxRetries
         /\ at' = "running" => at = "running"
BY DEF SchedulerInv, Client!SchedulerTypeOK, Client!Trigger

LEMMA TriggerKeeps ==
  ASSUME SchedulerInv, Client!Trigger, UNCHANGED <<outcome, retryIndex>>,
         started' \in BOOLEAN, foreground' \in BOOLEAN, interval' \in BOOLEAN,
         rerun' \in BOOLEAN, owed' \in BOOLEAN, events' \in 0..MaxEvents
  PROVE  SchedulerInv' /\ ~Client!RunBegins
<1>1. /\ outcome \in {"ok", "retry", "fatal"} /\ retryIndex \in 0..MaxRetries
      /\ restarted \in BOOLEAN
  BY DEF SchedulerInv, Client!SchedulerTypeOK
<1>2. Client!SchedulerTypeOK'
  BY <1>1, TriggerSound DEF Client!SchedulerTypeOK
<1>3. at' \in {"waiting", "woken"} => retryIndex' < MaxRetries
  BY TriggerSound
<1> QED
  BY <1>2, <1>3, TriggerSound DEF SchedulerInv, Client!RunBegins

LEMMA QuietKeeps ==
  ASSUME SchedulerInv, Client!NoTrigger, UNCHANGED <<rerun, outcome, retryIndex>>,
         started' \in BOOLEAN, foreground' \in BOOLEAN, interval' \in BOOLEAN,
         owed' \in BOOLEAN, events' \in 0..MaxEvents
  PROVE  SchedulerInv' /\ ~Client!RunBegins
<1>1. UNCHANGED <<at, wake, restarted, asked>>
  BY DEF Client!NoTrigger
<1>2. Client!SchedulerTypeOK'
  BY <1>1 DEF SchedulerInv, Client!SchedulerTypeOK
<1> QED
  BY <1>1, <1>2 DEF SchedulerInv, Client!RunBegins

LEMMA EventSound == SchedulerInv /\ Client!Event => events' \in 0..MaxEvents
BY SchedulerBounds DEF SchedulerInv, Client!SchedulerTypeOK, Client!Event

(* What starts, stops and triggers from outside. *)
LEMMA OutsideSound ==
  ASSUME SchedulerInv,
         \/ Client!SchedulerStart \/ Client!Stop \/ Client!ActiveChanges \/ Client!Online
         \/ Client!TriggeredByProduct \/ Client!IntervalFires \/ Client!RequestFollowUp
  PROVE  SchedulerInv' /\ ~Client!RunBegins
<1>1. CASE Client!SchedulerStart
  <2>1. events' \in 0..MaxEvents
    BY <1>1, EventSound DEF Client!SchedulerStart
  <2>2. /\ Client!Trigger \/ Client!NoTrigger
        /\ started' = TRUE /\ interval' = foreground
        /\ UNCHANGED <<foreground, rerun, owed, outcome, retryIndex>>
    BY <1>1 DEF Client!SchedulerStart, Client!Task
  <2>3. foreground \in BOOLEAN /\ rerun \in BOOLEAN /\ owed \in BOOLEAN
    BY DEF SchedulerInv, Client!SchedulerTypeOK
  <2> QED
    BY <2>1, <2>2, <2>3, TriggerKeeps, QuietKeeps
<1>2. CASE Client!Stop
  <2>1. events' \in 0..MaxEvents
    BY <1>2, EventSound DEF Client!Stop
  <2> QED
    BY <1>2, <2>1 DEF SchedulerInv, Client!SchedulerTypeOK, Client!Stop, Client!Task,
      Client!RunBegins
<1>3. CASE Client!ActiveChanges
  <2>1. events' \in 0..MaxEvents
    BY <1>3, EventSound DEF Client!ActiveChanges
  <2>2. foreground' \in BOOLEAN /\ interval' \in BOOLEAN
    BY <1>3 DEF SchedulerInv, Client!SchedulerTypeOK, Client!ActiveChanges,
      Client!RefreshedInterval
  <2>3. UNCHANGED <<started, rerun, owed, outcome, retryIndex>>
    BY <1>3 DEF Client!ActiveChanges, Client!Task
  <2>4. started \in BOOLEAN /\ rerun \in BOOLEAN /\ owed \in BOOLEAN
    BY DEF SchedulerInv, Client!SchedulerTypeOK
  <2>5. Client!Trigger \/ Client!NoTrigger
    BY <1>3 DEF Client!ActiveChanges
  <2> QED
    BY <2>1, <2>2, <2>3, <2>4, <2>5, TriggerKeeps, QuietKeeps
<1>4. CASE Client!Online \/ Client!TriggeredByProduct
  <2>1. events' \in 0..MaxEvents
    BY <1>4, EventSound DEF Client!Online, Client!TriggeredByProduct
  <2>2. /\ Client!Trigger
        /\ UNCHANGED <<started, foreground, interval, rerun, owed, outcome, retryIndex>>
    BY <1>4 DEF Client!Online, Client!TriggeredByProduct, Client!Task
  <2>3. /\ started \in BOOLEAN /\ foreground \in BOOLEAN /\ interval \in BOOLEAN
        /\ rerun \in BOOLEAN /\ owed \in BOOLEAN
    BY DEF SchedulerInv, Client!SchedulerTypeOK
  <2> QED
    BY <2>1, <2>2, <2>3, TriggerKeeps
<1>5. CASE Client!IntervalFires
  <2>1. /\ Client!Trigger
        /\ UNCHANGED <<started, foreground, interval, rerun, owed, outcome, retryIndex, events>>
    BY <1>5 DEF Client!IntervalFires, Client!Task
  <2>2. /\ started \in BOOLEAN /\ foreground \in BOOLEAN /\ interval \in BOOLEAN
        /\ rerun \in BOOLEAN /\ owed \in BOOLEAN /\ events \in 0..MaxEvents
    BY DEF SchedulerInv, Client!SchedulerTypeOK
  <2> QED
    BY <2>1, <2>2, TriggerKeeps
<1>6. CASE Client!RequestFollowUp
  <2>1. events' \in 0..MaxEvents
    BY <1>6, EventSound DEF Client!RequestFollowUp
  <2>2. CASE at = "none"
    BY <1>6, <2>1, <2>2, TriggerSound
       DEF SchedulerInv, Client!SchedulerTypeOK, Client!RequestFollowUp, Client!Task,
         Client!RunBegins
  <2>3. CASE at # "none"
    BY <1>6, <2>1, <2>3
       DEF SchedulerInv, Client!SchedulerTypeOK, Client!RequestFollowUp, Client!Task,
         Client!RunBegins
  <2> QED
    BY <2>2, <2>3
<1> QED
  BY <1>1, <1>2, <1>3, <1>4, <1>5, <1>6

(* What the task does by itself. *)
LEMMA TaskSound ==
  ASSUME SchedulerInv, Client!TaskStep
  PROVE  SchedulerInv' /\ Client!NoRunAfterStop /\ Client!RetriesInForeground
<1>1. UNCHANGED <<started, foreground, interval, asked, events>>
  BY DEF Client!TaskStep, Client!Begin, Client!RunSettles, Client!Settled,
    Client!WaitForRetry, Client!DelayElapses, Client!Woken, Client!Leave, Client!Outside
<1>2. CASE Client!Begin
  BY <1>1, <1>2, SchedulerBounds
     DEF SchedulerInv, Client!SchedulerTypeOK, Client!Begin, Client!BeginRun,
       Client!NoRunAfterStop, Client!RetriesInForeground, Client!RunBegins
<1>3. CASE Client!RunSettles
  BY <1>1, <1>3
     DEF SchedulerInv, Client!SchedulerTypeOK, Client!RunSettles,
       Client!NoRunAfterStop, Client!RetriesInForeground, Client!RunBegins
<1>4. CASE Client!Settled
  <2>1. CASE rerun
    <3>1. retryIndex' \in 0..MaxRetries
      BY <1>4, <2>1, SchedulerBounds DEF SchedulerInv, Client!SchedulerTypeOK, Client!Settled
    <3>2. /\ at = "ended" /\ at' = "running" /\ rerun' = FALSE /\ owed' = FALSE
          /\ UNCHANGED <<outcome, wake, restarted>>
      BY <1>4, <2>1 DEF Client!Settled, Client!BeginRun
    <3> QED
      BY <1>1, <2>1, <3>1, <3>2
         DEF SchedulerInv, Client!SchedulerTypeOK, Client!NoRunAfterStop,
           Client!RetriesInForeground, Client!RunBegins
  <2>2. CASE ~rerun
    BY <1>1, <1>4, <2>2
       DEF SchedulerInv, Client!SchedulerTypeOK, Client!Settled,
         Client!NoRunAfterStop, Client!RetriesInForeground, Client!RunBegins
  <2> QED
    BY <2>1, <2>2
<1>5. CASE Client!WaitForRetry
  BY <1>1, <1>5
     DEF SchedulerInv, Client!SchedulerTypeOK, Client!WaitForRetry, Client!WillRetry,
       Client!NoRunAfterStop, Client!RetriesInForeground, Client!RunBegins
<1>6. CASE Client!DelayElapses
  BY <1>1, <1>6
     DEF SchedulerInv, Client!SchedulerTypeOK, Client!DelayElapses,
       Client!NoRunAfterStop, Client!RetriesInForeground, Client!RunBegins
<1>7. CASE Client!Woken
  <2>1. CASE Client!GivesUp
    BY <1>1, <1>7, <2>1
       DEF SchedulerInv, Client!SchedulerTypeOK, Client!Woken,
         Client!NoRunAfterStop, Client!RetriesInForeground, Client!RunBegins
  <2>2. CASE ~Client!GivesUp
    <3>1. retryIndex' \in 0..MaxRetries
      BY <1>7, <2>2, SchedulerBounds DEF SchedulerInv, Client!SchedulerTypeOK, Client!Woken
    <3> QED
      BY <1>1, <1>7, <2>2, <3>1
         DEF SchedulerInv, Client!SchedulerTypeOK, Client!Woken, Client!BeginRun,
           Client!GivesUp, Client!NoRunAfterStop, Client!RetriesInForeground,
           Client!RunBegins
  <2> QED
    BY <2>1, <2>2
<1>8. CASE Client!Leave
  BY <1>1, <1>8
     DEF SchedulerInv, Client!SchedulerTypeOK, Client!Leave,
       Client!NoRunAfterStop, Client!RetriesInForeground, Client!RunBegins
<1> QED
  BY <1>2, <1>3, <1>4, <1>5, <1>6, <1>7, <1>8 DEF Client!TaskStep

LEMMA SchedulerStep ==
  SchedulerInv /\ Client!SchedulerNext =>
    SchedulerInv' /\ Client!NoRunAfterStop /\ Client!RetriesInForeground
BY OutsideSound, TaskSound
   DEF Client!SchedulerNext, Client!NoRunAfterStop, Client!RetriesInForeground

LEMMA SchedulerBegins == Client!SchedulerInit => SchedulerInv
<1> SUFFICES ASSUME Client!SchedulerInit PROVE SchedulerInv
  OBVIOUS
<1>1. /\ started = FALSE /\ foreground \in BOOLEAN /\ interval = FALSE /\ at = "none"
      /\ outcome = "ok" /\ wake = "none" /\ restarted = FALSE /\ rerun = FALSE
      /\ retryIndex = 0 /\ owed = FALSE /\ asked = FALSE /\ events = 0
  BY DEF Client!SchedulerInit
<1> QED
  BY <1>1, SchedulerBounds DEF SchedulerInv, Client!SchedulerTypeOK

-----------------------------------------------------------------------------
(* The three machines as parts of MCData. *)
ReplicaInv ==
  /\ part = "pull" => PullInv
  /\ part = "hlc" => HlcInv
  /\ part = "scheduler" => SchedulerInv

LEMMA ReplicaMachine ==
  /\ Init => /\ part = "pull" => Repl!PullInit
             /\ part = "hlc" => Repl!HlcInit
             /\ part = "scheduler" => Client!SchedulerInit
  /\ [Next]_vars =>
       /\ part' = part
       /\ part = "pull" => Repl!PullNext \/ UNCHANGED pullState
       /\ part = "hlc" => Repl!HlcNext \/ UNCHANGED hlcState
       /\ part = "scheduler" => Client!SchedulerNext \/ UNCHANGED schedulerState
<1>1. Init => /\ part = "pull" => Repl!PullInit
              /\ part = "hlc" => Repl!HlcInit
              /\ part = "scheduler" => Client!SchedulerInit
  BY DEF Cases, Init, ErasureStarts, SubjectStarts, SplitStarts, PullStarts, HlcStarts,
    SchedulerStarts, WritesStarts, DraftStarts
<1>2. [Next]_vars =>
       /\ part' = part
       /\ part = "pull" => Repl!PullNext \/ UNCHANGED pullState
       /\ part = "hlc" => Repl!HlcNext \/ UNCHANGED hlcState
       /\ part = "scheduler" => Client!SchedulerNext \/ UNCHANGED schedulerState
  BY DEF Cases, Next, vars, ErasureMoves, SubjectMoves, SplitMoves, PullMoves, HlcMoves,
    SchedulerMoves, WritesMoves, DraftMoves
<1> QED
  BY <1>1, <1>2

LEMMA ReplicaSteps ==
  [Next]_vars /\ ~UNCHANGED vars =>
       /\ part = "pull" => Repl!PullNext
       /\ part = "hlc" => Repl!HlcNext
       /\ part = "scheduler" => Client!SchedulerNext
BY DEF Cases, Next, ErasureMoves, SubjectMoves, SplitMoves, PullMoves, HlcMoves,
  SchedulerMoves, WritesMoves, DraftMoves

(* A client misses no change, whatever is written, deleted and purged       *)
(* between its pages and wherever it dies, also between a page's rows and   *)
(* its cursor, and it keeps no deleted row but one of a first page whose    *)
(* cursor it lost; a device never returns a timestamp at or below an earlier*)
(* or an observed one; and no run follows a stop (baukit-sync,              *)
(* @baukit/sync-client).                                                    *)
THEOREM ReplicaComplete == Spec => ReplicaSeesAll
<1>1. Init => ReplicaInv
  BY ReplicaMachine, PullStart, HlcStart, SchedulerBegins DEF ReplicaInv
<1>2. PullInv /\ UNCHANGED pullState => PullInv'
  BY DEF pullState, PullInv, ServerInv, WritersInv, WriterSound, PurgeInv, AnswerInv,
    Reflects, Shown, Repl!Visible, Repl!Tombstones, Repl!Stale, Repl!Guarded,
    Repl!Purging, Repl!Applied,
    Purged, Loosened, Settled
<1>3. HlcInv /\ UNCHANGED hlcState => HlcInv'
  BY DEF hlcState, HlcInv, DeviceSound, Repl!States, Repl!Encodable, Repl!Encode
<1>4. SchedulerInv /\ UNCHANGED schedulerState => SchedulerInv'
  BY DEF schedulerState, SchedulerInv, Client!SchedulerTypeOK
<1>5. ReplicaInv /\ [Next]_vars => ReplicaInv'
  BY <1>2, <1>3, <1>4, ReplicaMachine, PullStep, HlcStep, SchedulerStep DEF ReplicaInv
<1>6. ReplicaInv => ReplicaSeesAllHolds
  <2>1. SchedulerInv => Client!SchedulerTypeOK
    BY DEF SchedulerInv
  <2> QED
    BY <2>1, PullPromise, HlcPromise DEF ReplicaInv, ReplicaSeesAllHolds
<1>7. ReplicaInv /\ [Next]_vars => [ReplicaSeesAllSteps]_vars
  <2> SUFFICES ASSUME ReplicaInv, [Next]_vars, ~UNCHANGED vars PROVE ReplicaSeesAllSteps
    OBVIOUS
  <2> QED
    BY ReplicaSteps, HorizonGrows, HlcIncreases, SchedulerStep
       DEF ReplicaInv, ReplicaSeesAllSteps
<1> QED
  BY <1>1, <1>5, <1>6, <1>7, PTL DEF Spec, ReplicaSeesAll

-----------------------------------------------------------------------------
(* Erasures. An operation that is not complete has a job, and no other has; *)
(* a lease is on a running job; and an operation exists once its request's  *)
(* transaction committed.                                                   *)
JobsAgree(ops, workers) ==
  /\ erasureOp \in [ops -> {"none", "pending", "completed", "failed"}]
  /\ erasureJob \in [ops -> {"none", "pending", "running", "expired", "failed"}]
  /\ holder \in [ops -> workers \cup {None}]
  /\ \A o \in ops :
       /\ erasureOp[o] \in {"pending", "failed"} <=> erasureJob[o] # "none"
       /\ erasureJob[o] = "failed" => erasureOp[o] = "failed"
       /\ holder[o] # None => erasureJob[o] = "running"
       /\ erasurePc[o] \in {"new", "begun", "keyed"} => erasureOp[o] = "none"
       /\ erasurePc[o] \in {"inline", "calling"} => erasureOp[o] # "none"

Unfinished == \E o \in Erase!Ops : erasureOp[o] \in {"pending", "failed"}

(* A visit that was let through holds the subject's lock: until it is done  *)
(* no erasure commits, none is unfinished, and its session is younger than  *)
(* the fence.                                                               *)
FenceInv ==
  /\ JobsAgree(Erase!Ops, ErasureWorkers)
  /\ work \in [ErasureWorkers -> Erase!Ops \cup {None}]
  /\ now \in Nat /\ DOMAIN erasurePc = Erase!Actors
  /\ began \in [Erase!Actors -> Nat] /\ auth \in [Erase!Actors -> Nat]
  /\ \A a \in Erase!Actors : auth[a] <= began[a]
  /\ fence \in Nat \cup {None} /\ profile \in Nat \cup {None}
  /\ fence = None => \A o \in Erase!Ops : erasureOp[o] = "none"
  /\ \A v \in Visits : erasurePc[v] = "checked" =>
       ~Unfinished /\ (fence # None => auth[v] > fence)
  /\ Erase!NoProfileWhileErasing /\ Erase!NoEarlierSessionReturns

(* A worker or a request that has its answer deleted the account. *)
TakeoverInv ==
  /\ JobsAgree(EraseTakeover!Ops, {b1, b2})
  /\ EraseTakeover!TypeOK
  /\ \A w \in {b1, b2} : called[w] => ~account
  /\ EraseTakeover!CompletedMeansDeleted

(* Exports and erasures of a product. What the open transaction of a worker *)
(* read still holds: it has the job's row, and the operation's.             *)
OpsOf == [status : {"none", "pending", "signed", "failed", "purged"},
          deadline : Nat, purgeAfter : Nat, expires : Nat]
SubjectJobs(k) ==
  [type : {"none", "execute", "finalize"}, status : {"none", "pending", "running", "failed"},
   attempts : 0..AttemptsOf(k), holder : SubjectWorkers \cup {None},
   lease : Nat, runAfter : Nat, delay : Nat]
Transactions(k) ==
  [op : RequestsOf(k) \cup {None},
   out : {"none", "nothing", "export", "notFound", "fail", "wait", "sign", "eraseAndSign",
          "eraseAndWait"},
   left : Nat]

SubjectTypes(k) ==
  /\ subjectPc \in [RequestsOf(k) -> {"new", "locked", "done"}]
  /\ found \in [RequestsOf(k) -> RequestsOf(k) \cup {None}]
  /\ reply \in [RequestsOf(k) -> RequestsOf(k) \cup {None, "conflict", "error"}]
  /\ subjectOp \in [RequestsOf(k) -> OpsOf]
  /\ ident \in [RequestsOf(k) -> [AccountsOf(k) -> {"none", "pending", "completed", "failed"}]]
  /\ subjectJob \in [RequestsOf(k) -> SubjectJobs(k)]
  /\ tx \in [SubjectWorkers -> Transactions(k)]
  /\ erased \in [RequestsOf(k) -> Nat]
  /\ subjectParts \subseteq RequestsOf(k)
  /\ subjectPurge \in [ops : SUBSET RequestsOf(k), jobs : SUBSET RequestsOf(k)]

(* One request's operation and its job. *)
OperationSound(k, o) ==
  /\ subjectPc[o] # "done" =>
       subjectOp[o].status = "none" /\ subjectJob[o].status = "none" /\ o \notin subjectPurge.ops
  /\ subjectOp[o].status = "none" => erased[o] = 0
  /\ subjectOp[o].status = "pending" =>
       /\ subjectJob[o].status \in {"pending", "running"}
       /\ KindsOf(k)[o] = "erasure" => erased[o] = IF subjectJob[o].type = "finalize" THEN 1 ELSE 0
  /\ subjectJob[o].status = "pending" => subjectJob[o].attempts < AttemptsOf(k)
  /\ erased[o] <= 1
  /\ DS(k)!Signed(o) /\ KindsOf(k)[o] = "erasure" =>
       erased[o] = 1 /\ \A s \in FoundOf(k)[o] : ident[o][s] = "completed"

TransactionSound(k, w) ==
  LET o == tx[w].op IN
  IF o = None THEN tx[w] = DS(k)!Idle
  ELSE /\ subjectJob[o].status = "running" /\ subjectJob[o].holder = w
       /\ tx[w].out # "none"
       /\ tx[w].out = "nothing" <=> subjectOp[o].status # "pending"
       /\ tx[w].out \in {"eraseAndSign", "eraseAndWait"} =>
            KindsOf(k)[o] = "erasure" /\ subjectJob[o].type # "finalize"
       /\ tx[w].out \in {"sign", "wait"} => KindsOf(k)[o] = "erasure" /\ subjectJob[o].type = "finalize"
       /\ tx[w].out \in {"export", "notFound"} => KindsOf(k)[o] = "export"
       /\ tx[w].out = "eraseAndSign" => RetainOf(k) \/ FoundOf(k)[o] = {}
       /\ tx[w].out = "sign" => \A s \in FoundOf(k)[o] : ident[o][s] = "completed"

SubjectInv(k) ==
  /\ SubjectTypes(k)
  /\ \A o \in RequestsOf(k) : OperationSound(k, o)
  /\ \A w \in SubjectWorkers : TransactionSound(k, w)
  /\ subjectPurge.jobs \subseteq subjectPurge.ops

ErasureInv ==
  /\ part = "fence" => FenceInv
  /\ part = "takeover" => TakeoverInv
  /\ \A k \in Cases : part = k => SubjectInv(k)

-----------------------------------------------------------------------------
LEMMA ErasureNone ==
  /\ None \notin Nat /\ None \notin Erase!Ops /\ None \notin ErasureWorkers
  /\ Erase!Actors = Erase!Ops \cup Visits
BY DataAssumption DEF Erase!ErasureAssumption, Erase!Ops, Erase!Actors

(* An action of one request, visit or worker at the fence. *)
LEMMA FenceSessions ==
  ASSUME FenceInv, NEW a \in Erase!Actors,
         Erase!Begin(a) \/ (a \in Visits /\ (Erase!Guard(a) \/ Erase!Resolve(a)))
  PROVE  FenceInv'
<1>1. CASE Erase!Begin(a)
  <2>1. JobsAgree(Erase!Ops, ErasureWorkers)'
    BY <1>1, ErasureNone DEF FenceInv, JobsAgree, Erase!Begin, Erase!jobVars
  <2> QED
    BY <1>1, <2>1, ErasureNone DEF FenceInv, Erase!Begin, Erase!jobVars, Unfinished,
      Erase!NoProfileWhileErasing, Erase!NoEarlierSessionReturns
<1>2. CASE a \in Visits /\ Erase!Guard(a)
  <2>1. JobsAgree(Erase!Ops, ErasureWorkers)'
    BY <1>2, ErasureNone DEF FenceInv, JobsAgree, Erase!Guard, Erase!jobVars
  <2>2. erasurePc'[a] = "checked" => ~Unfinished /\ (fence # None => auth[a] > fence)
    BY <1>2, ErasureNone DEF FenceInv, JobsAgree, Erase!Guard, Erase!Rejected, Unfinished
  <2> QED
    BY <1>2, <2>1, <2>2, ErasureNone DEF FenceInv, Erase!Guard, Erase!jobVars, Unfinished,
      Erase!NoProfileWhileErasing, Erase!NoEarlierSessionReturns
<1>3. CASE a \in Visits /\ Erase!Resolve(a)
  <2>1. JobsAgree(Erase!Ops, ErasureWorkers)'
    BY <1>3, ErasureNone DEF FenceInv, JobsAgree, Erase!Resolve, Erase!jobVars
  <2> QED
    BY <1>3, <2>1, ErasureNone DEF FenceInv, Erase!Resolve, Erase!jobVars, Unfinished,
      Erase!NoProfileWhileErasing, Erase!NoEarlierSessionReturns
<1> QED
  BY <1>1, <1>2, <1>3

LEMMA FenceErases ==
  ASSUME FenceInv, NEW r \in ErasureRequests,
         Erase!LockKey(r) \/ Erase!Erase(r) \/ Erase!LockJob(r) \/ Erase!InlineCall(r)
  PROVE  FenceInv'
<1>0. r \in Erase!Ops /\ r \in Erase!Actors
  BY DEF Erase!Ops, Erase!Actors
<1>1. CASE Erase!LockKey(r)
  <2>1. JobsAgree(Erase!Ops, ErasureWorkers)'
    BY <1>0, <1>1, ErasureNone DEF FenceInv, JobsAgree, Erase!LockKey, Erase!jobVars
  <2> QED
    BY <1>0, <1>1, <2>1, ErasureNone DEF FenceInv, Erase!LockKey, Erase!jobVars, Unfinished,
      Erase!NoProfileWhileErasing, Erase!NoEarlierSessionReturns
<1>2. CASE Erase!Erase(r)
  <2>1. JobsAgree(Erase!Ops, ErasureWorkers)'
    BY <1>0, <1>2, ErasureNone DEF FenceInv, JobsAgree, Erase!Erase, Erase!Commit, Erase!jobVars
  <2>2. CASE Erase!Rejected(auth[r])
    BY <1>0, <1>2, <2>1, <2>2, ErasureNone DEF FenceInv, Erase!Erase, Erase!jobVars, Unfinished,
      Erase!NoProfileWhileErasing, Erase!NoEarlierSessionReturns
  <2>3. CASE ~Erase!Rejected(auth[r])
    <3>1. Erase!Commit(r) /\ \A v \in Visits : erasurePc'[v] # "checked"
      BY <1>0, <1>2, <2>3, ErasureNone DEF FenceInv, Erase!Erase, Erase!SubjectLocked
    <3> QED
      BY <1>0, <1>2, <2>1, <2>3, <3>1, ErasureNone DEF FenceInv, Erase!Erase, Erase!Commit,
        Erase!NoProfileWhileErasing, Erase!NoEarlierSessionReturns
  <2> QED
    BY <2>2, <2>3
<1>3. CASE Erase!LockJob(r)
  <2>1. JobsAgree(Erase!Ops, ErasureWorkers)'
    BY <1>0, <1>3, ErasureNone DEF FenceInv, JobsAgree, Erase!LockJob, Erase!jobVars
  <2> QED
    BY <1>0, <1>3, <2>1, ErasureNone DEF FenceInv, Erase!LockJob, Erase!jobVars, Unfinished,
      Erase!NoProfileWhileErasing, Erase!NoEarlierSessionReturns
<1>4. CASE Erase!InlineCall(r)
  <2>0. /\ JobsAgree(Erase!Ops, ErasureWorkers) /\ DOMAIN erasurePc = Erase!Actors
        /\ erasurePc[r] = "calling" /\ erasurePc' = [erasurePc EXCEPT ![r] = "done"]
        /\ Erase!Completed(r) \/ UNCHANGED <<erasureOp, erasureJob, holder>>
    BY <1>4 DEF FenceInv, Erase!InlineCall
  <2>1. JobsAgree(Erase!Ops, ErasureWorkers)' /\ (Unfinished' => Unfinished)
    <3>1. CASE Erase!Completed(r)
      <4>1. /\ erasureOp' \in [Erase!Ops -> {"none", "pending", "completed", "failed"}]
            /\ erasureJob' \in [Erase!Ops -> {"none", "pending", "running", "expired", "failed"}]
            /\ holder' \in [Erase!Ops -> ErasureWorkers \cup {None}]
        BY <1>0, <2>0, <3>1 DEF JobsAgree, Erase!Completed
      <4>2. /\ erasureOp'[r] = "completed" /\ erasureJob'[r] = "none" /\ holder'[r] = None
            /\ erasurePc'[r] = "done"
        BY <1>0, <2>0, <3>1 DEF JobsAgree, Erase!Completed
      <4>3. ASSUME NEW o \in Erase!Ops, o # r
            PROVE  /\ erasureOp'[o] = erasureOp[o] /\ erasureJob'[o] = erasureJob[o]
                   /\ holder'[o] = holder[o] /\ erasurePc'[o] = erasurePc[o]
        BY <1>0, <2>0, <3>1, <4>3, ErasureNone DEF JobsAgree, Erase!Completed
      <4> QED
        BY <2>0, <4>1, <4>2, <4>3 DEF JobsAgree, Unfinished
    <3>2. CASE UNCHANGED <<erasureOp, erasureJob, holder>>
      <4>1. \A o \in Erase!Ops : erasurePc'[o] = erasurePc[o] \/ erasurePc'[o] = "done"
        BY <2>0, ErasureNone
      <4> QED
        BY <2>0, <3>2, <4>1 DEF JobsAgree, Unfinished
    <3> QED
      BY <2>0, <3>1, <3>2
  <2>3. fence # None
    BY <1>0, <1>4 DEF FenceInv, JobsAgree, Erase!InlineCall
  <2> QED
    BY <1>0, <1>4, <2>1, <2>3, ErasureNone DEF FenceInv, Erase!InlineCall, Unfinished,
      Erase!NoProfileWhileErasing, Erase!NoEarlierSessionReturns
<1> QED
  BY <1>1, <1>2, <1>3, <1>4

LEMMA FenceOperates ==
  ASSUME FenceInv, NEW o \in Operators, Erase!FenceAsOperator(o)
  PROVE  FenceInv'
<1>1. o \in Erase!Ops /\ o \in Erase!Actors
  BY DEF Erase!Ops, Erase!Actors
<1>2. JobsAgree(Erase!Ops, ErasureWorkers)'
  BY <1>1, ErasureNone DEF FenceInv, JobsAgree, Erase!FenceAsOperator, Erase!Commit, Erase!jobVars
<1>3. Erase!Commit(o) /\ \A v \in Visits : erasurePc'[v] # "checked"
  BY <1>1, ErasureNone DEF FenceInv, Erase!FenceAsOperator, Erase!SubjectLocked
<1> QED
  BY <1>1, <1>2, <1>3, ErasureNone DEF FenceInv, Erase!FenceAsOperator, Erase!Commit,
    Erase!NoProfileWhileErasing, Erase!NoEarlierSessionReturns

(* The job's steps. They leave the sessions and the fence alone and make    *)
(* nothing unfinished that was not.                                         *)
JobStep ==
  /\ JobsAgree(Erase!Ops, ErasureWorkers)'
  /\ \A o \in Erase!Ops : erasureOp'[o] = "none" <=> erasureOp[o] = "none"
  /\ Unfinished' => Unfinished
  /\ work' \in [ErasureWorkers -> Erase!Ops \cup {None}]
  /\ UNCHANGED <<now, erasurePc, began, auth, fence, profile, lastErased>>

LEMMA FenceKept ==
  ASSUME FenceInv, JobStep
  PROVE  FenceInv'
BY ErasureNone DEF FenceInv, JobStep, Unfinished, Erase!NoProfileWhileErasing,
  Erase!NoEarlierSessionReturns

LEMMA FenceWorkers ==
  ASSUME FenceInv, NEW w \in ErasureWorkers,
         (\E o \in Erase!Ops : Erase!ClaimJob(w, o)) \/ Erase!CallProvider(w)
           \/ Erase!FinishJob(w) \/ Erase!FailJob(w)
  PROVE  FenceInv'
<1>1. ASSUME NEW o \in Erase!Ops, Erase!ClaimJob(w, o) PROVE JobStep
  BY <1>1, ErasureNone DEF FenceInv, JobsAgree, JobStep, Erase!ClaimJob, Unfinished
<1>2. ASSUME Erase!CallProvider(w) PROVE JobStep
  BY <1>2 DEF FenceInv, JobsAgree, JobStep, Erase!CallProvider, Unfinished
<1>3. ASSUME Erase!FinishJob(w) PROVE JobStep
  <2>1. work[w] \in Erase!Ops
    BY <1>3 DEF FenceInv, Erase!FinishJob
  <2> QED
    BY <1>3, <2>1, ErasureNone
       DEF FenceInv, JobsAgree, JobStep, Erase!FinishJob, Erase!Completed, Unfinished
<1>4. ASSUME Erase!FailJob(w) PROVE JobStep
  <2>1. work[w] \in Erase!Ops
    BY <1>4 DEF FenceInv, Erase!FailJob
  <2> QED
    BY <1>4, <2>1, ErasureNone
       DEF FenceInv, JobsAgree, JobStep, Erase!FailJob, Erase!Failed, Unfinished
<1> QED
  BY <1>1, <1>2, <1>3, <1>4, FenceKept

LEMMA FenceJobs ==
  ASSUME FenceInv, NEW o \in Erase!Ops,
         Erase!SweepJob(o) \/ Erase!LeaseExpires(o) \/ Erase!Repair(o)
  PROVE  FenceInv'
<1>1. ASSUME Erase!SweepJob(o) PROVE JobStep
  BY <1>1, ErasureNone DEF FenceInv, JobsAgree, JobStep, Erase!SweepJob, Erase!Failed, Unfinished
<1>2. ASSUME Erase!LeaseExpires(o) PROVE JobStep
  BY <1>2, ErasureNone DEF FenceInv, JobsAgree, JobStep, Erase!LeaseExpires, Unfinished
<1>3. ASSUME Erase!Repair(o) PROVE JobStep
  BY <1>3, ErasureNone DEF FenceInv, JobsAgree, JobStep, Erase!Repair, Unfinished
<1> QED
  BY <1>1, <1>2, <1>3, FenceKept

LEMMA FenceTicks ==
  ASSUME FenceInv, Erase!Tick
  PROVE  FenceInv'
<1>1. JobsAgree(Erase!Ops, ErasureWorkers)'
  BY DEF FenceInv, JobsAgree, Erase!Tick, Erase!jobVars
<1> QED
  BY <1>1, ErasureNone DEF FenceInv, Erase!Tick, Erase!jobVars, Unfinished,
    Erase!NoProfileWhileErasing, Erase!NoEarlierSessionReturns

LEMMA FenceStep == FenceInv /\ Erase!Next => FenceInv'
<1>1. Visits \subseteq Erase!Actors
  BY DEF Erase!Actors
<1> QED
  BY <1>1, FenceSessions, FenceErases, FenceOperates, FenceWorkers, FenceJobs, FenceTicks DEF Erase!Next

(* A request that is not rejected has a session younger than the fence, and *)
(* began no earlier than that session.                                      *)
LEMMA FenceRises == FenceInv /\ Erase!Next => Erase!FenceLoweredByOperators
<1> SUFFICES ASSUME FenceInv, Erase!Next, fence # None, fence' # fence
             PROVE  fence' >= fence \/ \E o \in Operators : erasureOp'[o] # erasureOp[o]
  BY DEF FenceInv, Erase!FenceLoweredByOperators, Erase!FenceNeverLowered
<1>1. ASSUME NEW r \in ErasureRequests, Erase!Erase(r) PROVE fence' >= fence
  <2>1. r \in Erase!Actors
    BY DEF Erase!Actors, Erase!Ops
  <2>2. fence < auth[r] /\ fence' = began[r] /\ auth[r] <= began[r]
    BY <1>1, <2>1 DEF FenceInv, Erase!Erase, Erase!Commit, Erase!Rejected
  <2> QED
    BY <2>1, <2>2, ErasureNone DEF FenceInv
<1>2. ASSUME NEW o \in Operators, Erase!FenceAsOperator(o)
      PROVE  erasureOp'[o] # erasureOp[o]
  <2>1. o \in Erase!Ops
    BY DEF Erase!Ops
  <2> QED
    BY <1>2, <2>1 DEF FenceInv, JobsAgree, Erase!FenceAsOperator, Erase!Commit
<1> QED
  BY <1>1, <1>2 DEF Erase!Next, Erase!Begin, Erase!Guard, Erase!Resolve, Erase!LockKey,
    Erase!LockJob, Erase!InlineCall, Erase!ClaimJob, Erase!CallProvider, Erase!FinishJob,
    Erase!FailJob, Erase!SweepJob, Erase!LeaseExpires, Erase!Repair, Erase!Tick

LEMMA FenceStart == Erase!Init => FenceInv
BY ErasureNone DEF Erase!Init, FenceInv, JobsAgree, Unfinished, Erase!NoProfileWhileErasing,
  Erase!NoEarlierSessionReturns

-----------------------------------------------------------------------------
(* The takeover machine. *)
LEMMA TakeoverNone ==
  /\ None \notin EraseTakeover!Ops /\ None \notin {b1, b2} /\ None \notin Nat
  /\ EraseTakeover!Actors = EraseTakeover!Ops /\ ErasureRetain \in BOOLEAN
  /\ ErasureRequests \subseteq EraseTakeover!Ops /\ o1 \in EraseTakeover!Ops
BY DataAssumption DEF EraseTakeover!ErasureAssumption, EraseTakeover!Ops, EraseTakeover!Actors

LEMMA TakeoverErases ==
  ASSUME TakeoverInv, NEW r \in ErasureRequests,
         EraseTakeover!LockKey(r) \/ EraseTakeover!Erase(r) \/ EraseTakeover!LockJob(r)
           \/ EraseTakeover!InlineCall(r)
  PROVE  TakeoverInv'
<1>1. CASE EraseTakeover!LockKey(r)
  BY <1>1, TakeoverNone DEF TakeoverInv, JobsAgree, EraseTakeover!TypeOK,
    EraseTakeover!CompletedMeansDeleted, EraseTakeover!LockKey, EraseTakeover!jobVars
<1>2. CASE EraseTakeover!Erase(r)
  <2>1. CASE EraseTakeover!Rejected(auth[r])
    BY <1>2, <2>1, TakeoverNone DEF TakeoverInv, JobsAgree, EraseTakeover!TypeOK,
      EraseTakeover!CompletedMeansDeleted, EraseTakeover!Erase, EraseTakeover!jobVars
  <2>2. CASE EraseTakeover!Commit(r)
    <3>1. JobsAgree(EraseTakeover!Ops, {b1, b2})'
      BY <1>2, <2>2, TakeoverNone DEF TakeoverInv, JobsAgree, EraseTakeover!Erase,
        EraseTakeover!Commit, EraseTakeover!TypeOK
    <3>2. EraseTakeover!TypeOK'
      BY <1>2, <2>2, TakeoverNone DEF TakeoverInv, EraseTakeover!Erase, EraseTakeover!Commit,
        EraseTakeover!TypeOK
    <3> QED
      BY <2>2, <3>1, <3>2, TakeoverNone DEF TakeoverInv, JobsAgree, EraseTakeover!Commit,
        EraseTakeover!CompletedMeansDeleted
  <2> QED
    BY <1>2, <2>1, <2>2 DEF EraseTakeover!Erase
<1>3. CASE EraseTakeover!LockJob(r)
  BY <1>3, TakeoverNone DEF TakeoverInv, JobsAgree, EraseTakeover!TypeOK,
    EraseTakeover!CompletedMeansDeleted, EraseTakeover!LockJob, EraseTakeover!jobVars
<1>4. CASE EraseTakeover!InlineCall(r)
  <2>1. /\ erasurePc[r] = "calling" /\ r \in EraseTakeover!Ops
        /\ erasurePc' = [erasurePc EXCEPT ![r] = "done"]
        /\ UNCHANGED <<now, began, auth, fence, attempts, work, called, profile, lastErased>>
    BY <1>4, TakeoverNone DEF EraseTakeover!InlineCall
  <2>2. CASE account' = FALSE /\ EraseTakeover!Completed(r)
    <3>1. JobsAgree(EraseTakeover!Ops, {b1, b2})'
      BY <2>1, <2>2, TakeoverNone DEF TakeoverInv, JobsAgree, EraseTakeover!Completed,
        EraseTakeover!TypeOK
    <3>2. EraseTakeover!TypeOK'
      BY <2>1, <2>2, TakeoverNone DEF TakeoverInv, EraseTakeover!Completed, EraseTakeover!TypeOK
    <3> QED
      BY <2>1, <2>2, <3>1, <3>2 DEF TakeoverInv, EraseTakeover!CompletedMeansDeleted
  <2>3. CASE account' \in {account, FALSE} /\ UNCHANGED <<erasureOp, erasureJob, holder>>
    <3>1. JobsAgree(EraseTakeover!Ops, {b1, b2})'
      BY <2>1, <2>3, TakeoverNone DEF TakeoverInv, JobsAgree, EraseTakeover!TypeOK
    <3>2. EraseTakeover!TypeOK'
      BY <2>1, <2>3, TakeoverNone DEF TakeoverInv, EraseTakeover!TypeOK
    <3> QED
      BY <2>1, <2>3, <3>1, <3>2 DEF TakeoverInv, EraseTakeover!TypeOK,
        EraseTakeover!CompletedMeansDeleted
  <2> QED
    BY <1>4, <2>2, <2>3 DEF EraseTakeover!InlineCall
<1> QED
  BY <1>1, <1>2, <1>3, <1>4

LEMMA TakeoverOperator ==
  ASSUME TakeoverInv, EraseTakeover!FenceAsOperator(o1)
  PROVE  TakeoverInv'
<1>1. JobsAgree(EraseTakeover!Ops, {b1, b2})'
  BY TakeoverNone DEF TakeoverInv, JobsAgree, EraseTakeover!FenceAsOperator,
    EraseTakeover!Commit, EraseTakeover!TypeOK
<1>2. EraseTakeover!TypeOK'
  BY TakeoverNone DEF TakeoverInv, EraseTakeover!FenceAsOperator, EraseTakeover!Commit,
    EraseTakeover!TypeOK
<1> QED
  BY <1>1, <1>2, TakeoverNone DEF TakeoverInv, JobsAgree, EraseTakeover!FenceAsOperator,
    EraseTakeover!Commit, EraseTakeover!CompletedMeansDeleted

LEMMA TakeoverWorkers ==
  ASSUME TakeoverInv, NEW w \in {b1, b2},
         (\E o \in EraseTakeover!Ops : EraseTakeover!ClaimJob(w, o))
           \/ EraseTakeover!CallProvider(w) \/ EraseTakeover!FinishJob(w)
           \/ EraseTakeover!FailJob(w)
  PROVE  TakeoverInv'
<1>1. ASSUME NEW o \in EraseTakeover!Ops, EraseTakeover!ClaimJob(w, o) PROVE TakeoverInv'
  <2>1. JobsAgree(EraseTakeover!Ops, {b1, b2})'
    BY <1>1, TakeoverNone DEF TakeoverInv, JobsAgree, EraseTakeover!ClaimJob
  <2>2. EraseTakeover!TypeOK'
    BY <1>1, TakeoverNone DEF TakeoverInv, EraseTakeover!ClaimJob, EraseTakeover!TypeOK
  <2> QED
    BY <1>1, <2>1, <2>2 DEF TakeoverInv, EraseTakeover!TypeOK, EraseTakeover!ClaimJob,
      EraseTakeover!CompletedMeansDeleted
<1>2. CASE EraseTakeover!CallProvider(w)
  BY <1>2, TakeoverNone DEF TakeoverInv, JobsAgree, EraseTakeover!TypeOK,
    EraseTakeover!CompletedMeansDeleted, EraseTakeover!CallProvider
<1>3. CASE EraseTakeover!FinishJob(w)
  <2>1. work[w] \in EraseTakeover!Ops
    BY <1>3 DEF TakeoverInv, EraseTakeover!TypeOK, EraseTakeover!FinishJob
  <2>2. JobsAgree(EraseTakeover!Ops, {b1, b2})'
    BY <1>3, <2>1, TakeoverNone DEF TakeoverInv, JobsAgree, EraseTakeover!FinishJob,
      EraseTakeover!Completed
  <2>3. EraseTakeover!TypeOK'
    BY <1>3, <2>1, TakeoverNone DEF TakeoverInv, EraseTakeover!FinishJob,
      EraseTakeover!Completed, EraseTakeover!TypeOK
  <2> QED
    BY <1>3, <2>1, <2>2, <2>3 DEF TakeoverInv, EraseTakeover!FinishJob,
      EraseTakeover!CompletedMeansDeleted
<1>4. CASE EraseTakeover!FailJob(w)
  <2>1. work[w] \in EraseTakeover!Ops
    BY <1>4 DEF TakeoverInv, EraseTakeover!TypeOK, EraseTakeover!FailJob
  <2>2. JobsAgree(EraseTakeover!Ops, {b1, b2})'
    BY <1>4, <2>1, TakeoverNone DEF TakeoverInv, JobsAgree, EraseTakeover!FailJob,
      EraseTakeover!Failed
  <2>3. EraseTakeover!TypeOK'
    <3>1. /\ erasureOp' \in [EraseTakeover!Ops -> {"none", "pending", "completed", "failed"}]
          /\ erasureJob' \in
               [EraseTakeover!Ops -> {"none", "pending", "running", "expired", "failed"}]
          /\ holder' \in [EraseTakeover!Ops -> {b1, b2} \cup {None}]
      BY <2>2 DEF JobsAgree
    <3>2. /\ work' \in [{b1, b2} -> EraseTakeover!Ops \cup {None}] /\ account' \in BOOLEAN
          /\ UNCHANGED <<now, erasurePc, began, auth, fence, attempts, called, profile,
                         lastErased>>
      BY <1>4 DEF TakeoverInv, EraseTakeover!TypeOK, EraseTakeover!FailJob
    <3> QED
      BY <3>1, <3>2 DEF TakeoverInv, EraseTakeover!TypeOK
  <2>4. \A o \in EraseTakeover!Ops : erasureOp'[o] = "completed" => erasureOp[o] = "completed"
    BY <1>4, <2>1 DEF TakeoverInv, EraseTakeover!FailJob, EraseTakeover!Failed,
      EraseTakeover!TypeOK
  <2> QED
    BY <1>4, <2>2, <2>3, <2>4 DEF TakeoverInv, EraseTakeover!FailJob, EraseTakeover!TypeOK,
      EraseTakeover!CompletedMeansDeleted
<1> QED
  BY <1>1, <1>2, <1>3, <1>4

LEMMA TakeoverJobs ==
  ASSUME TakeoverInv, NEW o \in EraseTakeover!Ops,
         EraseTakeover!SweepJob(o) \/ EraseTakeover!LeaseExpires(o) \/ EraseTakeover!Repair(o)
  PROVE  TakeoverInv'
<1>1. CASE EraseTakeover!SweepJob(o)
  BY <1>1, TakeoverNone DEF TakeoverInv, JobsAgree, EraseTakeover!TypeOK,
    EraseTakeover!CompletedMeansDeleted, EraseTakeover!SweepJob, EraseTakeover!Failed
<1>2. CASE EraseTakeover!LeaseExpires(o)
  BY <1>2, TakeoverNone DEF TakeoverInv, JobsAgree, EraseTakeover!TypeOK,
    EraseTakeover!CompletedMeansDeleted, EraseTakeover!LeaseExpires
<1>3. CASE EraseTakeover!Repair(o)
  BY <1>3, TakeoverNone DEF TakeoverInv, JobsAgree, EraseTakeover!TypeOK,
    EraseTakeover!CompletedMeansDeleted, EraseTakeover!Repair
<1> QED
  BY <1>1, <1>2, <1>3

LEMMA TakeoverStep == TakeoverInv /\ EraseTakeover!Next => TakeoverInv'
<1>1. ASSUME TakeoverInv, NEW a \in EraseTakeover!Actors, EraseTakeover!Begin(a)
      PROVE  TakeoverInv'
  BY <1>1, TakeoverNone DEF TakeoverInv, JobsAgree, EraseTakeover!TypeOK,
    EraseTakeover!CompletedMeansDeleted, EraseTakeover!Begin, EraseTakeover!jobVars
<1>2. ~EraseTakeover!Tick \/ ~TakeoverInv
  BY DEF EraseTakeover!Tick, TakeoverInv, EraseTakeover!TypeOK
<1> QED
  BY <1>1, <1>2, TakeoverErases, TakeoverOperator, TakeoverWorkers, TakeoverJobs
     DEF EraseTakeover!Next

LEMMA TakeoverStart == EraseTakeover!Init => TakeoverInv
BY TakeoverNone, DataAssumption DEF EraseTakeover!ErasureAssumption, EraseTakeover!Init,
  TakeoverInv, JobsAgree, EraseTakeover!TypeOK, EraseTakeover!CompletedMeansDeleted

(* Exports and erasures of a product's subjects. *)
LEMMA SubjectBounds ==
  ASSUME NEW k \in Cases
  PROVE  /\ None \notin RequestsOf(k) /\ None \notin SubjectWorkers /\ RetainOf(k) \in BOOLEAN
         /\ {"conflict", "error"} \cap RequestsOf(k) = {}
         /\ AttemptsOf(k) \in Nat \ {0} /\ LeaseTime \in Nat \ {0}
         /\ TimeoutOf(k) \in Nat \ {0} /\ ExportRetention \in Nat \ {0}
         /\ RetentionOf(k) \in Nat \ {0} /\ MaxDelay \in Nat \ {0}
         /\ KindsOf(k) \in [RequestsOf(k) -> {"erasure", "export"}]
         /\ FoundOf(k) \in [RequestsOf(k) -> SUBSET AccountsOf(k)]
BY DataAssumption DEF DS!DataSubjectAssumption

LEMMA SubjectStart ==
  ASSUME NEW k \in Cases, DS(k)!SubjectInit
  PROVE  SubjectInv(k)
<1>1. DS(k)!NoJob \in SubjectJobs(k) /\ DS(k)!NoOp \in OpsOf /\ DS(k)!Idle \in Transactions(k)
  BY SubjectBounds DEF DS!NoJob, DS!NoOp, DS!Idle, SubjectJobs, OpsOf, Transactions
<1>2. SubjectTypes(k)
  BY <1>1 DEF DS!SubjectInit, SubjectTypes, DS!NoPurge
<1> QED
  BY <1>2, SubjectBounds DEF DS!SubjectInit, SubjectInv, OperationSound, TransactionSound,
    DS!NoJob, DS!NoOp, DS!Idle, DS!NoPurge, DS!Signed

LEMMA NewJobs ==
  ASSUME NEW k \in Cases, NEW t \in {"execute", "finalize"}, NEW wait \in Nat, NEW d \in Nat
  PROVE  LET j == DS(k)!NewJob(t, wait, d) IN
         j \in SubjectJobs(k) /\ j.type = t /\ j.status = "pending" /\ j.attempts = 0
<1>1. DS(k)!NoJob \in SubjectJobs(k) /\ DS(k)!NoJob.attempts = 0
  BY SubjectBounds DEF DS!NoJob, SubjectJobs
<1> QED
  BY <1>1 DEF DS!NewJob, SubjectJobs

LEMMA OperationFields ==
  ASSUME NEW o \in OpsOf, NEW n \in Nat
  PROVE  /\ [o EXCEPT !.status = "pending", !.purgeAfter = n] \in OpsOf
         /\ [o EXCEPT !.status = "pending", !.purgeAfter = n].status = "pending"
BY DEF OpsOf

(* A POST changes what is its own. *)
LEMMA PostSound ==
  ASSUME NEW k \in Cases, SubjectInv(k), NEW r \in RequestsOf(k), DS(k)!LookUp(r) \/ DS(k)!Replay(r) \/ DS(k)!Accept(r)
  PROVE  SubjectInv(k)'
<1>1. CASE DS(k)!LookUp(r) \/ DS(k)!Replay(r)
  <2>1. /\ subjectPc' \in [RequestsOf(k) -> {"new", "locked", "done"}]
        /\ \A o \in RequestsOf(k) : subjectPc'[o] # "done" => subjectPc[o] # "done"
    BY <1>1 DEF SubjectInv, SubjectTypes, DS!LookUp, DS!Replay
  <2>2. UNCHANGED <<subjectOp, ident, subjectJob, tx, erased, subjectParts, subjectPurge>>
    BY <1>1 DEF DS!LookUp, DS!Replay
  <2>3. found' \in [RequestsOf(k) -> RequestsOf(k) \cup {None}]
    <3>1. \A S \in SUBSET RequestsOf(k) :
            (IF S = {} THEN None ELSE CHOOSE o \in S : TRUE) \in RequestsOf(k) \cup {None}
      OBVIOUS
    <3>2. CASE DS(k)!LookUp(r)
      <4>1. PICK S \in SUBSET RequestsOf(k) :
              found' = [found EXCEPT ![r] = IF S = {} THEN None ELSE CHOOSE o \in S : TRUE]
        BY <3>2 DEF DS!LookUp
      <4> QED
        BY <3>1, <4>1 DEF SubjectInv, SubjectTypes
    <3> QED
      BY <1>1, <3>2 DEF SubjectInv, SubjectTypes, DS!Replay
  <2>4. reply' \in [RequestsOf(k) -> RequestsOf(k) \cup {None, "conflict", "error"}]
    BY <1>1 DEF SubjectInv, SubjectTypes, DS!LookUp, DS!Replay
  <2>5. SubjectTypes(k)'
    BY <2>1, <2>2, <2>3, <2>4 DEF SubjectInv, SubjectTypes
  <2>6. ASSUME NEW o \in RequestsOf(k) PROVE OperationSound(k, o)'
    BY <2>1, <2>2 DEF SubjectInv, OperationSound, DS!Signed
  <2>7. ASSUME NEW w \in SubjectWorkers PROVE TransactionSound(k, w)'
    BY <2>2 DEF SubjectInv, TransactionSound
  <2> QED
    BY <2>2, <2>5, <2>6, <2>7 DEF SubjectInv
<1>2. CASE DS(k)!Accept(r)
  <2>1. /\ subjectPc' = [subjectPc EXCEPT ![r] = "done"] /\ subjectPc[r] # "done"
        /\ UNCHANGED <<found, ident, tx, erased, subjectParts, subjectPurge>>
    BY <1>2 DEF DS!Accept
  <2>2. CASE reply' = [reply EXCEPT ![r] = "error"] /\ UNCHANGED <<subjectOp, subjectJob>>
    <3>1. SubjectTypes(k)'
      BY <2>1, <2>2 DEF SubjectInv, SubjectTypes
    <3>2. ASSUME NEW o \in RequestsOf(k) PROVE OperationSound(k, o)'
      BY <2>1, <2>2 DEF SubjectInv, SubjectTypes, OperationSound, DS!Signed
    <3>3. ASSUME NEW w \in SubjectWorkers PROVE TransactionSound(k, w)'
      BY <2>1, <2>2 DEF SubjectInv, TransactionSound
    <3> QED
      BY <2>1, <3>1, <3>2, <3>3 DEF SubjectInv
  <2>3. CASE /\ reply' = [reply EXCEPT ![r] = r]
             /\ subjectOp' = [subjectOp EXCEPT ![r].status = "pending",
                                               ![r].purgeAfter = RetentionOf(k) + 1]
             /\ subjectJob' = [subjectJob EXCEPT ![r] = DS(k)!NewJob("execute", 0, 1)]
    <3>1. DS(k)!NewJob("execute", 0, 1) \in SubjectJobs(k)
      BY NewJobs
    <3>2. [subjectOp[r] EXCEPT !.status = "pending", !.purgeAfter = RetentionOf(k) + 1]
            \in OpsOf
      <4>1. subjectOp[r] \in OpsOf /\ RetentionOf(k) + 1 \in Nat
        BY SubjectBounds DEF SubjectInv, SubjectTypes
      <4> QED
        BY <4>1, OperationFields
    <3>3. SubjectTypes(k)'
      BY <2>1, <2>3, <3>1, <3>2 DEF SubjectInv, SubjectTypes
    <3>4. /\ subjectOp'[r].status = "pending" /\ subjectJob'[r] = DS(k)!NewJob("execute", 0, 1)
          /\ \A o \in RequestsOf(k) \ {r} : /\ subjectOp'[o] = subjectOp[o]
                                              /\ subjectJob'[o] = subjectJob[o]
      BY <2>3 DEF SubjectInv, SubjectTypes, OpsOf
    <3>5. \A o \in RequestsOf(k) : OperationSound(k, o)'
      <4>1. ASSUME NEW o \in RequestsOf(k) \ {r} PROVE OperationSound(k, o)'
        BY <2>1, <3>4 DEF SubjectInv, SubjectTypes, OperationSound, DS!Signed
      <4>2. OperationSound(k, r)'
        <5>1. DS(k)!NewJob("execute", 0, 1).type = "execute"
              /\ DS(k)!NewJob("execute", 0, 1).status = "pending"
              /\ DS(k)!NewJob("execute", 0, 1).attempts = 0
          BY NewJobs
        <5>2. erased'[r] = 0 /\ subjectPc'[r] = "done" /\ 0 < AttemptsOf(k)
          BY <2>1, SubjectBounds DEF SubjectInv, SubjectTypes, OperationSound
        <5> QED
          BY <3>4, <5>1, <5>2 DEF OperationSound, DS!Signed
      <4> QED
        BY <4>1, <4>2
    <3>6. ASSUME NEW w \in SubjectWorkers PROVE tx[w].op # r
      <4>1. OperationSound(k, r) /\ TransactionSound(k, w) /\ r # None
        BY SubjectBounds DEF SubjectInv
      <4> QED
        BY <2>1, <4>1 DEF OperationSound, TransactionSound
    <3>7. \A w \in SubjectWorkers : TransactionSound(k, w)'
      BY <2>1, <3>4, <3>6 DEF SubjectInv, SubjectTypes, Transactions, TransactionSound
    <3> QED
      BY <2>1, <3>3, <3>5, <3>7 DEF SubjectInv
  <2> QED
    BY <1>2, <2>2, <2>3 DEF DS!Accept
<1> QED
  BY <1>1, <1>2

-----------------------------------------------------------------------------
(* An operation and a transaction that a step does not touch. *)
Untouched(o) ==
  /\ subjectPc'[o] = subjectPc[o] /\ erased'[o] = erased[o] /\ ident'[o] = ident[o]
  /\ subjectOp'[o] = subjectOp[o] /\ subjectJob'[o] = subjectJob[o]

LEMMA UntouchedSound ==
  ASSUME NEW k \in Cases, NEW o \in RequestsOf(k), OperationSound(k, o), Untouched(o),
         o \in subjectPurge'.ops => o \in subjectPurge.ops
  PROVE  OperationSound(k, o)'
BY DEF OperationSound, Untouched, DS!Signed

LEMMA TransactionKept ==
  ASSUME NEW k \in Cases, SubjectInv(k), NEW w \in SubjectWorkers, tx'[w] = tx[w],
         tx[w].op # None => Untouched(tx[w].op)
  PROVE  TransactionSound(k, w)'
<1>1. TransactionSound(k, w)
  BY DEF SubjectInv
<1> QED
  BY <1>1 DEF TransactionSound, Untouched

LEMMA ClaimedJob ==
  ASSUME NEW k \in Cases, NEW j \in SubjectJobs(k), NEW w \in SubjectWorkers, NEW a \in 0..AttemptsOf(k),
         NEW l \in Nat
  PROVE  [j EXCEPT !.status = "running", !.holder = w, !.lease = l, !.attempts = a] \in SubjectJobs(k)
BY DEF SubjectJobs

LEMMA JobFields ==
  ASSUME NEW k \in Cases, NEW j \in SubjectJobs(k)
  PROVE  /\ [j EXCEPT !.status = "pending", !.holder = None] \in SubjectJobs(k)
         /\ [j EXCEPT !.status = "failed"] \in SubjectJobs(k)
         /\ [j EXCEPT !.holder = None] \in SubjectJobs(k)
         /\ j.attempts \in 0..AttemptsOf(k) /\ j.lease \in Nat /\ j.runAfter \in Nat
         /\ j.delay \in Nat
BY DEF SubjectJobs

LEMMA ClaimSound ==
  ASSUME NEW k \in Cases, SubjectInv(k), NEW w \in SubjectWorkers, NEW o \in RequestsOf(k), DS(k)!Claim(w, o)
  PROVE  SubjectInv(k)'
<1>1. /\ subjectJob[o] \in SubjectJobs(k) /\ subjectJob[o].status = "pending"
      /\ subjectJob[o].attempts \in 0..AttemptsOf(k)
      /\ subjectJob[o].attempts < AttemptsOf(k)
  <2>1. subjectJob[o] \in SubjectJobs(k) /\ subjectJob[o].status = "pending"
    BY DEF SubjectInv, SubjectTypes, DS!Claim
  <2> QED
    BY <2>1 DEF SubjectInv, OperationSound, SubjectJobs
<1>2. PICK a \in 0..AttemptsOf(k) : a = subjectJob[o].attempts + 1
  BY <1>1, SubjectBounds
<1>3. PICK j \in SubjectJobs(k) :
        /\ subjectJob' = [subjectJob EXCEPT ![o] = j]
        /\ j.status = "running" /\ j.type = subjectJob[o].type
  <2> DEFINE j == [subjectJob[o] EXCEPT !.status = "running", !.holder = w, !.lease = LeaseTime,
                                        !.attempts = a]
  <2>1. subjectJob' = [subjectJob EXCEPT ![o] = j]
    BY <1>2 DEF SubjectInv, SubjectTypes, DS!Claim
  <2>2. j \in SubjectJobs(k)
    BY <1>1, SubjectBounds, ClaimedJob
  <2>3. j.status = "running" /\ j.type = subjectJob[o].type
    BY <1>1 DEF SubjectJobs
  <2> QED
    BY <2>1, <2>2, <2>3
<1>4. UNCHANGED <<subjectPc, found, reply, subjectOp, ident, tx, erased, subjectParts, subjectPurge>>
  BY DEF DS!Claim
<1>5. SubjectTypes(k)'
  BY <1>3, <1>4 DEF SubjectInv, SubjectTypes
<1>6. subjectJob'[o] = j /\ \A q \in RequestsOf(k) \ {o} : Untouched(q)
  BY <1>3, <1>4 DEF SubjectInv, SubjectTypes, Untouched
<1>7. ASSUME NEW q \in RequestsOf(k) PROVE OperationSound(k, q)'
  <2>1. CASE q # o
    BY <1>4, <1>6, <2>1, UntouchedSound DEF SubjectInv
  <2>2. CASE q = o
    BY <1>1, <1>3, <1>4, <1>6, <2>2 DEF SubjectInv, OperationSound, DS!Signed
  <2> QED
    BY <2>1, <2>2
<1>8. ASSUME NEW v \in SubjectWorkers PROVE TransactionSound(k, v)'
  <2>1. tx[v].op \in RequestsOf(k) \cup {None} /\ tx[v].op # o
    BY <1>1, SubjectBounds DEF SubjectInv, SubjectTypes, Transactions, TransactionSound
  <2> QED
    BY <1>4, <1>6, <2>1, TransactionKept
<1> QED
  BY <1>4, <1>5, <1>7, <1>8 DEF SubjectInv

(* An attempt that is over, with no other transaction on its operation. *)
LEMMA AttemptEnds ==
  ASSUME NEW k \in Cases, SubjectInv(k), NEW o \in RequestsOf(k), DS(k)!Unfinished(o),
         subjectJob[o].status = "running",
         UNCHANGED <<subjectPc, found, reply, ident, erased, subjectParts, subjectPurge>>,
         tx' \in [SubjectWorkers -> Transactions(k)],
         \A w \in SubjectWorkers : tx'[w] = DS(k)!Idle \/ (tx'[w] = tx[w] /\ tx[w].op # o)
  PROVE  SubjectInv(k)'
<1>0. subjectJob[o] \in SubjectJobs(k) /\ subjectOp[o] \in OpsOf
  BY DEF SubjectInv, SubjectTypes
<1>1. PICK j \in SubjectJobs(k), p \in OpsOf :
        /\ subjectJob' = [subjectJob EXCEPT ![o] = j] /\ subjectOp' = [subjectOp EXCEPT ![o] = p]
        /\ j.type = subjectJob[o].type
        /\ \/ j.status = "pending" /\ j.attempts < AttemptsOf(k) /\ p.status = subjectOp[o].status
           \/ /\ j.status = "failed"
              /\ p.status = IF subjectOp[o].status = "pending" THEN "failed" ELSE subjectOp[o].status
  <2>1. CASE subjectJob[o].attempts < AttemptsOf(k)
    <3> DEFINE j == [subjectJob[o] EXCEPT !.status = "pending", !.holder = None]
    <3>1. subjectJob' = [subjectJob EXCEPT ![o] = j]
      BY <2>1 DEF SubjectInv, SubjectTypes, DS!Unfinished
    <3>2. subjectOp' = [subjectOp EXCEPT ![o] = subjectOp[o]]
      BY <2>1 DEF SubjectInv, SubjectTypes, DS!Unfinished
    <3>3. j \in SubjectJobs(k)
      BY <1>0, JobFields
    <3>4. j.type = subjectJob[o].type /\ j.status = "pending" /\ j.attempts < AttemptsOf(k)
      BY <1>0, <2>1 DEF SubjectJobs
    <3> QED
      BY <1>0, <3>1, <3>2, <3>3, <3>4
  <2>2. CASE ~(subjectJob[o].attempts < AttemptsOf(k))
    <3> DEFINE j == [subjectJob[o] EXCEPT !.status = "failed"]
               p == IF subjectOp[o].status = "pending" THEN [subjectOp[o] EXCEPT !.status = "failed"]
                    ELSE subjectOp[o]
    <3>1. subjectJob' = [subjectJob EXCEPT ![o] = j]
      BY <2>2 DEF SubjectInv, SubjectTypes, DS!Unfinished, DS!JobFailed
    <3>2. subjectOp' = [subjectOp EXCEPT ![o] = p]
      BY <2>2 DEF SubjectInv, SubjectTypes, DS!Unfinished, DS!JobFailed
    <3>3. j \in SubjectJobs(k)
      BY <1>0, JobFields
    <3>4. j.type = subjectJob[o].type /\ j.status = "failed"
      BY <1>0, <2>2 DEF SubjectJobs
    <3>5. p \in OpsOf /\ p.status = IF subjectOp[o].status = "pending" THEN "failed"
                                    ELSE subjectOp[o].status
      BY <1>0 DEF OpsOf
    <3> QED
      BY <3>1, <3>2, <3>3, <3>4, <3>5
  <2> QED
    BY <2>1, <2>2
<1>2. SubjectTypes(k)'
  BY <1>1 DEF SubjectInv, SubjectTypes
<1>3. subjectJob'[o] = j /\ subjectOp'[o] = p /\ \A q \in RequestsOf(k) \ {o} : Untouched(q)
  BY <1>1 DEF SubjectInv, SubjectTypes, Untouched
<1>4. ASSUME NEW q \in RequestsOf(k) PROVE OperationSound(k, q)'
  <2>1. CASE q # o
    BY <1>3, <2>1, UntouchedSound DEF SubjectInv
  <2>2. CASE q = o
    BY <1>1, <1>3, <2>2 DEF SubjectInv, OperationSound, DS!Signed
  <2> QED
    BY <2>1, <2>2
<1>5. ASSUME NEW w \in SubjectWorkers PROVE TransactionSound(k, w)'
  <2>1. CASE tx'[w] = DS(k)!Idle
    BY <2>1 DEF TransactionSound, DS!Idle
  <2>2. CASE tx'[w] = tx[w] /\ tx[w].op # o
    <3>1. tx[w].op \in RequestsOf(k) \cup {None}
      BY DEF SubjectInv, SubjectTypes, Transactions
    <3> QED
      BY <1>3, <2>2, <3>1, TransactionKept
  <2> QED
    BY <2>1, <2>2
<1> QED
  BY <1>2, <1>4, <1>5 DEF SubjectInv

LEMMA IdleTyped == \A k \in Cases : DS(k)!Idle \in Transactions(k)
BY DEF DS!Idle, Transactions

LEMMA SweepSound ==
  ASSUME NEW k \in Cases, SubjectInv(k), NEW o \in RequestsOf(k), DS(k)!Sweep(o)
  PROVE  SubjectInv(k)'
<1>1. /\ DS(k)!Unfinished(o) /\ subjectJob[o].status = "running"
      /\ UNCHANGED <<subjectPc, found, reply, ident, tx, erased, subjectParts, subjectPurge>>
      /\ \A w \in SubjectWorkers : tx[w].op # o
  BY DEF DS!Sweep, DS!Expired, DS!Locked
<1>2. tx' \in [SubjectWorkers -> Transactions(k)]
  BY <1>1 DEF SubjectInv, SubjectTypes
<1> QED
  BY <1>1, <1>2, AttemptEnds

LEMMA HandlerFailsSound ==
  ASSUME NEW k \in Cases, SubjectInv(k), NEW w \in SubjectWorkers, NEW o \in RequestsOf(k), DS(k)!HandlerFails(w, o)
  PROVE  SubjectInv(k)'
<1>1. /\ DS(k)!Unfinished(o) /\ subjectJob[o].status = "running" /\ subjectJob[o].holder = w
      /\ UNCHANGED <<subjectPc, found, reply, ident, erased, subjectParts, subjectPurge>>
      /\ tx' = [tx EXCEPT ![w] = DS(k)!Idle]
  BY DEF DS!HandlerFails, DS!Leased
<1>2. tx' \in [SubjectWorkers -> Transactions(k)] /\ tx'[w] = DS(k)!Idle
  BY <1>1, IdleTyped DEF SubjectInv, SubjectTypes
<1>3. \A v \in SubjectWorkers \ {w} : tx'[v] = tx[v] /\ tx[v].op # o
  BY <1>1, SubjectBounds DEF SubjectInv, SubjectTypes, TransactionSound
<1> QED
  BY <1>1, <1>2, <1>3, AttemptEnds

LEMMA RollbackSound ==
  ASSUME NEW k \in Cases, SubjectInv(k), NEW w \in SubjectWorkers, DS(k)!Rollback(w)
  PROVE  SubjectInv(k)'
<1> DEFINE o == tx[w].op
<1>1. /\ o \in RequestsOf(k) /\ subjectJob[o].status = "running" /\ subjectJob[o].holder = w
      /\ tx' = [tx EXCEPT ![w] = DS(k)!Idle]
      /\ UNCHANGED <<subjectPc, found, reply, subjectOp, ident, erased, subjectParts, subjectPurge>>
  BY DEF SubjectInv, SubjectTypes, Transactions, TransactionSound, DS!Rollback
<1>2. PICK j \in SubjectJobs(k) :
        /\ subjectJob' = [subjectJob EXCEPT ![o] = j]
        /\ j.status = "running" /\ j.type = subjectJob[o].type
  <2>1. subjectJob[o] \in SubjectJobs(k)
    BY <1>1 DEF SubjectInv, SubjectTypes
  <2> DEFINE j == [subjectJob[o] EXCEPT !.holder = None]
  <2>2. subjectJob' = [subjectJob EXCEPT ![o] = j]
    BY <1>1 DEF SubjectInv, SubjectTypes, DS!Rollback
  <2>3. j \in SubjectJobs(k)
    BY <2>1, JobFields
  <2>4. j.status = "running" /\ j.type = subjectJob[o].type
    BY <1>1, <2>1 DEF SubjectJobs
  <2> QED
    BY <2>2, <2>3, <2>4
<1>3. SubjectTypes(k)'
  BY <1>1, <1>2, IdleTyped DEF SubjectInv, SubjectTypes
<1>4. subjectJob'[o] = j /\ \A q \in RequestsOf(k) \ {o} : Untouched(q)
  BY <1>1, <1>2 DEF SubjectInv, SubjectTypes, Untouched
<1>5. ASSUME NEW q \in RequestsOf(k) PROVE OperationSound(k, q)'
  <2>1. CASE q # o
    BY <1>1, <1>4, <2>1, UntouchedSound DEF SubjectInv
  <2>2. CASE q = o
    BY <1>1, <1>2, <1>4, <2>2 DEF SubjectInv, OperationSound, DS!Signed
  <2> QED
    BY <2>1, <2>2
<1>6. ASSUME NEW v \in SubjectWorkers PROVE TransactionSound(k, v)'
  <2>1. CASE v = w
    BY <1>1, <2>1 DEF SubjectInv, SubjectTypes, TransactionSound, DS!Idle
  <2>2. CASE v # w
    <3>1. tx'[v] = tx[v] /\ tx[v].op \in RequestsOf(k) \cup {None} /\ tx[v].op # o
      BY <1>1, <2>2, SubjectBounds DEF SubjectInv, SubjectTypes, Transactions, TransactionSound
    <3> QED
      BY <1>4, <3>1, TransactionKept
  <2> QED
    BY <2>1, <2>2
<1> QED
  BY <1>1, <1>3, <1>5, <1>6 DEF SubjectInv

(* What the handler reads decides what it will write. *)
LEMMA OutcomeTyped ==
  ASSUME NEW k \in Cases, NEW o \in RequestsOf(k), NEW out \in DS(k)!Outcomes(o)
  PROVE  /\ out \in {"nothing", "export", "notFound", "fail", "wait", "sign", "eraseAndSign",
                    "eraseAndWait"}
         /\ out = "nothing" <=> subjectOp[o].status # "pending"
         /\ out \in {"eraseAndSign", "eraseAndWait"} =>
              KindsOf(k)[o] = "erasure" /\ subjectJob[o].type # "finalize"
         /\ out \in {"sign", "wait"} => KindsOf(k)[o] = "erasure" /\ subjectJob[o].type = "finalize"
         /\ out \in {"export", "notFound"} => KindsOf(k)[o] = "export"
         /\ out = "eraseAndSign" => RetainOf(k) \/ FoundOf(k)[o] = {}
         /\ out = "sign" => \A s \in FoundOf(k)[o] : ident[o][s] = "completed"
<1>1. KindsOf(k)[o] \in {"erasure", "export"}
  BY SubjectBounds
<1>2. DS(k)!Check(o) \in {"fail", "wait", "sign"}
  BY DEF DS!Check
<1>3. DS(k)!Check(o) = "sign" => \A s \in FoundOf(k)[o] : ident[o][s] = "completed"
  BY DEF DS!Check
<1> QED
  BY <1>1, <1>2, <1>3 DEF DS!Outcomes, DS!Exported

LEMMA BeginSound ==
  ASSUME NEW k \in Cases, SubjectInv(k), NEW w \in SubjectWorkers, NEW o \in RequestsOf(k), DS(k)!Begin(w, o)
  PROVE  SubjectInv(k)'
<1>1. PICK out \in DS(k)!Outcomes(o), l \in Nat :
        tx' = [tx EXCEPT ![w] = [op |-> o, out |-> out, left |-> l]]
  <2>1. PICK out \in DS(k)!Outcomes(o) :
          tx' = [tx EXCEPT ![w] = [op |-> o, out |-> out,
                left |-> IF out = "export" THEN ExportRetention
                         ELSE IF out = "eraseAndWait" THEN TimeoutOf(k) ELSE 0]]
    BY DEF DS!Begin
  <2>2. PICK l \in Nat : l = IF out = "export" THEN ExportRetention
                             ELSE IF out = "eraseAndWait" THEN TimeoutOf(k) ELSE 0
    BY SubjectBounds
  <2> QED
    BY <2>1, <2>2
<1>2. /\ subjectJob[o].status = "running" /\ subjectJob[o].holder = w
      /\ UNCHANGED <<subjectPc, found, reply, subjectOp, ident, subjectJob, erased, subjectParts,
                     subjectPurge>>
  BY DEF DS!Begin, DS!Leased
<1>3. [op |-> o, out |-> out, left |-> l] \in Transactions(k)
  BY OutcomeTyped DEF Transactions
<1>4. SubjectTypes(k)'
  BY <1>1, <1>2, <1>3 DEF SubjectInv, SubjectTypes
<1>5. \A q \in RequestsOf(k) : Untouched(q)
  BY <1>2 DEF Untouched
<1>6. ASSUME NEW v \in SubjectWorkers PROVE TransactionSound(k, v)'
  <2>1. CASE v = w
    <3>1. tx'[w].op = o /\ tx'[w].out = out
      BY <1>1 DEF SubjectInv, SubjectTypes
    <3> QED
      BY <1>2, <2>1, <3>1, OutcomeTyped, SubjectBounds DEF TransactionSound
  <2>2. CASE v # w
    <3>1. tx'[v] = tx[v] /\ tx[v].op \in RequestsOf(k) \cup {None}
      BY <1>1, <2>2 DEF SubjectInv, SubjectTypes, Transactions
    <3> QED
      BY <1>5, <3>1, TransactionKept
  <2> QED
    BY <2>1, <2>2
<1> QED
  BY <1>2, <1>4, <1>5, <1>6, UntouchedSound DEF SubjectInv

LEMMA IdentityEndsSound ==
  ASSUME NEW k \in Cases, SubjectInv(k), NEW o \in RequestsOf(k), NEW s \in AccountsOf(k), DS(k)!IdentityEnds(o, s)
  PROVE  SubjectInv(k)'
<1>1. /\ UNCHANGED <<subjectPc, found, reply, subjectOp, subjectJob, tx, erased, subjectParts,
                     subjectPurge>>
      /\ ident' \in [RequestsOf(k) -> [AccountsOf(k) -> {"none", "pending", "completed", "failed"}]]
      /\ \A q \in RequestsOf(k), u \in AccountsOf(k) :
           ident[q][u] = "completed" => ident'[q][u] = "completed"
  BY DEF SubjectInv, SubjectTypes, DS!IdentityEnds
<1>2. \A q \in RequestsOf(k) : FoundOf(k)[q] \subseteq AccountsOf(k)
  BY SubjectBounds
<1>3. SubjectTypes(k)'
  BY <1>1 DEF SubjectInv, SubjectTypes
<1>4. ASSUME NEW q \in RequestsOf(k) PROVE OperationSound(k, q)'
  BY <1>1, <1>2 DEF SubjectInv, OperationSound, DS!Signed
<1>5. ASSUME NEW w \in SubjectWorkers PROVE TransactionSound(k, w)'
  <2>1. TransactionSound(k, w) /\ tx[w].op \in RequestsOf(k) \cup {None}
    BY DEF SubjectInv, SubjectTypes, Transactions
  <2> QED
    BY <1>1, <1>2, <2>1 DEF TransactionSound
<1> QED
  BY <1>1, <1>3, <1>4, <1>5 DEF SubjectInv

LEMMA NextJobTyped ==
  ASSUME NEW k \in Cases, SubjectTypes(k), NEW o \in RequestsOf(k), NEW out, NEW d \in Nat
  PROVE  LET j == DS(k)!NextJob(o, out, d) IN
         /\ j \in SubjectJobs(k)
         /\ IF out \in {"wait", "eraseAndWait"}
            THEN j.type = "finalize" /\ j.status = "pending" /\ j.attempts = 0
            ELSE j.status = "none"
<1>1. DS(k)!NoJob \in SubjectJobs(k) /\ DS(k)!NoJob.status = "none"
  BY SubjectBounds DEF DS!NoJob, SubjectJobs
<1>2. subjectJob[o] \in SubjectJobs(k)
  BY DEF SubjectTypes
<1>3. subjectJob[o].delay \in Nat
  BY <1>2, JobFields
<1>4. PICK delay \in Nat : delay = IF subjectJob[o].type = "execute" THEN 1
                                   ELSE DS(k)!Lower(2 * subjectJob[o].delay, MaxDelay)
  BY <1>3, SubjectBounds DEF DS!Lower
<1>5. DS(k)!Lower(delay, d) \in Nat
  BY DEF DS!Lower
<1>6. DS(k)!NextJob(o, out, d) = IF out \in {"wait", "eraseAndWait"}
                              THEN DS(k)!NewJob("finalize", DS(k)!Lower(delay, d), delay) ELSE DS(k)!NoJob
  BY <1>4 DEF DS!NextJob
<1> QED
  BY <1>1, <1>5, <1>6, NewJobs

LEMMA CommitSound ==
  ASSUME NEW k \in Cases, SubjectInv(k), NEW w \in SubjectWorkers, NEW o \in RequestsOf(k), DS(k)!Commit(w, o)
  PROVE  SubjectInv(k)'
<1> DEFINE out == tx[w].out
           erases == out \in {"eraseAndSign", "eraseAndWait"}
           written == IF out \in DS(k)!Signing THEN "signed"
                      ELSE IF out = "fail" THEN "failed" ELSE subjectOp[o].status
<1>1. /\ tx[w].op = o /\ subjectJob[o].status = "running" /\ subjectJob[o].holder = w
      /\ tx' = [tx EXCEPT ![w] = DS(k)!Idle] /\ UNCHANGED <<subjectPc, found, reply>>
      /\ subjectPurge' = [subjectPurge EXCEPT !.jobs = @ \ {o}]
      /\ erased' = IF erases THEN [erased EXCEPT ![o] = @ + 1] ELSE erased
      /\ subjectParts' = IF out = "export" THEN subjectParts \union {o} ELSE subjectParts
  BY DEF DS!Commit, DS!Leased
<1>2. /\ tx[w] \in Transactions(k) /\ tx[w].left \in Nat /\ subjectOp[o] \in OpsOf
      /\ subjectOp[o].deadline \in Nat /\ subjectOp[o].expires \in Nat
      /\ subjectOp[o].status \in {"none", "pending", "signed", "failed", "purged"}
  <2>1. tx[w] \in Transactions(k) /\ subjectOp[o] \in OpsOf
    BY DEF SubjectInv, SubjectTypes
  <2> QED
    BY <2>1 DEF Transactions, OpsOf
<1>3. PICK d \in Nat : d = IF out = "eraseAndWait" THEN tx[w].left ELSE subjectOp[o].deadline
  BY <1>2
<1>4. PICK j \in SubjectJobs(k) :
        /\ subjectJob' = [subjectJob EXCEPT ![o] = j]
        /\ IF out \in {"wait", "eraseAndWait"}
           THEN j.type = "finalize" /\ j.status = "pending" /\ j.attempts = 0
           ELSE j.status = "none"
  <2> DEFINE n == DS(k)!NextJob(o, out, d)
  <2>1. subjectJob' = [subjectJob EXCEPT ![o] = n]
    BY <1>3 DEF DS!Commit
  <2>2. /\ n \in SubjectJobs(k)
        /\ IF out \in {"wait", "eraseAndWait"}
           THEN n.type = "finalize" /\ n.status = "pending" /\ n.attempts = 0
           ELSE n.status = "none"
    BY NextJobTyped DEF SubjectInv
  <2> HIDE DEF n
  <2> USE <2>2
  <2> WITNESS n \in SubjectJobs(k)
  <2> QED
    BY <2>1
<1>5. PICK p \in OpsOf : subjectOp' = [subjectOp EXCEPT ![o] = p] /\ p.status = written
  <2>1. PICK e \in Nat : e = IF out = "export" THEN tx[w].left
                             ELSE IF out \in DS(k)!Signing THEN 0 ELSE subjectOp[o].expires
    BY <1>2
  <2>2. PICK st \in {"none", "pending", "signed", "failed", "purged"} : st = written
    BY <1>2
  <2> DEFINE r == [subjectOp[o] EXCEPT !.deadline = d, !.expires = e, !.status = st]
  <2>3. subjectOp' = [subjectOp EXCEPT ![o] = r]
    BY <1>2, <1>3, <2>1, <2>2 DEF SubjectInv, SubjectTypes, OpsOf, DS!Commit
  <2>4. r \in OpsOf /\ r.status = st
    BY <1>2 DEF OpsOf
  <2> HIDE DEF r
  <2> QED
    BY <2>2, <2>3, <2>4
<1>6. PICK i \in [AccountsOf(k) -> {"none", "pending", "completed", "failed"}] :
        /\ ident' = [ident EXCEPT ![o] = i]
        /\ ~erases => i = ident[o]
        /\ erases /\ (RetainOf(k) \/ FoundOf(k)[o] = {}) => \A s \in FoundOf(k)[o] : i[s] = "completed"
  <2>1. CASE ~erases
    BY <2>1 DEF SubjectInv, SubjectTypes, DS!Commit
  <2>2. CASE erases
    <3> DEFINE i == [s \in AccountsOf(k) |-> IF s \notin FoundOf(k)[o] THEN "none"
                                        ELSE IF RetainOf(k) THEN "completed" ELSE "pending"]
    <3>1. ident' = [ident EXCEPT ![o] = i]
      BY <2>2 DEF DS!Commit
    <3>2. i \in [AccountsOf(k) -> {"none", "pending", "completed", "failed"}]
      OBVIOUS
    <3>3. RetainOf(k) \/ FoundOf(k)[o] = {} => \A s \in FoundOf(k)[o] : i[s] = "completed"
      BY SubjectBounds
    <3> HIDE DEF i
    <3> QED
      BY <2>2, <3>1, <3>2, <3>3
  <2> QED
    BY <2>1, <2>2
<1>7. SubjectTypes(k)'
  <2>1. /\ erased' \in [RequestsOf(k) -> Nat] /\ subjectParts' \subseteq RequestsOf(k)
        /\ subjectPurge' \in [ops : SUBSET RequestsOf(k), jobs : SUBSET RequestsOf(k)]
    <3>1. erased' \in [RequestsOf(k) -> Nat]
      BY <1>1 DEF SubjectInv, SubjectTypes
    <3>2. subjectParts' \subseteq RequestsOf(k)
      BY <1>1 DEF SubjectInv, SubjectTypes
    <3>3. subjectPurge' \in [ops : SUBSET RequestsOf(k), jobs : SUBSET RequestsOf(k)]
      BY <1>1 DEF SubjectInv, SubjectTypes
    <3> QED
      BY <3>1, <3>2, <3>3
  <2> DEFINE ops == [RequestsOf(k) -> OpsOf]
             jobs == [RequestsOf(k) -> SubjectJobs(k)]
  <2>2. subjectOp' \in ops
    <3>1. subjectOp \in ops
      BY DEF SubjectInv, SubjectTypes
    <3> QED
      BY <1>5, <3>1
  <2>3. subjectJob' \in jobs
    <3>1. subjectJob \in jobs
      BY DEF SubjectInv, SubjectTypes
    <3> QED
      BY <1>4, <3>1
  <2>4. tx' \in [SubjectWorkers -> Transactions(k)]
    <3>1. DS(k)!Idle \in Transactions(k)
      BY IdleTyped
    <3> QED
      BY <1>1, <3>1 DEF SubjectInv, SubjectTypes
  <2> QED
    BY <1>1, <1>6, <2>1, <2>2, <2>3, <2>4 DEF SubjectInv, SubjectTypes
<1>8. /\ subjectJob'[o] = j /\ subjectOp'[o] = p /\ ident'[o] = i
      /\ erased'[o] = IF erases THEN erased[o] + 1 ELSE erased[o]
      /\ \A q \in RequestsOf(k) \ {o} : Untouched(q)
  BY <1>1, <1>4, <1>5, <1>6 DEF SubjectInv, SubjectTypes, Untouched
<1>9. /\ subjectPurge'.ops = subjectPurge.ops /\ subjectPurge'.jobs \subseteq subjectPurge'.ops
  BY <1>1 DEF SubjectInv, SubjectTypes
<1>10. OperationSound(k, o)'
  <2>1. OperationSound(k, o) /\ TransactionSound(k, w) /\ erased[o] \in Nat /\ o # None
    BY SubjectBounds DEF SubjectInv, SubjectTypes
  <2>2. KindsOf(k)[o] \in {"erasure", "export"}
    BY SubjectBounds
  <2>3. subjectPc'[o] = "done"
    BY <1>1, <2>1 DEF OperationSound
  <2>4. CASE out = "nothing"
    BY <1>1, <1>4, <1>5, <1>6, <1>8, <2>1, <2>3, <2>4
       DEF OperationSound, TransactionSound, DS!Signed, DS!Signing
  <2>5. CASE out \in {"export", "notFound", "fail"}
    BY <1>1, <1>4, <1>5, <1>8, <2>1, <2>3, <2>5
       DEF OperationSound, TransactionSound, DS!Signed, DS!Signing
  <2>6. CASE out \in {"wait", "sign"}
    BY <1>1, <1>4, <1>5, <1>6, <1>8, <2>1, <2>3, <2>6, SubjectBounds
       DEF OperationSound, TransactionSound, DS!Signed, DS!Signing
  <2>7. CASE erases
    BY <1>1, <1>4, <1>5, <1>6, <1>8, <2>1, <2>3, <2>7, SubjectBounds
       DEF OperationSound, TransactionSound, DS!Signed, DS!Signing
  <2>8. out # "none"
    BY <1>1, <2>1 DEF TransactionSound
  <2> QED
    BY <1>2, <2>4, <2>5, <2>6, <2>7, <2>8 DEF Transactions
<1>11. ASSUME NEW q \in RequestsOf(k) PROVE OperationSound(k, q)'
  BY <1>8, <1>9, <1>10, UntouchedSound DEF SubjectInv
<1>12. ASSUME NEW v \in SubjectWorkers PROVE TransactionSound(k, v)'
  <2>1. CASE v = w
    BY <1>1, <2>1 DEF SubjectInv, SubjectTypes, TransactionSound, DS!Idle
  <2>2. CASE v # w
    <3>1. tx'[v] = tx[v] /\ tx[v].op \in RequestsOf(k) \cup {None} /\ tx[v].op # o
      BY <1>1, <2>2, SubjectBounds DEF SubjectInv, SubjectTypes, Transactions, TransactionSound
    <3> QED
      BY <1>8, <3>1, TransactionKept
  <2> QED
    BY <2>1, <2>2
<1> QED
  BY <1>7, <1>9, <1>11, <1>12 DEF SubjectInv

(* The purge. *)
LEMMA PurgeSelectSound ==
  ASSUME NEW k \in Cases, SubjectInv(k), DS(k)!PurgeSelect
  PROVE  SubjectInv(k)'
<1>1. PICK S \in SUBSET RequestsOf(k), J \in SUBSET RequestsOf(k) :
        subjectPurge' = [ops |-> S, jobs |-> J] /\ J \subseteq S /\ \A o \in S : subjectOp[o].status # "none"
  <2> DEFINE S == {o \in RequestsOf(k) : DS(k)!Exists(o) /\ subjectOp[o].purgeAfter = 0}
             J == {o \in S : subjectJob[o] # DS(k)!NoJob}
  <2>1. subjectPurge' = [ops |-> S, jobs |-> J]
    BY DEF DS!PurgeSelect
  <2>2. S \in SUBSET RequestsOf(k) /\ J \in SUBSET RequestsOf(k) /\ J \subseteq S
        /\ \A o \in S : subjectOp[o].status # "none"
    BY DEF DS!Exists
  <2> HIDE DEF S, J
  <2> QED
    BY <2>1, <2>2
<1>2. UNCHANGED <<subjectPc, found, reply, subjectOp, ident, subjectJob, tx, erased, subjectParts>>
  BY DEF DS!PurgeSelect
<1>3. SubjectTypes(k)'
  BY <1>1, <1>2 DEF SubjectInv, SubjectTypes
<1>4. ASSUME NEW o \in RequestsOf(k) PROVE OperationSound(k, o)'
  BY <1>1, <1>2 DEF SubjectInv, OperationSound, DS!Signed
<1>5. ASSUME NEW w \in SubjectWorkers PROVE TransactionSound(k, w)'
  BY <1>2, TransactionKept DEF Untouched
<1> QED
  BY <1>1, <1>3, <1>4, <1>5 DEF SubjectInv

LEMMA PurgeDeleteSound ==
  ASSUME NEW k \in Cases, SubjectInv(k), DS(k)!PurgeDelete
  PROVE  SubjectInv(k)'
<1> DEFINE gone == [DS(k)!NoOp EXCEPT !.status = "purged"]
<1>1. /\ subjectJob' = [o \in RequestsOf(k) |-> IF o \in subjectPurge.jobs THEN DS(k)!NoJob
                                                  ELSE subjectJob[o]]
      /\ subjectOp' = [o \in RequestsOf(k) |-> IF o \in subjectPurge.ops THEN gone
                                                 ELSE subjectOp[o]]
      /\ subjectParts' = subjectParts \ subjectPurge.ops /\ subjectPurge' = DS(k)!NoPurge
      /\ UNCHANGED <<subjectPc, found, reply, ident, tx, erased>>
      /\ \A o \in subjectPurge.ops : ~DS(k)!Locked(o)
  BY DEF DS!PurgeDelete
<1>2. gone \in OpsOf /\ gone.status = "purged" /\ DS(k)!NoJob \in SubjectJobs(k) /\ DS(k)!NoJob.status = "none"
  BY SubjectBounds DEF DS!NoOp, OpsOf, DS!NoJob, SubjectJobs
<1> HIDE DEF gone
<1>3. SubjectTypes(k)'
  BY <1>1, <1>2 DEF SubjectInv, SubjectTypes, DS!NoPurge
<1>4. ASSUME NEW o \in RequestsOf(k) PROVE OperationSound(k, o)'
  <2>1. CASE o \in subjectPurge.ops
    <3>1. subjectOp'[o].status = "purged"
      BY <1>1, <1>2, <2>1
    <3>2. subjectJob'[o] = subjectJob[o] \/ subjectJob'[o].status = "none"
      BY <1>1, <1>2
    <3> QED
      BY <1>1, <2>1, <3>1, <3>2 DEF SubjectInv, OperationSound, DS!Signed
  <2>2. CASE o \notin subjectPurge.ops
    <3>1. Untouched(o) /\ o \notin subjectPurge'.ops
      BY <1>1, <2>2 DEF SubjectInv, Untouched, DS!NoPurge
    <3> QED
      BY <3>1, UntouchedSound DEF SubjectInv
  <2> QED
    BY <2>1, <2>2
<1>5. ASSUME NEW w \in SubjectWorkers PROVE TransactionSound(k, w)'
  <2>1. tx[w].op \in RequestsOf(k) \cup {None} /\ tx[w].op \notin subjectPurge.ops
    BY <1>1, SubjectBounds DEF SubjectInv, SubjectTypes, Transactions, DS!Locked
  <2>2. tx[w].op # None => Untouched(tx[w].op)
    BY <1>1, <2>1 DEF SubjectInv, Untouched
  <2> QED
    BY <1>1, <2>2, TransactionKept
<1> QED
  BY <1>1, <1>3, <1>4, <1>5 DEF SubjectInv, DS!NoPurge

LEMMA PurgePartsSound ==
  ASSUME NEW k \in Cases, SubjectInv(k), DS(k)!PurgeParts
  PROVE  SubjectInv(k)'
<1>1. /\ UNCHANGED <<subjectPc, found, reply, subjectOp, ident, subjectJob, tx, erased, subjectPurge>>
      /\ subjectParts' \subseteq subjectParts
  BY DEF DS!PurgeParts
<1>2. SubjectTypes(k)'
  BY <1>1 DEF SubjectInv, SubjectTypes
<1> QED
  BY <1>1, <1>2, UntouchedSound, TransactionKept DEF SubjectInv, Untouched

(* The clock. *)
LEMMA LessTyped == \A k \in Cases, t \in Nat : DS(k)!Less(t) \in Nat
BY DEF DS!Less

LEMMA TickSound ==
  ASSUME NEW k \in Cases, SubjectInv(k), DS(k)!Tick
  PROVE  SubjectInv(k)'
<1>1. UNCHANGED <<subjectPc, found, reply, ident, erased, subjectParts, subjectPurge>>
  BY DEF DS!Tick
<1>2. subjectOp' \in [RequestsOf(k) -> OpsOf]
      /\ \A o \in RequestsOf(k) : subjectOp'[o].status = subjectOp[o].status
  <2>1. ASSUME NEW p \in OpsOf
        PROVE  LET q == [p EXCEPT !.deadline = DS(k)!Less(@), !.expires = DS(k)!Less(@),
                                  !.purgeAfter = DS(k)!Less(@)]
               IN  q \in OpsOf /\ q.status = p.status
    BY LessTyped DEF OpsOf
  <2> QED
    BY <2>1 DEF SubjectInv, SubjectTypes, DS!Tick
<1>3. subjectJob' \in [RequestsOf(k) -> SubjectJobs(k)]
      /\ \A o \in RequestsOf(k) :
           /\ subjectJob'[o].status = subjectJob[o].status
           /\ subjectJob'[o].type = subjectJob[o].type
           /\ subjectJob'[o].holder = subjectJob[o].holder
           /\ subjectJob'[o].attempts = subjectJob[o].attempts
  <2>1. ASSUME NEW j \in SubjectJobs(k)
        PROVE  LET n == [j EXCEPT !.lease = DS(k)!Less(@), !.runAfter = DS(k)!Less(@)]
               IN  /\ n \in SubjectJobs(k) /\ n.status = j.status /\ n.type = j.type
                   /\ n.holder = j.holder /\ n.attempts = j.attempts
    BY LessTyped DEF SubjectJobs
  <2> QED
    BY <2>1 DEF SubjectInv, SubjectTypes, DS!Tick
<1>4. tx' \in [SubjectWorkers -> Transactions(k)]
      /\ \A w \in SubjectWorkers : /\ tx'[w].op = tx[w].op /\ tx'[w].out = tx[w].out
                                   /\ tx[w] = DS(k)!Idle => tx'[w] = DS(k)!Idle
  <2>1. ASSUME NEW c \in Transactions(k)
        PROVE  LET d == [c EXCEPT !.left = DS(k)!Less(@)]
               IN  d \in Transactions(k) /\ d.op = c.op /\ d.out = c.out
    BY LessTyped DEF Transactions
  <2>2. [DS(k)!Idle EXCEPT !.left = DS(k)!Less(@)] = DS(k)!Idle
    BY DEF DS!Idle, DS!Less
  <2> QED
    BY <2>1, <2>2 DEF SubjectInv, SubjectTypes, DS!Tick
<1>5. SubjectTypes(k)'
  BY <1>1, <1>2, <1>3, <1>4 DEF SubjectInv, SubjectTypes
<1>6. ASSUME NEW o \in RequestsOf(k) PROVE OperationSound(k, o)'
  BY <1>1, <1>2, <1>3 DEF SubjectInv, OperationSound, DS!Signed
<1>7. ASSUME NEW w \in SubjectWorkers PROVE TransactionSound(k, w)'
  <2>1. TransactionSound(k, w) /\ tx[w].op \in RequestsOf(k) \cup {None}
    BY DEF SubjectInv, SubjectTypes, Transactions
  <2> QED
    BY <1>1, <1>2, <1>3, <1>4, <2>1 DEF TransactionSound
<1> QED
  BY <1>1, <1>5, <1>6, <1>7 DEF SubjectInv

LEMMA SubjectStep ==
  ASSUME NEW k \in Cases, SubjectInv(k), DS(k)!SubjectNext
  PROVE  SubjectInv(k)'
BY PostSound, SweepSound, ClaimSound, HandlerFailsSound, BeginSound, CommitSound, RollbackSound,
  IdentityEndsSound, PurgeSelectSound, PurgeDeleteSound, PurgePartsSound, TickSound
  DEF DS!SubjectNext

LEMMA SubjectPromise ==
  ASSUME NEW k \in Cases, SubjectInv(k)
  PROVE  DS(k)!SubjectTypeOK /\ DS(k)!ReceiptIsTrue /\ DS(k)!ErasedOnce /\ DS(k)!PendingHasJob
<1>1. DS(k)!SubjectTypeOK
  <2>1. ASSUME NEW o \in RequestsOf(k)
        PROVE  /\ subjectOp[o].status \in {"none", "pending", "signed", "failed", "purged"}
               /\ subjectJob[o].status \in {"none", "pending", "running", "failed"}
               /\ subjectJob[o].attempts \in 0..AttemptsOf(k)
    <3>1. subjectOp[o] \in OpsOf /\ subjectJob[o] \in SubjectJobs(k)
      BY DEF SubjectInv, SubjectTypes
    <3> QED
      BY <3>1 DEF OpsOf, SubjectJobs
  <2> QED
    BY <2>1 DEF SubjectInv, SubjectTypes, DS!SubjectTypeOK
<1>2. DS(k)!ReceiptIsTrue /\ DS(k)!ErasedOnce /\ DS(k)!PendingHasJob
  BY DEF SubjectInv, OperationSound, DS!ReceiptIsTrue, DS!ErasedOnce, DS!PendingHasJob
<1> QED
  BY <1>1, <1>2

(* A result stays, unless it is purged. *)
LEMMA ResultKept ==
  ASSUME NEW k \in Cases, UNCHANGED subjectOp
  PROVE  DS(k)!ResultIsFinal
BY DEF DS!ResultIsFinal

LEMMA FinishedAttempt ==
  ASSUME NEW k \in Cases, SubjectInv(k), NEW o \in RequestsOf(k), DS(k)!Unfinished(o)
  PROVE  DS(k)!ResultIsFinal
<1>1. \A q \in RequestsOf(k) \ {o} : subjectOp'[q] = subjectOp[q]
  BY DEF SubjectInv, SubjectTypes, DS!Unfinished, DS!JobFailed
<1>2. subjectOp[o].status # "pending" => subjectOp'[o] = subjectOp[o]
  BY DEF DS!Unfinished, DS!JobFailed
<1> QED
  BY <1>1, <1>2 DEF DS!ResultIsFinal

LEMMA ResultsFinal ==
  ASSUME NEW k \in Cases, SubjectInv(k), DS(k)!SubjectNext
  PROVE  DS(k)!ResultIsFinal
<1>1. ASSUME NEW r \in RequestsOf(k), DS(k)!LookUp(r) \/ DS(k)!Replay(r) PROVE DS(k)!ResultIsFinal
  BY <1>1, ResultKept DEF DS!LookUp, DS!Replay
<1>2. ASSUME NEW r \in RequestsOf(k), DS(k)!Accept(r) PROVE DS(k)!ResultIsFinal
  <2>1. \A q \in RequestsOf(k) \ {r} : subjectOp'[q] = subjectOp[q]
    BY <1>2 DEF SubjectInv, SubjectTypes, DS!Accept
  <2>2. subjectOp[r].status = "none"
    BY <1>2 DEF SubjectInv, OperationSound, DS!Accept
  <2> QED
    BY <2>1, <2>2 DEF DS!ResultIsFinal
<1>3. ASSUME NEW r \in RequestsOf(k), DS(k)!Sweep(r) PROVE DS(k)!ResultIsFinal
  BY <1>3, FinishedAttempt DEF DS!Sweep
<1>4. ASSUME NEW w \in SubjectWorkers, NEW o \in RequestsOf(k),
             DS(k)!Claim(w, o) \/ DS(k)!HandlerFails(w, o) \/ DS(k)!Begin(w, o)
      PROVE  DS(k)!ResultIsFinal
  BY <1>4, FinishedAttempt, ResultKept DEF DS!Claim, DS!HandlerFails, DS!Begin
<1>5. ASSUME NEW w \in SubjectWorkers, NEW o \in RequestsOf(k), DS(k)!Commit(w, o)
      PROVE  DS(k)!ResultIsFinal
  <2>1. tx[w].op = o /\ tx[w] \in Transactions(k) /\ o # None /\ TransactionSound(k, w)
    BY <1>5, SubjectBounds DEF SubjectInv, SubjectTypes, DS!Commit
  <2>2. \A q \in RequestsOf(k) \ {o} : subjectOp'[q] = subjectOp[q]
    BY <1>5 DEF SubjectInv, SubjectTypes, DS!Commit
  <2>3. subjectOp'[o].status = IF tx[w].out \in DS(k)!Signing THEN "signed"
                               ELSE IF tx[w].out = "fail" THEN "failed" ELSE subjectOp[o].status
    BY <1>5 DEF SubjectInv, SubjectTypes, OpsOf, DS!Commit
  <2>4. tx[w].out # "nothing" => subjectOp[o].status = "pending"
    BY <2>1 DEF TransactionSound
  <2>5. subjectOp[o].status # "pending" => subjectOp'[o].status = subjectOp[o].status
    BY <2>3, <2>4 DEF DS!Signing
  <2>6. ASSUME NEW q \in RequestsOf(k), subjectOp[q].status \in {"signed", "failed", "purged"}
        PROVE  subjectOp'[q].status = subjectOp[q].status
    BY <2>2, <2>5, <2>6
  <2> QED
    BY <2>6 DEF DS!ResultIsFinal
<1>6. ASSUME NEW w \in SubjectWorkers, DS(k)!Rollback(w) PROVE DS(k)!ResultIsFinal
  BY <1>6, ResultKept DEF DS!Rollback
<1>7. ASSUME NEW o \in RequestsOf(k), NEW s \in AccountsOf(k), DS(k)!IdentityEnds(o, s)
      PROVE  DS(k)!ResultIsFinal
  BY <1>7, ResultKept DEF DS!IdentityEnds
<1>8. CASE DS(k)!PurgeSelect \/ DS(k)!PurgeParts
  BY <1>8, ResultKept DEF DS!PurgeSelect, DS!PurgeParts
<1>9. CASE DS(k)!PurgeDelete
  BY <1>9 DEF DS!PurgeDelete, DS!NoOp, DS!ResultIsFinal
<1>10. CASE DS(k)!Tick
  <2>1. ASSUME NEW o \in RequestsOf(k) PROVE subjectOp'[o].status = subjectOp[o].status
    <3>1. subjectOp[o] \in OpsOf
      BY DEF SubjectInv, SubjectTypes
    <3>2. subjectOp'[o] = [subjectOp[o] EXCEPT !.deadline = DS(k)!Less(@), !.expires = DS(k)!Less(@),
                                               !.purgeAfter = DS(k)!Less(@)]
      BY <1>10 DEF DS!Tick
    <3> QED
      BY <3>1, <3>2 DEF OpsOf
  <2> QED
    BY <2>1 DEF DS!ResultIsFinal
<1> QED
  BY <1>1, <1>2, <1>3, <1>4, <1>5, <1>6, <1>7, <1>8, <1>9, <1>10 DEF DS!SubjectNext

-----------------------------------------------------------------------------
(* The three machines as parts of MCData. *)

LEMMA ErasureMachine ==
  /\ Init => /\ part = "fence" => Erase!Init
             /\ part = "takeover" => EraseTakeover!Init
             /\ \A k \in Cases : part = k => DS(k)!SubjectInit
  /\ [Next]_vars =>
       /\ part' = part
       /\ part = "fence" => Erase!Next \/ UNCHANGED erasureState
       /\ part = "takeover" => EraseTakeover!Next \/ UNCHANGED erasureState
       /\ \A k \in Cases : part = k => DS(k)!SubjectNext \/ UNCHANGED subjectState
<1>1. Init => /\ part = "fence" => Erase!Init
              /\ part = "takeover" => EraseTakeover!Init
              /\ \A k \in Cases : part = k => DS(k)!SubjectInit
  BY DEF Cases, Init, ErasureStarts, SubjectStarts, SplitStarts, PullStarts, HlcStarts,
    SchedulerStarts, WritesStarts, DraftStarts
<1>2. [Next]_vars =>
       /\ part' = part
       /\ part = "fence" => Erase!Next \/ UNCHANGED erasureState
       /\ part = "takeover" => EraseTakeover!Next \/ UNCHANGED erasureState
       /\ \A k \in Cases : part = k => DS(k)!SubjectNext \/ UNCHANGED subjectState
  BY DEF Next, vars, ErasureMoves, SubjectMoves, SplitMoves, PullMoves, HlcMoves,
    SchedulerMoves, WritesMoves, DraftMoves
<1> QED
  BY <1>1, <1>2

LEMMA ErasureRests ==
  ASSUME UNCHANGED erasureState
  PROVE  (FenceInv => FenceInv') /\ (TakeoverInv => TakeoverInv')
<1>1. JobsAgree(Erase!Ops, ErasureWorkers) => JobsAgree(Erase!Ops, ErasureWorkers)'
  BY DEF erasureState, JobsAgree
<1>2. JobsAgree(EraseTakeover!Ops, {b1, b2}) => JobsAgree(EraseTakeover!Ops, {b1, b2})'
  BY DEF erasureState, JobsAgree
<1>3. FenceInv => FenceInv'
  BY <1>1 DEF erasureState, FenceInv, Unfinished, Erase!NoProfileWhileErasing,
    Erase!NoEarlierSessionReturns
<1>4. TakeoverInv => TakeoverInv'
  BY <1>2 DEF erasureState, TakeoverInv, EraseTakeover!TypeOK,
    EraseTakeover!CompletedMeansDeleted
<1> QED
  BY <1>3, <1>4

LEMMA SubjectRests ==
  ASSUME NEW k \in Cases, SubjectInv(k), UNCHANGED subjectState
  PROVE  SubjectInv(k)'
<1>1. SubjectTypes(k)'
  BY DEF subjectState, SubjectInv, SubjectTypes
<1>2. ASSUME NEW o \in RequestsOf(k) PROVE OperationSound(k, o)'
  BY DEF subjectState, SubjectInv, OperationSound, DS!Signed
<1>3. ASSUME NEW w \in SubjectWorkers PROVE TransactionSound(k, w)'
  BY DEF subjectState, SubjectInv, TransactionSound
<1> QED
  BY <1>1, <1>2, <1>3 DEF subjectState, SubjectInv

LEMMA TakeoverPromise ==
  TakeoverInv => /\ EraseTakeover!TypeOK /\ EraseTakeover!CompletedMeansDeleted
                 /\ EraseTakeover!UnfinishedHasJob /\ EraseTakeover!CompletedHasNoJob
BY DEF TakeoverInv, JobsAgree, EraseTakeover!UnfinishedHasJob,
  EraseTakeover!CompletedHasNoJob

(* No visit of a session older than the fence brings an erased profile back,*)
(* and only an operator, whose transaction began before, takes the fence    *)
(* back; none is there while an erasure is unfinished; a completed erasure  *)
(* deleted its account and one that is not keeps its job, whichever worker, *)
(* request or operator takes it over; and a signed receipt tells of an      *)
(* erasure that happened, once, in every service asked, and stays as it is  *)
(* until it is purged (baukit-erasure, baukit-data-subject).                *)
THEOREM SubjectsErased == Spec => ErasureHolds
<1>1. Init => ErasureInv
  BY ErasureMachine, FenceStart, TakeoverStart, SubjectStart DEF ErasureInv
<1>2. ErasureInv /\ [Next]_vars => ErasureInv'
  BY ErasureMachine, FenceStep, TakeoverStep, SubjectStep, ErasureRests, SubjectRests
     DEF ErasureInv
<1>3. ErasureInv => ErasureHoldsHolds
  <2>1. FenceInv => Erase!NoProfileWhileErasing /\ Erase!NoEarlierSessionReturns
    BY DEF FenceInv
  <2> QED
    BY <2>1, TakeoverPromise, SubjectPromise DEF ErasureInv, ErasureHoldsHolds
<1>4. ErasureInv /\ [Next]_vars => [ErasureHoldsSteps]_vars
  <2>1. [Next]_vars /\ ~UNCHANGED vars =>
          /\ part = "fence" => Erase!Next
          /\ \A k \in Cases : part = k => DS(k)!SubjectNext
    BY DEF Cases, Next, ErasureMoves, SubjectMoves, SplitMoves, PullMoves, HlcMoves,
      SchedulerMoves, WritesMoves, DraftMoves
  <2> QED
    BY <2>1, FenceRises, ResultsFinal DEF ErasureInv, ErasureHoldsSteps
<1> QED
  BY <1>1, <1>2, <1>3, <1>4, PTL DEF Spec, ErasureHolds

-----------------------------------------------------------------------------
(* One key, one operation. The advisory lock keeps the requests of a key in *)
(* line, what a request saw under its key stays true while it holds the     *)
(* lock, and an answer names an operation of the same key and body.         *)
PostsAgree(k) ==
  /\ \A q, r \in RequestsOf(k) :
       subjectPc[q] = "locked" /\ subjectPc[r] = "locked" /\ KeysOf(k)[q] = KeysOf(k)[r] => q = r
  /\ \A o, p \in RequestsOf(k) :
       DS(k)!Exists(o) /\ DS(k)!Exists(p) /\ KeysOf(k)[o] = KeysOf(k)[p] => o = p
  /\ \A r, o \in RequestsOf(k) :
       subjectPc[r] = "locked" /\ found[r] = None /\ DS(k)!Exists(o) => KeysOf(k)[o] # KeysOf(k)[r]
  /\ \A r \in RequestsOf(k) : found[r] # None => KeysOf(k)[found[r]] = KeysOf(k)[r]
  /\ \A r \in RequestsOf(k) :
       /\ reply[r] # "error"
       /\ reply[r] \in RequestsOf(k) =>
            KeysOf(k)[reply[r]] = KeysOf(k)[r] /\ BodiesOf(k)[reply[r]] = BodiesOf(k)[r]

KeysInv(k) == PostsAgree(k) /\ DS(k)!PartsUntilExpiry

LEMMA KeysStart ==
  ASSUME NEW k \in Cases, DS(k)!SubjectInit
  PROVE  KeysInv(k)
<1>1. /\ \A r \in RequestsOf(k) :
           subjectPc[r] # "locked" /\ found[r] = None /\ reply[r] \notin RequestsOf(k)
      /\ \A r \in RequestsOf(k) : reply[r] # "error"
      /\ \A o \in RequestsOf(k) : subjectOp[o] = DS(k)!NoOp
  <2>1. None \notin RequestsOf(k) \union {"error"}
    BY DataAssumption DEF DS!DataSubjectAssumption
  <2> QED
    BY <2>1 DEF DS!SubjectInit
<1>2. \A o \in RequestsOf(k) : ~DS(k)!Exists(o) /\ ~DS(k)!Signed(o)
  BY <1>1 DEF DS!Exists, DS!Signed, DS!NoOp
<1>3. PostsAgree(k)
  BY <1>1, <1>2 DEF PostsAgree
<1>4. DS(k)!PartsUntilExpiry
  BY <1>2 DEF DS!PartsUntilExpiry
<1> QED
  BY <1>3, <1>4 DEF KeysInv

LEMMA LookUpAgrees ==
  ASSUME NEW k \in Cases, SubjectInv(k), PostsAgree(k), NEW r \in RequestsOf(k), DS(k)!LookUp(r)
  PROVE  PostsAgree(k)'
<1> DEFINE mine == {o \in RequestsOf(k) : DS(k)!Exists(o) /\ KeysOf(k)[o] = KeysOf(k)[r]}
<1>1. /\ subjectPc' = [subjectPc EXCEPT ![r] = "locked"]
      /\ found' = [found EXCEPT ![r] = IF mine = {} THEN None ELSE CHOOSE o \in mine : TRUE]
      /\ \A q \in RequestsOf(k) : KeysOf(k)[q] = KeysOf(k)[r] => subjectPc[q] # "locked"
      /\ UNCHANGED <<reply, subjectOp>>
  BY DEF DS!LookUp, DS!KeyFree
<1>2. \A o \in RequestsOf(k) : DS(k)!Exists(o)' <=> DS(k)!Exists(o)
  BY <1>1 DEF DS!Exists
<1>3. /\ subjectPc'[r] = "locked" /\ found'[r] = IF mine = {} THEN None ELSE CHOOSE o \in mine : TRUE
      /\ \A q \in RequestsOf(k) \ {r} : subjectPc'[q] = subjectPc[q] /\ found'[q] = found[q]
  BY <1>1 DEF SubjectInv, SubjectTypes
<1>4. mine # {} => found'[r] \in mine /\ found'[r] # None
  BY <1>3, SubjectBounds
<1> HIDE DEF mine
<1>5. ASSUME NEW q \in RequestsOf(k), NEW p \in RequestsOf(k),
             subjectPc'[q] = "locked", subjectPc'[p] = "locked", KeysOf(k)[q] = KeysOf(k)[p]
      PROVE  q = p
  BY <1>1, <1>3, <1>5 DEF PostsAgree
<1>6. ASSUME NEW q \in RequestsOf(k), NEW o \in RequestsOf(k),
             subjectPc'[q] = "locked", found'[q] = None, DS(k)!Exists(o)
      PROVE  KeysOf(k)[o] # KeysOf(k)[q]
  BY <1>3, <1>4, <1>6 DEF PostsAgree, mine
<1>7. ASSUME NEW q \in RequestsOf(k), found'[q] # None
      PROVE  KeysOf(k)[found'[q]] = KeysOf(k)[q]
  BY <1>3, <1>4, <1>7 DEF PostsAgree, mine
<1> QED
  BY <1>1, <1>2, <1>5, <1>6, <1>7 DEF PostsAgree

LEMMA ReplayAgrees ==
  ASSUME NEW k \in Cases, SubjectInv(k), PostsAgree(k), NEW r \in RequestsOf(k), DS(k)!Replay(r)
  PROVE  PostsAgree(k)'
<1>1. /\ subjectPc' = [subjectPc EXCEPT ![r] = "done"] /\ UNCHANGED <<found, subjectOp>>
      /\ reply' = [reply EXCEPT ![r] = IF BodiesOf(k)[found[r]] = BodiesOf(k)[r] THEN found[r]
                                       ELSE "conflict"]
      /\ found[r] # None /\ found[r] \in RequestsOf(k)
  BY DEF DS!Replay, SubjectInv, SubjectTypes
<1>2. \A o \in RequestsOf(k) : DS(k)!Exists(o)' <=> DS(k)!Exists(o)
  BY <1>1 DEF DS!Exists
<1>3. \A q \in RequestsOf(k) : subjectPc'[q] = "locked" => subjectPc[q] = "locked"
  BY <1>1 DEF SubjectInv, SubjectTypes
<1>4. /\ \A q \in RequestsOf(k) \ {r} : reply'[q] = reply[q]
      /\ reply'[r] = IF BodiesOf(k)[found[r]] = BodiesOf(k)[r] THEN found[r] ELSE "conflict"
  BY <1>1 DEF SubjectInv, SubjectTypes
<1>5. ASSUME NEW q \in RequestsOf(k)
      PROVE  /\ reply'[q] # "error"
             /\ reply'[q] \in RequestsOf(k) =>
                  /\ KeysOf(k)[reply'[q]] = KeysOf(k)[q]
                  /\ BodiesOf(k)[reply'[q]] = BodiesOf(k)[q]
  BY <1>1, <1>4, SubjectBounds DEF PostsAgree
<1> QED
  BY <1>1, <1>2, <1>3, <1>5 DEF PostsAgree

(* UNIQUE never refuses the row: the lock was held since the lookup.        *)
LEMMA AcceptAgrees ==
  ASSUME NEW k \in Cases, SubjectInv(k), PostsAgree(k), NEW r \in RequestsOf(k), DS(k)!Accept(r)
  PROVE  PostsAgree(k)'
<1>1. /\ subjectPc[r] = "locked" /\ found[r] = None
      /\ subjectPc' = [subjectPc EXCEPT ![r] = "done"] /\ UNCHANGED found
  BY DEF DS!Accept
<1>2. \A o \in RequestsOf(k) : DS(k)!Exists(o) => KeysOf(k)[o] # KeysOf(k)[r]
  BY <1>1 DEF PostsAgree
<1>3. /\ reply' = [reply EXCEPT ![r] = r]
      /\ \A o \in RequestsOf(k) \ {r} : subjectOp'[o] = subjectOp[o]
  BY <1>2 DEF DS!Accept, SubjectInv, SubjectTypes
<1>4. \A o \in RequestsOf(k) \ {r} : DS(k)!Exists(o)' <=> DS(k)!Exists(o)
  BY <1>3 DEF DS!Exists
<1>5. /\ subjectPc'[r] # "locked" /\ reply'[r] = r
      /\ \A q \in RequestsOf(k) \ {r} : subjectPc'[q] = subjectPc[q] /\ reply'[q] = reply[q]
  BY <1>1, <1>3 DEF SubjectInv, SubjectTypes
<1>6. ASSUME NEW q \in RequestsOf(k), subjectPc'[q] = "locked"
      PROVE  KeysOf(k)[q] # KeysOf(k)[r]
  BY <1>1, <1>5, <1>6 DEF PostsAgree
<1>7. ASSUME NEW q \in RequestsOf(k), NEW o \in RequestsOf(k),
             subjectPc'[q] = "locked", found'[q] = None, DS(k)!Exists(o)'
      PROVE  KeysOf(k)[o] # KeysOf(k)[q]
  BY <1>1, <1>4, <1>5, <1>6, <1>7 DEF PostsAgree
<1>8. ASSUME NEW o \in RequestsOf(k), NEW p \in RequestsOf(k),
             DS(k)!Exists(o)', DS(k)!Exists(p)', KeysOf(k)[o] = KeysOf(k)[p]
      PROVE  o = p
  BY <1>2, <1>4, <1>8 DEF PostsAgree
<1>9. ASSUME NEW q \in RequestsOf(k)
      PROVE  /\ reply'[q] # "error"
             /\ reply'[q] \in RequestsOf(k) =>
                  /\ KeysOf(k)[reply'[q]] = KeysOf(k)[q]
                  /\ BodiesOf(k)[reply'[q]] = BodiesOf(k)[q]
  BY <1>5, SubjectBounds DEF PostsAgree
<1>10. ASSUME NEW q \in RequestsOf(k), NEW p \in RequestsOf(k),
              subjectPc'[q] = "locked", subjectPc'[p] = "locked", KeysOf(k)[q] = KeysOf(k)[p]
       PROVE  q = p
  BY <1>5, <1>10 DEF PostsAgree
<1>11. ASSUME NEW q \in RequestsOf(k), found'[q] # None
       PROVE  KeysOf(k)[found'[q]] = KeysOf(k)[q]
  BY <1>1, <1>11 DEF PostsAgree
<1> QED
  BY <1>7, <1>8, <1>9, <1>10, <1>11 DEF PostsAgree

(* The other steps leave the answers alone and bring no operation to life.  *)
LEMMA PostsKept ==
  ASSUME NEW k \in Cases, PostsAgree(k), UNCHANGED <<subjectPc, found, reply>>,
         \A o \in RequestsOf(k) : DS(k)!Exists(o)' => DS(k)!Exists(o)
  PROVE  PostsAgree(k)'
BY DEF PostsAgree

LEMMA AttemptRaisesNone ==
  ASSUME NEW k \in Cases, SubjectInv(k), NEW o \in RequestsOf(k), DS(k)!Unfinished(o)
  PROVE  \A q \in RequestsOf(k) : DS(k)!Exists(q)' => DS(k)!Exists(q)
<1>1. \A q \in RequestsOf(k) \ {o} : subjectOp'[q] = subjectOp[q]
  BY DEF SubjectInv, SubjectTypes, DS!Unfinished, DS!JobFailed
<1>2. subjectOp[o].status # "pending" => subjectOp'[o] = subjectOp[o]
  BY DEF DS!Unfinished, DS!JobFailed
<1> QED
  BY <1>1, <1>2 DEF DS!Exists

LEMMA CommitRaisesNone ==
  ASSUME NEW k \in Cases, SubjectInv(k), NEW w \in SubjectWorkers, NEW o \in RequestsOf(k),
         DS(k)!Commit(w, o)
  PROVE  \A q \in RequestsOf(k) : DS(k)!Exists(q)' => DS(k)!Exists(q)
<1>1. tx[w].op = o /\ o # None /\ TransactionSound(k, w)
  BY SubjectBounds DEF SubjectInv, DS!Commit
<1>2. \A q \in RequestsOf(k) \ {o} : subjectOp'[q] = subjectOp[q]
  BY DEF SubjectInv, SubjectTypes, DS!Commit
<1>3. subjectOp'[o].status = IF tx[w].out \in DS(k)!Signing THEN "signed"
                             ELSE IF tx[w].out = "fail" THEN "failed" ELSE subjectOp[o].status
  BY DEF SubjectInv, SubjectTypes, OpsOf, DS!Commit
<1>4. tx[w].out # "nothing" => subjectOp[o].status = "pending"
  BY <1>1 DEF TransactionSound
<1>5. subjectOp[o].status # "pending" => subjectOp'[o].status = subjectOp[o].status
  BY <1>3, <1>4 DEF DS!Signing
<1> QED
  BY <1>2, <1>5 DEF DS!Exists

LEMMA TickRaisesNone ==
  ASSUME NEW k \in Cases, SubjectInv(k), DS(k)!Tick
  PROVE  \A o \in RequestsOf(k) : subjectOp'[o].status = subjectOp[o].status
<1> SUFFICES ASSUME NEW o \in RequestsOf(k) PROVE subjectOp'[o].status = subjectOp[o].status
  OBVIOUS
<1>1. subjectOp[o] \in OpsOf
  BY DEF SubjectInv, SubjectTypes
<1>2. subjectOp'[o] = [subjectOp[o] EXCEPT !.deadline = DS(k)!Less(@),
                                           !.expires = DS(k)!Less(@),
                                           !.purgeAfter = DS(k)!Less(@)]
  BY DEF DS!Tick
<1> QED
  BY <1>1, <1>2 DEF OpsOf

LEMMA PostsStep ==
  ASSUME NEW k \in Cases, SubjectInv(k), PostsAgree(k), DS(k)!SubjectNext
  PROVE  PostsAgree(k)'
<1>1. ASSUME NEW r \in RequestsOf(k), DS(k)!LookUp(r) \/ DS(k)!Replay(r) \/ DS(k)!Accept(r)
      PROVE  PostsAgree(k)'
  BY <1>1, LookUpAgrees, ReplayAgrees, AcceptAgrees
<1>2. ASSUME NEW r \in RequestsOf(k), DS(k)!Sweep(r) PROVE PostsAgree(k)'
  BY <1>2, PostsKept, AttemptRaisesNone DEF DS!Sweep
<1>3. ASSUME NEW w \in SubjectWorkers, NEW o \in RequestsOf(k), DS(k)!HandlerFails(w, o)
      PROVE  PostsAgree(k)'
  BY <1>3, PostsKept, AttemptRaisesNone DEF DS!HandlerFails
<1>4. ASSUME NEW w \in SubjectWorkers, NEW o \in RequestsOf(k), DS(k)!Commit(w, o)
      PROVE  PostsAgree(k)'
  BY <1>4, PostsKept, CommitRaisesNone DEF DS!Commit
<1>5. ASSUME UNCHANGED <<subjectPc, found, reply, subjectOp>> PROVE PostsAgree(k)'
  BY <1>5, PostsKept DEF DS!Exists
<1>6. ASSUME NEW w \in SubjectWorkers, NEW o \in RequestsOf(k), DS(k)!Claim(w, o) \/ DS(k)!Begin(w, o)
      PROVE  PostsAgree(k)'
  BY <1>5, <1>6 DEF DS!Claim, DS!Begin
<1>7. ASSUME NEW w \in SubjectWorkers, DS(k)!Rollback(w) PROVE PostsAgree(k)'
  BY <1>5, <1>7 DEF DS!Rollback
<1>8. ASSUME NEW o \in RequestsOf(k), NEW s \in AccountsOf(k), DS(k)!IdentityEnds(o, s)
      PROVE  PostsAgree(k)'
  BY <1>5, <1>8 DEF DS!IdentityEnds
<1>9. CASE DS(k)!PurgeSelect \/ DS(k)!PurgeParts
  BY <1>5, <1>9 DEF DS!PurgeSelect, DS!PurgeParts
<1>10. CASE DS(k)!PurgeDelete
  <2>1. \A o \in RequestsOf(k) : DS(k)!Exists(o)' => DS(k)!Exists(o)
    BY <1>10 DEF DS!PurgeDelete, DS!Exists, DS!NoOp
  <2> QED
    BY <1>10, <2>1, PostsKept DEF DS!PurgeDelete
<1>11. CASE DS(k)!Tick
  <2>1. \A o \in RequestsOf(k) : DS(k)!Exists(o)' => DS(k)!Exists(o)
    BY <1>11, TickRaisesNone DEF DS!Exists
  <2> QED
    BY <1>11, <2>1, PostsKept DEF DS!Tick
<1> QED
  BY <1>1, <1>2, <1>3, <1>4, <1>6, <1>7, <1>8, <1>9, <1>10, <1>11 DEF DS!SubjectNext

(* A part that a completed export lists is there until it expires.          *)
LEMMA PartsKept ==
  ASSUME NEW k \in Cases, DS(k)!PartsUntilExpiry, subjectParts \subseteq subjectParts',
         \A o \in RequestsOf(k) : \/ subjectOp'[o] = subjectOp[o]
                                  \/ subjectOp'[o].status # "signed"
  PROVE  DS(k)!PartsUntilExpiry'
BY DEF DS!PartsUntilExpiry, DS!Signed

LEMMA CommitParts ==
  ASSUME NEW k \in Cases, SubjectInv(k), DS(k)!PartsUntilExpiry, NEW w \in SubjectWorkers,
         NEW o \in RequestsOf(k), DS(k)!Commit(w, o)
  PROVE  DS(k)!PartsUntilExpiry'
<1>1. tx[w].op = o /\ o # None /\ TransactionSound(k, w)
  BY SubjectBounds DEF SubjectInv, DS!Commit
<1>2. \A q \in RequestsOf(k) \ {o} : subjectOp'[q] = subjectOp[q]
  BY DEF SubjectInv, SubjectTypes, DS!Commit
<1>3. /\ subjectOp'[o].status = IF tx[w].out \in DS(k)!Signing THEN "signed"
                                ELSE IF tx[w].out = "fail" THEN "failed" ELSE subjectOp[o].status
      /\ tx[w].out \in DS(k)!Signing \ {"export"} => subjectOp'[o].expires = 0
      /\ tx[w].out \notin DS(k)!Signing => subjectOp'[o].expires = subjectOp[o].expires
  BY DEF SubjectInv, SubjectTypes, OpsOf, DS!Commit
<1>4. subjectParts' = IF tx[w].out = "export" THEN subjectParts \union {o} ELSE subjectParts
  BY DEF DS!Commit
<1>6. DS(k)!Signed(o)' /\ KindsOf(k)[o] = "export" /\ subjectOp'[o].expires > 0 => o \in subjectParts'
  BY <1>3, <1>4 DEF DS!PartsUntilExpiry, DS!Signed, DS!Signing
<1>7. ASSUME NEW q \in RequestsOf(k) \ {o}
      PROVE  DS(k)!Signed(q)' /\ KindsOf(k)[q] = "export" /\ subjectOp'[q].expires > 0
               => q \in subjectParts'
  BY <1>2, <1>4 DEF DS!PartsUntilExpiry, DS!Signed
<1> QED
  BY <1>6, <1>7 DEF DS!PartsUntilExpiry

LEMMA AttemptParts ==
  ASSUME NEW k \in Cases, SubjectInv(k), DS(k)!PartsUntilExpiry, UNCHANGED subjectParts,
         NEW o \in RequestsOf(k), DS(k)!Unfinished(o)
  PROVE  DS(k)!PartsUntilExpiry'
<1>1. \A q \in RequestsOf(k) \ {o} : subjectOp'[q] = subjectOp[q]
  BY DEF SubjectInv, SubjectTypes, DS!Unfinished, DS!JobFailed
<1>2. subjectOp'[o] = subjectOp[o] \/ subjectOp'[o].status = "failed"
  BY DEF SubjectInv, SubjectTypes, OpsOf, DS!Unfinished, DS!JobFailed
<1> QED
  BY <1>1, <1>2, PartsKept

LEMMA TickParts ==
  ASSUME NEW k \in Cases, SubjectInv(k), DS(k)!PartsUntilExpiry, DS(k)!Tick
  PROVE  DS(k)!PartsUntilExpiry'
<1> SUFFICES ASSUME NEW o \in RequestsOf(k), subjectOp'[o].status = "signed",
                    KindsOf(k)[o] = "export", subjectOp'[o].expires > 0
             PROVE  o \in subjectParts'
  BY DEF DS!PartsUntilExpiry, DS!Signed
<1>1. subjectOp[o] \in OpsOf /\ subjectOp[o].expires \in Nat
  <2>1. subjectOp[o] \in OpsOf
    BY DEF SubjectInv, SubjectTypes
  <2> QED
    BY <2>1 DEF OpsOf
<1>2. subjectOp'[o] = [subjectOp[o] EXCEPT !.deadline = DS(k)!Less(@),
                                           !.expires = DS(k)!Less(@),
                                           !.purgeAfter = DS(k)!Less(@)]
  BY DEF DS!Tick
<1>3. subjectOp'[o].expires = DS(k)!Less(subjectOp[o].expires)
      /\ subjectOp'[o].status = subjectOp[o].status
  BY <1>1, <1>2 DEF OpsOf
<1>4. subjectOp[o].expires > 0
  BY <1>1, <1>3 DEF DS!Less
<1> QED
  BY <1>3, <1>4 DEF DS!PartsUntilExpiry, DS!Signed, DS!Tick

LEMMA PartsStep ==
  ASSUME NEW k \in Cases, SubjectInv(k), DS(k)!PartsUntilExpiry, DS(k)!SubjectNext
  PROVE  DS(k)!PartsUntilExpiry'
<1>1. ASSUME UNCHANGED <<subjectOp, subjectParts>> PROVE DS(k)!PartsUntilExpiry'
  BY <1>1, PartsKept
<1>2. ASSUME NEW r \in RequestsOf(k), DS(k)!LookUp(r) \/ DS(k)!Replay(r)
      PROVE  DS(k)!PartsUntilExpiry'
  BY <1>1, <1>2 DEF DS!LookUp, DS!Replay
<1>3. ASSUME NEW r \in RequestsOf(k), DS(k)!Accept(r) PROVE DS(k)!PartsUntilExpiry'
  <2>1. \A o \in RequestsOf(k) : \/ subjectOp'[o] = subjectOp[o]
                                 \/ subjectOp'[o].status # "signed"
    BY <1>3 DEF DS!Accept, SubjectInv, SubjectTypes, OpsOf
  <2> QED
    BY <1>3, <2>1, PartsKept DEF DS!Accept
<1>4. ASSUME NEW r \in RequestsOf(k), DS(k)!Sweep(r) PROVE DS(k)!PartsUntilExpiry'
  BY <1>4, AttemptParts DEF DS!Sweep
<1>5. ASSUME NEW w \in SubjectWorkers, NEW o \in RequestsOf(k), DS(k)!HandlerFails(w, o)
      PROVE  DS(k)!PartsUntilExpiry'
  BY <1>5, AttemptParts DEF DS!HandlerFails
<1>6. ASSUME NEW w \in SubjectWorkers, NEW o \in RequestsOf(k), DS(k)!Claim(w, o) \/ DS(k)!Begin(w, o)
      PROVE  DS(k)!PartsUntilExpiry'
  BY <1>1, <1>6 DEF DS!Claim, DS!Begin
<1>7. ASSUME NEW w \in SubjectWorkers, NEW o \in RequestsOf(k), DS(k)!Commit(w, o)
      PROVE  DS(k)!PartsUntilExpiry'
  BY <1>7, CommitParts
<1>8. ASSUME NEW w \in SubjectWorkers, DS(k)!Rollback(w) PROVE DS(k)!PartsUntilExpiry'
  BY <1>1, <1>8 DEF DS!Rollback
<1>9. ASSUME NEW o \in RequestsOf(k), NEW s \in AccountsOf(k), DS(k)!IdentityEnds(o, s)
      PROVE  DS(k)!PartsUntilExpiry'
  BY <1>1, <1>9 DEF DS!IdentityEnds
<1>10. CASE DS(k)!PurgeSelect
  BY <1>1, <1>10 DEF DS!PurgeSelect
<1>11. CASE DS(k)!PurgeDelete
  BY <1>11 DEF DS!PurgeDelete, DS!NoOp, DS!PartsUntilExpiry, DS!Signed
<1>12. CASE DS(k)!PurgeParts
  BY <1>12 DEF DS!PurgeParts, DS!PartsUntilExpiry, DS!Signed
<1>13. CASE DS(k)!Tick
  BY <1>13, TickParts
<1> QED
  BY <1>2, <1>3, <1>4, <1>5, <1>6, <1>7, <1>8, <1>9, <1>10, <1>11, <1>12, <1>13
     DEF DS!SubjectNext

LEMMA KeysPromise ==
  ASSUME NEW k \in Cases, SubjectInv(k), KeysInv(k)
  PROVE  DS(k)!KeysAgree /\ DS(k)!PartsUntilExpiry
BY DEF KeysInv, PostsAgree, DS!KeysAgree

-----------------------------------------------------------------------------
(* Sums. Split!Sum chooses the function of running totals of a sequence,    *)
(* which exists and whose values are determined, step by step.              *)
LEMMA Reached ==
  ASSUME NEW n \in Nat, NEW T, 0 \in T, \A i \in 0..n : i < n /\ i \in T => i + 1 \in T
  PROVE  \A i \in 0..n : i \in T
<1> DEFINE S == {m \in 0..n : \A j \in 0..m : j \in T}
<1>1. 0 \in S
  OBVIOUS
<1>2. PICK m \in S : \A y \in S : y <= m
  BY <1>1, GreatestUpTo
<1>3. m \in 0..n /\ \A j \in 0..m : j \in T
  BY <1>2
<1>4. ~ (m < n)
  <2> SUFFICES ASSUME m < n PROVE FALSE
    OBVIOUS
  <2>1. m + 1 \in T
    BY <1>3
  <2>2. m + 1 \in 0..n /\ \A j \in 0..m + 1 : j \in T
    BY <1>3, <2>1
  <2>3. m + 1 \in S
    BY <2>2
  <2> QED
    BY <1>2, <1>3, <2>3
<1> QED
  BY <1>3, <1>4

Totals(f, s, n) == f = [i \in 0..n |-> IF i = 0 THEN 0 ELSE f[i - 1] + s[i]]

LEMMA TotalsExist ==
  ASSUME NEW s \in Seq(Nat)
  PROVE  \E f : Totals(f, s, Len(s))
<1> DEFINE T == {n \in 0..Len(s) : \E f : Totals(f, s, n)}
<1>1. 0 \in T
  <2>1. Totals([i \in 0..0 |-> 0], s, 0)
    BY DEF Totals
  <2> QED
    BY <2>1
<1>2. ASSUME NEW n \in 0..Len(s), n < Len(s), n \in T PROVE n + 1 \in T
  <2>1. PICK f : Totals(f, s, n)
    BY <1>2
  <2> DEFINE g == [i \in 0..n + 1 |-> IF i <= n THEN f[i] ELSE f[n] + s[n + 1]]
  <2>2. \A i \in 0..n : f[i] = IF i = 0 THEN 0 ELSE f[i - 1] + s[i]
    BY <2>1 DEF Totals
  <2>3. ASSUME NEW i \in 0..n + 1 PROVE g[i] = IF i = 0 THEN 0 ELSE g[i - 1] + s[i]
    <3>1. CASE i = n + 1
      BY <3>1
    <3>2. CASE i \in 0..n
      BY <2>2, <3>2
    <3> QED
      BY <3>1, <3>2
  <2>4. g = [i \in 0..n + 1 |-> g[i]]
    OBVIOUS
  <2>5. Totals(g, s, n + 1)
    <3> HIDE DEF g
    <3> QED
      BY <2>3, <2>4 DEF Totals
  <2> HIDE DEF g
  <2> QED
    BY <1>2, <2>5
<1>3. Len(s) \in T
  <2>1. Len(s) \in Nat /\ Len(s) \in 0..Len(s)
    OBVIOUS
  <2> HIDE DEF T
  <2>2. \A i \in 0..Len(s) : i \in T
    BY <1>1, <1>2, <2>1, Reached
  <2> QED
    BY <2>1, <2>2
<1> QED
  BY <1>3

Running(f, s, n) == \A i \in 0..n : f[i] = IF i = 0 THEN 0 ELSE f[i - 1] + s[i]
SameUpTo(s, t, n) == \A i \in 1..n : s[i] \in Nat /\ s[i] = t[i]

LEMMA TotalsAgree ==
  ASSUME NEW n \in Nat, NEW s, NEW t, SameUpTo(s, t, n),
         NEW f, NEW g, Running(f, s, n), Running(g, t, n)
  PROVE  \A i \in 0..n : f[i] \in Nat /\ g[i] = f[i]
<1> DEFINE T == {i \in 0..n : f[i] \in Nat /\ g[i] = f[i]}
<1>1. /\ \A i \in 0..n : f[i] = IF i = 0 THEN 0 ELSE f[i - 1] + s[i]
      /\ \A i \in 0..n : g[i] = IF i = 0 THEN 0 ELSE g[i - 1] + t[i]
  BY DEF Running
<1>2. 0 \in T
  BY <1>1
<1>3. ASSUME NEW i \in 0..n, i < n, i \in T PROVE i + 1 \in T
  <2>1. i + 1 \in 1..n /\ i + 1 \in 0..n /\ s[i + 1] \in Nat /\ s[i + 1] = t[i + 1] /\ (i + 1) - 1 = i
    BY <1>3 DEF SameUpTo
  <2>2. f[i + 1] = f[i] + s[i + 1] /\ g[i + 1] = g[i] + t[i + 1]
    BY <1>1, <2>1
  <2> QED
    BY <1>3, <2>1, <2>2
<1> HIDE DEF T
<1>4. \A i \in 0..n : i \in T
  BY <1>2, <1>3, Reached
<1> QED
  BY <1>4 DEF T

LEMMA SumTotals ==
  ASSUME NEW s \in Seq(Nat)
  PROVE  \E f : Totals(f, s, Len(s)) /\ Split!Sum(s) = f[Len(s)]
<1> DEFINE F == CHOOSE f : f = [i \in 0..Len(s) |-> IF i = 0 THEN 0 ELSE f[i - 1] + s[i]]
<1>1. \E f : f = [i \in 0..Len(s) |-> IF i = 0 THEN 0 ELSE f[i - 1] + s[i]]
  BY TotalsExist DEF Totals
<1>2. F = [i \in 0..Len(s) |-> IF i = 0 THEN 0 ELSE F[i - 1] + s[i]]
  BY <1>1
<1>3. Split!Sum(s) = F[Len(s)]
  BY DEF Split!Sum
<1> QED
  BY <1>2, <1>3 DEF Totals

LEMMA SumEmpty == Split!Sum(<<>>) = 0
<1>1. PICK f : Totals(f, <<>>, 0) /\ Split!Sum(<<>>) = f[0]
  <2>1. <<>> \in Seq(Nat) /\ Len(<<>>) = 0
    OBVIOUS
  <2> QED
    BY <2>1, SumTotals
<1> QED
  BY <1>1 DEF Totals

LEMMA SumMore ==
  ASSUME NEW s \in Seq(Nat), NEW x \in Nat
  PROVE  Split!Sum(s) \in Nat /\ Split!Sum(Append(s, x)) = Split!Sum(s) + x
<1> DEFINE t == Append(s, x)
<1>1. t \in Seq(Nat) /\ Len(t) = Len(s) + 1 /\ t[Len(s) + 1] = x
      /\ \A i \in 1..Len(s) : s[i] \in Nat /\ s[i] = t[i]
  OBVIOUS
<1> HIDE DEF t
<1>2. PICK f : Totals(f, s, Len(s)) /\ Split!Sum(s) = f[Len(s)]
  BY SumTotals
<1>3. PICK g : Totals(g, t, Len(s) + 1) /\ Split!Sum(t) = g[Len(s) + 1]
  BY <1>1, SumTotals
<1>4. f[Len(s)] \in Nat /\ g[Len(s)] = f[Len(s)]
  <2>1. PICK n \in Nat : n = Len(s)
    OBVIOUS
  <2>2. SameUpTo(s, t, n)
    BY <1>1, <2>1 DEF SameUpTo
  <2>3. Running(f, s, n)
    BY <1>2, <2>1 DEF Running, Totals
  <2>4. Running(g, t, n)
    <3>1. \A i \in 0..Len(s) + 1 : g[i] = IF i = 0 THEN 0 ELSE g[i - 1] + t[i]
      BY <1>3 DEF Totals
    <3>2. \A i \in 0..n : i \in 0..Len(s) + 1
      BY <2>1
    <3> QED
      BY <3>1, <3>2 DEF Running
  <2>5. \A i \in 0..n : f[i] \in Nat /\ g[i] = f[i]
    BY <2>2, <2>3, <2>4, TotalsAgree
  <2> QED
    BY <2>1, <2>5
<1>5. g[Len(s) + 1] = g[Len(s)] + t[Len(s) + 1]
  BY <1>3 DEF Totals
<1> QED
  BY <1>1, <1>2, <1>3, <1>4, <1>5 DEF t

LEMMA SumOne == ASSUME NEW x \in Nat PROVE Split!Sum(<<x>>) = x
<1>1. <<>> \in Seq(Nat) /\ Append(<<>>, x) = <<x>>
  OBVIOUS
<1>2. Split!Sum(<<x>>) = Split!Sum(<<>>) + x
  BY <1>1, SumMore
<1> QED
  BY <1>2, SumEmpty

-----------------------------------------------------------------------------
(* The split of an export. The part being written has the length it would   *)
(* be stored with, follows a part that was full, and begins where the last  *)
(* stored part of its category stops; the categories before it are stored.  *)
ExportCategories == [prefix : Nat, records : Seq(Nat)]
StoredParts == [category : Nat, records : Seq(Nat), bytes : Nat]

(* Split!Wrapped and Split!Packed, of an export and its parts.              *)
Length(export, c, records) ==
  export[c].prefix + Split!Sum(records) + (IF records = <<>> THEN 0 ELSE Len(records) - 1) + 2
PackedIn(records, stored, c, first, end, n) ==
  /\ \A i \in 1..Len(stored) : stored[i].category = c <=> i \in first..end
  /\ \E cut \in [first - 1..end -> 0..n] :
       /\ cut[first - 1] = 0 /\ cut[end] = n
       /\ \A i \in first..end :
            /\ cut[i - 1] <= cut[i]
            /\ stored[i].records = SubSeq(records, cut[i - 1] + 1, cut[i])

SplitTypes ==
  /\ input \in Seq(ExportCategories) /\ limit \in Nat
  /\ category \in 1..Len(input) + 1 /\ next \in Nat /\ bytes \in Nat
  /\ open \in Seq(Nat) /\ splitParts \in Seq(StoredParts)
  /\ next > 0 => category <= Len(input) /\ next <= Len(input[category].records) + 1
  /\ result \in {"none", "split", "tooLarge"}
  /\ result = "split" => category = Len(input) + 1

(* The records before the one being written can each be stored.             *)
Storable ==
  \A c \in 1..Len(input) :
    /\ c < category \/ (c = category /\ next > 0) => Length(input, c, <<>>) <= limit
    /\ \A i \in 1..Len(input[c].records) :
         c < category \/ (c = category /\ i < next) =>
           Length(input, c, <<input[c].records[i]>>) <= limit

Measured ==
  next > 0 => bytes + 2 = Length(input, category, open) /\ bytes + 2 <= limit

InOrder ==
  \A i \in 1..Len(splitParts) :
    splitParts[i].category \in 1..category /\ (next = 0 => splitParts[i].category # category)

Bounded ==
  \A i \in 1..Len(splitParts) :
    /\ splitParts[i].bytes = Length(input, splitParts[i].category, splitParts[i].records)
    /\ splitParts[i].bytes <= limit

(* The first of these records does not fit in p.                            *)
IsFull(export, most, p, records) ==
  /\ p.records # <<>> /\ records # <<>>
  /\ Length(export, p.category, Append(p.records, records[1])) > most

Filled ==
  \A i \in 1..Len(splitParts) - 1 :
    splitParts[i].category = splitParts[i + 1].category =>
      IsFull(input, limit, splitParts[i], splitParts[i + 1].records)

FollowsFull ==
  next > 0 /\ Len(splitParts) > 0 /\ splitParts[Len(splitParts)].category = category =>
    IsFull(input, limit, splitParts[Len(splitParts)], open)

Stored(c) ==
  \E f, l \in 1..Len(splitParts) :
    f <= l /\ PackedIn(input[c].records, splitParts, c, f, l, Len(input[c].records))

Underway ==
  next > 0 => \E f \in 1..Len(splitParts) + 1, m \in 0..next - 1 :
    /\ PackedIn(input[category].records, splitParts, category, f, Len(splitParts), m)
    /\ open = SubSeq(input[category].records, m + 1, next - 1)

Impossible ==
  \E c \in 1..Len(input) :
    \/ Length(input, c, <<>>) > limit
    \/ \E i \in 1..Len(input[c].records) : Length(input, c, <<input[c].records[i]>>) > limit

SplitInv ==
  /\ SplitTypes /\ Storable /\ Measured /\ InOrder /\ Bounded /\ Filled /\ FollowsFull
  /\ \A c \in 1..Len(input) : c < category => Stored(c)
  /\ Underway
  /\ result = "tooLarge" => Impossible

(* The lengths of parts. *)
LEMMA LengthNone ==
  ASSUME NEW e, NEW c, e[c].prefix \in Nat
  PROVE  Length(e, c, <<>>) = e[c].prefix + 2
BY SumEmpty DEF Length

LEMMA LengthOne ==
  ASSUME NEW e, NEW c, e[c].prefix \in Nat, NEW x \in Nat
  PROVE  Length(e, c, <<x>>) = e[c].prefix + x + 2
<1>1. <<x>> # <<>> /\ Len(<<x>>) = 1
  OBVIOUS
<1> QED
  BY <1>1, SumOne DEF Length

LEMMA LengthMore ==
  ASSUME NEW e, NEW c, e[c].prefix \in Nat, NEW s \in Seq(Nat), NEW x \in Nat
  PROVE  /\ Length(e, c, s) \in Nat
         /\ Length(e, c, Append(s, x)) = Length(e, c, s) + (IF s = <<>> THEN 0 ELSE 1) + x
<1> DEFINE t == Append(s, x)
<1>1. t # <<>> /\ Len(t) = Len(s) + 1 /\ (s = <<>> <=> Len(s) = 0)
  OBVIOUS
<1>2. Split!Sum(s) \in Nat /\ Split!Sum(t) = Split!Sum(s) + x
  BY SumMore
<1> HIDE DEF t
<1>3. PICK n \in Nat, a \in Nat, p \in Nat :
        n = Len(s) /\ a = Split!Sum(s) /\ p = e[c].prefix
  BY <1>2
<1>4. Length(e, c, s) = p + a + (IF s = <<>> THEN 0 ELSE n - 1) + 2
  BY <1>3 DEF Length
<1>5. Length(e, c, t) = p + (a + x) + (n + 1 - 1) + 2
  BY <1>1, <1>2, <1>3 DEF Length
<1>6. s = <<>> <=> n = 0
  BY <1>1, <1>3
<1> QED
  BY <1>4, <1>5, <1>6 DEF t

LEMMA RecordTyped ==
  ASSUME SplitTypes, NEW c \in 1..Len(input)
  PROVE  /\ input[c].prefix \in Nat /\ input[c].records \in Seq(Nat)
         /\ \A i \in 1..Len(input[c].records) : input[c].records[i] \in Nat
<1>1. input[c] \in ExportCategories
  BY DEF SplitTypes
<1> QED
  BY <1>1 DEF ExportCategories

LEMMA PartTyped ==
  ASSUME SplitTypes, NEW i \in 1..Len(splitParts)
  PROVE  /\ splitParts[i].category \in Nat /\ splitParts[i].records \in Seq(Nat)
         /\ splitParts[i].bytes \in Nat
<1>1. splitParts[i] \in StoredParts
  BY DEF SplitTypes
<1> QED
  BY <1>1 DEF StoredParts

(* Sections of the records. *)
LEMMA SectionMore ==
  ASSUME NEW s \in Seq(Nat), NEW a \in 1..Len(s), NEW b \in Nat, a <= b + 1, b + 1 <= Len(s)
  PROVE  Append(SubSeq(s, a, b), s[b + 1]) = SubSeq(s, a, b + 1)
OBVIOUS

LEMMA SectionOne ==
  ASSUME NEW s \in Seq(Nat), NEW i \in 1..Len(s)
  PROVE  SubSeq(s, i, i) = <<s[i]>>
<1> DEFINE t == SubSeq(s, i, i)
<1>1. t \in Seq(Nat) /\ Len(t) = 1 /\ t[1] = s[i]
  OBVIOUS
<1> HIDE DEF t
<1>2. t = <<t[1]>>
  BY <1>1
<1> QED
  BY <1>1, <1>2 DEF t

LEMMA SectionNone ==
  ASSUME NEW s \in Seq(Nat)
  PROVE  SubSeq(s, 1, 0) = <<>>
OBVIOUS

(* What a category's parts are when one more is stored. *)
LEMMA PartAdded ==
  ASSUME NEW stored \in Seq(StoredParts), NEW p \in StoredParts
  PROVE  LET more == Append(stored, p) IN
         /\ more \in Seq(StoredParts) /\ Len(more) = Len(stored) + 1 /\ Len(stored) \in Nat
         /\ more[Len(stored) + 1] = p /\ \A i \in 1..Len(stored) : more[i] = stored[i]
OBVIOUS

LEMMA PackedKept ==
  ASSUME NEW stored \in Seq(StoredParts), NEW p \in StoredParts, NEW records, NEW c, NEW n,
         NEW f \in 1..Len(stored), NEW l \in 1..Len(stored), p.category # c,
         PackedIn(records, stored, c, f, l, n)
  PROVE  PackedIn(records, Append(stored, p), c, f, l, n)
<1> DEFINE more == Append(stored, p)
<1>1. /\ Len(more) = Len(stored) + 1 /\ Len(stored) \in Nat
      /\ more[Len(stored) + 1] = p /\ \A i \in 1..Len(stored) : more[i] = stored[i]
  BY PartAdded
<1> HIDE DEF more
<1>2. ASSUME NEW i \in 1..Len(more) PROVE more[i].category = c <=> i \in f..l
  <2>1. \A j \in 1..Len(stored) : stored[j].category = c <=> j \in f..l
    BY DEF PackedIn
  <2>2. CASE i \in 1..Len(stored)
    BY <1>1, <2>1, <2>2
  <2>3. CASE i = Len(stored) + 1
    BY <1>1, <2>3
  <2> QED
    BY <1>1, <2>2, <2>3
<1>3. \A i \in f..l : more[i] = stored[i]
  BY <1>1
<1> QED
  BY <1>2, <1>3 DEF PackedIn, more

LEMMA PackedMore ==
  ASSUME NEW stored \in Seq(StoredParts), NEW p \in StoredParts, NEW records, NEW c,
         NEW f \in 1..Len(stored) + 1, NEW n \in Nat, NEW m \in 0..n, p.category = c,
         p.records = SubSeq(records, m + 1, n),
         PackedIn(records, stored, c, f, Len(stored), m)
  PROVE  PackedIn(records, Append(stored, p), c, f, Len(stored) + 1, n)
<1> DEFINE more == Append(stored, p)
<1>1. /\ Len(more) = Len(stored) + 1 /\ Len(stored) \in Nat
      /\ more[Len(stored) + 1] = p /\ \A i \in 1..Len(stored) : more[i] = stored[i]
  BY PartAdded
<1> HIDE DEF more
<1>2. ASSUME NEW i \in 1..Len(more)
      PROVE  more[i].category = c <=> i \in f..Len(stored) + 1
  <2>1. \A j \in 1..Len(stored) : stored[j].category = c <=> j \in f..Len(stored)
    BY DEF PackedIn
  <2>2. CASE i \in 1..Len(stored)
    BY <1>1, <2>1, <2>2
  <2>3. CASE i = Len(stored) + 1
    BY <1>1, <2>3
  <2> QED
    BY <1>1, <2>2, <2>3
<1>3. PICK cut \in [f - 1..Len(stored) -> 0..m] :
        /\ cut[f - 1] = 0 /\ cut[Len(stored)] = m
        /\ \A i \in f..Len(stored) :
             /\ cut[i - 1] <= cut[i]
             /\ stored[i].records = SubSeq(records, cut[i - 1] + 1, cut[i])
  BY DEF PackedIn
<1> DEFINE ext == [i \in f - 1..Len(stored) + 1 |-> IF i = Len(stored) + 1 THEN n ELSE cut[i]]
<1>4. ext \in [f - 1..Len(stored) + 1 -> 0..n]
  BY <1>1
<1>5. ext[f - 1] = 0 /\ ext[Len(stored) + 1] = n
  BY <1>1, <1>3
<1>6. ASSUME NEW i \in f..Len(stored) + 1
      PROVE  /\ ext[i - 1] <= ext[i]
             /\ more[i].records = SubSeq(records, ext[i - 1] + 1, ext[i])
  <2>1. CASE i = Len(stored) + 1
    <3>1. ext[i] = n /\ ext[i - 1] = m
      BY <1>1, <1>3, <2>1
    <3> QED
      BY <1>1, <2>1, <3>1
  <2>2. CASE i # Len(stored) + 1
    <3>1. i \in f..Len(stored) /\ ext[i] = cut[i] /\ ext[i - 1] = cut[i - 1] /\ more[i] = stored[i]
      BY <1>1, <2>2
    <3> QED
      BY <1>3, <3>1
  <2> QED
    BY <2>1, <2>2
<1> HIDE DEF ext
<1> QED
  BY <1>2, <1>4, <1>5, <1>6 DEF PackedIn, more

LEMMA PackedNew ==
  ASSUME NEW stored \in Seq(StoredParts), NEW records, NEW c,
         \A i \in 1..Len(stored) : stored[i].category # c
  PROVE  PackedIn(records, stored, c, Len(stored) + 1, Len(stored), 0)
<1> DEFINE n == Len(stored)
           cut == [i \in n + 1 - 1..n |-> 0]
<1>1. n \in Nat /\ n + 1 - 1 = n
  OBVIOUS
<1> HIDE DEF n
<1>2. cut \in [n + 1 - 1..n -> 0..0] /\ cut[n] = 0
  BY <1>1
<1>3. ~ \E i \in n + 1..n : TRUE
  BY <1>1
<1> HIDE DEF cut
<1>4. \E g \in [n + 1 - 1..n -> 0..0] :
        /\ g[n + 1 - 1] = 0 /\ g[n] = 0
        /\ \A i \in n + 1..n :
             g[i - 1] <= g[i] /\ stored[i].records = SubSeq(records, g[i - 1] + 1, g[i])
  BY <1>1, <1>2, <1>3
<1>5. \A i \in 1..n : stored[i].category = c <=> i \in n + 1..n
  BY <1>1, <1>3 DEF n
<1> QED
  BY <1>4, <1>5 DEF PackedIn, n


(* The steps. *)
LEMMA SplitStart ==
  ASSUME Split!SplitInit
  PROVE  SplitInv
<1>1. Exports \subseteq Seq(ExportCategories) /\ Limits \subseteq Nat
  BY DataAssumption DEF Split!SplitAssumption, ExportCategories
<1>2. /\ input \in Exports /\ limit \in Limits /\ category = 1 /\ next = 0
      /\ open = <<>> /\ bytes = 0 /\ splitParts = <<>> /\ result = "none"
  BY DEF Split!SplitInit
<1>3. open \in Seq(Nat) /\ splitParts \in Seq(StoredParts) /\ Len(splitParts) = 0
  BY <1>2
<1>4. input \in Seq(ExportCategories) /\ Len(input) \in Nat
  BY <1>1, <1>2
<1>5. SplitTypes
  BY <1>1, <1>2, <1>3, <1>4 DEF SplitTypes
<1>6. Storable
  <2>1. ASSUME NEW c \in 1..Len(input), c < 1 PROVE FALSE
    BY <2>1
  <2>2. ASSUME NEW c \in 1..Len(input), NEW i \in 1..Len(input[c].records), i < 0 PROVE FALSE
    BY <2>2
  <2> QED
    BY <1>2, <2>1, <2>2 DEF Storable
<1>7. Measured /\ FollowsFull /\ Underway
  BY <1>2 DEF Measured, FollowsFull, Underway
<1>8. InOrder /\ Bounded /\ Filled
  BY <1>3 DEF InOrder, Bounded, Filled
<1> QED
  BY <1>2, <1>5, <1>6, <1>7, <1>8 DEF SplitInv

(* An export is refused for a record, or a prefix, that is too long.        *)
LEMMA Refused ==
  ASSUME SplitInv, Split!Reject, result = "none", Impossible
  PROVE  SplitInv'
<1>1. result' = "tooLarge"
      /\ UNCHANGED <<input, limit, category, next, open, bytes, splitParts>>
  BY DEF Split!Reject
<1>2. SplitTypes' /\ Storable' /\ Measured'
  BY <1>1 DEF SplitInv, SplitTypes, Storable, Measured
<1>3. InOrder' /\ Bounded' /\ Filled' /\ FollowsFull'
  BY <1>1 DEF SplitInv, InOrder, Bounded, Filled, FollowsFull
<1>4. Underway' /\ \A c \in 1..Len(input') : c < category' => Stored(c)'
  BY <1>1 DEF SplitInv, Underway, Stored
<1>5. Impossible'
  BY <1>1 DEF Impossible
<1> QED
  BY <1>2, <1>3, <1>4, <1>5 DEF SplitInv

LEMMA BeginCategoryStep ==
  ASSUME SplitInv, Split!BeginCategory
  PROVE  SplitInv'
<1>1. /\ result = "none" /\ category \in 1..Len(input) /\ next = 0 /\ SplitTypes
  BY DEF Split!BeginCategory, SplitInv, SplitTypes
<1>2. /\ input[category].prefix \in Nat /\ input[category].records \in Seq(Nat)
      /\ Length(input, category, <<>>) = input[category].prefix + 2
  BY <1>1, RecordTyped, LengthNone
<1>3. CASE input[category].prefix + 2 > limit /\ Split!Reject
  <2>1. Impossible
    BY <1>1, <1>2, <1>3 DEF Impossible
  <2> QED
    BY <1>1, <1>3, <2>1, Refused
<1>4. CASE /\ input[category].prefix + 2 <= limit
           /\ next' = 1 /\ open' = <<>> /\ bytes' = input[category].prefix
           /\ UNCHANGED <<input, limit, category, splitParts, result>>
  <2>1. SplitTypes'
    <3>1. open' \in Seq(Nat) /\ 1 <= Len(input[category].records) + 1
      BY <1>2, <1>4
    <3> QED
      BY <1>1, <1>2, <1>4, <3>1 DEF SplitTypes
  <2>2. Storable'
    <3>1. ASSUME NEW c \in 1..Len(input), c < category \/ (c = category /\ 1 > 0)
          PROVE  Length(input, c, <<>>) <= limit
      BY <1>2, <1>4, <3>1 DEF SplitInv, Storable
    <3>2. ASSUME NEW c \in 1..Len(input), NEW i \in 1..Len(input[c].records),
                 c < category \/ (c = category /\ i < 1)
          PROVE  Length(input, c, <<input[c].records[i]>>) <= limit
      BY <3>2 DEF SplitInv, Storable
    <3> QED
      BY <1>4, <3>1, <3>2 DEF Storable
  <2>3. Measured'
    BY <1>2, <1>4 DEF Measured
  <2>4. \A i \in 1..Len(splitParts) : splitParts[i].category # category
    BY <1>1 DEF SplitInv, InOrder
  <2>5. InOrder' /\ Bounded' /\ Filled'
    BY <1>4 DEF SplitInv, InOrder, Bounded, Filled
  <2>6. FollowsFull'
    <3>1. Len(splitParts) > 0 => Len(splitParts) \in 1..Len(splitParts)
      BY <1>1 DEF SplitTypes
    <3> QED
      BY <1>4, <2>4, <3>1 DEF FollowsFull
  <2>7. \A c \in 1..Len(input') : c < category' => Stored(c)'
    BY <1>4 DEF SplitInv, Stored
  <2>8. Underway'
    <3>1. PackedIn(input[category].records, splitParts, category, Len(splitParts) + 1,
                   Len(splitParts), 0)
      BY <1>1, <2>4, PackedNew DEF SplitTypes
    <3>2. /\ Len(splitParts) + 1 \in 1..Len(splitParts) + 1 /\ 0 \in 0..1 - 1
          /\ SubSeq(input[category].records, 0 + 1, 1 - 1) = <<>>
      BY <1>1, <1>2, SectionNone DEF SplitTypes
    <3> QED
      BY <1>4, <3>1, <3>2 DEF Underway
  <2> QED
    BY <1>1, <1>4, <2>1, <2>2, <2>3, <2>5, <2>6, <2>7, <2>8 DEF SplitInv
<1> QED
  BY <1>3, <1>4 DEF Split!BeginCategory, Split!Prefix


(* The two ways a record that can be stored is added: it goes into the part *)
(* being written, or that part p is stored and the record begins the next.  *)
Comma == IF open = <<>> THEN 0 ELSE 1
Reads(size) ==
  /\ result = "none" /\ category \in 1..Len(input)
  /\ next \in 1..Len(input[category].records) /\ size = input[category].records[next]
  /\ Length(input, category, <<size>>) <= limit
  /\ next' = next + 1 /\ UNCHANGED <<input, limit, category, result>>
Extends(size) ==
  /\ bytes + Comma + size + 2 <= limit
  /\ open' = Append(open, size) /\ bytes' = bytes + Comma + size /\ UNCHANGED splitParts
Starts(size, p) ==
  /\ ~ (bytes + Comma + size + 2 <= limit)
  /\ p = [category |-> category, records |-> open, bytes |-> bytes + 2]
  /\ splitParts' = Append(splitParts, p)
  /\ open' = <<size>> /\ bytes' = input[category].prefix + size

LEMMA ReadTypes ==
  ASSUME SplitInv, NEW size \in Nat, Reads(size)
  PROVE  /\ SplitTypes /\ next \in Nat /\ next > 0 /\ bytes \in Nat /\ limit \in Nat
         /\ category \in Nat /\ category \in 1..Len(input) /\ Comma \in {0, 1}
         /\ open \in Seq(Nat) /\ splitParts \in Seq(StoredParts)
         /\ bytes + 2 = Length(input, category, open)
         /\ input[category].prefix \in Nat /\ input[category].records \in Seq(Nat)
         /\ next \in 1..Len(input[category].records) /\ size = input[category].records[next]
         /\ Length(input, category, <<>>) = input[category].prefix + 2
         /\ Length(input, category, <<size>>) = input[category].prefix + size + 2
         /\ Length(input, category, Append(open, size))
              = Length(input, category, open) + Comma + size
<1>1. /\ SplitTypes /\ category \in 1..Len(input) /\ next \in 1..Len(input[category].records)
      /\ size = input[category].records[next]
  BY DEF SplitInv, Reads
<1>2. /\ next \in Nat /\ next > 0 /\ bytes \in Nat /\ limit \in Nat /\ category \in Nat
      /\ open \in Seq(Nat) /\ splitParts \in Seq(StoredParts)
  BY <1>1 DEF SplitTypes
<1>3. input[category].prefix \in Nat /\ input[category].records \in Seq(Nat)
  BY <1>1, RecordTyped
<1>4. Length(input, category, Append(open, size)) = Length(input, category, open) + Comma + size
  BY <1>2, <1>3, LengthMore DEF Comma
<1>5. bytes + 2 = Length(input, category, open)
  BY <1>2 DEF SplitInv, Measured
<1>6. Comma \in {0, 1}
  BY DEF Comma
<1>7. Length(input, category, <<>>) = input[category].prefix + 2
  BY <1>3, LengthNone
<1>8. Length(input, category, <<size>>) = input[category].prefix + size + 2
  BY <1>3, LengthOne
<1> QED
  BY <1>1, <1>2, <1>3, <1>4, <1>5, <1>6, <1>7, <1>8

LEMMA StorableMore ==
  ASSUME SplitInv, NEW size \in Nat, Reads(size)
  PROVE  Storable'
<1>1. next \in Nat /\ next' = next + 1 /\ UNCHANGED <<input, limit, category>>
  BY DEF SplitInv, SplitTypes, Reads
<1>2. ASSUME NEW c \in 1..Len(input), c < category \/ (c = category /\ next + 1 > 0)
      PROVE  Length(input, c, <<>>) <= limit
  BY <1>2 DEF SplitInv, Storable, Reads
<1>3. ASSUME NEW c \in 1..Len(input), NEW i \in 1..Len(input[c].records),
             c < category \/ (c = category /\ i < next + 1)
      PROVE  Length(input, c, <<input[c].records[i]>>) <= limit
  <2>1. CASE c < category \/ (c = category /\ i < next)
    BY <2>1 DEF SplitInv, Storable
  <2>2. CASE c = category /\ i = next
    BY <2>2 DEF Reads
  <2> QED
    BY <1>1, <1>3, <2>1, <2>2
<1> QED
  BY <1>1, <1>2, <1>3 DEF Storable

(* The record goes into the part being written. *)
LEMMA FirstStays ==
  ASSUME NEW s \in Seq(Nat), NEW x \in Nat
  PROVE  /\ Append(s, x) \in Seq(Nat) /\ Append(s, x) # <<>>
         /\ (s # <<>> => Append(s, x)[1] = s[1])
OBVIOUS

LEMMA RecordFits ==
  ASSUME SplitInv, NEW size \in Nat, Reads(size), Extends(size)
  PROVE  SplitInv'
<1>1. /\ SplitTypes /\ next \in Nat /\ next > 0 /\ bytes \in Nat /\ limit \in Nat
      /\ Comma \in {0, 1} /\ open \in Seq(Nat) /\ category \in 1..Len(input)
      /\ next \in 1..Len(input[category].records)
  BY ReadTypes
<1>1a. input[category].records \in Seq(Nat) /\ size = input[category].records[next]
  BY ReadTypes
<1>1b. /\ bytes + 2 = Length(input, category, open)
       /\ Length(input, category, Append(open, size))
            = Length(input, category, open) + Comma + size
  BY ReadTypes
<1>2. /\ next' = next + 1 /\ UNCHANGED <<input, limit, category, splitParts, result>>
      /\ bytes + Comma + size + 2 <= limit
      /\ open' = Append(open, size) /\ bytes' = bytes + Comma + size /\ result = "none"
  BY DEF Reads, Extends
<1>3. Append(open, size) \in Seq(Nat) /\ Append(open, size) # <<>>
      /\ (open # <<>> => Append(open, size)[1] = open[1])
  BY <1>1, FirstStays
<1>4. SplitTypes'
  <2>1. category \in 1..Len(input) /\ next + 1 <= Len(input[category].records) + 1
    BY <1>1
  <2> QED
    BY <1>1, <1>2, <1>3, <2>1 DEF SplitTypes
<1>5. Storable'
  BY StorableMore
<1>6. Measured'
  BY <1>1, <1>2, <1>1b DEF Measured
<1>7. InOrder' /\ Bounded' /\ Filled'
  BY <1>1, <1>2 DEF SplitInv, InOrder, Bounded, Filled
<1>8. FollowsFull'
  BY <1>1, <1>2, <1>3 DEF SplitInv, FollowsFull, IsFull
<1>9. \A c \in 1..Len(input') : c < category' => Stored(c)'
  BY <1>2 DEF SplitInv, Stored
<1>10. Underway'
  <2>1. PICK f \in 1..Len(splitParts) + 1, m \in 0..next - 1 :
          /\ PackedIn(input[category].records, splitParts, category, f, Len(splitParts), m)
          /\ open = SubSeq(input[category].records, m + 1, next - 1)
    BY <1>1 DEF SplitInv, Underway
  <2>2. Append(open, size) = SubSeq(input[category].records, m + 1, next)
    <3> DEFINE s == input[category].records
    <3>1. m + 1 \in 1..Len(s) /\ next - 1 \in Nat /\ m + 1 <= (next - 1) + 1
          /\ (next - 1) + 1 <= Len(s) /\ (next - 1) + 1 = next
      BY <1>1
    <3>2. Append(SubSeq(s, m + 1, next - 1), s[(next - 1) + 1]) = SubSeq(s, m + 1, (next - 1) + 1)
      <4> HIDE DEF s
      <4>1. s \in Seq(Nat)
        BY <1>1a DEF s
      <4> QED
        BY <3>1, <4>1, SectionMore
    <3> QED
      BY <1>1a, <2>1, <3>1, <3>2
  <2>3. m \in 0..(next + 1) - 1 /\ (next + 1) - 1 = next
    BY <1>1
  <2> QED
    BY <1>2, <2>1, <2>2, <2>3 DEF Underway
<1> QED
  BY <1>2, <1>4, <1>5, <1>6, <1>7, <1>8, <1>9, <1>10 DEF SplitInv

(* What holds of the parts when the one being written is stored. *)
LEMMA PartStored ==
  ASSUME SplitInv, category \in 1..Len(input), next > 0, NEW p,
         p = [category |-> category, records |-> open, bytes |-> bytes + 2],
         splitParts' = Append(splitParts, p), UNCHANGED <<input, limit>>
  PROVE  /\ p \in StoredParts /\ splitParts' \in Seq(StoredParts)
         /\ Len(splitParts) \in Nat /\ Len(splitParts') = Len(splitParts) + 1
         /\ splitParts'[Len(splitParts) + 1] = p
         /\ \A i \in 1..Len(splitParts') : splitParts'[i].category \in 1..category
         /\ Bounded' /\ Filled'
         /\ \A c \in 1..Len(input) : c < category => Stored(c)'
         /\ \E f \in 1..Len(splitParts'), m \in 0..next - 1 :
              /\ PackedIn(input[category].records, splitParts, category, f, Len(splitParts), m)
              /\ PackedIn(input[category].records, splitParts', category, f, Len(splitParts'), next - 1)
<1>1. /\ SplitTypes /\ next \in Nat /\ bytes \in Nat /\ limit \in Nat /\ category \in Nat
      /\ open \in Seq(Nat) /\ splitParts \in Seq(StoredParts)
  BY DEF SplitInv, SplitTypes
<1>2. p \in StoredParts /\ p.category = category /\ p.records = open /\ p.bytes = bytes + 2
  BY <1>1 DEF StoredParts
<1>3. /\ splitParts' \in Seq(StoredParts) /\ Len(splitParts') = Len(splitParts) + 1
      /\ Len(splitParts) \in Nat /\ splitParts'[Len(splitParts) + 1] = p
      /\ \A i \in 1..Len(splitParts) : splitParts'[i] = splitParts[i]
  BY <1>1, <1>2, PartAdded
<1>4. ASSUME NEW i \in 1..Len(splitParts') PROVE splitParts'[i].category \in 1..category
  <2>1. CASE i \in 1..Len(splitParts)
    BY <1>3, <2>1 DEF SplitInv, InOrder
  <2>2. CASE i = Len(splitParts) + 1
    BY <1>2, <1>3, <2>2
  <2> QED
    BY <1>3, <2>1, <2>2
<1>5. Bounded'
  <2> SUFFICES ASSUME NEW i \in 1..Len(splitParts')
               PROVE  /\ splitParts'[i].bytes
                           = Length(input, splitParts'[i].category, splitParts'[i].records)
                      /\ splitParts'[i].bytes <= limit
    BY DEF Bounded
  <2>1. CASE i \in 1..Len(splitParts)
    BY <1>3, <2>1 DEF SplitInv, Bounded
  <2>2. CASE i = Len(splitParts) + 1
    BY <1>2, <1>3, <2>2 DEF SplitInv, Measured
  <2> QED
    BY <1>3, <2>1, <2>2
<1>6. Filled'
  <2> SUFFICES ASSUME NEW i \in 1..Len(splitParts') - 1,
                      splitParts'[i].category = splitParts'[i + 1].category
               PROVE  IsFull(input, limit, splitParts'[i], splitParts'[i + 1].records)
    BY DEF Filled
  <2>1. CASE i < Len(splitParts)
    <3>1. /\ i \in 1..Len(splitParts) - 1
          /\ splitParts'[i] = splitParts[i] /\ splitParts'[i + 1] = splitParts[i + 1]
      BY <1>3, <2>1
    <3> QED
      BY <3>1 DEF SplitInv, Filled
  <2>2. CASE i = Len(splitParts)
    <3>1. splitParts'[i] = splitParts[i] /\ splitParts'[i + 1] = p /\ Len(splitParts) > 0
      BY <1>3, <2>2
    <3> QED
      BY <1>2, <2>2, <3>1 DEF SplitInv, FollowsFull
  <2> QED
    BY <1>3, <2>1, <2>2
<1>7. ASSUME NEW c \in 1..Len(input), c < category PROVE Stored(c)'
  <2>1. PICK f \in 1..Len(splitParts), l \in 1..Len(splitParts) :
          f <= l /\ PackedIn(input[c].records, splitParts, c, f, l, Len(input[c].records))
    BY <1>7 DEF SplitInv, Stored
  <2>2. p.category # c
    BY <1>1, <1>2, <1>7
  <2>3. PackedIn(input[c].records, splitParts', c, f, l, Len(input[c].records))
    BY <1>1, <1>2, <2>1, <2>2, PackedKept
  <2>4. f \in 1..Len(splitParts') /\ l \in 1..Len(splitParts')
    BY <1>3
  <2> QED
    BY <2>1, <2>3, <2>4 DEF Stored
<1>8. PICK f \in 1..Len(splitParts) + 1, m \in 0..next - 1 :
        /\ PackedIn(input[category].records, splitParts, category, f, Len(splitParts), m)
        /\ open = SubSeq(input[category].records, m + 1, next - 1)
  BY DEF SplitInv, Underway
<1>9. PackedIn(input[category].records, splitParts', category, f, Len(splitParts'), next - 1)
  <2>1. next - 1 \in Nat
    BY <1>1
  <2>2. PackedIn(input[category].records, Append(splitParts, p), category, f,
                 Len(splitParts) + 1, next - 1)
    BY <1>1, <1>2, <1>8, <2>1, PackedMore
  <2> QED
    BY <1>3, <2>2
<1> QED
  BY <1>2, <1>3, <1>4, <1>5, <1>6, <1>7, <1>8, <1>9

(* The record begins the next part. *)
LEMMA RecordBeginsPart ==
  ASSUME SplitInv, NEW size \in Nat, Reads(size), NEW p, Starts(size, p)
  PROVE  SplitInv'
<1>1. /\ SplitTypes /\ next \in Nat /\ next > 0 /\ bytes \in Nat /\ limit \in Nat
      /\ category \in Nat /\ category \in 1..Len(input)
      /\ Comma \in {0, 1} /\ open \in Seq(Nat)
      /\ next \in 1..Len(input[category].records) /\ input[category].prefix \in Nat
  BY ReadTypes
<1>1a. input[category].records \in Seq(Nat) /\ size = input[category].records[next]
  BY ReadTypes
<1>1b. /\ bytes + 2 = Length(input, category, open)
       /\ Length(input, category, <<>>) = input[category].prefix + 2
       /\ Length(input, category, <<size>>) = input[category].prefix + size + 2
       /\ Length(input, category, Append(open, size))
            = Length(input, category, open) + Comma + size
  BY ReadTypes
<1>2. /\ next' = next + 1 /\ UNCHANGED <<input, limit, category, result>> /\ result = "none"
      /\ ~ (bytes + Comma + size + 2 <= limit) /\ Length(input, category, <<size>>) <= limit
      /\ p = [category |-> category, records |-> open, bytes |-> bytes + 2]
      /\ splitParts' = Append(splitParts, p)
      /\ open' = <<size>> /\ bytes' = input[category].prefix + size
  BY DEF Reads, Starts
<1>3. /\ p \in StoredParts /\ splitParts' \in Seq(StoredParts)
      /\ Len(splitParts) \in Nat /\ Len(splitParts') = Len(splitParts) + 1
      /\ splitParts'[Len(splitParts) + 1] = p
      /\ \A i \in 1..Len(splitParts') : splitParts'[i].category \in 1..category
      /\ Bounded' /\ Filled'
      /\ \A c \in 1..Len(input) : c < category => Stored(c)'
      /\ \E f \in 1..Len(splitParts') :
           PackedIn(input[category].records, splitParts', category, f, Len(splitParts'), next - 1)
  BY <1>1, <1>2, PartStored
<1>4. p.category = category /\ p.records = open
  BY <1>2
<1>5. SplitTypes'
  <2>1. <<size>> \in Seq(Nat) /\ input[category].prefix + size \in Nat /\ next + 1 \in Nat
    <3>1. next \in Nat /\ input[category].prefix \in Nat
      BY <1>1
    <3> QED
      BY <3>1
  <2>2. category <= Len(input) /\ next + 1 <= Len(input[category].records) + 1
    BY <1>1
  <2> QED
    BY <1>1, <1>2, <1>3, <2>1, <2>2 DEF SplitTypes
<1>6. Storable'
  BY StorableMore
<1>7. Measured'
  BY <1>1, <1>2, <1>1b DEF Measured
<1>8. InOrder'
  <2>1. next' # 0 /\ category' = category
    BY <1>1, <1>2
  <2> QED
    BY <1>3, <2>1 DEF InOrder
<1>9. FollowsFull'
  <2>1. open # <<>>
    <3> SUFFICES ASSUME open = <<>> PROVE FALSE
      OBVIOUS
    <3>1. bytes + 2 = input[category].prefix + 2 /\ Comma = 0
      BY <1>1b DEF Comma
    <3> QED
      BY <1>1, <1>2, <1>1b, <3>1
  <2>2. Comma = 1
    BY <2>1 DEF Comma
  <2>3. Length(input, category, Append(open, size)) > limit
    BY <1>1, <1>2, <1>1b, <2>2
  <2>4. <<size>> # <<>> /\ <<size>>[1] = size
    OBVIOUS
  <2>5. IsFull(input, limit, p, <<size>>)
    BY <1>4, <2>1, <2>3, <2>4 DEF IsFull
  <2> QED
    BY <1>2, <1>3, <2>5 DEF FollowsFull
<1>10. Underway'
  <2>1. SubSeq(input[category].records, next, next) = <<size>>
    BY <1>1, <1>1a, SectionOne
  <2>2. next - 1 \in 0..(next + 1) - 1 /\ (next - 1) + 1 = next /\ (next + 1) - 1 = next
    BY <1>1
  <2>3. PICK f \in 1..Len(splitParts') :
          PackedIn(input[category].records, splitParts', category, f, Len(splitParts'), next - 1)
    BY <1>3
  <2>4. f \in 1..Len(splitParts') + 1
    BY <1>3
  <2> QED
    BY <1>2, <2>1, <2>2, <2>3, <2>4 DEF Underway
<1>11. \A c \in 1..Len(input') : c < category' => Stored(c)'
  BY <1>2, <1>3
<1> QED
  BY <1>2, <1>3, <1>5, <1>6, <1>7, <1>8, <1>9, <1>10, <1>11 DEF SplitInv

LEMMA AddRecordStep ==
  ASSUME SplitInv, Split!AddRecord
  PROVE  SplitInv'
<1>1. /\ SplitTypes /\ result = "none" /\ category \in 1..Len(input)
      /\ next \in 1..Len(input[category].records) /\ limit \in Nat
  <2>1. SplitTypes
    BY DEF SplitInv
  <2>2. result = "none" /\ next \in 1..IF category <= Len(input) THEN Len(input[category].records) ELSE 0
    BY DEF Split!AddRecord, Split!Records
  <2>3. category <= Len(input)
    BY <2>2
  <2> QED
    BY <2>1, <2>2, <2>3 DEF SplitTypes
<1>2. PICK size \in Nat : size = input[category].records[next]
  BY <1>1, RecordTyped
<1>3. /\ input[category].prefix \in Nat
      /\ Length(input, category, <<size>>) = input[category].prefix + size + 2
  BY <1>1, RecordTyped, LengthOne
<1>4. PICK p : p = [category |-> category, records |-> open, bytes |-> bytes + 2]
  OBVIOUS
<1>5. \/ input[category].prefix + size + 2 > limit /\ Split!Reject
      \/ /\ input[category].prefix + size + 2 <= limit
         /\ next' = next + 1 /\ UNCHANGED <<input, limit, category, result>>
         /\ Extends(size) \/ Starts(size, p)
  BY <1>2, <1>4 DEF Split!AddRecord, Split!Fits, Split!Comma, Split!Prefix, Split!Records,
    Split!Finished, Extends, Starts, Comma
<1>6. CASE input[category].prefix + size + 2 > limit /\ Split!Reject
  <2>1. Impossible
    BY <1>1, <1>2, <1>3, <1>6 DEF Impossible
  <2> QED
    BY <1>1, <1>6, <2>1, Refused
<1>7. CASE /\ input[category].prefix + size + 2 <= limit
           /\ next' = next + 1 /\ UNCHANGED <<input, limit, category, result>>
           /\ Extends(size) \/ Starts(size, p)
  <2>1. Reads(size)
    BY <1>1, <1>2, <1>3, <1>7 DEF Reads
  <2> QED
    BY <1>7, <2>1, RecordFits, RecordBeginsPart
<1> QED
  BY <1>5, <1>6, <1>7

LEMMA StoredAt ==
  ASSUME UNCHANGED input, NEW c, NEW f \in 1..Len(splitParts'), NEW l \in 1..Len(splitParts'),
         f <= l, PackedIn(input[c].records, splitParts', c, f, l, Len(input[c].records))
  PROVE  Stored(c)'
BY DEF Stored

LEMMA EndCategoryStep ==
  ASSUME SplitInv, Split!EndCategory
  PROVE  SplitInv'
<1>1. /\ result = "none" /\ category <= Len(input) /\ next = Len(input[category].records) + 1
      /\ splitParts' = Append(splitParts, Split!Finished)
      /\ category' = category + 1 /\ next' = 0 /\ open' = <<>> /\ bytes' = 0
      /\ UNCHANGED <<input, limit, result>>
  BY DEF Split!EndCategory, Split!Records
<1>2. SplitTypes /\ category \in 1..Len(input) /\ category \in Nat /\ Len(input) \in Nat
  BY <1>1 DEF SplitInv, SplitTypes
<1>3. PICK n \in Nat : n = Len(input[category].records)
  <2>1. input[category].records \in Seq(Nat)
    BY <1>2, RecordTyped
  <2> QED
    BY <2>1
<1>4. PICK p : p = [category |-> category, records |-> open, bytes |-> bytes + 2]
  OBVIOUS
<1>5. /\ p \in StoredParts /\ splitParts' \in Seq(StoredParts)
      /\ Len(splitParts) \in Nat /\ Len(splitParts') = Len(splitParts) + 1
      /\ splitParts'[Len(splitParts) + 1] = p
      /\ \A i \in 1..Len(splitParts') : splitParts'[i].category \in 1..category
      /\ Bounded' /\ Filled'
      /\ \A c \in 1..Len(input) : c < category => Stored(c)'
      /\ \E f \in 1..Len(splitParts'), m \in 0..next - 1 :
           /\ PackedIn(input[category].records, splitParts, category, f, Len(splitParts), m)
           /\ PackedIn(input[category].records, splitParts', category, f, Len(splitParts'), next - 1)
  <2>1. splitParts' = Append(splitParts, p) /\ next > 0 /\ UNCHANGED <<input, limit>>
    BY <1>1, <1>3, <1>4 DEF Split!Finished
  <2> QED
    BY <1>2, <1>4, <2>1, PartStored
<1>6. SplitTypes'
  <2>1. <<>> \in Seq(Nat) /\ category + 1 \in 1..Len(input) + 1
    BY <1>1, <1>2
  <2> QED
    BY <1>1, <1>2, <1>5, <2>1 DEF SplitTypes
<1>7. Storable'
  <2>1. ASSUME NEW c \in 1..Len(input), c < category + 1
        PROVE  Length(input, c, <<>>) <= limit
    <3>1. c < category \/ (c = category /\ next > 0)
      BY <1>1, <1>2, <1>3, <2>1
    <3> QED
      BY <3>1 DEF SplitInv, Storable
  <2>2. ASSUME NEW c \in 1..Len(input), NEW i \in 1..Len(input[c].records), c < category + 1
        PROVE  Length(input, c, <<input[c].records[i]>>) <= limit
    <3>1. c < category \/ (c = category /\ i < next)
      BY <1>1, <1>2, <1>3, <2>2
    <3> QED
      BY <3>1 DEF SplitInv, Storable
  <2>3. ASSUME NEW c \in 1..Len(input), NEW i \in 1..Len(input[c].records), i < 0 PROVE FALSE
    BY <2>3
  <2> QED
    BY <1>1, <2>1, <2>2, <2>3 DEF Storable
<1>8. Measured' /\ FollowsFull' /\ Underway'
  BY <1>1 DEF Measured, FollowsFull, Underway
<1>9. InOrder'
  <2>1. ASSUME NEW c \in 1..category PROVE c \in 1..category + 1 /\ c # category + 1
    BY <1>2
  <2> QED
    BY <1>1, <1>5, <2>1 DEF InOrder
<1>10. ASSUME NEW c, c = category PROVE Stored(c)'
  <2>1. PICK f \in 1..Len(splitParts') :
          PackedIn(input[category].records, splitParts', category, f, Len(splitParts'), next - 1)
    BY <1>5
  <2>2. next - 1 = Len(input[category].records)
    BY <1>1, <1>3
  <2>3. Len(splitParts') \in 1..Len(splitParts') /\ f <= Len(splitParts')
    BY <1>5
  <2> QED
    BY <1>1, <1>10, <2>1, <2>2, <2>3, StoredAt
<1>11. \A c \in 1..Len(input') : c < category' => Stored(c)'
  <2>1. ASSUME NEW c \in 1..Len(input), c < category + 1 PROVE c < category \/ c = category
    BY <1>2, <2>1
  <2> QED
    BY <1>1, <1>5, <1>10, <2>1
<1> QED
  BY <1>1, <1>5, <1>6, <1>7, <1>8, <1>9, <1>11 DEF SplitInv

LEMMA ReturnStep ==
  ASSUME SplitInv, Split!Return
  PROVE  SplitInv'
<1>1. /\ result = "none" /\ category = Len(input) + 1 /\ result' = "split"
      /\ UNCHANGED <<input, limit, category, next, open, bytes, splitParts>>
  BY DEF Split!Return
<1>2. SplitTypes' /\ Storable' /\ Measured'
  BY <1>1 DEF SplitInv, SplitTypes, Storable, Measured
<1>3. InOrder' /\ Bounded' /\ Filled' /\ FollowsFull'
  BY <1>1 DEF SplitInv, InOrder, Bounded, Filled, FollowsFull
<1>4. Underway' /\ \A c \in 1..Len(input') : c < category' => Stored(c)'
  BY <1>1 DEF SplitInv, Underway, Stored
<1> QED
  BY <1>1, <1>2, <1>3, <1>4 DEF SplitInv

LEMMA SplitStep ==
  ASSUME SplitInv, Split!SplitNext
  PROVE  SplitInv'
BY BeginCategoryStep, AddRecordStep, EndCategoryStep, ReturnStep DEF Split!SplitNext

LEMMA SplitRests ==
  ASSUME SplitInv, UNCHANGED splitState
  PROVE  SplitInv'
<1>1. UNCHANGED <<input, limit, category, next, open, bytes, splitParts, result>>
  BY DEF splitState
<1>2. SplitTypes' /\ Storable' /\ Measured'
  BY <1>1 DEF SplitInv, SplitTypes, Storable, Measured
<1>3. InOrder' /\ Bounded' /\ Filled' /\ FollowsFull'
  BY <1>1 DEF SplitInv, InOrder, Bounded, Filled, FollowsFull
<1>4. Underway' /\ \A c \in 1..Len(input') : c < category' => Stored(c)'
  BY <1>1 DEF SplitInv, Underway, Stored
<1>5. result' = "tooLarge" => Impossible'
  BY <1>1 DEF SplitInv, Impossible
<1> QED
  BY <1>2, <1>3, <1>4, <1>5 DEF SplitInv

(* What the split promises, in the terms of DataSubject. *)
LEMMA SplitPromise ==
  ASSUME SplitInv
  PROVE  /\ Split!PartsBounded /\ Split!NothingLost
         /\ Split!PartsFilled /\ Split!RefusedWhenImpossible
<1>1. \A c, records : Split!Wrapped(c, records) = Length(input, c, records)
  BY DEF Split!Wrapped, Length
<1>2. \A c, f, l, n : Split!Packed(c, f, l, n) <=> PackedIn(input[c].records, splitParts, c, f, l, n)
  BY DEF Split!Packed, PackedIn
<1>3. Split!PartsBounded
  BY <1>1 DEF SplitInv, Bounded, Split!PartsBounded
<1>4. Split!NothingLost
  <2> SUFFICES ASSUME result = "split", NEW c \in 1..Len(input)
               PROVE  \E f, l \in 1..Len(splitParts) :
                        f <= l /\ Split!Packed(c, f, l, Len(input[c].records))
    BY DEF Split!NothingLost
  <2>1. c < category
    BY DEF SplitInv, SplitTypes
  <2>2. Stored(c)
    BY <2>1 DEF SplitInv
  <2> QED
    BY <1>2, <2>2 DEF Stored
<1>5. Split!PartsFilled
  BY <1>1 DEF SplitInv, Filled, IsFull, Split!PartsFilled
<1>6. Split!RefusedWhenImpossible
  <2>1. result = "tooLarge" => Impossible
    BY DEF SplitInv
  <2>2. ASSUME result = "split" PROVE ~Impossible
    <3>1. \A c \in 1..Len(input) : c < category
      BY <2>2 DEF SplitInv, SplitTypes
    <3>2. ASSUME NEW c \in 1..Len(input)
          PROVE  /\ ~ (Length(input, c, <<>>) > limit)
                 /\ \A i \in 1..Len(input[c].records) :
                      ~ (Length(input, c, <<input[c].records[i]>>) > limit)
      <4>1. /\ input[c].prefix \in Nat /\ limit \in Nat
            /\ \A i \in 1..Len(input[c].records) : input[c].records[i] \in Nat
        BY RecordTyped DEF SplitInv, SplitTypes
      <4>2. Length(input, c, <<>>) \in Nat
        BY <4>1, LengthNone
      <4>3. \A i \in 1..Len(input[c].records) : Length(input, c, <<input[c].records[i]>>) \in Nat
        BY <4>1, LengthOne
      <4>4. /\ Length(input, c, <<>>) <= limit
            /\ \A i \in 1..Len(input[c].records) :
                 Length(input, c, <<input[c].records[i]>>) <= limit
        BY <3>1 DEF SplitInv, Storable
      <4> QED
        BY <4>1, <4>2, <4>3, <4>4
    <3> QED
      BY <3>2 DEF Impossible
  <2> QED
    BY <1>1, <2>1, <2>2 DEF Impossible, Split!RefusedWhenImpossible
<1> QED
  BY <1>3, <1>4, <1>5, <1>6

-----------------------------------------------------------------------------
(* The exports as parts of MCData. *)
ExportsInv ==
  /\ \A k \in Cases : part = k => SubjectInv(k) /\ KeysInv(k)
  /\ part = "split" => SplitInv

LEMMA SplitMachine ==
  /\ Init => (part = "split" => Split!SplitInit)
  /\ [Next]_vars => (part = "split" => Split!SplitNext \/ UNCHANGED splitState)
<1>1. Init => (part = "split" => Split!SplitInit)
  BY DEF Cases, Init, ErasureStarts, SubjectStarts, SplitStarts, PullStarts, HlcStarts,
    SchedulerStarts, WritesStarts, DraftStarts
<1>2. [Next]_vars => (part = "split" => Split!SplitNext \/ UNCHANGED splitState)
  BY DEF Cases, Next, vars, ErasureMoves, SubjectMoves, SplitMoves, PullMoves, HlcMoves,
    SchedulerMoves, WritesMoves, DraftMoves
<1> QED
  BY <1>1, <1>2

LEMMA KeysRest ==
  ASSUME NEW k \in Cases, KeysInv(k), UNCHANGED subjectState
  PROVE  KeysInv(k)'
<1>1. UNCHANGED <<subjectPc, found, reply, subjectOp, subjectParts>>
  BY DEF subjectState
<1>2. PostsAgree(k)'
  BY <1>1, PostsKept DEF KeysInv, DS!Exists
<1>3. DS(k)!PartsUntilExpiry'
  BY <1>1, PartsKept DEF KeysInv
<1> QED
  BY <1>2, <1>3 DEF KeysInv

LEMMA ExportsStep ==
  ASSUME ExportsInv, [Next]_vars
  PROVE  ExportsInv'
<1>1. ASSUME NEW k \in Cases, part = k PROVE SubjectInv(k)' /\ KeysInv(k)'
  <2>1. SubjectInv(k) /\ KeysInv(k)
    BY <1>1 DEF ExportsInv
  <2>2. DS(k)!SubjectNext \/ UNCHANGED subjectState
    BY <1>1, ErasureMachine
  <2>3. CASE DS(k)!SubjectNext
    BY <2>1, <2>3, SubjectStep, PostsStep, PartsStep DEF KeysInv
  <2>4. CASE UNCHANGED subjectState
    BY <2>1, <2>4, SubjectRests, KeysRest
  <2> QED
    BY <2>2, <2>3, <2>4
<1>2. ASSUME part = "split" PROVE SplitInv'
  <2>1. SplitInv /\ (Split!SplitNext \/ UNCHANGED splitState)
    BY <1>2, SplitMachine DEF ExportsInv
  <2> QED
    BY <2>1, SplitStep, SplitRests
<1>3. part' = part
  BY ErasureMachine
<1> QED
  BY <1>1, <1>2, <1>3 DEF ExportsInv

(* Requests with one key are answered with one operation of one body, the   *)
(* parts of an export stay until they expire, and the split of an export    *)
(* keeps every record, once and in order, in parts that are within the      *)
(* limit and full, or is refused for a record that fits in none, whatever   *)
(* the records, the limit, the requests and the workers (store.rs, purge,   *)
(* split of baukit-data-subject).                                           *)
THEOREM ExportsKept == Spec => []ExportsComplete
<1>1. Init => ExportsInv
  BY ErasureMachine, SplitMachine, SubjectStart, KeysStart, SplitStart DEF ExportsInv
<1>2. ExportsInv /\ [Next]_vars => ExportsInv'
  BY ExportsStep
<1>3. ExportsInv => ExportsComplete
  BY KeysPromise, SplitPromise DEF ExportsInv, ExportsComplete
<1> QED
  BY <1>1, <1>2, <1>3, PTL DEF Spec
=============================================================================
