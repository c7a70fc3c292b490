-------------------------------- MODULE Sync ---------------------------------
(***************************************************************************)
(* Replication: a client that pulls from baukit-sync (Pull...), and the    *)
(* hybrid logical clock of the devices (Hlc...).                           *)
(***************************************************************************)
EXTENDS Integers, FiniteSets, FiniteSetsExt, SequencesExt

-----------------------------------------------------------------------------
(***************************************************************************)
(* Incremental pulls of one owner's rows: revision allocation (revision.rs),*)
(* tombstone purges and the pull guard (purge.rs, horizon.rs), and a client *)
(* that checks each page, applies it and commits its cursor (transport.ts). *)
(* A step is one SQL statement or one client step.  A row's rev is 0 when   *)
(* the row is absent; revisions are bounded by MaxRevision, client failures *)
(* by PullMaxFailures.                                                          *)
(***************************************************************************)

CONSTANTS Ids, Writers, MaxRevision, PullMaxFailures, PageSize, Limit, None

SyncPullAssumption ==
  /\ MaxRevision \in Nat /\ PullMaxFailures \in Nat
  /\ PageSize \in Nat \ {0} /\ Limit \in Nat \ {0}

VARIABLES
  row,      \* committed rows: [rev, dead]
  last,     \* sync_revisions.last_revision
  horizon,  \* sync_purge_horizons.horizon_revision, 0 without a row
  writer,   \* each writer's open transaction: [id, dead] or None
  purge,    \* the purge transaction: [ids, locked] or None
  pull,     \* the pull transaction and its answer
  local,    \* the client's rows: the revision it holds, 0 for none
  cursor,   \* the client's committed cursor
  torn,     \* ghost: rows of first pages whose cursor was not committed
  pullFailures

pullVars == <<row, last, horizon, writer, purge, pull, local, cursor, torn, pullFailures>>

Absent == [rev |-> 0, dead |-> FALSE]
(* What a client holds of a row: nothing of a tombstone. *)
Visible(r) == IF r.dead THEN 0 ELSE r.rev
NoPull == [at |-> "none"]

PullInit ==
  /\ row = [i \in Ids |-> Absent] /\ last = 0 /\ horizon = 0
  /\ writer = [w \in Writers |-> None] /\ purge = None
  /\ pull = NoPull /\ local = [i \in Ids |-> 0]
  /\ cursor = 0 /\ torn = {} /\ pullFailures = 0

(***************************************************************************)
(* The counter row's locks: next_revision's UPDATE and the purge's FOR      *)
(* UPDATE exclude each other; a pull's KEY SHARE excludes only the purge.   *)
(***************************************************************************)
Writing == \E w \in Writers : writer[w] # None
Purging == purge # None /\ purge.locked
Guarded == pull.at \in {"guarded", "bounded"}
CandidateIds == IF purge = None THEN {} ELSE purge.ids

CounterFree == ~Writing /\ ~Purging

Allocate(w) ==
  /\ writer[w] = None /\ CounterFree
  /\ last < MaxRevision
  /\ \E i \in Ids, dead \in BOOLEAN :
       /\ dead => row[i].rev > 0
       /\ writer' = [writer EXCEPT ![w] = [id |-> i, dead |-> dead, rev |-> last + 1]]
  /\ UNCHANGED <<row, last, horizon, purge, pull, local, cursor, torn, pullFailures>>

(* The row write waits for a purge that holds the row. *)
Commit(w) ==
  /\ writer[w] # None /\ writer[w].id \notin CandidateIds
  /\ row' = [row EXCEPT ![writer[w].id] = [rev |-> writer[w].rev, dead |-> writer[w].dead]]
  /\ last' = writer[w].rev
  /\ writer' = [writer EXCEPT ![w] = None]
  /\ UNCHANGED <<horizon, purge, pull, local, cursor, torn, pullFailures>>

Rollback(w) ==
  /\ writer[w] # None
  /\ writer' = [writer EXCEPT ![w] = None]
  /\ UNCHANGED <<row, last, horizon, purge, pull, local, cursor, torn, pullFailures>>

(***************************************************************************)
(* purge_tombstone_batch: lock at most Limit tombstones, lock the counter   *)
(* or skip the owner, then delete and raise the horizon in one commit.      *)
(***************************************************************************)
Tombstones == {i \in Ids : row[i].rev > 0 /\ row[i].dead}

SelectCandidates ==
  /\ purge = None
  /\ \E ids \in (SUBSET Tombstones) \ {{}} :
       /\ Cardinality(ids) <= Limit
       /\ purge' = [ids |-> ids, locked |-> FALSE]
  /\ UNCHANGED <<row, last, horizon, writer, pull, local, cursor, torn, pullFailures>>

LockOwnerCounters ==
  /\ purge # None /\ ~purge.locked
  /\ purge' = IF Writing \/ Guarded THEN None ELSE [purge EXCEPT !.locked = TRUE]
  /\ UNCHANGED <<row, last, horizon, writer, pull, local, cursor, torn, pullFailures>>

Raised(ids) == Max({horizon} \cup {row[i].rev : i \in ids})

DeleteAndRaise ==
  /\ Purging
  /\ row' = [i \in Ids |-> IF i \in purge.ids THEN Absent ELSE row[i]]
  /\ horizon' = Raised(purge.ids)
  /\ purge' = None
  /\ UNCHANGED <<last, writer, pull, local, cursor, torn, pullFailures>>

(***************************************************************************)
(* The pull transaction: guard_pull_cursor, current_revision as the page's  *)
(* boundary, then the rows above the cursor in revision order.              *)
(***************************************************************************)
Stale(c) == c > 0 /\ c < horizon

GuardPullCursor ==
  /\ pull.at = "none" /\ ~Purging
  /\ pull' = IF Stale(cursor) THEN [at |-> "resync"] ELSE [at |-> "guarded"]
  /\ UNCHANGED <<row, last, horizon, writer, purge, local, cursor, torn, pullFailures>>

CurrentRevision ==
  /\ pull.at = "guarded"
  /\ pull' = [at |-> "bounded", boundary |-> last]
  /\ UNCHANGED <<row, last, horizon, writer, purge, local, cursor, torn, pullFailures>>

Newer == {i \in Ids : row[i].rev > cursor}
(* The first n of the newer rows in revision order. *)
PageIds(n) == {i \in Newer : Cardinality({j \in Newer : row[j].rev < row[i].rev}) < n}

ServePull ==
  /\ pull.at = "bounded"
  /\ LET ids == PageIds(PageSize)
         seen == {cursor} \cup {row[i].rev : i \in ids}
     IN pull' = [at |-> "page",
                 rows |-> [i \in ids |-> Visible(row[i])],
                 next |-> Max(IF ids = Newer THEN seen \cup {pull.boundary} ELSE seen)]
  /\ UNCHANGED <<row, last, horizon, writer, purge, local, cursor, torn, pullFailures>>

(***************************************************************************)
(* The client.  commitCursorAfterLocalTransaction commits the cursor after  *)
(* the local transaction with the page's rows; the run may end in between.  *)
(***************************************************************************)
Applied == [i \in Ids |-> IF i \in DOMAIN pull.rows THEN pull.rows[i] ELSE local[i]]

ApplyPage ==
  /\ pull.at = "page"
  /\ local' = Applied
  /\ torn' = IF cursor = 0 THEN torn \cup DOMAIN pull.rows ELSE torn
  /\ pull' = [pull EXCEPT !.at = "applied"]
  /\ UNCHANGED <<row, last, horizon, writer, purge, cursor, pullFailures>>

CommitCursor ==
  /\ pull.at = "applied"
  /\ cursor' = pull.next
  /\ torn' = torn \ DOMAIN pull.rows
  /\ pull' = NoPull
  /\ UNCHANGED <<row, last, horizon, writer, purge, local, pullFailures>>

(* resync_required: one local transaction clears the rows and the cursor. *)
Reset ==
  /\ pull.at = "resync"
  /\ local' = [i \in Ids |-> 0] /\ cursor' = 0 /\ torn' = {}
  /\ pull' = NoPull
  /\ UNCHANGED <<row, last, horizon, writer, purge, pullFailures>>

(* The run fails or the app is killed: what was not committed is forgotten. *)
ClientFails ==
  /\ pull.at # "none" /\ pullFailures < PullMaxFailures
  /\ pullFailures' = pullFailures + 1
  /\ pull' = NoPull
  /\ UNCHANGED <<row, last, horizon, writer, purge, local, cursor, torn>>

ClientStep == GuardPullCursor \/ CurrentRevision \/ ServePull \/ ApplyPage \/ CommitCursor \/ Reset
PurgeStep == LockOwnerCounters \/ DeleteAndRaise

PullNext ==
  \/ \E w \in Writers : Allocate(w) \/ Commit(w) \/ Rollback(w)
  \/ SelectCandidates \/ PurgeStep
  \/ ClientStep \/ ClientFails

PullSpec == PullInit /\ [][PullNext]_pullVars

PullTypeOK ==
  /\ row \in [Ids -> [rev : 0..MaxRevision, dead : BOOLEAN]]
  /\ last \in 0..MaxRevision /\ horizon \in 0..last
  /\ \A w \in Writers : writer[w] # None => writer[w].id \in Ids
  /\ purge = None \/ purge.ids \subseteq Tombstones
  /\ pull.at \in {"none", "guarded", "bounded", "page", "applied", "resync"}
  /\ local \in [Ids -> 0..MaxRevision] /\ cursor \in 0..last /\ torn \subseteq Ids

(* No pull skips a change and no deleted row survives on the client: what   *)
(* the client holds at its cursor is what the server has, unless a change   *)
(* above the cursor is still to come or the guard will refuse the cursor.   *)
(* The one exception is a row of a first page that the client wrote without *)
(* its cursor, and that was deleted and purged before it asked again.       *)
NoGhostNoGap ==
  \A i \in Ids :
    \/ Stale(cursor) \/ row[i].rev > cursor
    \/ local[i] = Visible(row[i])
    \/ i \in torn /\ row[i].rev = 0

(* offline-readiness-contract.md: pages and their cursors commit atomically.*)
(* They do not in sync-client, and such a row then stays for ever.          *)
NoGhost == \A i \in Ids : local[i] > 0 /\ row[i].rev = 0 => Stale(cursor)

(* A purge never lowers the horizon and covers every tombstone it removes,  *)
(* and a revision, once given to a committed row, is not given again.       *)
HorizonCoversPurges ==
  /\ horizon' >= horizon
  /\ last' >= last
  /\ \A i \in Ids : row'[i].rev < row[i].rev => row[i].rev <= horizon'

-----------------------------------------------------------------------------
(***************************************************************************)
(* Hybrid logical clocks: the TypeScript clock of @baukit/sync-client       *)
(* (hlc.ts) on devices that persist it, and the server's Rust clock         *)
(* (baukit-sync hlc.rs), which keeps its state in memory until its caller   *)
(* saves the snapshot.  Timestamps are the encoded integers; the counter    *)
(* space of a millisecond is PerMs and the largest timestamp MaxStamp.      *)
(* A device's operation is two steps: it computes and starts storage.set,   *)
(* then storage answers.  Operations of a device queue behind each other.   *)
(***************************************************************************)

CONSTANTS Devices, PerMs, MaxStamp, MaxPhysical, HlcMaxFailures

SyncHlcAssumption ==
  /\ PerMs \in Nat \ {0} /\ MaxStamp \in Nat \ {0}
  /\ MaxPhysical \in Nat /\ HlcMaxFailures \in Nat
  /\ None \notin [wall : Nat, counter : Nat]

VARIABLES
  physical,  \* each device's physical clock, which may be set back
  state,     \* each open clock's #state: [wall, counter]
  stored,    \* what its storage holds, or None
  busy,      \* the operation in the queue's head: [next, after] or None
  issued,    \* ghost: the greatest timestamp each device has returned
  sent,      \* the timestamps that travel between devices
  hlcFailures

hlcVars == <<physical, state, stored, busy, issued, sent, hlcFailures>>

Zero == [wall |-> 0, counter |-> 0]

Encode(s) == s.wall * PerMs + s.counter + 1
Decode(t) == [wall |-> (t - 1) \div PerMs, counter |-> (t - 1) % PerMs]
Encodable(s) == Encode(s) <= MaxStamp

HlcInit ==
  /\ physical = [d \in Devices |-> 0] /\ state = [d \in Devices |-> Zero]
  /\ stored = [d \in Devices |-> None] /\ busy = [d \in Devices |-> None]
  /\ issued = [d \in Devices |-> 0] /\ sent = {} /\ hlcFailures = 0

(* The counter rolls over into the next millisecond. *)
Rolled(wall, counter) ==
  IF counter >= PerMs THEN [wall |-> wall + 1, counter |-> 0]
                      ELSE [wall |-> wall, counter |-> counter]

\* Mutant: the stamp follows the device's clock when that clock steps back.
NowPhysical(d) ==
  Rolled(physical[d], IF physical[d] = state[d].wall THEN state[d].counter + 1 ELSE 0)

NowState(d) ==
  Rolled(Max({physical[d], state[d].wall}),
         IF physical[d] > state[d].wall THEN 0 ELSE state[d].counter + 1)

(* The counter continues the greatest one of the sources at the new wall time. *)
ObservedState(d, t) ==
  LET remote == Decode(t)
      wall == Max({physical[d], state[d].wall, remote.wall})
      peers == {s \in {state[d], remote} : s.wall = wall}
  IN Rolled(wall, IF peers = {} THEN 0 ELSE Max({s.counter : s \in peers}) + 1)

(* An operation past the safe integers fails and leaves the state alone. *)
Starts(d, next, after) ==
  /\ busy[d] = None /\ Encodable(next)
  /\ busy' = [busy EXCEPT ![d] = [next |-> next, after |-> after]]
  /\ UNCHANGED <<physical, state, stored, issued, sent, hlcFailures>>

Now(d) == Starts(d, NowState(d), issued[d])

Observe(d) == \E t \in sent : Starts(d, ObservedState(d, t), Max({t, issued[d]}))

(* storage.set succeeded: the state is committed and the timestamp returned. *)
Advance(d) ==
  /\ busy[d] # None
  /\ stored' = [stored EXCEPT ![d] = busy[d].next]
  /\ state' = [state EXCEPT ![d] = busy[d].next]
  /\ issued' = [issued EXCEPT ![d] = Encode(busy[d].next)]
  /\ sent' = sent \cup {Encode(busy[d].next)}
  /\ busy' = [busy EXCEPT ![d] = None]
  /\ UNCHANGED <<physical, hlcFailures>>

Fails == hlcFailures < HlcMaxFailures /\ hlcFailures' = hlcFailures + 1

(* storage.set rejected, with or without having written. *)
SetFails(d) ==
  /\ busy[d] # None /\ Fails
  /\ stored' \in {stored, [stored EXCEPT ![d] = busy[d].next]}
  /\ busy' = [busy EXCEPT ![d] = None]
  /\ UNCHANGED <<physical, state, issued, sent>>

(* The app is killed, perhaps after the write, and opens the clock again. *)
Reopen(d) ==
  /\ Fails
  /\ \E kept \in {stored[d]} \cup (IF busy[d] = None THEN {} ELSE {busy[d].next}) :
       /\ stored' = [stored EXCEPT ![d] = kept]
       /\ state' = [state EXCEPT ![d] = IF kept = None THEN Zero ELSE kept]
  /\ busy' = [busy EXCEPT ![d] = None]
  /\ UNCHANGED <<physical, issued, sent>>

PhysicalTick(d) ==
  /\ \E t \in 0..MaxPhysical : physical' = [physical EXCEPT ![d] = t]
  /\ UNCHANGED <<state, stored, busy, issued, sent, hlcFailures>>

HlcNext ==
  \/ \E d \in Devices :
       Now(d) \/ Observe(d) \/ Advance(d) \/ SetFails(d) \/ Reopen(d) \/ PhysicalTick(d)

HlcSpec == HlcInit /\ [][HlcNext]_hlcVars

States == {s \in [wall : 0..MaxStamp, counter : 0..PerMs - 1] : Encodable(s)}

HlcTypeOK ==
  /\ physical \in [Devices -> 0..MaxPhysical]
  /\ \A d \in Devices :
       /\ state[d] \in States
       /\ stored[d] = None \/ stored[d] \in States
       /\ busy[d] = None \/ busy[d].next \in States
  /\ issued \in [Devices -> 0..MaxStamp] /\ sent \subseteq 1..MaxStamp

(* A device never returns a timestamp at or below one it returned before,   *)
(* and a timestamp that answers observe is above the observed one, though   *)
(* the physical clock goes back, storage fails and the app is killed.       *)
TimestampsIncrease ==
  \A d \in Devices :
    issued'[d] # issued[d] => issued'[d] > issued[d] /\ issued'[d] > busy[d].after

(* What a device returned is never ahead of what a restart restores.        *)
ReturnedIsStored ==
  \A d \in Devices : issued[d] > 0 => stored[d] # None /\ Encode(stored[d]) >= issued[d]
==============================================================================
