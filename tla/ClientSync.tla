----------------------------- MODULE ClientSync ------------------------------
(***************************************************************************)
(* The TypeScript clients' side of replication: the scheduler of runs      *)
(* (Scheduler...), writes with a revision (Writes...) and drafts kept on   *)
(* the device (Draft...).                                                  *)
(***************************************************************************)
EXTENDS Integers, Sequences, FiniteSets

-----------------------------------------------------------------------------
(***************************************************************************)
(* SyncScheduler of @baukit/sync-client (scheduler.ts): one task at a time, *)
(* joined by triggers, replayed by follow-ups, retried after a delay.       *)
(*                                                                          *)
(* A step is one synchronous piece of JavaScript between two awaits.  The   *)
(* task's position `at` is: "none" (inFlight is null), "queued" (before the *)
(* first microtask), "running" (awaits run()), "ended" (run() settled, its  *)
(* continuation not yet run), "waiting" (the retry delay), "woken" (the     *)
(* delay's promise resolved) or "leaving" (runUntilSettled returned, the    *)
(* finally that clears inFlight not yet run).  MaxEvents bounds how often   *)
(* the product and its host act.                                            *)
(***************************************************************************)

CONSTANTS MaxRetries, MaxEvents

SyncSchedulerAssumption == MaxRetries \in Nat /\ MaxEvents \in Nat

VARIABLES
  started, foreground,   \* the started flag and the host's active state
  interval,              \* an interval timer is installed
  at,                    \* the in-flight task
  outcome,               \* "ok", "retry" or "fatal" once run() settled
  wake,                  \* why the delay ended
  restarted,             \* stops # stopsAtStart
  rerun,                 \* rerunRequested
  retryIndex,
  owed,                  \* ghost: a follow-up no run has begun after
  asked,                 \* ghost: a run was asked for since the last stop
  events                 \* bound

schedulerVars == <<started, foreground, interval, at, outcome, wake, restarted, rerun, retryIndex,
                   owed, asked, events>>

SchedulerInit ==
  /\ started = FALSE /\ foreground \in BOOLEAN /\ interval = FALSE
  /\ at = "none" /\ outcome = "ok" /\ wake = "none" /\ restarted = FALSE
  /\ rerun = FALSE /\ retryIndex = 0
  /\ owed = FALSE /\ asked = FALSE /\ events = 0

Event == events < MaxEvents /\ events' = events + 1

(* trigger(): join the task and end its delay, or create one. *)
Trigger ==
  /\ asked' = TRUE
  /\ IF at = "none"
       THEN at' = "queued" /\ UNCHANGED wake
       ELSE /\ at' = IF at = "waiting" THEN "woken" ELSE at
            /\ wake' = IF at = "waiting" THEN "triggered" ELSE wake
  /\ UNCHANGED restarted

NoTrigger == UNCHANGED <<at, wake, restarted, asked>>

(* What a task's own steps read and the product's calls leave alone. *)
Task == <<outcome, retryIndex>>

SchedulerStart ==
  /\ ~started /\ Event
  /\ started' = TRUE /\ interval' = foreground
  /\ IF foreground THEN Trigger ELSE NoTrigger
  /\ UNCHANGED <<foreground, rerun, owed, Task>>

Stop ==
  /\ started /\ Event
  /\ started' = FALSE /\ interval' = FALSE
  /\ restarted' = (restarted \/ at \notin {"none", "queued"})
  /\ asked' = (at = "queued")
  /\ rerun' = FALSE /\ owed' = FALSE
  /\ at' = IF at = "waiting" THEN "woken" ELSE at
  /\ wake' = IF at = "waiting" THEN "stopped" ELSE wake
  /\ UNCHANGED <<foreground, Task>>

(* The host reports a change of the foreground state to the subscription. *)
RefreshedInterval(active) == started /\ active

ActiveChanges ==
  /\ Event
  /\ foreground' = ~foreground
  /\ interval' = RefreshedInterval(foreground')
  /\ IF started /\ foreground' THEN Trigger ELSE NoTrigger
  /\ UNCHANGED <<started, rerun, owed, Task>>

Online ==
  /\ started /\ foreground /\ Event
  /\ Trigger
  /\ UNCHANGED <<started, foreground, interval, rerun, owed, Task>>

TriggeredByProduct ==
  /\ Event /\ Trigger
  /\ UNCHANGED <<started, foreground, interval, rerun, owed, Task>>

IntervalFires ==
  /\ interval
  /\ Trigger
  /\ UNCHANGED <<started, foreground, interval, rerun, owed, events, Task>>

RequestFollowUp ==
  /\ Event
  /\ owed' = TRUE /\ asked' = TRUE
  /\ IF at = "none" THEN Trigger /\ UNCHANGED rerun
                    ELSE rerun' = TRUE /\ UNCHANGED <<at, wake, restarted>>
  /\ UNCHANGED <<started, foreground, interval, Task>>

(***************************************************************************)
(* The task: runUntilSettled.                                               *)
(***************************************************************************)
Outside == <<started, foreground, interval, asked, events>>

BeginRun ==
  /\ at' = "running"
  /\ rerun' = FALSE /\ owed' = FALSE

Begin ==
  /\ at = "queued"
  /\ BeginRun /\ retryIndex' = 0 /\ restarted' = FALSE
  /\ UNCHANGED <<outcome, wake, Outside>>

RunSettles ==
  /\ at = "running"
  /\ at' = "ended" /\ outcome' \in {"ok", "retry", "fatal"}
  /\ UNCHANGED <<wake, restarted, rerun, retryIndex, owed, Outside>>

(* A success, or a failure without a delay, ends the task unless a          *)
(* follow-up was requested.  Only a success resets the retry index.         *)
WillRetry == outcome = "retry" /\ retryIndex < MaxRetries

Settled ==
  /\ at = "ended" /\ ~WillRetry
  /\ IF rerun
       THEN /\ BeginRun
            /\ retryIndex' = IF outcome = "ok" THEN 0 ELSE retryIndex
       ELSE at' = "leaving" /\ UNCHANGED <<rerun, owed, retryIndex>>
  /\ UNCHANGED <<outcome, wake, restarted, Outside>>

WaitForRetry ==
  /\ at = "ended" /\ WillRetry
  /\ at' = "waiting"
  /\ UNCHANGED <<outcome, wake, restarted, rerun, retryIndex, owed, Outside>>

DelayElapses ==
  /\ at = "waiting"
  /\ at' = "woken" /\ wake' = "elapsed"
  /\ UNCHANGED <<outcome, restarted, rerun, retryIndex, owed, Outside>>

GivesUp == restarted \/ (wake = "elapsed" /\ started /\ ~foreground)

Woken ==
  /\ at = "woken"
  /\ IF GivesUp
       THEN at' = "leaving" /\ UNCHANGED <<rerun, owed, retryIndex>>
       ELSE /\ BeginRun
            /\ retryIndex' = IF wake = "triggered" THEN 0 ELSE retryIndex + 1
  /\ UNCHANGED <<outcome, wake, restarted, Outside>>

Leave ==
  /\ at = "leaving"
  /\ at' = "none"
  /\ UNCHANGED <<outcome, wake, restarted, rerun, retryIndex, owed, Outside>>

TaskStep ==
  Begin \/ RunSettles \/ Settled \/ WaitForRetry \/ DelayElapses \/ Woken \/ Leave

SchedulerNext ==
  \/ SchedulerStart \/ Stop \/ ActiveChanges \/ Online \/ TriggeredByProduct \/ IntervalFires \/ RequestFollowUp
  \/ TaskStep

SchedulerSpec == SchedulerInit /\ [][SchedulerNext]_schedulerVars

SchedulerTypeOK ==
  /\ started \in BOOLEAN /\ foreground \in BOOLEAN /\ interval \in BOOLEAN
  /\ at \in {"none", "queued", "running", "ended", "waiting", "woken", "leaving"}
  /\ outcome \in {"ok", "retry", "fatal"}
  /\ wake \in {"none", "elapsed", "triggered", "stopped"}
  /\ restarted \in BOOLEAN /\ rerun \in BOOLEAN /\ owed \in BOOLEAN /\ asked \in BOOLEAN
  /\ retryIndex \in 0..MaxRetries /\ events \in 0..MaxEvents

RunBegins == at # "running" /\ at' = "running"

(* stop() ends the scheduling: no run begins after it, not the retry of the *)
(* task it woke and not the follow-up of the run it left, until somebody    *)
(* asks again.                                                              *)
NoRunAfterStop == RunBegins => asked

(* A retry does not begin while the app is in the background, and a trigger *)
(* or a success gives the product its whole retry budget back.              *)
RetriesInForeground ==
  RunBegins /\ at = "woken" =>
    /\ wake = "elapsed" /\ started => foreground
    /\ wake = "triggered" => retryIndex' = 0

(* scheduler.ts:70: a follow-up requested during a run replays the callback *)
(* once after it settles, so writes made mid-run are never left unsent.     *)
NoFollowUpLeft == at = "none" /\ started /\ foreground => ~owed
-----------------------------------------------------------------------------
(***************************************************************************)
(* data-contracts, createRevisionedWriteQueue: revision-checked writes of  *)
(* one document, sent one at a time, with unknown outcomes, conflicts,     *)
(* resets and cancellation.  A local value is the number of its edit; the  *)
(* server's document is the sequence of the edits it applied, 0 for those  *)
(* of other writers, and its revision is their number.                     *)
(***************************************************************************)

CONSTANTS
  WritesMaxEdits, MaxForeign, MaxGeneration,  \* bounds: edits, foreign writes, resets
  Reentrant,  \* a listener of the queue may enqueue and flush when it is notified
  None

VARIABLES
  writesEdits,      \* number of the newest edit
  dropped,    \* number of the newest edit that a reset or a cancel dropped
  generation, unsent, uncertain, pause, acked,
  drain,      \* #drain is not null
  calls,      \* write() calls in progress, and requests nobody waits for
  server,
  known       \* revisions the product read from the server for a reset

writesVars == <<writesEdits, dropped, generation, unsent, uncertain, pause, acked, drain,
                calls, server, known>>

Pauses == {"none", "failed", "unknown-outcome", "conflict", "cancelled"}
Revision == Len(server)

WritesInit ==
  /\ writesEdits = 0 /\ dropped = 0
  /\ generation = 0 /\ unsent = 0 /\ uncertain = None /\ pause = "none" /\ acked = 0
  /\ drain = FALSE /\ calls = {}
  /\ server = <<>> /\ known = {0}

Mine == {c \in calls : c.generation = generation}
Merge(older, newer) == newer  \* keepNewer

(* The queue's methods. *)
WritesEnqueue ==
  /\ pause # "cancelled" /\ writesEdits < WritesMaxEdits
  /\ writesEdits' = writesEdits + 1
  /\ unsent' = IF unsent = 0 THEN writesEdits + 1 ELSE Merge(unsent, writesEdits + 1)
  /\ UNCHANGED <<dropped, generation, uncertain, pause, acked, drain, calls, server, known>>

Call(edit, revision) ==
  [generation |-> generation, edit |-> edit, revision |-> revision, answer |-> "none",
   accepted |-> 0]

\* takeUnsent, then write(); called where the pause allows it.
Flush ==
  /\ ~drain /\ pause \in {"none", "failed"} /\ unsent # 0
  /\ pause' = "none" /\ drain' = TRUE /\ unsent' = 0
  /\ calls' = calls \union {Call(unsent, acked)}
  /\ UNCHANGED <<writesEdits, dropped, generation, uncertain, acked, server, known>>

\* The same with a listener that, told of the write, enqueues an edit and
\* flushes: #drain is still null, so a second drain starts.
FlushNested ==
  /\ Reentrant /\ ~drain /\ pause \in {"none", "failed"} /\ unsent # 0
  /\ writesEdits < WritesMaxEdits
  /\ writesEdits' = writesEdits + 1
  /\ pause' = "none" /\ drain' = TRUE /\ unsent' = 0
  /\ calls' = calls \union {Call(unsent, acked), Call(writesEdits + 1, acked)}
  /\ UNCHANGED <<dropped, generation, uncertain, acked, server, known>>

Retry ==
  /\ ~drain /\ pause = "unknown-outcome" /\ uncertain # None
  /\ uncertain' = None /\ pause' = "none" /\ drain' = TRUE
  /\ calls' = calls \union {Call(uncertain.edit, uncertain.revision)}
  /\ UNCHANGED <<writesEdits, dropped, generation, unsent, acked, server, known>>

Fence ==
  /\ generation < MaxGeneration
  /\ generation' = generation + 1
  /\ drain' = FALSE /\ unsent' = 0 /\ uncertain' = None
  /\ dropped' = writesEdits

\* The revision was read from the server, at some time since the last one.
Reset ==
  /\ Fence /\ pause' = "none"
  /\ acked' \in acked..Revision
  /\ known' = known \union {acked'}
  /\ UNCHANGED <<writesEdits, calls, server>>

Cancel ==
  /\ pause # "cancelled" /\ Fence /\ pause' = "cancelled"
  /\ UNCHANGED <<writesEdits, acked, calls, server, known>>

(* #send and #apply, when write() settles. *)
Stale(c) ==
  /\ c.generation # generation
  /\ UNCHANGED <<writesEdits, dropped, generation, unsent, uncertain, pause, acked, drain,
                 server, known>>

\* The drain goes on with what was enqueued meanwhile, or ends.
Accepted(c) ==
  /\ c.answer = "accepted"
  /\ IF c.generation # generation THEN Stale(c) /\ calls' = calls \ {c}
     ELSE /\ acked' = c.accepted
          /\ IF unsent # 0 /\ pause = "none"
             THEN /\ calls' = (calls \ {c}) \union {Call(unsent, acked')}
                  /\ unsent' = 0 /\ UNCHANGED drain
             ELSE /\ calls' = calls \ {c} /\ drain' = FALSE /\ UNCHANGED unsent
          /\ UNCHANGED <<writesEdits, dropped, generation, uncertain, pause, server, known>>

\* restoreUnapplied: the server did not apply it, newer edits win.
Unapplied(c) ==
  /\ c.answer \in {"rejected", "conflict"}
  /\ calls' = calls \ {c}
  /\ \/ Stale(c)
     \/ /\ c.generation = generation
        /\ unsent' = IF unsent = 0 THEN c.edit ELSE Merge(c.edit, unsent)
        /\ pause' = IF c.answer = "rejected" THEN "failed" ELSE "conflict"
        /\ drain' = FALSE
        /\ UNCHANGED <<writesEdits, dropped, generation, uncertain, acked, server, known>>

\* write() throws: a lost request, a lost answer, or a request still on its way.
Throws(c) ==
  /\ c.generation >= 0
  /\ \E rest \in {{}, {[c EXCEPT !.generation = -1]}} :
       calls' = (calls \ {c}) \union IF c.answer = "none" THEN rest ELSE {}
  /\ \/ Stale(c)
     \/ /\ c.generation = generation
        /\ uncertain' = [edit |-> c.edit, revision |-> c.revision]
        /\ pause' = "unknown-outcome" /\ drain' = FALSE
        /\ UNCHANGED <<writesEdits, dropped, generation, unsent, acked, server, known>>

(* The product's server: it compares revisions, and knows a repeated request *)
(* by the idempotency key that goes with one value and expected revision.    *)
Applied(c) == c.revision < Revision /\ server[c.revision + 1] = c.edit
Answered(c, a) ==
  calls' = (calls \ {c}) \union IF c.generation < 0 THEN {} ELSE {a}

Serve(c) ==
  /\ c.answer = "none"
  /\ \/ /\ Applied(c)
        /\ Answered(c, [c EXCEPT !.answer = "accepted", !.accepted = c.revision + 1])
        /\ UNCHANGED server
     \/ /\ c.revision = Revision
        /\ server' = Append(server, c.edit)
        /\ Answered(c, [c EXCEPT !.answer = "accepted", !.accepted = Revision + 1])
     \/ /\ ~Applied(c) /\ c.revision # Revision
        /\ Answered(c, [c EXCEPT !.answer = "conflict"]) /\ UNCHANGED server
     \/ /\ ~Applied(c)
        /\ Answered(c, [c EXCEPT !.answer = "rejected"]) /\ UNCHANGED server
  /\ UNCHANGED <<writesEdits, dropped, generation, unsent, uncertain, pause, acked, drain, known>>

Foreign ==
  /\ Cardinality({i \in 1..Revision : server[i] = 0}) < MaxForeign
  /\ server' = Append(server, 0)
  /\ UNCHANGED <<writesEdits, dropped, generation, unsent, uncertain, pause, acked, drain,
                 calls, known>>

WritesNext ==
  \/ WritesEnqueue \/ Flush \/ FlushNested \/ Retry \/ Reset \/ Cancel \/ Foreign
  \/ \E c \in calls : Accepted(c) \/ Unapplied(c) \/ Throws(c) \/ Serve(c)

WritesSpec == WritesInit /\ [][WritesNext]_writesVars

\* The values each variable takes.
WritesTypeOK ==
  /\ writesEdits \in 0..WritesMaxEdits /\ unsent \in 0..writesEdits /\ dropped \in 0..writesEdits
  /\ pause \in Pauses /\ acked \in 0..Revision /\ drain \in BOOLEAN
  /\ uncertain = None \/ pause = "unknown-outcome"

\* flush: "Sends unsent values one at a time ... Concurrent callers share one
\* drain."  Two requests of one queue never race each other to the server.
OneAtATime == Cardinality(Mine) <= 1

\* The newest local edit since the last reset or cancel is somewhere: waiting,
\* uncertain, on its way, or at the server.  No pause and no retry loses it.
EditKept ==
  writesEdits > dropped =>
    \/ unsent = writesEdits
    \/ uncertain # None /\ uncertain.edit = writesEdits
    \/ \E c \in Mine : c.edit = writesEdits
    \/ \E i \in 1..Revision : server[i] = writesEdits

\* The server applies the edits in the order they were made, each once: neither
\* a retry after an unknown outcome nor a request that arrives late undoes a newer edit.
AppliedInOrder ==
  \A i, j \in 1..Revision : i < j /\ server[i] # 0 /\ server[j] # 0 => server[i] < server[j]

\* Another writer's change is overwritten only after a reset to a revision that
\* contains it: "never a revision derived from a local value that was not sent".
NoBlindOverwrite ==
  \A i \in 1..Revision : server[i] # 0 /\ i > 1 /\ server[i - 1] = 0 => i - 1 \in known
-----------------------------------------------------------------------------
(***************************************************************************)
(* data-contracts, createDurableDraft: a form value in memory and the      *)
(* draft of it in a key-value store.  The operations run one after the     *)
(* other; each waits for one store call at a time, and the user goes on    *)
(* meanwhile.  A value is the number of its edit, 0 the initial value.     *)
(***************************************************************************)

CONSTANTS
  Keys,
  DraftMaxEdits, MaxSessions, MaxQueue, MaxRevision,  \* bounds
  Leases,  \* another editor may take the lease on a scope (isScopeActive)
  Bad \* nothing stored; a value that is corrupt or too new to decode

DraftAssumption == Leases \in BOOLEAN /\ None # Bad /\ {None, Bad} \cap Nat = {}

VARIABLES
  store,      \* what is stored under each key
  draftActive,     \* isScopeActive
  draftEdits,      \* number of the newest edit
  submitted,  \* edits the server confirmed
  session,    \* number of the open session, 0 when closed
  keyOf,      \* #session.key of every session so far
  opened,     \* the key each of them was opened with
  value, draftRevision, recovery, persisted, stored,  \* the open snapshot
  queue,      \* #tail: operations that have not started
  run         \* the operation that waits for the store, or None

draftVars == <<store, draftActive, draftEdits, submitted, session, keyOf, opened, value, draftRevision,
               recovery, persisted, stored, queue, run>>
snapshot == <<value, draftRevision, recovery, persisted, stored>>

DraftInit ==
  /\ store \in [Keys -> {None, Bad}]
  /\ draftActive = [k \in Keys |-> TRUE]
  /\ draftEdits = 0 /\ submitted = {}
  /\ session = 0 /\ keyOf = <<>> /\ opened = <<>>
  /\ value = 0 /\ draftRevision = 0 /\ recovery = "none" /\ persisted = 0 /\ stored = FALSE
  /\ queue = <<>> /\ run = None

Dirty == draftRevision # persisted
\* A plausible bug: a draft that cannot be decoded does not block.
NeverBlocked == FALSE

Blocked == recovery = "bad"
Current(op) == op.session = session
Room == Len(queue) < MaxQueue
DraftEnqueue(op) == queue' = Append(queue, op)
Op(type) == [type |-> type, session |-> session, to |-> None, revision |-> 0]

(* What the product calls. *)
Open(k) ==
  /\ Room /\ Len(keyOf) < MaxSessions
  /\ keyOf' = Append(keyOf, k) /\ opened' = Append(opened, k) /\ session' = Len(keyOf')
  /\ value' = 0 /\ draftRevision' = 0 /\ recovery' = "loading" /\ persisted' = 0 /\ stored' = FALSE
  /\ DraftEnqueue([Op("load") EXCEPT !.session = session'])
  /\ UNCHANGED <<store, draftActive, draftEdits, submitted, run>>

Update ==
  /\ session # 0 /\ draftEdits < DraftMaxEdits
  /\ draftEdits' = draftEdits + 1 /\ value' = draftEdits + 1 /\ draftRevision' = draftRevision + 1
  /\ UNCHANGED <<store, draftActive, submitted, session, keyOf, opened, recovery, persisted, stored,
                 queue, run>>

\* save, clear, move; "submitted" names the revision that the server confirmed,
\* and a product submits no value while the draft is loading.
Request ==
  /\ session # 0 /\ Room
  /\ \/ DraftEnqueue(Op("save")) /\ UNCHANGED submitted
     \/ draftRevision < MaxRevision /\ DraftEnqueue(Op("discard")) /\ UNCHANGED submitted
     \/ /\ recovery # "loading"
        /\ DraftEnqueue([Op("submitted") EXCEPT !.revision = draftRevision])
        /\ submitted' = submitted \union {value}
     \/ /\ \E k \in Keys : DraftEnqueue([Op("move") EXCEPT !.to = k])
        /\ UNCHANGED submitted
  /\ UNCHANGED <<store, draftActive, draftEdits, session, keyOf, opened, snapshot, run>>

Close ==
  /\ session # 0 /\ session' = 0
  /\ UNCHANGED <<store, draftActive, draftEdits, submitted, keyOf, opened, snapshot, queue, run>>

\* Another editor takes the lease on a scope and saves its own draft there.
TakeLease(k) ==
  /\ Leases /\ draftActive[k]
  /\ draftActive' = [draftActive EXCEPT ![k] = FALSE]
  /\ store' = [store EXCEPT ![k] = Bad]
  /\ UNCHANGED <<draftEdits, submitted, session, keyOf, opened, snapshot, queue, run>>

(* The operations.  A store call fails without an effect, or has it. *)
Key(op) == keyOf[op.session]
Waiting(op, call, with) == [op |-> op, call |-> call, ok |-> with.ok, got |-> with.got,
                            revision |-> draftRevision, carried |-> Dirty \/ stored]
Failed == [ok |-> FALSE, got |-> None]
Done(got) == [ok |-> TRUE, got |-> got]

Set(op, k) ==
  \/ store' = [store EXCEPT ![k] = value] /\ run' = Waiting(op, "set", Done(None))
  \/ UNCHANGED store /\ run' = Waiting(op, "set", Failed)
Delete(op, k) ==
  \/ store' = [store EXCEPT ![k] = None] /\ run' = Waiting(op, "delete", Done(None))
  \/ UNCHANGED store /\ run' = Waiting(op, "delete", Failed)
Nothing == UNCHANGED <<store, run>>

\* What an operation does before its first store call.
DraftStart ==
  /\ run = None /\ queue # <<>>
  /\ queue' = Tail(queue)
  /\ LET op == Head(queue)
         live == Current(op) /\ draftActive[Key(op)]  \* activeFor
     IN
     \/ /\ op.type = "load"
        /\ IF ~Current(op) THEN Nothing
           ELSE /\ run' \in {Waiting(op, "get", Done(store[Key(op)])),
                             Waiting(op, "get", Failed)}
                /\ UNCHANGED store
     \/ /\ op.type = "save"
        /\ IF live /\ Dirty /\ ~Blocked THEN Set(op, Key(op)) ELSE Nothing
     \/ /\ op.type \in {"discard", "submitted"}
        /\ IF live /\ (op.type = "submitted" => op.revision = draftRevision)
           THEN Delete(op, Key(op)) ELSE Nothing
     \/ /\ op.type = "move"
        /\ IF ~live \/ ~draftActive[op.to] \/ Blocked \/ op.to = Key(op) THEN Nothing
           ELSE IF Dirty \/ stored THEN Set(op, op.to) ELSE Delete(op, Key(op))
  /\ UNCHANGED <<draftActive, draftEdits, submitted, session, keyOf, opened, snapshot>>

\* #load
Loaded ==
  /\ run # None /\ run.call = "get" /\ run' = None
  /\ IF ~Current(run.op) THEN UNCHANGED snapshot
     ELSE IF ~run.ok THEN /\ recovery' = "unavailable"
          /\ UNCHANGED <<value, draftRevision, persisted, stored>>
     ELSE LET fits == run.got \notin {None, Bad} /\ draftRevision = 0 IN
          /\ stored' = (run.got # None)
          /\ value' = IF fits THEN run.got ELSE value
          /\ persisted' = IF fits THEN 0 ELSE persisted
          /\ recovery' = IF fits THEN "restored" ELSE IF run.got = Bad THEN "bad" ELSE "none"
          /\ UNCHANGED draftRevision
  /\ UNCHANGED <<store, draftActive, draftEdits, submitted, session, keyOf, opened, queue>>

\* The end of #write, and the second store call of #relocate.
Written ==
  /\ run # None /\ run.call = "set"
  /\ IF ~run.ok THEN run' = None /\ UNCHANGED <<store, snapshot>>
     ELSE IF run.op.type = "move"
     THEN /\ \/ store' = [store EXCEPT ![Key(run.op)] = None]
                /\ run' = [run EXCEPT !.call = "delete"]
             \/ UNCHANGED store /\ run' = [run EXCEPT !.call = "delete", !.ok = FALSE]
          /\ UNCHANGED snapshot
     ELSE /\ run' = None
          /\ IF Current(run.op)
             THEN persisted' = run.revision /\ stored' = TRUE
             ELSE UNCHANGED <<persisted, stored>>
          /\ UNCHANGED <<store, value, draftRevision, recovery>>
  /\ UNCHANGED <<draftActive, draftEdits, submitted, session, keyOf, opened, queue>>

\* #applyCleared, and the end of #relocate.
Deleted ==
  /\ run # None /\ run.call = "delete" /\ run' = None
  /\ keyOf' = IF run.ok /\ run.op.type = "move" THEN [keyOf EXCEPT ![run.op.session] = run.op.to]
              ELSE keyOf
  /\ IF ~run.ok \/ ~Current(run.op) THEN UNCHANGED snapshot
     ELSE \/ /\ run.op.type = "move"
             /\ persisted' = IF run.carried THEN run.revision ELSE persisted
             /\ stored' = run.carried
             /\ UNCHANGED <<value, draftRevision, recovery>>
          \/ /\ run.op.type = "submitted"
             /\ persisted' = run.revision /\ stored' = FALSE /\ recovery' = "none"
             /\ UNCHANGED <<value, draftRevision>>
          \/ /\ run.op.type = "discard"
             /\ value' = 0 /\ draftRevision' = draftRevision + 1 /\ persisted' = draftRevision + 1
             /\ stored' = FALSE /\ recovery' = "none"
  /\ UNCHANGED <<store, draftActive, draftEdits, submitted, session, opened, queue>>

DraftNext ==
  \/ \E k \in Keys : Open(k) \/ TakeLease(k)
  \/ Update \/ Request \/ Close \/ DraftStart \/ Loaded \/ Written \/ Deleted

DraftSpec == DraftInit /\ [][DraftNext]_draftVars

\* The values each variable takes.
DraftTypeOK ==
  /\ store \in [Keys -> 0..DraftMaxEdits \union {None, Bad}]
  /\ value \in 0..draftEdits /\ session \in 0..Len(keyOf)
  /\ recovery \in {"none", "loading", "restored", "bad", "unavailable"}
  /\ persisted \in 0..draftRevision /\ Len(queue) <= MaxQueue

\* "True when value differs from what storage holds for this scope": an edit that
\* is not dirty is in the store or was submitted, whatever was typed, saved,
\* moved, cleared or failed meanwhile.
CleanIsSafe ==
  session # 0 /\ run = None /\ ~Dirty /\ value # 0 /\ draftActive[keyOf[session]] =>
    store[keyOf[session]] = value \/ value \in submitted

\* Late work of an earlier session never puts an older draft over a newer one;
\* only a move to a scope replaces what was there.
NoOlderDraft ==
  \A k \in Keys : store'[k] # store[k] /\ {store[k], store'[k]} \subseteq Nat =>
    \/ store'[k] > store[k]
    \/ run' # None /\ run'.op.type = "move"

\* save resolves "blocked while recovery is corrupt or unsupported-version": a
\* draft the editor could not decode is deleted only by a clear or a move, and
\* overwritten only by a session that came to its scope by a move, or that could
\* not read it.
UndecodedKept ==
  \A k \in Keys : store[k] = Bad /\ store'[k] # Bad =>
    \/ run' # None /\ run'.op.type \in {"move", "discard", "submitted"}
    \/ recovery = "unavailable"
    \/ opened[run'.op.session] # k

\* isScopeActive: "Called before every write or delete."  A scope that another
\* editor has taken is not written or deleted.
InactiveUntouched == \A k \in Keys : ~draftActive[k] => store'[k] = store[k]

==============================================================================
