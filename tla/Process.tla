------------------------------- MODULE Process -------------------------------
(***************************************************************************)
(* A process of baukit-config, baukit-runtime and baukit-ops: its shutdown *)
(* (Shutdown...), its readiness endpoint (Ops...), the metrics of its      *)
(* database pool (Pool...) and the settings it loads (Config...).          *)
(***************************************************************************)
EXTENDS Integers, Sequences, FiniteSets, SequencesExt

-----------------------------------------------------------------------------
(***************************************************************************)
(* Process shutdown in baukit-runtime: the shared token with its drain     *)
(* hooks, the supervised tasks, and the API and operations listeners, all  *)
(* bounded by the one deadline that the first trigger starts.              *)
(***************************************************************************)

CONSTANTS
  Tasks,        \* supervised tasks
  Hooks,        \* drain hooks that some thread registers
  MaxRestarts,  \* RestartPolicy::Restart of every task; 0 is FailProcess
  OpsOutlivesApi, \* the ShutdownOrder
  MayPanic,     \* whether a listener task may end in a JoinError
  DrainTimeout, \* the drain budget
  LatestStart,  \* bound: the clock stands still there until the first trigger
  None

ShutdownAssumption ==
  /\ MaxRestarts \in Nat /\ DrainTimeout \in Nat /\ LatestStart \in Nat
  /\ OpsOutlivesApi \in BOOLEAN /\ MayPanic \in BOOLEAN
  /\ None \notin Tasks \union {"signal", "pair"}

Listeners == {"api", "operations"}
ShutdownCallers == Tasks \union {"signal", "pair"}

VARIABLES
  now,
  first,     \* the caller of the first trigger, whose start sets started_at
  startedAt,
  taken,     \* the hooks that caller took from the list and has not run yet
  phase,     \* of that trigger: "idle", "started", "running", "cancelled"
  hook,      \* "new", "checked" (on_drain holds the lock), "queued", "taken"
  runs,      \* how often each hook ran
  task,      \* "running", "checked" (ended, not cancelled), "draining",
             \* "triggering", "done", "aborted"
  restarts,
  lateRuns,  \* how many attempts of a task ran with the token cancelled
  joined,    \* the result of TaskSupervisor::join
  listener,  \* "serving", "exited", "failed", "panicked", "aborted"
  unread,    \* listener results the pair has not taken from its JoinSet
  opsStop,   \* the operations listener's own token
  pair,      \* "serving", "triggering", "draining", "ok", "error", "timeout"
  firstError \* whether the pair recorded an error

shutdownVars == <<now, first, startedAt, taken, phase, hook, runs, task, restarts, lateRuns,
                  joined, listener, unread, opsStop, pair, firstError>>
tokenVars == <<first, startedAt, taken, phase, hook, runs>>
taskVars == <<task, restarts, lateRuns, joined>>
pairVars == <<listener, unread, opsStop, pair, firstError>>

Cancelled == phase = "cancelled"
Expired == now >= startedAt + DrainTimeout
Gone == {"exited", "failed", "panicked", "aborted"}

ShutdownInit ==
  /\ now = 0 /\ first = None /\ startedAt = 0 /\ taken = {} /\ phase = "idle"
  /\ hook = [h \in Hooks |-> "new"] /\ runs = [h \in Hooks |-> 0]
  /\ task = [t \in Tasks |-> "running"] /\ restarts = [t \in Tasks |-> 0]
  /\ lateRuns = [t \in Tasks |-> 0] /\ joined = None
  /\ listener = [l \in Listeners |-> "serving"] /\ unread = {}
  /\ opsStop = FALSE /\ pair = "serving" /\ firstError = FALSE

\* trigger's first statement: the OnceLock takes the first caller's time.
\* A later caller returns at once, whatever the first has done so far.
Trigger(c) ==
  IF first = None
  THEN /\ first' = c /\ startedAt' = now /\ phase' = "started"
       /\ UNCHANGED <<taken, hook, runs>>
  ELSE UNCHANGED tokenVars

Signal == /\ first = None /\ Trigger("signal")
          /\ UNCHANGED <<now, taskVars, pairVars>>

\* on_drain under the lock: it reads started_at, and pushes if it was unset.
OnDrain(h) ==
  /\ hook[h] = "new" /\ \A g \in Hooks : hook[g] # "checked"
  /\ IF first = None
     THEN hook' = [hook EXCEPT ![h] = "checked"] /\ UNCHANGED runs
     ELSE /\ hook' = [hook EXCEPT ![h] = "taken"]
          /\ runs' = [runs EXCEPT ![h] = @ + 1]
  /\ UNCHANGED <<now, first, startedAt, taken, phase, taskVars, pairVars>>

Push(h) ==
  /\ hook[h] = "checked"
  /\ hook' = [hook EXCEPT ![h] = "queued"]
  /\ UNCHANGED <<now, first, startedAt, taken, phase, runs, taskVars, pairVars>>

\* The first trigger takes the list once, under the lock ...
TakeHooks ==
  /\ phase = "started" /\ \A h \in Hooks : hook[h] # "checked"
  /\ taken' = {h \in Hooks : hook[h] = "queued"}
  /\ hook' = [h \in Hooks |-> IF hook[h] = "queued" THEN "taken" ELSE hook[h]]
  /\ phase' = "running"
  /\ UNCHANGED <<now, first, startedAt, runs, taskVars, pairVars>>

\* ... runs its hooks, ...
RunHook(h) ==
  /\ phase = "running" /\ h \in taken
  /\ taken' = taken \ {h} /\ runs' = [runs EXCEPT ![h] = @ + 1]
  /\ UNCHANGED <<now, first, startedAt, phase, hook, taskVars, pairVars>>

\* ... and cancels the root, which every observer sees.
Cancel ==
  /\ phase = "running" /\ taken = {}
  /\ phase' = "cancelled"
  /\ task' = [t \in Tasks |-> IF task[t] = "triggering" THEN "done" ELSE task[t]]
  /\ lateRuns' = [t \in Tasks |-> IF task[t] = "running" THEN 1 ELSE 0]
  /\ pair' = IF pair = "triggering" THEN "serving" ELSE pair
  /\ UNCHANGED <<now, first, startedAt, taken, hook, runs, restarts, joined,
                 listener, unread, opsStop, firstError>>

\* Mutant: the end of an attempt is not checked against the cancellation.
TaskEndsUnchecked(t) ==
  /\ task[t] = "running"
  /\ task' = [task EXCEPT ![t] = "checked"]
  /\ UNCHANGED <<now, restarts, lateRuns, joined, tokenVars, pairVars>>

\* The attempt's end, if supervise_task's select takes it, and the check that
\* ends the task when the token is cancelled.
TaskEnds(t) ==
  /\ task[t] = "running"
  /\ task' = [task EXCEPT ![t] = IF Cancelled THEN "done" ELSE "checked"]
  /\ UNCHANGED <<now, restarts, lateRuns, joined, tokenVars, pairVars>>

\* The policy, after the check and with no lock on the token: the cancellation
\* may come between.  The next attempt is spawned ...
TaskRestarts(t) ==
  /\ task[t] = "checked" /\ restarts[t] < MaxRestarts
  /\ task' = [task EXCEPT ![t] = "running"]
  /\ restarts' = [restarts EXCEPT ![t] = @ + 1]
  /\ lateRuns' = [lateRuns EXCEPT ![t] = @ + (IF Cancelled THEN 1 ELSE 0)]
  /\ UNCHANGED <<now, joined, tokenVars, pairVars>>

\* ... or, with none left, the process is stopped.
TaskTriggers(t) ==
  /\ task[t] = "checked" /\ restarts[t] >= MaxRestarts
  /\ Trigger(t)
  /\ task' = [task EXCEPT ![t] = IF first = None THEN "triggering" ELSE "done"]
  /\ UNCHANGED <<now, restarts, lateRuns, joined, pairVars>>

\* select takes the cancelled branch, which waits for the attempt.
TaskDrains(t) ==
  /\ Cancelled /\ task[t] = "running"
  /\ task' = [task EXCEPT ![t] = "draining"]
  /\ UNCHANGED <<now, restarts, lateRuns, joined, tokenVars, pairVars>>

TaskDrained(t) ==
  /\ task[t] = "draining"
  /\ task' = [task EXCEPT ![t] = "done"]
  /\ UNCHANGED <<now, restarts, lateRuns, joined, tokenVars, pairVars>>

\* Mutant: the join waits for its tasks without a deadline.
JoinAll ==
  /\ Cancelled /\ joined = None
  /\ \A t \in Tasks : task[t] = "done"
  /\ joined' = "ok"
  /\ UNCHANGED <<now, task, restarts, lateRuns, tokenVars, pairVars>>

ShutdownJoin ==
  /\ Cancelled /\ joined = None
  /\ \/ /\ \A t \in Tasks : task[t] = "done"
        /\ joined' = "ok" /\ UNCHANGED task
     \/ /\ Expired /\ joined' = "timeout"
        /\ task' = [t \in Tasks |-> IF task[t] = "done" THEN "done" ELSE "aborted"]
  /\ UNCHANGED <<now, restarts, lateRuns, tokenVars, pairVars>>

MayStop(l) ==
  IF OpsOutlivesApi /\ l = "operations" THEN opsStop ELSE Cancelled

\* A server ends: gracefully once its token is cancelled, by an I/O error or
\* by a panic at any time.
ListenerEnds(l, how) ==
  /\ listener[l] = "serving"
  /\ how = "exited" => MayStop(l)
  /\ how = "panicked" => MayPanic
  /\ listener' = [listener EXCEPT ![l] = how]
  /\ unread' = unread \union {l}
  /\ UNCHANGED <<now, tokenVars, taskVars, opsStop, pair, firstError>>

\* stop_operations_after_api: a JoinError does not say which listener it was.
StopsOperations(l) == OpsOutlivesApi /\ l = "api" /\ listener[l] # "panicked"

\* join_next and record_listener_result, before and during the drain.
PairReads(l) ==
  /\ pair \in {"serving", "draining"} /\ l \in unread
  /\ unread' = unread \ {l}
  /\ opsStop' = (opsStop \/ StopsOperations(l))
  /\ IF listener[l] = "exited" /\ Cancelled
     THEN UNCHANGED <<firstError, pair, tokenVars>>
     ELSE /\ firstError' = TRUE /\ Trigger("pair")
          /\ pair' = IF first = None THEN "triggering" ELSE pair
  /\ UNCHANGED <<now, listener, taskVars>>

\* The loop ends with the token cancelled or with no listener left.
PairDrains ==
  /\ pair = "serving" /\ Cancelled
  /\ pair' = "draining"
  /\ UNCHANGED <<now, tokenVars, taskVars, listener, unread, opsStop, firstError>>

PairReturns ==
  /\ pair \in {"serving", "draining"}
  /\ \A l \in Listeners : listener[l] \in Gone /\ l \notin unread
  /\ pair' = IF firstError THEN "error" ELSE "ok"
  /\ UNCHANGED <<now, tokenVars, taskVars, listener, unread, opsStop, firstError>>

\* The deadline: both listener tasks are aborted and joined.
PairTimesOut ==
  /\ pair = "draining" /\ Expired
  /\ \E l \in Listeners : listener[l] \notin Gone \/ l \in unread
  /\ pair' = "timeout" /\ unread' = {}
  /\ listener' = [l \in Listeners |->
                    IF listener[l] = "serving" THEN "aborted" ELSE listener[l]]
  /\ UNCHANGED <<now, tokenVars, taskVars, opsStop, firstError>>

ShutdownTick ==
  /\ IF first = None THEN now < LatestStart ELSE ~Expired
  /\ now' = now + 1
  /\ UNCHANGED <<tokenVars, taskVars, pairVars>>

PairStep == (\E l \in Listeners : PairReads(l)) \/ PairDrains \/ PairReturns
              \/ PairTimesOut
TokenStep == (\E h \in Hooks : RunHook(h) \/ Push(h)) \/ TakeHooks \/ Cancel

TaskStep(t) == TaskEnds(t) \/ TaskRestarts(t) \/ TaskTriggers(t) \/ TaskDrains(t)
                 \/ TaskDrained(t)

ShutdownNext ==
  \/ Signal \/ (\E h \in Hooks : OnDrain(h)) \/ TokenStep
  \/ \E t \in Tasks : TaskStep(t)
  \/ ShutdownJoin
  \/ \E l \in Listeners, how \in {"exited", "failed", "panicked"} :
       ListenerEnds(l, how)
  \/ PairStep \/ ShutdownTick

ShutdownSpec == ShutdownInit /\ [][ShutdownNext]_shutdownVars

ShutdownTypeOK ==
  /\ now \in 0..(LatestStart + DrainTimeout) /\ first \in ShutdownCallers \union {None} /\ startedAt \in 0..now
  /\ taken \subseteq Hooks /\ phase \in {"idle", "started", "running", "cancelled"}
  /\ hook \in [Hooks -> {"new", "checked", "queued", "taken"}]
  /\ runs \in [Hooks -> 0..1]
  /\ task \in [Tasks -> {"running", "checked", "draining", "triggering", "done", "aborted"}]
  /\ restarts \in [Tasks -> 0..MaxRestarts] /\ lateRuns \in [Tasks -> Nat]
  /\ joined \in {None, "ok", "timeout"}
  /\ listener \in [Listeners -> Gone \union {"serving"}] /\ unread \subseteq Listeners
  /\ opsStop \in BOOLEAN /\ firstError \in BOOLEAN
  /\ pair \in {"serving", "triggering", "draining", "ok", "error", "timeout"}

\* Every hook whose on_drain returned before the cancellation has run when the
\* cancellation wakes the drain, whichever thread won the race for the lock.
HooksBeforeCancellation ==
  Cancelled => \A h \in Hooks : hook[h] # "new" => runs[h] = 1

\* At most one attempt of a supervised task runs in a cancelled process: the
\* one the cancellation finds running, or the one whose predecessor had ended
\* and been checked before it.  Its end is the task's end.
OneAttemptAfterCancellation == \A t \in Tasks : lateRuns[t] <= 1

\* serve_listener_pair reports success only when both servers ended by the
\* graceful path after the cancellation: a failure that races the shutdown is
\* still reported.
SuccessIsGraceful ==
  pair = "ok" => Cancelled /\ \A l \in Listeners : listener[l] = "exited"

\* With OpsOutlivesApi the operations listener still serves while the API
\* listener does, unless it failed by itself or the deadline expired.
OperationsOutliveApi ==
  OpsOutlivesApi /\ listener["api"] = "serving" => listener["operations"] # "exited"

\* Work is aborted only when the deadline of the first trigger has passed.
AbortOnlyAtDeadline ==
  (\E l \in Listeners : listener[l] = "aborted") \/ (\E t \in Tasks : task[t] = "aborted")
     => first # None /\ Expired

\* "It is then gracefully stopped": once the pair has read the API listener's
\* end, the operations listener has been told to stop.
OperationsStopAfterApi ==
  OpsOutlivesApi /\ listener["api"] \in {"exited", "failed", "panicked"}
    /\ "api" \notin unread /\ pair # "timeout" => opsStop

-----------------------------------------------------------------------------
(* baukit-ops: the registry of readiness checks, the traffic gate and the         *)
(* /readyz handler, which reads the gate, copies the registry, runs every check   *)
(* in a task of its own under that check's timeout and joins them in the order    *)
(* they end.  Checks pass, fail, hang or panic; registrations and the gate move   *)
(* while a probe is under way.                                                    *)

CONSTANTS Names,            \* check names
          Messages,         \* what a failing check says: sequences of characters
          Timeouts,         \* timeouts a caller registers, zero among them
          MaxChecks,        \* registrations, a bound of the model
          MAX_ERROR_LENGTH  \* bytes of one error

OpsReadinessAssumption ==
  Timeouts \subseteq Nat /\ MAX_ERROR_LENGTH \in Nat \ {0}

VARIABLES checks,   \* the shared registry, in registration order
          accepting,\* the traffic gate
          probe     \* one request to /readyz

opsVars == <<checks, accepting, probe>>

Reserved == "accepting_traffic"

\* A caller's name with or without the white space around it.
Raw == [name : Names \cup {"", Reserved}, padded : BOOLEAN]
trim(raw) == raw.name

Registered == [name : Names, timeout : Timeouts, gating : BOOLEAN]
Idle == [pc |-> "idle"]

(* ------------------------------ error text ------------------------------- *)

\* Characters: "a" one byte, "e" two bytes, " " white space, "c" a control one.
Bytes(text) == FoldSeq(LAMBDA ch, n : n + (IF ch = "e" THEN 2 ELSE 1), 0, text)
Blank == {" ", "c"}

\* Controls become spaces, runs of white space one space, none at either end.
Normalized(message) ==
  LET Kept == SelectSeq([i \in DOMAIN message |-> <<i, message[i]>>],
        LAMBDA at : \/ at[2] \notin Blank
                    \/ /\ \E i \in 1 .. (at[1] - 1) : message[i] \notin Blank
                       /\ at[1] < Len(message) /\ message[at[1] + 1] \notin Blank)
  IN [i \in DOMAIN Kept |-> IF Kept[i][2] \in Blank THEN " " ELSE Kept[i][2]]

Default == <<"a">>  \* "readiness check failed", within the limit

sanitize_error(message) ==
  LET text == IF Normalized(message) = <<>> THEN Default ELSE Normalized(message)
      Fits == {n \in 0 .. Len(text) : Bytes(SubSeq(text, 1, n)) <= MAX_ERROR_LENGTH}
  IN SubSeq(text, 1, CHOOSE n \in Fits : \A k \in Fits : k <= n)

(* ------------------------------ registration ----------------------------- *)
OpsInit ==
  /\ checks = <<>>
  /\ accepting = TRUE
  /\ probe = Idle

register_arc(raw, timeout, gating) ==
  LET name == trim(raw) IN
  /\ name # "" /\ name # Reserved /\ timeout > 0
  /\ \A i \in DOMAIN checks : checks[i].name # name
  /\ Len(checks) < MaxChecks
  /\ checks' = Append(checks, [name |-> name, timeout |-> timeout, gating |-> gating])
  /\ UNCHANGED <<accepting, probe>>

set_accepting ==
  /\ accepting' = ~accepting
  /\ UNCHANGED <<checks, probe>>

(* --------------------------------- readyz -------------------------------- *)

\* A result: [index, gating, name, status, error]; an error of a passing check is <<>>.
Result(i, registered, status, error) ==
  [index |-> i, gating |-> registered.gating, name |-> registered.name,
   status |-> status, error |-> error]

\* The handler reads the gate first; the registry is copied afterwards.
ReadGate ==
  /\ probe.pc \in {"idle", "answered"}
  /\ probe' = [pc |-> "gate", accepting |-> accepting]
  /\ UNCHANGED <<checks, accepting>>

Spawn ==
  /\ probe.pc = "gate"
  /\ probe' = [pc |-> "joining", accepting |-> probe.accepting, snapshot |-> checks,
               running |-> DOMAIN checks, elapsed |-> 0, results |-> <<>>,
               did |-> <<>>]
  /\ UNCHANGED <<checks, accepting>>

\* One task ends and is joined; `did` keeps what the check itself did.
OpsJoin(i, result, what) ==
  /\ probe' = [probe EXCEPT !.running = @ \ {i}, !.results = Append(@, result),
                            !.did = Append(@, <<i, what>>)]
  /\ UNCHANGED <<checks, accepting>>

Joining(i) == probe.pc = "joining" /\ i \in probe.running

\* run_check: the check answers before the timer fires.
Pass(i) ==
  /\ Joining(i)
  /\ OpsJoin(i, Result(i, probe.snapshot[i], "pass", <<>>), "passes")

Fail(i) ==
  /\ Joining(i)
  /\ \E message \in Messages :
       OpsJoin(i, Result(i, probe.snapshot[i], "fail", sanitize_error(message)), "fails")

TimeOut(i) ==
  /\ Joining(i) /\ probe.elapsed >= probe.snapshot[i].timeout
  /\ OpsJoin(i, Result(i, probe.snapshot[i], "timed_out", Default), "hangs")

\* The task panics: the JoinError is named from the metadata kept at the spawn.
Panic(i) ==
  /\ Joining(i)
  /\ OpsJoin(i, Result(i, probe.snapshot[i], "fail", Default), "panics")

\* Timers fire when due: time waits for a task whose timeout has passed.
OpsTick ==
  /\ probe.pc = "joining" /\ probe.running # {}
  /\ \A i \in probe.running : probe.elapsed < probe.snapshot[i].timeout
  /\ probe' = [probe EXCEPT !.elapsed = @ + 1]
  /\ UNCHANGED <<checks, accepting>>

\* sort_by_key is stable and the registration indices are distinct.
Ordered(results) == SortSeq(results, LAMBDA x, y : x.index < y.index)
GateResult == [index |-> 0, gating |-> TRUE, name |-> Reserved,
               status |-> IF probe.accepting THEN "pass" ELSE "fail",
               error |-> IF probe.accepting THEN <<>> ELSE Default]

Answer ==
  LET all == Ordered(probe.results)
      gating == <<GateResult>> \o SelectSeq(all, LAMBDA r : r.gating)
  IN /\ probe.pc = "joining" /\ probe.running = {}
     /\ probe' = [pc |-> "answered", accepting |-> probe.accepting,
                  snapshot |-> probe.snapshot, did |-> probe.did,
                  elapsed |-> probe.elapsed, checks |-> gating,
                  diagnostics |-> SelectSeq(all, LAMBDA r : ~r.gating),
                  ready |-> \A i \in DOMAIN gating : gating[i].status = "pass"]
     /\ UNCHANGED <<checks, accepting>>

Register ==
  \E raw \in Raw, timeout \in Timeouts, gating \in BOOLEAN :
    register_arc(raw, timeout, gating)

Task(i) == Pass(i) \/ Fail(i) \/ TimeOut(i) \/ Panic(i)

OpsNext ==
  \/ Register
  \/ set_accepting
  \/ ReadGate
  \/ Spawn
  \/ OpsTick
  \/ \E i \in 1 .. MaxChecks : Task(i)
  \/ Answer

OpsSpec == OpsInit /\ [][OpsNext]_opsVars

(* ------------------------------- properties ------------------------------ *)
OpsTypeOK ==
  /\ checks \in Seq(Registered) /\ Len(checks) <= MaxChecks
  /\ accepting \in BOOLEAN
  /\ probe.pc \in {"idle", "gate", "joining", "answered"}

Answered == probe.pc = "answered"

\* /readyz says ready exactly when the gate stood open as the probe began and every
\* gating check of the copied registry passed, whatever the diagnostics did.
ReadyMeansGatesPass ==
  Answered =>
    (probe.ready <=> /\ probe.accepting
                     /\ \A i \in DOMAIN probe.snapshot :
                          probe.snapshot[i].gating => <<i, "passes">> \in ToSet(probe.did))

\* Every check of the copied registry is reported once, under its own name and in the
\* order of registration, whichever task ended first and even when its task panicked.
ReportedOnceInOrder ==
  LET Expected(gating) == SelectSeq(probe.snapshot, LAMBDA c : c.gating = gating)
      NamesOf(entries) == [i \in DOMAIN entries |-> entries[i].name]
  IN Answered =>
       /\ NamesOf(probe.checks) = <<Reserved>> \o NamesOf(Expected(TRUE))
       /\ NamesOf(probe.diagnostics) = NamesOf(Expected(FALSE))

\* No two entries of one answer share a name, the gate's own entry included.
NamesDistinct ==
  Answered => LET all == probe.checks \o probe.diagnostics
              IN \A i, j \in DOMAIN all : all[i].name = all[j].name => i = j

\* What a failing check says reaches the answer without controls or padding inside the
\* limit of bytes, and is never empty; a passing entry carries no error.
ErrorsArePublic ==
  Answered =>
    \A r \in ToSet(probe.checks \o probe.diagnostics) :
      /\ (r.status = "pass") = (r.error = <<>>)
      /\ Bytes(r.error) <= MAX_ERROR_LENGTH
      /\ "c" \notin ToSet(r.error)
      /\ r.error # <<>> => Head(r.error) # " "

-----------------------------------------------------------------------------
(* baukit-ops's sqlx pool metrics: a task samples the pool's size and its idle    *)
(* connections, two reads with no lock around them, into gauges, and `acquire`    *)
(* counts the acquisitions that time out.  Every acquisition describes the        *)
(* families again before it starts.                                               *)

CONSTANTS PoolCallers,       \* tasks that acquire a connection
          MaxConnections,\* the pool's limit
          MaxTimeouts,   \* timed-out acquisitions, a bound of the model
          U32            \* the values of an unsigned word, 2^w in the model

PoolMetricsAssumption ==
  U32 > MaxConnections /\ MaxConnections \in Nat \ {0}

VARIABLES size, idle,    \* sqlx's pool
          caller,        \* each caller: "out", "waiting" or "holding"
          counter,       \* db_pool_acquire_timeouts_total
          timedOut,      \* acquisitions that ended in PoolTimedOut, observed here
          gauges,        \* [idle, in_use] as last set
          sampler        \* [pc, aborted, size] of the sampling task

poolVars == <<size, idle, caller, counter, timedOut, gauges, sampler>>

connections == <<size, idle>>

saturating_sub(a, b) == IF a > b THEN a - b ELSE 0

Gauges(s, i) == [idle |-> i, in_use |-> saturating_sub(s, i)]

\* spawn_pool_metrics_sampler takes the first sample itself, then spawns the task.
PoolInit ==
  /\ size = 0 /\ idle = 0
  /\ caller = [c \in PoolCallers |-> "out"]
  /\ counter = 0 /\ timedOut = 0
  /\ gauges = Gauges(0, 0)
  /\ sampler = [pc |-> "ticking", aborted |-> FALSE, size |-> 0]

(* ------------------------------- the sampler ----------------------------- *)
ReadSize ==
  /\ sampler.pc = "ticking" /\ ~sampler.aborted
  /\ sampler' = [sampler EXCEPT !.pc = "sampling", !.size = size]
  /\ UNCHANGED <<connections, caller, counter, timedOut, gauges>>

\* No await inside a sample: an abort takes hold only at the next tick.
SetGauges ==
  /\ sampler.pc = "sampling"
  /\ gauges' = Gauges(sampler.size, idle)
  /\ sampler' = [sampler EXCEPT !.pc = "ticking", !.size = 0]
  /\ UNCHANGED <<connections, caller, counter, timedOut>>

\* abort(), the handle's drop, and the first half of shutdown().
Abort ==
  /\ sampler.pc \in {"ticking", "sampling"} /\ ~sampler.aborted
  /\ sampler' = [sampler EXCEPT !.aborted = TRUE]
  /\ UNCHANGED <<connections, caller, counter, timedOut, gauges>>

\* Mutant: shutdown() returns without waiting, and writes the sample under way.
ShutdownAtOnce ==
  /\ sampler.aborted
  /\ \/ sampler.pc = "ticking" /\ sampler' = [sampler EXCEPT !.pc = "stopped"] /\ UNCHANGED gauges
     \/ sampler.pc = "sampling" /\ sampler' = [sampler EXCEPT !.pc = "stopped"] /\ UNCHANGED gauges
     \/ sampler.pc = "stopped" /\ gauges' = Gauges(sampler.size, idle) /\ UNCHANGED sampler
  /\ UNCHANGED <<connections, caller, counter, timedOut>>

\* shutdown() returns once the aborted task has ended.
Shutdown ==
  /\ sampler.pc = "ticking" /\ sampler.aborted
  /\ sampler' = [sampler EXCEPT !.pc = "stopped"]
  /\ UNCHANGED <<connections, caller, counter, timedOut, gauges>>

(* ------------------------------- acquisition ----------------------------- *)

\* Counter::absolute raises a counter to the value, it never lowers it.
absolute(value) == IF counter < value THEN value ELSE counter

\* acquire and begin: the families are described, then the pool is asked.
Acquire(c) ==
  /\ caller[c] = "out"
  /\ counter' = absolute(0)
  /\ caller' = [caller EXCEPT ![c] = "waiting"]
  /\ UNCHANGED <<connections, timedOut, gauges, sampler>>

\* The pool hands out an idle connection, or opens one below its limit.
Got(c) ==
  /\ caller[c] = "waiting"
  /\ \/ idle > 0 /\ idle' = idle - 1 /\ UNCHANGED size
     \/ idle = 0 /\ size < MaxConnections /\ size' = size + 1 /\ UNCHANGED idle
  /\ caller' = [caller EXCEPT ![c] = "holding"]
  /\ UNCHANGED <<counter, timedOut, gauges, sampler>>

\* The acquisition fails, with PoolTimedOut or with another error, or its future is
\* dropped.
Observe(c, outcome) ==
  /\ caller[c] = "waiting"
  /\ timedOut < MaxTimeouts
  /\ caller' = [caller EXCEPT ![c] = "out"]
  /\ counter' = IF outcome = "timed_out" THEN counter + 1 ELSE counter
  /\ timedOut' = IF outcome = "timed_out" THEN timedOut + 1 ELSE timedOut
  /\ UNCHANGED <<connections, gauges, sampler>>

\* A connection comes back idle or broken; idle ones are opened and reaped.
Release(c) ==
  /\ caller[c] = "holding"
  /\ caller' = [caller EXCEPT ![c] = "out"]
  /\ \/ idle' = idle + 1 /\ UNCHANGED size
     \/ size' = size - 1 /\ UNCHANGED idle
  /\ UNCHANGED <<counter, timedOut, gauges, sampler>>

Maintain ==
  /\ \/ idle > 0 /\ idle' = idle - 1 /\ size' = size - 1
     \/ size < MaxConnections /\ idle' = idle + 1 /\ size' = size + 1
  /\ UNCHANGED <<caller, counter, timedOut, gauges, sampler>>

PoolNext ==
  \/ ReadSize \/ SetGauges \/ Abort \/ Shutdown \/ Maintain
  \/ \E c \in PoolCallers :
       \/ Acquire(c) \/ Got(c) \/ Release(c)
       \/ \E outcome \in {"timed_out", "error", "dropped"} : Observe(c, outcome)

PoolSpec == PoolInit /\ [][PoolNext]_poolVars

(* ------------------------------- properties ------------------------------ *)
PoolTypeOK ==
  /\ size \in 0 .. MaxConnections /\ idle \in 0 .. size
  /\ caller \in [PoolCallers -> {"out", "waiting", "holding"}]
  /\ counter \in Nat /\ timedOut \in 0 .. MaxTimeouts
  /\ sampler.pc \in {"ticking", "sampling", "stopped"}

\* The two readings of one sample may straddle a change of the pool: the gauges stay
\* within the pool's limit all the same.
GaugesWithinPool == gauges.in_use <= MaxConnections /\ gauges.idle <= MaxConnections

\* The counter stands for every timed-out acquisition, however often other acquisitions
\* describe the families anew in between.
TimeoutsCounted == counter = timedOut

\* Once shutdown() has returned no sample is written.
SilentAfterShutdown == sampler.pc = "stopped" => UNCHANGED gauges

-----------------------------------------------------------------------------
(***************************************************************************)
(* baukit-config's loader: defaults, the optional local file, the          *)
(* environment with its .env file, the bootstrap override, the validation  *)
(* of every section.                                                       *)
(***************************************************************************)

CONSTANTS ConfigFiles,     \* what the local file may say: partial functions of fields
          Variables, \* what the process environment may say at its start
          Dotenvs,   \* what the .env file may say
          ConfigRegistered,\* product fields registered by environment_collection
          MaxLoads,  \* loads of one process, a bound of the model
          U64        \* the largest u64, scaled down

Local == 1
Production == 2
\* A list-valued field's forms: a list, a list with an empty item, a text holding a JSON
\* array, another text.
List == 10
HollowList == 11
ArrayText == 12
PlainText == 13

DatabaseFields == {"database.max", "database.min"}

VARIABLES file, dotenv, \* the two files; dotenv.kind is "ok", "missing" or "broken"
          started, env, \* the process's variables at its start and now
          configLast, previous, \* the last two loads
          edited,       \* whether a file was edited since the last load
          loads

configVars == <<file, dotenv, started, env, configLast, previous, edited, loads>>

Never == [asked |-> Local, kind |-> "none", values |-> <<>>, problems |-> {}, fresh |-> TRUE]

ConfigInit ==
  /\ file \in ConfigFiles /\ started \in Variables /\ env = started
  /\ dotenv \in [kind : {"ok", "missing", "broken"}, values : Dotenvs]
  /\ dotenv.kind = "missing" => dotenv.values = <<>>
  /\ configLast = Never /\ previous = Never /\ edited = FALSE /\ loads = 0

\* The sections' defaults; rate_limit.ip keeps its own, wider ones. The database section
\* has none unless some key of it is given.
IpDefault == ("ip.requests" :> 2) @@ ("ip.burst" :> 1)
IdentityDefault == ("ip.requests" :> 1) @@ ("ip.burst" :> 0)
DatabaseDefault == ("database.max" :> 2) @@ ("database.min" :> 1)
ConfigDefault ==
  ("environment" :> Local) @@ ("http.port" :> 1) @@ ("http.cors" :> List)
    @@ ("sampling" :> 0) @@ ("tags" :> List) @@ ("note" :> PlainText)

Completed(given) ==
  given @@ ConfigDefault @@ IpDefault
    @@ (IF DOMAIN given \cap DatabaseFields = {} THEN <<>> ELSE DatabaseDefault)

Collect(variables) ==
  [k \in DOMAIN variables |->
     IF k \in {"http.cors"} \cup ConfigRegistered /\ variables[k] = ArrayText THEN List ELSE variables[k]]

Layers(e, f, variables) == ("environment" :> e) @@ Collect(variables) @@ f

\* A text where a list belongs does not deserialize.
Deserializes(c) == \A k \in {"http.cors", "tags"} : c[k] \in {List, HollowList}

Database(c) ==
  IF "database.max" \notin DOMAIN c THEN {}
  ELSE {p \in {"database.max_connections", "database.min_connections"} :
          \/ p = "database.max_connections" /\ c["database.max"] = 0
          \/ p = "database.min_connections" /\ c["database.min"] > c["database.max"]}

\* checked_add of the scope's requests and burst.
RateLimit(c) ==
  {p \in {"rate_limit.ip.requests_per_period", "rate_limit.ip.burst"} :
     \/ p = "rate_limit.ip.requests_per_period" /\ c["ip.requests"] = 0
     \/ p = "rate_limit.ip.burst" /\ c["ip.requests"] + c["ip.burst"] > U64}

Http(c) ==
  {p \in {"http.port", "http.cors_allowed_origins"} :
     \/ p = "http.port" /\ c["http.port"] = 0
     \/ p = "http.cors_allowed_origins" /\ c["http.cors"] = HollowList}

Telemetry(c) == IF c["sampling"] > 1 THEN {"telemetry.trace_sampling_ratio"} ELSE {}

Validate(c) == Http(c) \cup Database(c) \cup RateLimit(c) \cup Telemetry(c)

load_dotenv(e) == IF e = Local THEN env @@ dotenv.values ELSE env

ConfigResult(e, variables) ==
  LET c == Completed(Layers(e, file, variables))
      result(kind) == [Never EXCEPT !.asked = e, !.kind = kind, !.fresh = edited]
  IN IF e = Local /\ dotenv.kind = "broken" THEN result("dotenv")
     ELSE IF ~Deserializes(c) THEN result("configuration")
     ELSE [result(IF Validate(c) = {} THEN "ok" ELSE "invalid")
             EXCEPT !.values = c, !.problems = Validate(c)]

load(e) ==
  /\ loads < MaxLoads
  /\ loads' = loads + 1
  /\ env' = load_dotenv(e) /\ configLast' = ConfigResult(e, load_dotenv(e)) /\ previous' = configLast
  /\ edited' = FALSE
  /\ UNCHANGED <<file, dotenv, started>>

\* The operator edits a file while the process runs.
Edit ==
  /\ loads \in 1..(MaxLoads - 1) /\ ~edited /\ edited' = TRUE
  /\ \/ file' \in ConfigFiles /\ UNCHANGED dotenv
     \/ dotenv' \in [kind : {"ok"}, values : Dotenvs] /\ UNCHANGED file
  /\ UNCHANGED <<started, env, configLast, previous, loads>>

ConfigNext == (\E e \in {Local, Production} : load(e)) \/ Edit

ConfigSpec == ConfigInit /\ [][ConfigNext]_configVars

(* ------------------------------- properties ------------------------------ *)
ConfigTypeOK ==
  /\ file \in ConfigFiles /\ started \in Variables /\ loads \in 0..MaxLoads
  /\ dotenv.kind \in {"ok", "missing", "broken"} /\ dotenv.values \in Dotenvs
  /\ \A k \in DOMAIN started : env[k] = started[k]
  /\ configLast.kind \in {"none", "ok", "invalid", "dotenv", "configuration"}

Ok == configLast.kind = "ok"

\* What the deployment sets when the process starts wins over both files, stays the text
\* it is unless its field is registered as a collection, and never names the environment.
VariablesWin ==
  Ok => /\ configLast.values["environment"] = configLast.asked
        /\ \A k \in DOMAIN started \ {"environment"} :
             \/ configLast.values[k] = started[k]
             \/ /\ configLast.values[k] = List /\ started[k] = ArrayText
                /\ k \in ConfigRegistered \cup {"http.cors"}

\* A field no layer names has its own section's default, however much of the section is
\* given, and the database section appears only when some layer names a key of it.
DefaultsPerSection ==
  Ok /\ ~edited =>
    LET given == DOMAIN file \cup DOMAIN env
    IN /\ "ip.requests" \notin given => configLast.values["ip.requests"] = 2
       /\ "ip.burst" \notin given => configLast.values["ip.burst"] = 1
       /\ DatabaseFields \cap given = {} => DatabaseFields \cap DOMAIN configLast.values = {}

Repair ==
  ("http.port" :> "http.port") @@ ("http.cors_allowed_origins" :> "http.cors")
    @@ ("database.max_connections" :> "database.max")
    @@ ("database.min_connections" :> "database.min")
    @@ ("rate_limit.ip.requests_per_period" :> "ip.requests")
    @@ ("rate_limit.ip.burst" :> "ip.burst") @@ ("telemetry.trace_sampling_ratio" :> "sampling")
Sound ==
  ("http.port" :> 1) @@ ("http.cors" :> List) @@ ("database.max" :> 2) @@ ("database.min" :> 0)
    @@ ("ip.requests" :> 1) @@ ("ip.burst" :> 0) @@ ("sampling" :> 1)

\* One failed load names every problem: the operator who sets right the fields it names,
\* and no other, gets a configuration that all sections accept (a request rate of zero
\* with a burst of u64::MAX apart, which takes a second round).
OneRoundOfRepairs ==
  configLast.kind = "invalid" =>
    LET c == [k \in DOMAIN configLast.values |->
                IF \E p \in configLast.problems : Repair[p] = k THEN Sound[k] ELSE configLast.values[k]]
    IN Http(c) \cup Database(c) \cup RateLimit(c) \cup Telemetry(c) = {}

\* Loading twice for one environment, no file edited in between, gives one result: what
\* the first load exports into the process does not change the second.
LoadsAgree ==
  loads >= 2 /\ ~configLast.fresh /\ configLast.asked = previous.asked =>
    /\ configLast.kind = previous.kind
    /\ configLast.values = previous.values /\ configLast.problems = previous.problems

\* A process that never loads for the local environment keeps the variables it started with.
DotenvOnlyLocal == configLast'.asked = Production /\ loads' > loads => env' = env

\* "A local .env file is loaded only when the loader's deployment environment is local":
\* a load for production is what a process that has read no .env file would load.
ProductionSeesNoDotenv ==
  configLast.asked = Production /\ ~edited =>
    LET c == Completed(Layers(Production, file, started))
    IN configLast.kind = "ok" => configLast.values = c
==============================================================================
