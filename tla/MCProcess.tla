------------------------------ MODULE MCProcess ------------------------------
(***************************************************************************)
(* Small instances of the machines around a process: how it starts, reports*)
(* on itself, keeps its recurring jobs and stops, and how the command line *)
(* made the product. A behaviour is of one machine, named by part; the     *)
(* variables of the others stay 0.                                         *)
(***************************************************************************)
EXTENDS TLC

CONSTANTS
  Machines,  \* the machines a run starts
  Tasks, Hooks, MaxRestarts, OpsOutlivesApi, MayPanic, DrainTimeout,
  LatestStart, None, OpsNames, Messages, Timeouts, MaxChecks,
  MAX_ERROR_LENGTH, PoolCallers, MaxConnections, MaxTimeouts, U32,
  ConfigFiles, Variables, Dotenvs, ConfigRegistered, MaxLoads, U64, Replicas,
  Interval, JitterNum, JitterDen, Hash, Skew, Lease, MaxAttempts, Retention,
  LastTime, Options, MaxRuns, MaxUserSteps, MaxCrashes, MaxReports,
  LastTemplate, MaxPort, MaxOffset, MaxEdits, FreshOptions

VARIABLES
  part,  \* the machine this behaviour is of
  shutdownNow, first, startedAt, taken, phase, hook, runs, task, restarts, lateRuns,
  joined, listener, unread, opsStop, pair, firstError,
  checks, accepting, probe,
  size, idle, caller, counter, timedOut, gauges, sampler,
  file, dotenv, started, env, configLast, previous, edited, loads,
  slotsNow, rows, work, done, gaveUp,
  disk, reports, run, before, scaffoldLast, left,
  manifest, places, edits, verdict

shutdownState == <<shutdownNow, first, startedAt, taken, phase, hook, runs,
    task, restarts, lateRuns, joined, listener, unread, opsStop, pair, firstError>>
opsState == <<checks, accepting, probe>>
poolState == <<size, idle, caller, counter, timedOut, gauges, sampler>>
configState == <<file, dotenv, started, env, configLast, previous, edited,
    loads>>
slotsState == <<slotsNow, rows, work, done, gaveUp>>
scaffoldState == <<disk, reports, run, before, scaffoldLast, left>>
portsState == <<manifest, places, edits, verdict>>
vars == <<part, shutdownState, opsState, poolState, configState, slotsState,
    scaffoldState, portsState>>

Proc == INSTANCE Process WITH now <- shutdownNow, Names <- OpsNames
Recur == INSTANCE RecurringSlots WITH now <- slotsNow
Cli == INSTANCE Scaffold WITH last <- scaffoldLast
CliFresh == INSTANCE Scaffold WITH last <- scaffoldLast,
  Options <- FreshOptions, MaxRuns <- 1, MaxUserSteps <- 0, MaxCrashes <- 0,
  MaxReports <- 2

ASSUME ProcessAssumption ==
  /\ Proc!ShutdownAssumption
  /\ Proc!OpsReadinessAssumption
  /\ Proc!PoolMetricsAssumption
  /\ Recur!RecurringAssumption

MCTimeouts == {0, 1, 2}
MCMessages == {<<>>, <<"c">>, <<" ", "a", "c", " ", "a">>, <<"a", "e", "e">>, <<"a", "a", " ", "a">>}

(* Files and environments of up to two fields, chosen so that layers overlap. *)
ProductionForm == 2
HollowForm == 11
ArrayForm == 12
PlainForm == 13
ASSUME ConfigForms ==
  /\ Proc!Production = ProductionForm /\ Proc!HollowList = HollowForm
  /\ Proc!ArrayText = ArrayForm /\ Proc!PlainText = PlainForm
MCFiles ==
  {<<>>, ("ip.burst" :> 3), ("environment" :> ProductionForm) @@ ("http.port" :> 2),
   ("database.max" :> 0), ("note" :> ArrayForm) @@ ("ip.requests" :> 3)}
MCVariables ==
  {<<>>, ("environment" :> ProductionForm), ("http.port" :> 0) @@ ("sampling" :> 2),
   ("http.cors" :> ArrayForm) @@ ("note" :> ArrayForm), ("tags" :> ArrayForm),
   ("http.cors" :> PlainForm), ("database.min" :> 3), ("ip.requests" :> 1)}
MCDotenvs ==
  {<<>>, ("http.port" :> 3), ("http.cors" :> HollowForm) @@ ("ip.burst" :> 2),
   ("database.max" :> 1), ("note" :> PlainForm) @@ ("tags" :> ArrayForm)}

(* A few command lines of one product, and every combination of capabilities  *)
(* into an empty directory.                                                   *)
Opt(caps, auth, offset, lock) == [caps |-> caps, auth |-> auth, offset |-> offset, lock |-> lock]
OneProduct == {Opt({"backend", "web"}, "none", 0, TRUE),
               Opt({"backend", "web"}, "none", 1, FALSE),
               Opt({"backend", "platform"}, "none", 0, FALSE)}
EveryProduct == {o \in Cli!AllOptions : o.offset = 0 /\ ~o.lock}

ShutdownOff ==
  /\ shutdownNow = 0 /\ first = 0 /\ startedAt = 0 /\ taken = 0
  /\ phase = 0 /\ hook = 0 /\ runs = 0 /\ task = 0 /\ restarts = 0
  /\ lateRuns = 0 /\ joined = 0 /\ listener = 0 /\ unread = 0 /\ opsStop = 0 /\ pair = 0
  /\ firstError = 0
OpsOff ==
  /\ checks = 0 /\ accepting = 0 /\ probe = 0
PoolOff ==
  /\ size = 0 /\ idle = 0 /\ caller = 0 /\ counter = 0 /\ timedOut = 0
  /\ gauges = 0 /\ sampler = 0
ConfigOff ==
  /\ file = 0 /\ dotenv = 0 /\ started = 0 /\ env = 0 /\ configLast = 0
  /\ previous = 0 /\ edited = 0 /\ loads = 0
SlotsOff ==
  /\ slotsNow = 0 /\ rows = 0 /\ work = 0 /\ done = 0 /\ gaveUp = 0
ScaffoldOff ==
  /\ disk = 0 /\ reports = 0 /\ run = 0 /\ before = 0 /\ scaffoldLast = 0
  /\ left = 0
PortsOff ==
  /\ manifest = 0 /\ places = 0 /\ edits = 0 /\ verdict = 0

ShutdownStarts ==
  /\ part = "shutdown" /\ Proc!ShutdownInit
  /\ OpsOff /\ PoolOff /\ ConfigOff /\ SlotsOff /\ ScaffoldOff /\
     PortsOff
OpsStarts ==
  /\ part = "readiness" /\ Proc!OpsInit
  /\ ShutdownOff /\ PoolOff /\ ConfigOff /\ SlotsOff /\ ScaffoldOff /\
     PortsOff
PoolStarts ==
  /\ part = "pool" /\ Proc!PoolInit
  /\ ShutdownOff /\ OpsOff /\ ConfigOff /\ SlotsOff /\ ScaffoldOff /\
     PortsOff
ConfigStarts ==
  /\ part = "config" /\ Proc!ConfigInit
  /\ ShutdownOff /\ OpsOff /\ PoolOff /\ SlotsOff /\ ScaffoldOff /\
     PortsOff
SlotsStarts ==
  /\ part = "slots" /\ Recur!Init
  /\ ShutdownOff /\ OpsOff /\ PoolOff /\ ConfigOff /\ ScaffoldOff /\
     PortsOff
ScaffoldStarts ==
  /\ \/ part = "scaffold" /\ Cli!ScaffoldInit
     \/ part = "fresh" /\ CliFresh!ScaffoldInit
  /\ ShutdownOff /\ OpsOff /\ PoolOff /\ ConfigOff /\ SlotsOff /\
     PortsOff
PortsStarts ==
  /\ part = "ports" /\ Cli!PortsInit
  /\ ShutdownOff /\ OpsOff /\ PoolOff /\ ConfigOff /\ SlotsOff /\
     ScaffoldOff

Init ==
  /\ part \in Machines
  /\ \/ ShutdownStarts \/ OpsStarts \/ PoolStarts \/ ConfigStarts
     \/ SlotsStarts \/ ScaffoldStarts \/ PortsStarts

ShutdownMoves ==
  /\ part = "shutdown" /\ Proc!ShutdownNext
  /\ UNCHANGED <<part, opsState, poolState, configState, slotsState,
       scaffoldState, portsState>>
OpsMoves ==
  /\ part = "readiness" /\ Proc!OpsNext
  /\ UNCHANGED <<part, shutdownState, poolState, configState, slotsState,
       scaffoldState, portsState>>
PoolMoves ==
  /\ part = "pool" /\ Proc!PoolNext
  /\ UNCHANGED <<part, shutdownState, opsState, configState, slotsState,
       scaffoldState, portsState>>
ConfigMoves ==
  /\ part = "config" /\ Proc!ConfigNext
  /\ UNCHANGED <<part, shutdownState, opsState, poolState, slotsState,
       scaffoldState, portsState>>
SlotsMoves ==
  /\ part = "slots" /\ Recur!Next
  /\ UNCHANGED <<part, shutdownState, opsState, poolState, configState,
       scaffoldState, portsState>>
ScaffoldMoves ==
  /\ \/ part = "scaffold" /\ Cli!ScaffoldNext
     \/ part = "fresh" /\ CliFresh!ScaffoldNext
  /\ UNCHANGED <<part, shutdownState, opsState, poolState, configState,
       slotsState, portsState>>
PortsMoves ==
  /\ part = "ports" /\ Cli!PortsNext
  /\ UNCHANGED <<part, shutdownState, opsState, poolState, configState,
       slotsState, scaffoldState>>

Next ==
  \/ ShutdownMoves \/ OpsMoves \/ PoolMoves \/ ConfigMoves \/ SlotsMoves
  \/ ScaffoldMoves \/ PortsMoves

Spec == Init /\ [][Next]_vars

-----------------------------------------------------------------------------
Symmetry == Permutations(Replicas)

(* A process that stops runs its hooks before its tasks hear of it, reports*)
(* success only after a graceful stop, keeps the operations listener beside*)
(* the API listener until both may go, aborts a task only at the drain     *)
(* deadline and runs at most one attempt of each task once it is cancelled *)
(* (baukit-runtime).                                                       *)
StopsInOrder ==
  /\ part = "shutdown" =>
       /\ Proc!ShutdownTypeOK
       /\ Proc!HooksBeforeCancellation /\ Proc!SuccessIsGraceful
       /\ Proc!OperationsOutliveApi /\ Proc!AbortOnlyAtDeadline
       /\ Proc!OneAttemptAfterCancellation

(* Replicas that enqueue, run and clean up a recurring job never let its   *)
(* chain end, run ahead of their clocks, complete a slot twice or start a  *)
(* job outside its slot (baukit-jobs recurring.rs).                        *)
OneNextSlot ==
  /\ part = "slots" =>
       /\ Recur!TypeOK /\ Recur!ChainContinues
       /\ Recur!NeverRunsAhead /\ Recur!SlotCompletesOnce
       /\ Recur!JobsRunInTheirSlot

(* Probes that overlap the registration of checks answer ready only while  *)
(* every gate passed, with one report per check, in order, and public error*)
(* texts; pool gauges stay within the pool and are silent after shutdown   *)
(* (baukit-ops).                                                           *)
OperatorsSeeTheTruthHolds ==
  /\ part = "readiness" =>
       /\ Proc!OpsTypeOK
       /\ Proc!ReadyMeansGatesPass /\ Proc!ReportedOnceInOrder
       /\ Proc!NamesDistinct /\ Proc!ErrorsArePublic
  /\ part = "pool" =>
       /\ Proc!PoolTypeOK /\ Proc!GaugesWithinPool
       /\ Proc!TimeoutsCounted

OperatorsSeeTheTruthSteps ==
  /\ part = "pool" => Proc!SilentAfterShutdown

OperatorsSeeTheTruth == []OperatorsSeeTheTruthHolds /\ [][OperatorsSeeTheTruthSteps]_vars

(* Loads of layered settings agree, let variables win and repair once; a   *)
(* scaffold run overwrites nothing, reports exactly its conflicts and when *)
(* it succeeds is complete; rendered ports are distinct and a stale place is*)
(* found (baukit-config, the command line).                                *)
StartsAsConfiguredHolds ==
  /\ part = "config" =>
       /\ Proc!ConfigTypeOK /\ Proc!VariablesWin
       /\ Proc!DefaultsPerSection /\ Proc!OneRoundOfRepairs
       /\ Proc!LoadsAgree
  /\ part = "scaffold" =>
       /\ Cli!ScaffoldTypeOK
       /\ Cli!SuccessIsComplete /\ Cli!RepeatAddsNothing
  /\ part = "fresh" =>
       /\ CliFresh!ScaffoldTypeOK
       /\ CliFresh!SuccessIsComplete /\ CliFresh!RepeatAddsNothing
  /\ part = "fresh" => CliFresh!FreshProductPasses
  /\ part = "ports" =>
       /\ Cli!PortsTypeOK /\ Cli!HostsDistinct
       /\ Cli!RenderedPasses /\ Cli!StalePlaceFound

StartsAsConfiguredSteps ==
  /\ part = "config" => Proc!DotenvOnlyLocal
  /\ part = "scaffold" =>
       /\ Cli!NothingOverwritten
       /\ Cli!ReportIsExact /\ Cli!PlatformMigrationOnce
  /\ part = "fresh" =>
       /\ CliFresh!NothingOverwritten
       /\ CliFresh!ReportIsExact /\ CliFresh!PlatformMigrationOnce

StartsAsConfigured == []StartsAsConfiguredHolds /\ [][StartsAsConfiguredSteps]_vars
==============================================================================
