# Verification of baukit

TLA+ models of baukit, the TLC configurations that check them, and the TLAPS
proofs about them. Paths are relative to the repository. `PROJECT.json` lists
the same material for tools: components, runs, the code lines every definition
stands for, one faulty variant per property, hazards, findings and theorems.

## 1. The system

baukit is a platform library: 21 Rust crates for the services of a product
(`rust/crates`), 24 TypeScript packages for its clients
(`typescript/packages`), a generator (`cli`, `templates`), charts (`deploy`)
and release tooling (`scripts`). A product's worker process is composed from
`baukit-runtime` (shutdown, supervision, listeners), `baukit-jobs` (a durable
queue in PostgreSQL) and domain crates that enqueue or handle jobs
(`baukit-erasure`, `baukit-data-subject`, `baukit-push`, `baukit-suite`).

| Component | State it keeps | Operations | What is hard | What makes it correct |
|---|---|---|---|---|
| `baukit-jobs` store | `job_outbox` | enqueue in three key modes, claim, complete, fail, cancel, request cancellation, handler transactions, cleanup | many workers and producers on the same rows; leases expire by a clock; rows leave and re-enter partial unique indexes; statements of one call see different snapshots | no write breaks the schema; one owner per lease; attempts bounded; terminal is final; no update lost under deduplication |
| `baukit-jobs` runner | a JoinSet of attempts, a claim call in flight, the drain | poll, claim, spawn, time out, observe cancellation, write the outcome, drain | timestamps read before the call that uses them; abandoned claims; an error that drops other attempts; restart under the same `worker_id` | one handler per job; a late outcome never lands on a later attempt; jobs and drains end |
| recurring jobs | rows keyed by their slot | slot arithmetic, enqueue at start, enqueue the next slot when completing | clocks that differ, expired leases, cleanup that frees keys | the chain goes on, never runs ahead, no slot twice |
| `baukit-runtime` | first trigger, drain hooks, supervised tasks, listeners | trigger, on_drain, spawn, join, serve | hook registration against trigger; restart against shutdown; one shared deadline | hooks run once before the cancellation; success means graceful; aborts only at the deadline |
| `baukit-ops` | registered checks, the traffic gate, a sampler task | register, probe, sample, stop | probes overlap registration; size and idle are read one after the other | ready means every gate passed; gauges within the pool; silence after shutdown |
| `baukit-config` | the process environment | load | a load leaves variables behind for the next | layers keep their rank; all problems in one round |
| `baukit-sync` and clients | revisions, purge horizon, hybrid logical clocks | allocate, commit, purge, pull, tick, observe | rows committed out of revision order; clocks that step back; cursors kept apart from rows | no row missed or kept that should be gone; stamps increase |
| `baukit-push` | devices, delivery claims, pending receipts | register, rotate, claim, send, poll receipts, invalidate | registrations race evictions and receipts; sends stop half-way | cap kept; one sender; a device registered again is not dropped |
| `baukit-erasure` | fence, profile, operations, jobs | erase, fence, resolve, delete at the provider | `now()` is the start of a transaction that waits; two attempts at one deletion | no profile comes back; complete means deleted |
| `baukit-data-subject` | operations, jobs, parts | accept, run, purge, split | a key reused concurrently; leases; expiry | one operation per key; receipts are true |
| `baukit-ratelimit` | buckets, windows of amounts | check, consume, release | concurrent callers, replies lost, windows that end meanwhile | no more than the limit; hinted waits suffice |
| `baukit-http` | layers, stored responses | serve, precondition, idempotency key | timeouts and hang-ups anywhere; two writes at once | whole answers; no lost update; once per key |
| `baukit-egress`, `-integrations` | pooled connections, connection status | request, resolve, redirect, classify | names resolve differently each time; bodies break off | only permitted addresses; whole body or error |
| `baukit-suite` | links, deliveries, circuit, inbox, caches | authorize, exchange, revoke, deliver, pull, fetch keys | answers lost between two products; counters written by triggers; lock order | sides agree; effects once; caches never go back; no deadlock |
| `baukit-auth`, `-mcp` | key cache, tokens, running requests | verify, issue, revoke, introspect, gate, cancel | rotation and revocation during a verification | only live tokens pass; only granted tools run |
| `baukit-core` | none | paginate, sign grants, export CSV | lists change between pages; keys rotate | every row once; only issued grants |
| `baukit-test` | scripted targets | the conformance cases | races inside a case | correct passes, faulty fails |
| TypeScript clients | scheduler, writes, drafts, sessions | enqueue, flush, open, refresh, sign out | microtasks, reentrant listeners, two tabs or processes | edits kept in order; an ended session stays ended |
| command line | generated files, ports | scaffold, re-render, doctor | runs interrupted and repeated | nothing overwritten; reports exact |

The remaining parts (metrics, credential vault, events, OpenAPI, telemetry,
product packages, charts and scripts) have no state machine of their own and
are not modelled; `PROJECT.json` says so for each.

### How the parts interact

A producer enqueues a job, alone or in its own transaction. A worker polls:
`claim` settles expired leases, picks one row with `FOR UPDATE SKIP LOCKED` and
returns it with `locked_until = now + lease_duration`. The runner starts a
handler with a timeout shorter than the lease; the handler may commit the
product's writes together with the completion. Erasure, data-subject
operations, suite deliveries and revocations, recurring cleanups and receipt
polls are all such jobs: their handlers may run twice, die between two
transactions, or lose an answer, and each of the models of those crates has
claims, lease expiry and retries in it. The process itself stops through one
token that the runner, the listeners and the supervised tasks share.

## 2. Modules

### The job subsystem

`JobRows`
: A table is a function from job identifiers to rows of the columns that
  transitions read or write. `Swept`, `Claimable`, `ClaimCandidates`, `Claimed`
  are the three statements of `claim`; `OwnsLease` is `owned_lease_predicate!`;
  `Finished`, `FailureRecorded`, `CancellationApplied`, `CleanupEligible` are
  the other UPDATE and DELETE statements. `RowChecks` and `Collides` are the
  CHECK constraints and unique indexes of the migrations.

`JobOutbox`
: One action per operation of `PostgresJobStore`, each one transaction and one
  step with any timestamp of `Stamps`, up to `Lag` behind the clock. A handler's
  own transaction is several steps: `tx[j]` is the row lock that
  `CheckLeaseInTransaction` and `CompleteInTransaction` take and
  `CommitTransaction` and `RollbackTransaction` release. Updates wait for the
  lock, the selections of claim and cleanup skip it, the claim's sweeps wait. A
  write that the schema refuses changes nothing and adds its reason to
  `rejected`: "early" when the write is only too old for its row.

`JobLifecycle`
: The abstract specification: a job is created once, started at most
  `max_attempts` times, ends once, is deleted only then. `JobOutbox`
  instantiates it with `life` mapped to status and attempts
  (`ImplementsLifecycle`).

`JobRunner`
: Worker processes (`mode`), their claim call in flight (`claim`) and attempts
  (`att`, the JoinSet) over the same rows. `CallClaim` reads the time,
  `ExecuteClaim` is the transaction, `SpawnAttempt` starts the handler. A run
  that ends meanwhile abandons the call, which PostgreSQL may still execute
  (`ExecuteAbandoned`), also while a restarted process claims for itself. `BeginSettling`
  reads the time of the outcome; `Settle`, `CheckCancellation` and
  `CancelInstead` are the calls that follow. `RunFails` is every error return of
  `run`, which drops the JoinSet, and `StoreFails` the store errors among them,
  also after the handler's commit; a statement a dropped attempt had sent may
  still run later (`OrphanSettles`), also beside a restarted process. `Crash`
  stands for a crash and for the supervisor's deadline. Time is a window around
  a fixed `Now`, so that no behaviour runs out of it.

`JobEnqueue`
: `Insert`, `Select`, `LockFound` and `Commit` are the statements of
  `enqueue_on` and `enqueue_deduplicated_on` with the caller's commit, under
  READ COMMITTED. A lease may expire at any time. `seen` is what a handler's
  read of the product's data contained.

`RecurringSlots`
: `SlotAt`, `NextSlot` and `RunAt` are `recurring.rs`; `EnqueueInitial`,
  `Claim`, `ComputeNext`, `Complete`, `Fail`, `Crash`, `Sweep` and `CleanUp` are
  the platform worker's purge job over the store, with replicas whose clocks
  differ by up to `Skew`.

### The other components

One module holds the machines of one part of the system; the prefixes in its
actions and invariants name the machine.

| Module | Machines and the code they model |
|---|---|
| `Process` | Shutdown: `ShutdownToken`, `TaskSupervisor` and `serve_listener_pair` of `baukit-runtime`; Ops: readiness of `baukit-ops`; Pool: its sampler and acquisition timeouts; Config: `ConfigLoader::load` of `baukit-config` with the `.env` file it exports |
| `Push` | Registry: the device registry's transactions statement by statement; Delivery: claims, sends, receipts and their polling |
| `PushAdapters` | Stores: the in-memory and the PostgreSQL stores side by side; Expo: a send in chunks and its receipts |
| `SuiteLink` | the link protocol of `services/link.rs` between initiator and authorizer, with the revoke jobs and deliveries beside it |
| `SuiteDelivery` | `suite.events.deliver` jobs, the circuit and its late counting, the receiver's inbox |
| `SuiteServer` | Http: routes and limits of `adapters/http.rs`; Locks: the lock order of every transaction of `adapters/postgres` |
| `SuitePlatform` | Plan: the entitlement cache and its notifications; Hub: the service token; Ticket: the cache of ticket keys |
| `DataSubject` | Subject: operations, jobs, receipts and purges; Split: the packing of an export |
| `Erasure` | `erase`, an operator's transaction, the fence, `guard_subject`, the inline attempt and the durable job |
| `Sync` | Pull: revisions, purge and a client that commits a page's rows and then its cursor; Hlc: both hybrid logical clocks |
| `ClientSync` | Scheduler: `scheduler.ts`; Writes: `revisioned-writes.ts`; Draft: `durable-draft.ts` |
| `HttpServer` | Pipeline: `middleware.rs`; Cond: `precondition.rs`; Keyed: `idempotency.rs` with a store that keeps its contract |
| `Outbound` | Guard and Body: `baukit-egress`; Upstream: `retry.rs` and the health of `baukit-integrations` |
| `RateLimit`, `TokenBucket` | Rate: the in-memory limiter behind the layer; Budget: amounts over Redis. `TokenBucket` is the abstract bucket the limiter implements; it may be forgotten when there are more keys than places |
| `CoreLists` | Pages: keyset pages; Media: grants and key rotation; Csv: export |
| `Auth` | Jwks: the key cache; Api: API tokens; Format: their text; Claims: what an OIDC token must say |
| `Mcp` | Gate, Introspection, Definitions, LinkPages of `baukit-mcp` |
| `ClientSessions` | Device, Web, Native, Silent: the TypeScript auth packages. The tabs of Web share `localStorage`; each has its own `sessionStorage` and page |
| `SubjectKit`, `StoreKit`, `ServiceKit` | the conformance kits of `baukit-test`, each against a correct service and services with one fault or two |
| `Scaffold` | Scaffold: `new` and re-render; Ports: offsets, rendered places and doctor |

Definitions whose comment begins "Mutant:", "Faulty variant" or "A plausible
bug" are in no specification: each changes its neighbour as a plausible bug
would, and shows that the property it is paired with notices.

### Modules that run several machines

`MCProcess`, `MCPush`, `MCSuite`, `MCData`, `MCHttp`, `MCAccess`, `MCKits` and
`MCLiveness` instantiate the machines of a subsystem with small constants.
`part`, chosen in `Init` from `Machines`, names the one machine of a behaviour;
the variables of the others stay 0. The state counts of the machines therefore
add rather than multiply, and one property says what holds of every machine it
names. The machines of a run do not interact with each other: where two parts
do interact (a job and its handler, an initiator and an authorizer, a client and
a server), both are inside one machine. `MCJobOutbox` and `MCJobRunner` give
those job modules their values, and the configuration of `enqueue_pending` gives
`JobEnqueue` its own.

## 3. Runs

| Run | Question | Distinct states |
|---|---|---|
| `outbox_store` | Does any order of store operations, handler transactions and cleanup break the schema, a held lease or the lifecycle? | 163 876 |
| `runner_safety` | Can two handlers run one job, or a late outcome end the wrong attempt, through timeouts, lost claims, shutdown, a crash and a restart under the same `worker_id`? | 49 552 |
| `enqueue_pending` | Is an update lost between a deduplicated enqueue and the claim? Does every enqueue end? | 120 769 |
| `request_lost` | Does a requested cancellation end in `cancelled`? **Violated**, see section 5 | |
| `process` | Does a process start as configured, report the truth, keep its recurring jobs and stop in order? | 1 024 086 |
| `push` | Do registrations keep their word, and is a notification sent and settled once? | 517 797 |
| `suite` | Do two products agree on their link, count and reward once, and hold a current view of the platform? | 1 851 889 |
| `data` | Do erasure, export, replication and editing of personal data survive overlap, crashes and lost answers? | 1 847 347 |
| `http` | Is every request answered whole, every write taken once, every limit kept, every list complete? | 483 535 |
| `access` | Do only live tokens pass, only granted tools run, and ended sessions stay ended? | 1 417 659 |
| `kits` | Do the conformance kits pass correct services and fail faulty ones, in every order of the calls they race? | 295 975 |
| `liveness` | Does work that was begun end, and does a change arrive at the other side? | 67 447 |

### What the properties say

*Jobs.* `RefusedOnlyIfEarly`: the only write of the store that its schema
refuses is one with a time before the creation of its row (section 5, the refused
claim), and with exact times there is none; a retry or a reclaim that re-enters a
partial unique index is the case to fear, and the pending key is cleared at the first claim for that reason
(`PendingKeyBeforeFirstClaim`). `HeldLeaseStable`: a lease checked under the row
lock stays owned and uncancelled until the transaction ends.
`ReasonMatchesAttempts`: `attempts_exhausted` is said only when all were used,
by whichever statement. `NeverSucceedsOnceCancelled`: an accepted request
excludes success while it stands. `OneHandlerPerJob`; `StaleAttemptFenced`:
although a lease names only the worker, an attempt that any step may still write
for meets only its own lease; `SchemaHolds`; `MarkedIsDurable`: a success
reported without a store call is in the table. `JobSeesUpdate`: a job that
succeeded read every update whose producer was given it; `ReturnedRowKept`;
`EnqueueReturns` and `UpdateReachesHandler` are the liveness of both.

*Process.* `StopsInOrder`: hooks run before the cancellation, a successful end
is a graceful one, the operations listener outlives the API's, tasks are aborted
only at the deadline and at most one attempt of each runs once the process is
cancelled. (One may start then: `supervise_task` checks the token and spawns
later, with no lock in between.) `OneNextSlot`:
the chain of a recurring job continues unless a job gave up, runs at most one
slot ahead of the clocks, completes a slot once and starts inside it.
`OperatorsSeeTheTruth`, `StartsAsConfigured`: probes, gauges, settings and
generated files.

*Services and clients.* Each property of the other runs is the conjunction of
its machines' invariants and action properties, listed under its definition in
the MC module with what each means: `RegistryKeepsItsWord`, `SentOnce`;
`LinksPair`, `CountedOnce`, `PlatformStaysCurrent`; `ErasureHolds`,
`ExportsComplete`, `ReplicaSeesAll`, `EditsSurvive`; `RequestsAnsweredWhole`,
`ServedUnderLoad`, `WritesOnce`, `LimitsHold`, `ListsReadBack`;
`OnlyLiveTokens`, `OnlyGrantedRuns`, `SessionsStayEnded`; `KitsTellApart`;
`WorkEnds`, `ChangesArrive`. `LimitsHold` contains the refinement of
`TokenBucket` by the limiter (`ImplementsTokenBucket`).

Where the code lets something through that a document excludes, the property
says how much, and the document's sentence is in section 5. A budget's window
grants its limit and what `slipped`: units allowed after the window's end or by
a process that fails open, and units a release took that the counter did not hold
for it. A replica keeps no deleted row but one of a first page whose cursor was
not committed (`torn`). A profile is younger than the fence, which only an
operator's transaction lowers. A native session was stored since the last
completed sign-out, by a sign-in that may have been called before it.

### Bounds

*Outbox.* Two jobs are the smallest number that collide on an index, compete
for a claim and are split by a batch. One worker is enough because the store
compares `worker_id` only with the lease's own; the proofs hold for any number.
With a lease of one tick and a clock up to two a lease is live, expires, is
reclaimed and expires again. `Lag = 1` lets every caller's time be one tick old,
and the first job is due a tick before it is created, so that an old claim meets
it.

*Runner.* Two workers with two slots give two attempts of one worker, of two
workers, and an abandoned claim or an orphaned statement beside a live attempt.
`MaxDelay = 1` lets every call use a time one tick old. Two faults are a crash
and a store error, or a crash of the restarted process while the claim of the
first is abandoned; they and one request are enough for each pair of a fault or request with a timeout or retry.
`Lease = 4`, `JobTimeout = 1`: the code requires only `Lease > JobTimeout`, and
with `Lease` 2 or 3 the same run violates `StaleAttemptFenced`. The margin that
suffices, `Lease > JobTimeout + 2 * MaxDelay`, is an assumption of the theorem
(section 6); a deployment whose lease does not exceed its timeout by twice the
longest delay of a store call is not covered.

*Enqueue.* Three producers give a row that is inserted, met, and replaced while
the second waits; two attempts put a retry after the claim.

*The machines of the other runs.* Two of every actor that competes (callers,
workers, replicas, devices, tabs), so that every pair of steps interleaves;
one more of what they compete for than fits where a limit is the point (three
device tokens under a cap of two, three requests of a budget of two); clocks,
revisions, tokens, faults, crashes and retries bounded by the constant named
`Max...` or `Last...` of the machine, large enough that each expiry, purge and
rotation happens twice or happens during another step. Bounds are in guards and
initial states, never in a constraint. Where the code compares but does not
compute (identifiers, bodies, scopes), the values are model values or a few
strings. Integer widths are constants (`U32`, `U64`, `W`), small enough to
overflow. In `data` one visit meets one operator and the users' requests; in
`http` the processes that share a budget fail open or closed
(`FailModes = {TRUE, FALSE}`), and two units of a window may slip
(`MaxSlipped = 2`), as many as the window's limit. In `access` three web
tokens (`WebMaxTokens = 3`) are a session, its refresh and the sign-in of the
other tab.

*Switches.* Some constants close a path on which the code departs from what it
says (section 5), so that the rest is checked: `MayPanic = FALSE`, `Reentrant =
FALSE` and `Leases = FALSE` for the machines they would break, `Overlapping =
FALSE`. Opening one makes TLC find
the divergence again. In the machine `listener` writes are reentrant and in
`editors` drafts have leases; there the properties are those that still hold.

`CHECK_DEADLOCK FALSE` stands where the system may stop: clocks end, producers
have finitely many updates, cases of a kit end, a process stops. The runner runs
for ever and `runner_safety` is checked for deadlock.

### Fairness

In `MCLiveness` fairness is weak fairness of the steps that a runtime, a clock
or a recurring job takes: ready tasks are polled, calls that were sent are
executed, timeouts and microtasks fire, sweeps and cleanups recur, an ended
process is restarted. Nothing is assumed of handlers (they may never return: the
timeout ends them), of clients, of providers that are not said to answer, or of
faults, whose number is bounded. Strong fairness stands in two places: a job is
claimed by some worker if it is claimable again and again (the claim takes the
oldest first, so a job that stays eligible comes to the front), and a receipt
that can be read or a device that can be invalidated again and again is, because
the recurring poll is repeated whatever its last result was.
`JobEnqueue!Fairness`: producers run their next statement, some worker polls,
handlers read and return; workers are not assumed to retry, cancel or clean up.

## 4. Hazards

`PROJECT.json` lists what is hard to test in this code, each at its line, with
the properties that cover it: interleaved transactions and statement snapshots
(jobs, push, suite locks), leases against slow handlers and skewed clocks,
crashes between two transactions, answers lost after the effect, retries of what
was done, cached state used after it went stale (keys, tokens, plans, circuits),
batches and pages over moving data, and limits at their boundary.

## 5. Divergences met

Places where the code does something else than a comment, a document or a test
of the repository says. Each is stated by a property that the code violates.
The first is the run `request_lost`; the others were met with the same modules
while modelling, on the setting named, and their properties stay beside the
models.

| What the code does | Property | Said at |
|---|---|---|
| A handler error or timeout recorded after a cancellation request, before the poll saw it, clears the request and may return the job to `pending` (`baukit-jobs/src/store.rs:502`) | `JobRunner!RequestEndsInCancelled` | `docs/platform/durable-job-ownership.md:89` |
| A claim's time is read when the call starts; a job committed while it waits, with `run_after` before `created_at`, makes the claim break `updated_at >= created_at` and stops the runner (`runner.rs:194`) | `JobRunner!ClaimNeverRefused`, a backdated job | `baukit-jobs/CHANGELOG.md:35` |
| A timeout between the handler's commit and its mark ends in `LeaseLost` although the outcome is persisted (`runner.rs:294`) | `JobRunner!LeaseLostBeforePersisting` | `baukit-jobs/src/error.rs:88` |
| In a drain the error of one attempt drops the handlers of the others before the deadline (`runner.rs:235`) | `JobRunner!DrainKeepsHandlers`, two slots | `baukit-jobs/README.md:336` |
| A duplicate `enqueue` fails with a database error when cleanup deletes the row between INSERT and lookup (`store.rs:648`) | `JobEnqueue!DuplicateReturnsRow`, idempotency mode | `baukit-jobs/src/store.rs:48` |
| A panic of the API listener leaves the operations listener serving until the deadline, which is reported in place of the panic (`baukit-runtime/src/lib.rs:743`) | `Process!OperationsStopAfterApi`, `MayPanic` | `lib.rs:647` |
| `erased_at` is the start of a transaction that then waits for locks; a session authenticated meanwhile passes the fence (`baukit-erasure/src/store.rs:421`) | `Erasure!OldSessionsFenced` | `baukit-erasure/README.md:16` |
| An operator's transaction that began before a later erasure of the user fences with its own `now()` and takes the fence back (`baukit-erasure/src/store.rs:340`) | `Erasure!FenceNeverLowered` | `baukit-erasure/README.md:16` |
| A chunk that times out after the provider took it is released and sent again (`baukit-push/src/expo.rs:312`) | `Push!AtMostOnce` | `baukit-push/README.md:7` |
| A revoke for a link id the initiator has not recorded yet is answered 401 and never repeated (`baukit-suite/src/services/delivery.rs:82`) | `SuiteLink!AuthorizerRevokeArrives` | `docs/platform/suite-events.md:30` |
| The initial replay is due before the initiator recorded its link; its 401 leaves a link that cannot be enabled again (`services/link.rs:441`) | `SuiteLink!RecordedLinkDelivers` | `docs/platform/suite-events.md:25` |
| Approving a request again after a lost answer revokes the link the initiator has just recorded (`services/link.rs:497`) | `SuiteLink!RevokedByItsPeer` | `docs/platform/suite-events.md:29` |
| A 2xx that arrives after another delivery's 401 closes an open circuit (`baukit-suite/src/domain/mod.rs:898`) | `SuiteDelivery!OpenUntilReenabled` | `docs/platform/suite-events.md:168` |
| A rebuild whose first page ends below the horizon is refused its second page and starts over for ever (`baukit-sync/src/horizon.rs:64`) | `MCLiveness!ChangesArrive` where a page is shorter than what lies below the horizon | `docs/platform/offline-readiness-contract.md:109` |
| A stop between the first page's rows and its cursor leaves rows that are never removed (`sync-client/src/transport.ts:195`) | `Sync!NoGhost` | `docs/platform/offline-readiness-contract.md:105` |
| A follow-up requested in the two microtasks after a run settles is never run (`sync-client/src/scheduler.ts:176`) | `ClientSync!NoFollowUpLeft` | `scheduler.ts:69` |
| A late consume, a release in the next window, a repeated release script and a process that fails open each let a window grant more than its limit (`baukit-ratelimit/src/redis_store.rs:53`, `amount_budget.rs:300`, `redis_store.rs:404`, `amount_budget.rs:333`) | `RateLimit!WindowNeverOvergrants` | `amount_budget.rs:157`, `docs/platform/resource-budgets-contract.md:36` |
| A listener that enqueues and flushes starts a second drain (`data-contracts/src/revisioned-writes.ts:236`) | `ClientSync!OneAtATime`, `Reentrant` | `revisioned-writes.ts:85` |
| A draft is moved and its old key deleted after the editor lost the scope (`durable-draft.ts:393`) | `ClientSync!InactiveUntouched`, `Leases` | `durable-draft.ts:83` |
| A failed discovery is kept, so nothing said to be retryable can succeed (`auth-web/src/index.ts:182`) | `ClientSessions!RetryCanSucceed` | `index.ts:40` |
| A store write in flight undoes a native sign-out, and a sign-in removes a later marker (`auth-native/src/index.ts:533`, `:319`) | `ClientSessions!NativeEndedStays`, `NativeMarkerStays`, `Overlapping` | `auth-native/README.md:37` |
| A native sign-in that waits for the token or the subject stores its session after a sign-out or an erasure that completed meanwhile, and deletes its marker (`auth-native/src/index.ts:319`, `:320`) | `ClientSessions!NativeCalledSince` | `auth-native/README.md:35`, `:37` |
| The revision that fences a callback or a refresh is a page's own: one under way in a tab stores its tokens after the session ended in another (`auth-web/src/index.ts:327`, `:361`) | `ClientSessions!EndedInEveryTab` | `auth-web/README.md:33`, `:35` |
| The hub's retry uses whatever token is cached, which may be older than the refusal (`baukit-suite/src/platform/hub.rs:304`) | `SuitePlatform!UnauthorizedIsFresh` | `hub.rs:113` |
| A record of one empty cell is written quoted (`baukit-core/src/export.rs:226`) | `CoreLists!EmptyStaysUnquoted` | `export.rs:111` |
| Ties are evicted by the database's collation in the table and by bytes in memory (`baukit-push/src/postgres.rs:597`) | `PushAdapters!SameDevices`, another `Collated` | `baukit-push/src/memory.rs:19` |
| A credential no header can carry is reported as worth a retry (`baukit-push/src/expo.rs:214`) | `PushAdapters!RetryCanSucceed` | `baukit-push/src/port.rs:230` |
| The oversized case does not notice a probe that reads the whole body (`baukit-test/src/credential_probe.rs:246`); the inbox cases do not notice an outbox write of its own (`inbox.rs:240`) | `ServiceKit!ProbeFaultyFails`, `InboxFaultyFails` with these faults | `credential_probe.rs:355`, `inbox.rs:106` |
| The concurrency limit is one semaphore per route; bodies stop at Axum's 2 MiB whatever is configured; one zero limit discards every option (`baukit-http/src/middleware.rs:160`, `:159`, `:153`) | `HttpServer!ConcurrencyIsBounded`, `BodiesWithinLimit`, `OnlyLimitsReplaced` | `options.rs:100`, `:98`, `middleware.rs:147` |
| Refusals of Axum's extractors are plain text (`baukit-suite/src/adapters/http.rs:699`) | `SuiteServer!RefusalsAreEnvelopes` | `http.rs:688` |
| Requests are keyed by the mapped account, so one identity cancels another's (`baukit-mcp/src/cancellation.rs:22`) | `Mcp!CancelledByVerifiedIdentity` | `baukit-mcp/README.md:104` |
| A local load exports `.env` for good, and a later production load sees it (`baukit-config/src/lib.rs:793`) | `Process!ProductionSeesNoDotenv` | `lib.rs:6` |

## 6. Proofs

The constants are arbitrary: any sets of jobs, workers, slots, keys, replicas,
hooks and tasks, any times and bounds, under the ASSUMEs of the modules and the
hypotheses shown. Where a theorem states a property of a run, TLC checks it on
the run's instance and the proof covers every other.

| Theorem | Module | Statement |
|---|---|---|
| `TypeCorrect` | `JobOutboxProofs` | `Spec => []TypeOK` |
| `SchemaInvariant` | `JobOutboxProofs` | `Spec => []SchemaInv` |
| `WritesRefusedOnlyIfEarly` | `JobOutboxProofs` | `Spec => []RefusedOnlyIfEarly` |
| `LeaseStableUnderLock` | `JobOutboxProofs` | `Spec => []HeldLeaseStable` |
| `PendingKeyReleased` | `JobOutboxProofs` | `Spec => []PendingKeyBeforeFirstClaim` |
| `ReasonIsTrue` | `JobOutboxProofs` | `Spec => []ReasonMatchesAttempts` |
| `CancelledNeverSucceeds` | `JobOutboxProofs` | `Spec => NeverSucceedsOnceCancelled` |
| `StoreImplementsLifecycle` | `JobOutboxProofs` | `Spec => ImplementsLifecycle` |
| `RowKeptUntilCommit` | `JobEnqueueProofs` | `Spec => []ReturnedRowKept` |
| `NoUpdateLost` | `JobEnqueueProofs` | `Mode = "pending" /\ Spec => []JobSeesUpdate` |
| `RunnerTypes` | `JobRunnerProofs` | `Spec => []TypeOK` |
| `RunnerKeepsSchema` | `JobRunnerProofs` | `Spec => []SchemaHolds` |
| `MarkedSuccessIsStored` | `JobRunnerProofs` | `Spec => []MarkedIsDurable` |
| `LeaseInvariant` | `JobRunnerProofs` | `LeaseMargin => (Spec => []LeaseInv)` |
| `HandlersExclude` | `JobRunnerProofs` | `LeaseMargin => (Spec => []OneHandlerPerJob)` |
| `StaleAttemptsFenced` | `JobRunnerProofs` | `LeaseMargin => (Spec => []StaleAttemptFenced)` |
| `SlotsOnce` | `MCProcessProofs` | `RetentionMargin => (Spec => []OneNextSlot)` |
| `ProcessStops` | `MCProcessProofs` | `Spec => []StopsInOrder` |
| `ReplicaComplete` | `MCDataProofs` | `Spec => ReplicaSeesAll` |
| `SubjectsErased` | `MCDataProofs` | `Spec => ErasureHolds` |
| `ExportsKept` | `MCDataProofs` | `Spec => []ExportsComplete` |
| `DeliveriesCounted` | `MCSuiteProofs` | `Spec => CountedOnce` |
| `LinksPaired` | `MCSuiteProofs` | `Spec => LinksPair` |
| `PlatformCurrent` | `MCSuiteProofs` | `HubMargin => (Spec => PlatformStaysCurrent)` |
| `LimitsKept` | `MCHttpProofs` | `Spec => LimitsHold` |
| `WritesKept` | `MCHttpProofs` | `Spec => WritesOnce` |
| `ServedKept` | `MCHttpProofs` | `Spec => []ServedUnderLoad` |

### Row lemmas

The lemmas at the end of `JobRows` say once what each transition returns: its type,
that it satisfies the CHECK constraints, and that no operation but an INSERT
gives a row a key or an index entry it did not have. The proofs about the store
and about the runner cite these lemmas and never expand a transition again.

### The store

`RefusedOnlyIfEarly` is not inductive. It needs the constraints of the current
table, that a running row was claimed and a claimed row has no pending key (so
that a retry or a reclaim takes no index entry it did not hold), that a held lock
still owns its lease (so that a commit ends a running row), and that no row was
created after the clock, nor, where callers' times are exact, after the time a
handler transaction completed with. Their conjunction is `SchemaInv`. Each
action's new table is shown to satisfy all of `Constraints` but `updated_at >=
created_at`, row by row for the CHECKs and pairwise for the indexes, for any
`Lag`: what is refused is refused for its time alone. With `Lag = 0` no step
writes with a time before its row's creation, which is the second half of the
property; with `Lag = 1` TLC finds the refused claim of section 5.

The same facts without the timestamps and without `rejected` (`StoreInv`) carry
the other invariants, because a refused write changes nothing; the truth of the
failure reason rests on `attempts <= max_attempts`, which is part of it.
From them each action is a step of `JobLifecycle` on the rows it changes and a
stutter on the others: that is `StoreImplementsLifecycle`.

### The enqueue

`EnqueueInv`: a transaction's own insert is invisible until its commit, a lock
belongs to the transaction that was given the row (`LockPaired`), a row that was
given is locked and still indexed (`FoundKept`), and the job of a committed
update is in a state from which it can succeed only after it read the update
(`PromiseKept`). The lock carries the promise over the commit: at that moment
the row is still pending and was never claimed. All worker steps share one
lemma, which needs only that the row they touch is not locked.

### The runner

`RowsInv` holds for every timing: the table satisfies its constraints row by row
and across rows, a claim or an attempt names a row that exists and was created
before the time it writes with, and an attempt whose handler committed has its
row succeeded. TLC checked it on the states of `runner_safety` first.

`LeaseInv` is about time and needs `LeaseMargin`, `Lease > JobTimeout + 2 *
MaxDelay`. While an attempt can still write, its row carries the attempt's number
and either its own lease, in force until after the last instant at which the
attempt may act (`Leased`), or the success it committed; a claim that was
returned and not yet spawned holds its lease likewise (`ClaimHolds`); and no two
of these concern one job (`OneOwner`). An abandoned call that still commits gives
its lease to nobody: it takes a row that none of these holds. One `MaxDelay` lies
between reading the time of a claim and the start of the handler, the other
between the end of the handler and the end of the write of its outcome; the
handler runs `JobTimeout` at most. The margin is tight: with `Lease = 3`,
`JobTimeout = 1`, `MaxDelay = 1` TLC finds a stale attempt that ends its
successor. The code checks only `lease_duration > job_timeout`.

### Recurring slots

`SlotsInv` adds to `OneNextSlot` what its steps rely on: a slot that was
completed once is still stored as succeeded, or it is absent and older than the
retention (`DoneSound`); a handler that holds its lease and computed the next
slot completes before that slot can have been completed and cleaned up
(`WorkSound`); and beyond every completed slot there is a live one (`Chained`,
the newest link). A live slot alone, which is what the property says, is not
inductive: it could be an old slot whose handler, when it completes, finds its
next slot completed already and adds none. The hypothesis `RetentionMargin`,
`Interval + Skew <= Retention + 1 /\ 2 * Skew + Lease <= Retention + 2`, says how
long cleanup must keep completed rows: longer than an interval with the skew,
and longer than the lease of a handler that computed its next slot long ago. It
is needed: for an interval of 1, a lease of 3, a skew of 1 and a retention of 2
TLC finds `OneNextSlot` violated. The retention of terminal jobs is the
product's choice, and nothing in the code relates it to the interval.

### Shutdown

`ShutdownInv` joins the token (a hook has run exactly if it was taken and is not
waiting, none is left behind once the token is cancelled, the clock stays
between the first trigger and its deadline), the tasks (aborted only after the
deadline; one that was checked before the cancellation has no late attempt yet,
one that runs has at most the one it is in), and the pair of listeners: a listener that ended and was read without
an error exited after the cancellation (`ReadSound`), which is what
`SuccessIsGraceful` needs. It holds with and without `MayPanic`, and whether or
not the operations listener outlives the API's.

### Replication

`PullInv` is about one server's rows, its writers, the purge and one client that
commits a page's rows and its cursor one after the other and may stop between.
`Reflects` says what the cursor is worth: the server will refuse it, or each row
is still to come, is held by the client exactly as it is, or is a purged row of
`torn`; and a client at cursor 0 holds nothing but such rows, so that a refused
client that starts over is sound too. A page under way reflects the server twice:
at the old cursor with its rows applied, and at its own. `torn` holds the rows of
first pages whose cursor was not committed; a later page that brings them again
clears them, and a client with a cursor that missed their tombstone is refused.
It rests on three facts of the server. Revisions are distinct and never above the
allocator's, and a writer under way holds the next one. The horizon covers every
purged tombstone (a client below it is refused). And while a pull holds its lock
nothing is purged, so the page that is read after the guard is read from the rows
the guard saw. A page is the beginning of what is newer than the cursor: that no
row is skipped is an argument about cardinalities, each selected row having fewer
than a page's worth of newer rows before it. That the page's last revision exists
follows from lemma `Greatest`, a finite set of numbers has a greatest element,
which is proved by a minimal counterexample over the strict subset order because
the induction theorems cannot be instantiated.

`HlcInv`: storage is never behind what was returned, what is in flight is above
what it answers, and every timestamp fits its encoding. `SchedulerInv`: a run
that may begin was asked for since the last stop.

### Erasure

`ErasureInv` has a part for each of the three machines. `FenceInv`: a visit that
was let through holds the subject's lock, so that until it is done no erasure is
unfinished and its session is younger than the fence; a profile it creates then
belongs to a session that began after the fence. An operator erases in a
transaction of their own, which may have begun before the last fence
(`baukit-erasure/src/store.rs:340`), and so takes the fence back; the property
says that nobody else does, and that the profile is younger than whatever fence
stands. `TakeoverInv` is about one account and who may finish its erasure:
whoever has the provider's answer deleted the account, and `JobsAgree` (an
operation has a job exactly while it is pending or failed, only a running job is
leased) holds over sweeps, repairs and expired leases. `SubjectInv` is about the
exports and erasures of a product. Their workers read a job's row, act, and write
in one transaction, and what the open transaction read still holds
(`TransactionSound`): the row is locked. The job's type says how often the
product erased (`OperationSound`): once before "finalize", not at all before
"execute", which is why a signed receipt tells of exactly one erasure.

### Exports

`PostsAgree` is why one key is one operation: the advisory lock keeps the
requests of a key in line, and what a request saw under its key stays true while
it holds the lock, because no step but an insert brings an operation to life. So
the unique index never refuses a row, and no request is answered with an error.
That parts stay until they expire is inductive with `SubjectInv`: only the job of
an export signs one, in the transaction that writes its parts. The lemmas are
stated for an instance `k` of `Cases` and hold for both that the run checks.

`SplitInv` follows the writer of an export, for any records and limit. The part
being written has the length it would be stored with (`Measured`) and begins
where the last stored part of its category stops (`Underway`, which carries the
cuts between the stored parts); the part before it was full when it was closed
(`FollowsFull`), and every record before the next one can be stored on its own
(`Storable`). The length of a part adds up its records. Lemmas `TotalsExist` and
`TotalsAgree` say that the function of running totals exists and is unique;
their induction is lemma `Reached`, which takes the greatest number reached from
`GreatestUpTo` because the induction theorems cannot be instantiated.

### Deliveries

`RewardInv` is about one link, its delivery jobs and the receiver, for any
events, workers, attempts and threshold of the circuit. `Tally` is what counts:
a failed job was recorded as failed and not yet counted, or was counted once,
and any other job neither; the transaction that locks the link next moves what
was recorded into the count, so the property holds however late that is. The
receiver's inbox decides the rewards: an event has been rewarded once exactly if
the inbox says it was granted, and the inbox says "no rule" only of an event
that was replayed (`InboxInv`). A worker that is about to record "delivered" for
a live event finds it rewarded or replayed already, a fact it carries over the
lost answers and expired leases between the call and the record (`CallSound`);
a call that ends as "finished" belongs to a revoked link. From these a live job
that succeeded has rewarded its event, or the event was replayed, or the link was
revoked (`DoneInv`).
The circuit machine, which must not enqueue while the circuit is open, runs with
the constants `MCSuite` gives it: a threshold of two, one worker, two events.

### Links

`PairInv` is stated for any requests, codes and concurrent calls and used for
both machines that pair products. The authorizer numbers its links one by one, so
the next number is free (`FreshSound`). Each side uses at most one link because
a new one revokes the one in use. What the initiator holds names a link of the
authorizer's that names it back with the same secret (`RowsInv`). A prepared
exchange belongs to one open request and to a link that is not recorded yet
(`RequestsInv`), so that a call that carries it, and the copy of its message that
arrives late, create no second pair (`CompletionSound`). A row once held keeps
its number and secret and is never revived (`RowsGrow`).

### Platform

`PlatformInv` has one part for each machine of `SuitePlatform`. Plans
(`PlanInv`, stated for any callers, workers, bodies and lifetime, and used for
both machines that read them): a read that holds a lock holds the one the map
names, so the one that pulls is alone, whatever reads forget or replace the map's
lock (`PlanCallsInv`). Its floor is what is committed by then, what it was
answered is stored before it is served and the cache is never older than what is
committed (`PlanInForce`); with `CacheGrows`, no step takes the cache back. A
delivery commits only a plan as new as its event (`WorkSound`) and acknowledges
the body its receipt holds (`PlanReceipts`).

The service token (`HubInv`): the caller that asks for a token is the one that
holds the cache's lock; a token expires no sooner than its request plus its
lifetime, and the cache gives it up a margin earlier (`HubCacheInv`), so a caller
takes an unexpired one. `HubCalm` is why nothing is refused while the platform
revokes nothing, and it needs `HubMargin`: an exchange is no longer than the
renewal margin and shorter than half a token's lifetime. In the code an exchange
ends within 10 s (`baukit-egress/src/options.rs:7`) and the margin is 30 s
(`platform/hub.rs:11`), or half the lifetime when that is shorter
(`platform/hub.rs:375`): the hypothesis asks for tokens of more than 20 s, and
only `ExpiryIsAvoided` uses it.

The ticket keys (`TicketInv`): the caller that holds the lock fetches. A cached
key is published or was withdrawn after the fetch, and a published one is cached
or came later (`KeysInv`), which bounds how long a withdrawn key is accepted and
a rotated one refused. The fetches are of two kinds, for an expired set and for
an unknown key; those of a kind begin a cool-down apart, and so at most two begin
in any cool-down (`FetchesInv`).

### Limits

The buckets are stated for any keys, capacity and price and used for both
machines of the limiter (`RateInv`). That an idle bucket may be dropped is one
fact about rounding: in `idle_ttl` ticks a bucket refills (`Ceiling`, the
division that rounds up), so what was dropped is full, and the level of a key the
store does not hold is its capacity (`LevelTyped`). Who was refused is given a
hint that the refill of the rest of the hint covers, whatever is dropped
meanwhile (`RateWaits`). A live bucket is dropped only to make room for a key
that had none, and only if there are more keys than entries
(`baukit-ratelimit/src/memory.rs:69`; a store keeps 10 000 by default): then the
bucket that takes the place was full (`PrunedKeeps`), so a step changes the levels
as `TokenBucket` does, which knows this case as `Displace` (`LevelsMove`,
`LimiterRefines`).

`BudgetInv` compares a window's grants and the units that calls owe to it with
its counter and what slipped (`BudgetCovered`). A call owes what it is to release
and its window's counter still holds (`due`): no longer granted, not yet given
back. The owed units are a set of pairs of a caller and a number, whose
cardinality is a sum no available prover could take by induction. A release takes
its own units, so one that is due never takes what covers the grants of others;
one that is not (its script ran before and the reply was lost, or its window
ended) slips what it takes, and so do a consume answered after its window and one
that a process which fails open allows without an answer. Nothing is assumed
about which of these happen or how often.

### Writes

`WritesInv` has one part for each machine. Keyed mutations (`KeyedInv`): the
record of a key names the client whose mutation took effect under it, so each
client's effects are one or none according to the records, and a mutation that
runs is the only one of its key, which has no record yet. The last part rests on
the answer a request gets while its key is held
(`baukit-http/src/idempotency.rs:219`): a retry that meets its own first attempt is
told to come back and then finds the record, or none if the attempt died.

The connection to an upstream is stated for any cap on the delay
(`UpstreamInv(cap)`) and used for both machines. A retry is scheduled only while
the connection is degraded and has attempts left; once the upstream told a time,
the next attempt is no sooner than that time or, with a cap, than the cap after
the last one. `OutReads` and `OutClasses` say what a response means: the delay of
its headers, whichever header tells it, reaches the time the upstream told or
the cap, and a response is `Revoked` exactly when the grant was withdrawn, which
needs the two readings of a 403 told apart (`Forbidden`). That a cleanup spares a
link used meanwhile needs no invariant: the DELETE asks again (`CleanupSpares`).

### Serving

`SoundRouter` is the contract of the routes: every status a handler, one of its
extractors or a service error can give is documented, and none of them is a
limit's. On that rests `ServeInv`: the counters are kept under the keys of peers
and known links only, a known link's counter is at most what that link was
asked and at most its limit, a peer has been told of no more failed exchanges than
its counter holds, and the last answer fits what was counted. Time passes by
clearing the window, so the wait an answer hints reaches the next window's start
(`WaitIsEnough`).

### Only model-checked

Liveness (`EnqueueReturns`, `UpdateReachesHandler`, `WorkEnds`,
`ChangesArrive`): fairness and ENABLED are beyond the prover. `OnlyLiveTokens`,
`OnlyGrantedRuns` and `SessionsStayEnded`: `Auth` computes checksums and
encodings by recursive operators, and the prover loses its SMT backend in every
module that reaches one. `OperatorsSeeTheTruth`, `StartsAsConfigured`,
`KitsTellApart`, `ListsReadBack` and `RequestsAnsweredWhole`: their machines
fold and select over sequences (the reports of a probe, the layers of a
configuration, the cases of a kit, the cells of a record), whose results for
every input follow only by induction over the sequence, which no available
prover can instantiate. Not tried yet:
`RegistryKeepsItsWord`, `SentOnce` and `EditsSurvive`.

## 7. Not modelled

Metrics and their text, `payload` and `last_error`, validation of text lengths,
the size of the exponential backoff (one constant delay: no property depends on
it), and callers of the enqueue functions at REPEATABLE READ or SERIALIZABLE,
who are told to retry. How long a handler keeps a transaction open is the
product's choice; while it does after its lease expired, the sweeps of every
claim wait for it. That wait is in `JobOutbox!Claim`, and no property bounds it.

Cryptography, random bytes, HTTP and SQL themselves are external: what `src`
relies on of them is modelled where it is used (a signature verifies under the
key that made it, a unique index refuses, a lock waits) and marked external in
`PROJECT.json`. The Redis token bucket, route groups, locale negotiation, the
credential vault's sealing, provider presets, React bindings, product packages,
charts and release scripts are not modelled: they keep no state that several
actors change, or are covered by the model of their in-memory counterpart.

## 8. Plan

Done: the job subsystem and its proofs, the machines of the other components,
their liveness, and the proofs about recurring slots, shutdown, replication,
erasure, exports, deliveries, links, the platform, limits, keyed writes, upstream
retries and the suite's routes.

Next proofs, most useful first:

1. `SentOnce` and `RegistryKeepsItsWord`: one sender for any number of workers,
   the cap for any number of owners.
2. The part of `RequestsAnsweredWhole` about the suite's locks, of its own: the
   lock order for any number of sessions.

## 9. Running the checks

    tlc -workers 2 -config MCJobOutbox.cfg MCJobOutbox.tla
    tlapm JobRunnerProofs.tla

and likewise for the other configurations and proof modules. Every run ends
within five minutes on two cores; the proofs take about forty minutes together.
