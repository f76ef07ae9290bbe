# Formal models of nestjs-boot

nestjs-boot (`src/src`) is a TypeScript library that configures NestJS
applications: event sourcing, an outbox, sagas, resilience, caching, content
publishing, payments, authentication, graceful shutdown and more; its project
generator copies a backend template (`src/templates`) with a login service.
Most of it is wiring; some of it is protocols between concurrent requests,
several instances of an application, a database and timers. This directory
models those protocols in TLA+, checks them with TLC on small instances and
proves some of the results for every instance with TLAPS.

- *Modules* named after a component model it; `MC...` modules and `.cfg` files
  give TLC the constants; `...Proofs` modules hold theorems.
- `PROJECT.json` lists components, runs, mutants, the source lines of every
  definition, findings, hazards and theorems.
- Check a model: `tlc -config MCOutbox.cfg MCOutbox`. Check a proof:
  `tlapm EventLogProofs.tla`.

Paths below are relative to `src/src` unless they start with `docs/` or
`templates/`.

## 1. Inventory

### Modelled components

| component (source) | state | operations | meets |
|---|---|---|---|
| MongoDB event store (`cqrs/adapters/mongodb-event-store.ts`) | `event_store` collection, position counter; per append: what it has read and been handed | `append` (5 kinds of awaited commands), `getEvents`, `getAllEvents` | replay, aggregates |
| Event replay (`cqrs/event-replay.service.ts`) | the application's checkpoint and what it handled | `replayFrom`, `replayAll` | event store |
| Circuit breaker (`resilience/circuit-breaker.decorator.ts`) | `state`, `failureCount`, `halfOpenAttempts`, `nextAttemptTime` | `execute`, `onSuccess`, `onFailure`, `reset` | every wrapped call |
| Resilient client (`transport/resilient-client.ts`) | per call: attempts made, timer or pause | `call`: breaker, then retries, then timeout | circuit breaker, remote service |
| Outbox (`cqrs/outbox-processor.ts`, `events/event-bus.service.ts`) | outbox collection; per process: timer, `processing`, running batch; messages in Redis | `persistToOutbox`, `processOutbox`, `emitAsync`, start, stop | event bus, database, Redis |
| Saga runner (`cqrs/saga.ts`) | completed and compensated step names | `execute`, compensation | application steps |
| Shutdown and readiness (`shutdown/`, `health/health.controller.ts`) | two shutting-down flags, force-exit timer, in-flight counter | signal, `onApplicationShutdown`, `readyz`, request start and end | NestJS, HTTP server |
| Alerts (`alerts/alert.service.ts`) | rules, pending debounces, cooldowns, running checks | `checkRules`, `addRule`, `removeRule`, the interval | metrics, channels |
| Migrations (`database/migrations/migration.runner.ts`) | `_migrations` records, what is in effect in the database; per runner: what is left | `migrate`, `rollback` | database, application's `up` and `down` |
| Import cycles (`graph/cycle-detector.ts`) | Tarjan's stack, indices, low links | `detectCycles` | module graph |
| Multi-layer cache, stampede guard (`cache/multi-cache.service.ts`, `cache/cache-stampede.ts`, adapters) | L1 per process, L2, `inflight` map per process | `get`, `set`, `del`, guarded `getOrSet` | Redis, origin of the data |
| Cached repository (`database/cached.repository.ts`) | a service's copies in L1, the copy in L2, calls under way | cached reads, writes with invalidation | cache, database |
| Content publishing (`content/services/content-publishing.service.ts`, `content-entry.service.ts`, entry repository) | an entry's status and dates | `transition`, `scheduleUnpublish`, archive, restore, the periodic check | database, several instances |
| Content versions (`content-entry.service.ts`, `content-version.service.ts`) | an entry's row and version records | `create`, `update`, `hardDelete`, `createVersion` | database |
| Payment webhooks (`payments/webhook.controller.ts`) | the map of seen events | delivery, eviction, handler's outcome | payment provider, application handler |
| Idempotency keys (`payments/idempotency.guard.ts`) | the map of answers | a request admitted, answered, ended unstored; eviction | clients, application handler |
| Login and refresh tokens (`templates/backend-core/src/auth/auth.service.ts`, `auth/login-tracker/`) | failed logins in memory; token rows; what each request has read | `login`, `refresh`, `logout`, password change, lockout and its sweep | database |
| Refresh token stores (`auth/token/`) | tokens, families, revoked flags with their lives | `storeToken`, `markUsed`, `revokeFamily`, `revokeAllForUser` in memory and in Redis | Redis |
| Permission checks (`auth/guards/permissions.guard.ts`, `auth/rbac/`) | role hierarchy, the user's roles and permissions, running checks | check with its two reads of the store, assignment and removal | permission store |

What is hard in each, and what makes it correct:

- **Event store.** Appends interleave between any two commands, an insert of
  several documents is not atomic, a process can die in the middle. Streams
  must have unique gap-free versions, positions must agree with versions, and
  an acknowledged append must stay.
- **Replay.** Positions are handed out before the documents that carry them
  are stored, so a reader may pass a gap that fills later.
- **Breaker and client.** Outcomes arrive in a later period than the one that
  admitted the call; a half-open period can run out of attempts; a call that
  was admitted goes on retrying while the breaker is open.
- **Outbox.** Several instances poll the same entries, crash between handling
  and marking, and lose database commands; over Redis the handlers also run on
  a message nobody waits for. Nothing may be marked that was not handled, and
  every entry must be settled.
- **Saga.** Any step and any compensation can fail.
- **Shutdown.** Signals repeat, requests hang, hooks fail; the process must
  refuse readiness first, drain, and end.
- **Alerts.** A check changes state that is younger than its own clock, and the
  interval does not wait for the last check. No alert may be lost.
- **Migrations.** Nothing locks the collection and no transaction joins a
  migration to its record, so runners overlap and die in between.
- **Cache and cached repository.** Misses, factories, writes, deletes and
  invalidations of several processes interleave; commands and factories fail.
- **Publishing and versions.** A status is checked with one command and written
  with another, while the periodic checks of other instances write too; an
  update is three commands without a transaction.
- **Webhooks and idempotency keys.** A provider or client repeats while
  handlers run, fail or are slow; the memory of what was seen is bounded in
  time and size and dies with the process.
- **Authentication.** A lock is asked for before the password is compared, a
  token is read before it is marked used, and permissions are read in two
  commands; what a request has read may be out of date when it acts.

### Components without a model

PROJECT.json gives the reason for each. In short:

- *One atomic step or one command per operation*: in-memory event store and
  snapshots, command bus, sessions, one-time passwords, role management,
  organizations, rate limiter, policies and scopes.
- *Delegation*: repositories and unit of work (Mongoose, Prisma), queues
  (BullMQ), WebSocket gateway (Socket.IO), storage, CDN and embeddings (calls
  of external services), transports, RPC and versioning (stateless mappings).
- *Sequential scripts*: deploy hooks, configuration at start, layer rules,
  application assembly, project generator.
- *Nothing that survives a second caller*: cache tags, whose index is read,
  changed and written back in separate commands; the audit chain, which every
  process begins anew and which leaves a gap when a save fails.
- *Without influence on the rest*: logging, metrics, tracing, health
  indicators, the dashboards and sample programs beside the library.

## 2. Modules

A step of a model is what the code does between two awaits. A database
command, a handler or a factory that is awaited is a separate step, with a
failing outcome where the code has a path for one.

**`StreamLog`** is the abstract event store: a sequence of positions per
stream that only grows at its end and whose positions rise.

**`MongoEventStore`** models `append`. `Begin` calls it with a stream, a count
and perhaps an `expectedVersion`; `CheckVersion` is the comparison with
`expectedVersion`, `ReadVersion` the second read that fixes the new versions,
`AllocatePosition` one `findOneAndUpdate` of the counter,
`InsertDocument`/`RejectDuplicate` one document of the ordered `insertMany`
under the unique index, and `Abort` a failing command or a crash anywhere.
`Streamed` maps the collection to `StreamLog`.

**`EventReplay`** extends it with a projection that calls
`replayFrom(checkpoint)` at any time; any of its handlers may throw.

**`CircuitBreaker`** has one action per admission (`AdmitClosed`,
`AdmitFirstProbe`, `AdmitProbe`) and per outcome (`Succeed`, `Fail`), `Reset`
and `Tick`. Time is the ticks left until `nextAttemptTime`. `probes` and
`elapsed` only record history for the properties. A rejected call changes
nothing and has no action.

**`ResilientClient`** extends it: a call the breaker admits (`Call`) sends up to
`MaxAttempts` requests, each ended by `ReplyArrives`, `ErrorArrives` or
`TimerFires`, with `NextAttempt` after a pause. `openSent` counts what each
call sends the service while the breaker is open.

**`Outbox`** has `Poll`, `Emit`, `MarkPublished`, `CountRetry`, the failures
`MarkFails` and `CountFails`, `Stop`, `Die` and `Start`, per process, over the
memory transport or over Redis, where the emitting process first publishes a
message that every live process, itself included, handles again later: one whose
handler then rejects ends its process.
`SyncHandlers` are handlers that do not return a promise; what they throw is
logged by the bus. `attempts` and `handledBy` record history.

**`Saga`** runs any definition of up to `MaxSteps` steps whose names may
repeat: `StepSucceeds`, `StepFails`, `Compensate`.

**`Shutdown`** has `Signal`, `AppClose`, the stages of the teardown (`Destroy`,
`StopListening`, `OnApplicationShutdown`, `BeforeShutdownHook`,
`CloseConnections`, `ServerClosed`), `Exit`, `Tick` and `ForceExit`, and requests
that `Arrive` and `Finish`. The order in which NestJS calls the life-cycle
hooks is external; so is whether NestJS closes the HTTP server, which `Init`
chooses, with the requests that hang.

**`Alerts`** has a check that reads metrics and clock (`StartCheckRules`) and
comes to each rule once: `Defer` begins its debounce, `Wait`, `Swallow` (due
inside the cooldown), `Fire`, `Clear`, `Resolve`; `Sent` ends the await of the
channels. Instants are ages, so that time is unbounded. `alerted` records the
rules an alert was sent of since they were last clear; `slow` says whether a
check may outlast the interval.

**`Migrations`** has several runners over the records and over `inEffect`, what
`up()` and `down()` did to the database. `Up`, `Insert`, `Down`, `Delete` have
failing forms in which the command had its effect or not. `cut` records
versions whose rollback ended between `down()` and its `deleteOne()`.

**`CycleDetector`** runs `detectCycles()` with the recursion as a stack of frames
(`StartFrom`, `Descend`, `LookBack`, `Leave`) over every graph the constants
allow; `Components` is the definition it is compared with.

**`MultiCache`** is one key in several processes. `Issue` puts an L2 command
on the wire of its process, `Apply` and `Refuse` are L2's side of it, and the
caller goes on when it is `Replied`; a connection keeps the order of its
commands. `Get`, `Set`, `Del` start calls; `Join`, `Lead`, `Locked`, `Factory`,
`Store`, `Stored`, `Settle`, `Unlock` are the steps of the guard; `Expire` and
`Change` are expiry or eviction and a new value at the origin.

**`CachedRepository`** abstracts the guard away: `Read` misses, queries and
stores in L1 and L2; `Write` commits and then clears L1, scans and deletes;
`ReadFails`, `InvalidationFails` and `Crash` are the faults. Copies carry their
age and a taint that says whether the read that made them overlapped a write or
an invalidation failed to delete them.

**`ContentPublishing`** has requests in two steps: `Transition`,
`ScheduleUnpublish` or `Override` (archive and restore) reads and decides,
`Save` updates. The periodic check is `StartCheck`, `CheckSaves` or
`CheckFails` for each entry, `NextQuery` for the second list, `EndCheck`.
`Update` is the repository's rule that `undefined` leaves a field alone.
`dates`, `approved` and `asked` record history.

**`ContentVersions`** has `Create` and an update in three steps, `StartUpdate`
(the read), `WriteEntry` or `WriteStatus`, `CreateVersion`, with `EditFails` at
any of them and `HardDelete`. `held` records what the row has been, `cut` that
a call ended between the row and its record.

**`Webhooks`** has `Skip` and `Dispatch` (lookup, eviction, marking and the
call of the handler run without an await in between), `Succeed` and `Fail` of
the handler, `Restart` and `Tick`. `Init` chooses whether handlers settle
within the TTL (`prompt`) and whether the provider waits for an answer before
it repeats (`serial`); properties that need one of the two say so.

**`Idempotency`** has `Begin` (the key is not known and the handler runs),
`Answer` (the answer is stored, the map trimmed), `EndUnstored` (no JSON answer,
or an error), `KeyTick` and `KeyRestart`. `patient` says whether clients wait
for an answer before they repeat.

**`LoginTracker`** and **`AuthService`**: a login is refused or goes on to the
comparison (`LoginStarts`) and then fails, or succeeds and creates a token; a
refresh presents a token (`Present`, `PresentUnrevoked`), marks it (`MarkUsed`)
and creates its successor (`Rotate`), or revokes the family of a reused one
(`RevokeFamily`); logout and password change revoke the account's families
(`RevocationStarts`, `RevokeAll`). `Restart` forgets the tracker and
the requests. `closed` records families revoked while no exchange of theirs was
under way; `streak` counts failures with less than a lockout between two.

**`TokenStore`** runs either implementation (`kind`): the methods of the memory
store in one step, those of the Redis store command by command (`HSet`,
`Expire`, `SAdd`, `SMembers`, `Pipeline`). `dead` records tokens that have
become unusable.

**`PermissionCheck`** has the guard's two reads (`StartCheck`, `Answer`) while
roles and permissions of the user change; `ResolveAll` is the breadth-first
closure of the hierarchy, `Holds` the definition it is compared with.

**`InsertionOrder`** is what `Webhooks` and `Idempotency` share: the marks or
answers that are left, in the order a JavaScript Map keeps (`InOrder`), and the
trimming of the oldest ones beyond a limit (`Trimmed`).

`MC...` modules put modules that share no state side by side, each behaviour
running one of them, so that one instance checks a whole part of the library.
`...Proofs` modules hold the theorems about one or two components, or about all
parts of an `MC...` module, which they extend:

| proofs | about |
|---|---|
| `EventLogProofs` | `MongoEventStore`, `EventReplay`, the refinement of `StreamLog` |
| `ResilienceProofs` | `CircuitBreaker`, `ResilientClient` |
| `OutboxProofs` | `MCOutbox`: `Outbox`, `Saga` |
| `OperationsProofs` | `MCOperations`: `Shutdown`, `Alerts`, `Migrations`, `CycleDetector` |
| `CacheProofs` | `MCMultiCache`: `MultiCache`, `CachedRepository` |
| `ContentProofs` | `MCContentPublishing`: `ContentVersions`, `ContentPublishing` |
| `PaymentsProofs` | `MCPayments`: `Webhooks`, `Idempotency`, `InsertionOrder` |
| `AuthProofs` | `MCAuth`: `LoginTracker`, `AuthService`, `TokenStore`, `PermissionCheck` |

## 3. Runs

Every passing run ends with no error, and each property of it is also shown to
fail on a mutated definition, listed in PROJECT.json and kept in the module
right before the definition it changes.

| run | instance | shows |
|---|---|---|
| `event_log` | 2 appends of up to 2 events over 2 streams, 3 positions, one projection | `DenseVersions`, `PositionOrder`: whatever appends race or die; `AcknowledgedStays`; `HandledInVersionOrder`: no event handled twice or before its predecessor; `ImplementsStreamLog`: the store refines the abstract log |
| `breaker` | 3 calls of up to 3 attempts, threshold 2, timeout 2, 2 probes | `ProbesBounded`, `HalfOpenAwaitsProbe`, `OpenForWholeTimeout` despite stale outcomes; `OpenLoadBounded`: what a service still gets of each call while the breaker is open; `RecoversUnanswered`: with a service that never answers |
| `outbox` | 2 processes, 2 entries, 2 handlers, 2 retries, 1 fault, memory or Redis; all sagas of up to 4 steps over 3 names | `SettledRightly`, `Resolved`; `FailureIsCompensated` |
| `operations` | shutdown: 3 requests, timeout 2; alerts: 2 rules, 2 checks, debounce and cooldown 2; migrations: 3 versions, 2 runners; imports: all graphs of 4 modules and up to 4 imports | `GracefulDrain`, `ShutdownEnds`; `FiredWasAlerted`; `EarlierInEffect`; `ReportsComponents` |
| `cache` | guard: 2 processes with 2 and 1 callers, 2 versions, one too large for L1; repository: a reader and a writer in each of 2 services, 2 writes | `OneFactoryPerMiss`, `GetOrSetReturns`; `UnracedIsFresh`, `CopiesExpire` |
| `publishing` | 1 entry, 1 request, 2 periodic checks, clock up to 2; versions: 2 editors, 2 contents, 3 versions | `PublishedRightly`, `DueIsPublished`; `HistoryMatches` |
| `payments` | webhooks: 3 events, 2 deliveries, TTL 1, 1 mark kept; keys: 3 keys, 2 handlers, TTL 2, 1 answer kept | `OncePerTTL`, `EventuallyHandled`; `OneRunPerAnswer` |
| `auth` | logins: 2 requests, 1 account, 2 failures, lockout 2, 3 tokens; stores: 3 tokens of 2 families; permissions: 3 roles, 4 hierarchies, 2 of them cyclic | `GuessesBounded`, `ClosedFamilyStaysClosed`; `DeadStaysDead`; `GrantedWasHeld` |

Each run also checks the types of its modules (one invariant, the conjunction
of theirs).

**Why the bounds are enough.** Two appends and three positions let one append
overtake the other between every pair of commands, and let a batch of two fail
at its second document; two streams let positions interleave. Three calls of
three attempts leave a call admitted in one period of the breaker running, or
retrying, in the next two. Two processes, two retries and a fault let an entry
be emitted by both, handled and not marked, and let its neighbour in a batch
fail. Four steps let compensation fail before, between and after others. One
rule with a debounce as long as the cooldown and one without, and checks as old
as a tick, let an alert fall into the cooldown of the one before. Three
versions, one of them irreversible, and two runners let a rollback be cut off,
a version be recorded twice and a run begin in the middle of another. Four
modules hold two cycles side by side, one cycle inside another's way, and an
edge into a component already reported. Two callers in one process and one in
another are a leader, a follower and a foreign writer. A reader and a writer in
each service let a read overlap a local and a foreign write. One entry is
enough for publishing, whose actions never relate two; two checks and a request
give three writers. Two editors overlap in every pair of their three commands.
A store of one mark and three events evict a mark under a running handler, and
a map of one answer does the same to keys. Two requests let a login pass the
lock while another fails, and let a token be presented while its exchange runs;
three tokens are a login and two rotations of it.

**Bounds.** `MaxBatch`, `MaxSeq`, `MaxFaults`, `MaxSteps`, `MaxVersion`,
`MaxTime`, `MaxWrites`, `MaxEdits`, `MaxTokens`, `MaxImports` and `MaxAge` bound
what is unbounded in the code; counters and ages of which the code only asks
`>=` saturate (`failureCount`, `elapsed`, `attempts`, `count`, `Horizon` for the
ages of alerts). Over Redis the instance of the outbox spends no faults: the
processes that die are the ones a rejecting handler ends. Runs switch off the
deadlock check where the model stops when a bound is used up, a saga has
returned or a process has ended. `event_log` uses the symmetry of appends and
streams, `auth` that of requests; neither has a liveness property, and none of
their expressions chooses among symmetric values.

**Fairness.** It is assumed of what the environment does anyway, never of
faults:

- `breaker`: callers keep calling, time passes and timers fire. Nothing is
  asked of the service, which may never answer, and nobody has to call `reset`.
- `outbox`: the poll timer of a live process fires, awaited work settles, a
  stopped process ends and a dead one is restarted. Faults are limited by
  `MaxFaults`: `Resolved` holds if faults end.
- `operations`: timers fire, the teardown goes on, requests that do not hang
  finish. `Exit` is not fair: an open handle may keep the process alive.
- `cache`: commands and factories settle, one way or the other.
- `publishing`: the interval fires, and (strong fairness) a query or update
  that is repeated for ever succeeds at some time. Without it a database that
  always fails would keep an entry scheduled.
- `payments`: the provider repeats an event until it is answered 200, and a
  handler called again and again succeeds at some time. Both are strong: a
  delivery or a handler stops and starts between repeats.

**What the properties of the cached repository assume.** Reads are not sent to
a replica, values are small enough for L1, a command of a process that dies was
applied before or never is, and the time a command takes is not counted in a
copy's age.

## 4. Where the code and its documentation disagree

Four runs check a statement of a document, comment or test that the code does
not keep; TLC shows the behaviour that breaks it.

| run | statement | what happens |
|---|---|---|
| `mongo_expected_version` | `AppendHonoursExpectedVersion`: an append with a stale `expectedVersion` fails | another append commits between the comparison and the read that fixes the versions |
| `replay_catch_up` | `CatchUpMissesNothing`: replaying from the last position misses no event | a lower position is stored after a higher one was read |
| `outbox_at_least_once` | `AtLeastOnce`: what is marked published was handled by every handler | what a synchronous handler throws is logged, and the entry is marked |
| `publishing_unpublish` | `UnpublishHappens`: an accepted unpublish takes place | the repository's `update` copies a fixed list of fields, and the date of the unpublish is not one of them |

Further statements are refuted by TLC on small instances. They are kept as
definitions at the end of their modules, with the document they come from:

| module | definition | refuted with |
|---|---|---|
| MongoEventStore | `FailedAppendStoresNothing` | 2 appends, batches of 2 |
| CircuitBreaker | `ClosedByProbe` | 3 calls, threshold 1, timeout 1, 1 probe |
| CircuitBreaker | `HalfOpenEnds` | the same, under `HangingSpec` |
| Outbox | `ResolvedOverRedis` | the instance of `outbox` |
| Saga | `CompletedCompensated`, `ReportedWasCompensated` | 2 names, 3 steps |
| Shutdown | `HookBeforeTeardown`, `NotReadyInShutdown` | the instance of `operations` |
| CycleDetector | `EmptyIsAcyclic` | one module that imports itself |
| MultiCache | `OneFactoryAcrossProcesses`, `LargeInL2Only` | the instance of `cache` |
| MultiCache | `DeletedStaysDeleted` | callers that only get and delete |
| CachedRepository | `NothingStale` | the instance of `cache` |
| ContentPublishing | `AllowedTransitions` | two clients |
| ContentPublishing | `UnpublishedIsUndated` | the instance of `publishing` |
| ContentVersions | `OneRecordPerVersion`, `VersionsRise` | the instance of `publishing` |
| Webhooks | `AckedWasHandled` | two overlapping deliveries |

Met while reading, and not stated in a model:

- `content-entry.controller.ts` declares `restore` twice (lines 200 and 224),
  so the route that restores a version (`content/README.md:279`) is shadowed by
  the one that restores a deleted entry.
- A reported import cycle is in the order of Tarjan's stack, which need not be
  a path of imports.
- The progress of a saga is a local variable (`cqrs/saga.ts:98`): a process that
  dies in the middle leaves completed steps that nobody compensates.
- Two refresh tokens that the template signs for one user within a second are
  the same string, and its Prisma schema lacks columns that its `AuthService`
  reads.
- The rate limiter of the delivery API calls its window sliding; it is fixed
  and begins with a client's first request.

## 5. Proofs

Each theorem below holds for every value of the constants that meets the named
assumptions of its modules. Every invariant and action property a passing run
checks is stated by one of them; the liveness properties are not (see the end of
this section). The properties are seldom inductive as they stand, so each part
names its inductive invariant and says what it adds.

The six instances that put parts side by side have `PartsAreSpecified`: a
behaviour of the instance is a behaviour of every part (a step of one leaves the
others alone), so what is proved of a part holds in the instance. Their
`...TypesHold` follow from the parts' invariants.

**`EventLogProofs`** (`BoundsAssumption`).

- `TypeCorrect`, `VersionsAreDense`, `PositionsFollowVersions`,
  `AcknowledgedIsStored`, `ImplementsLog`. An append that is between its second
  read and its inserts acts on what it has read, so `IInv` says what is still
  true of that (`InFlight`): the version it read is still a version of the
  stream (events are never removed); its positions rise and are below the
  counter; every event at or below that version has a smaller position than the
  ones it was handed; and the documents it has inserted are in the collection,
  so the next one extends the stream by exactly one. An insert whose version is
  taken violates the unique index; one whose version is free must be the
  stream's next, because the version before it is there. `Contiguous` says
  "1..n for some n" instead of naming the last version; `LatestIsLast` connects
  the two. For the refinement, an insert extends `View` of its stream by its
  position at the end (`InsertExtends`), and every other step leaves it alone.
- `ReplayTypesHold`, `ProjectionsSeeVersionOrder`. `ReplayInv` adds that what was
  handled has rising positions, none past the checkpoint. That handlers see a
  stream in the order of its versions then follows from `PositionOrder`, which
  the appends going on meanwhile keep.

**`ResilienceProofs`** (`BreakerAssumption`, `ClientAssumption`).

- `TypeCorrect`, `HalfOpenIsNotWedged`, `ProbesStayBounded`,
  `OpenLastsItsTimeout`. The properties are inductive together: an outcome in
  `HALF_OPEN` always ends the period, so the attempts a period has used are
  exactly the probes still running, which is why the last attempt never leaves a
  breaker waiting for nobody. The action property follows from
  `WindowFromOpening`, which ties `nextAttemptTime` to the moment of opening.
- `ClientImplementsBreaker`: every step of the client is a step of the breaker
  or leaves it alone, so the breaker's theorems hold behind retries and timers.
  `ClientTypeCorrect`: a call counts as running exactly while it has an attempt or
  a pause.
- `OpenLoadStaysBounded`. `LoadInv`: while the breaker is open, a running call
  has made at least one attempt more than those it sent since, and the call
  whose failure opened the breaker is not running and cannot be admitted again.

**`OutboxProofs`** (`OutboxAssumption`, `SagaAssumption`).

- `EntriesSettleRightly`. `OutboxInv`: a batch names an entry once
  (`OutboxShape`); whoever is about to mark an entry has seen the handlers that
  report failures complete (`HandledWhenMarked`); the retries counted, and
  those that processes which emitted the entry may still count, are no more than
  its attempts (`RetriesWereAttempts`). The same kind of account over the
  processes that hold an entry (`RetriesOvershoot`) bounds `retryCount`, which
  several processes increment without a condition.
- `FailedSagaIsCompensated`. `SagaInv`: what has been undone is, when names
  differ, the tail of the completed steps in reverse; whatever the names, the
  search by name returns a completed step (`FoundIsCompleted`).

**`OperationsProofs`**.

- `DrainsGracefully`. `DrainInv`: the flag `readyz` asks is up whenever the
  service's own is, and only the force exit drops requests; the counter is the
  number of running requests, of which there are finitely many.
- `NoAlertSwallowed` (`AlertsAssumption`). Without overlapping checks no alert is
  younger than the running check (`SentByStart`), and a rule whose alert was
  sent after it began to be pending is known as alerted (`SentWasAlerted`). A
  debounce as long as the cooldown that ends inside a cooldown has thus begun
  before an alert that was sent. The ages saturate at `Horizon`; the assumption
  says that it lies beyond everything a check compares.
- `MigrationsInOrder` (`MigrationsAssumption`). While runners take turns (or only
  migrate), a recorded version is in effect, on its way out, or was cut off
  (`RecordedInEffect`); so what a run has not left to do is in effect
  (`RestInEffect`), because it began with every version not recorded. That
  versions recorded more than once stay within the number of runners needs an
  account of the runners that may still record one (`RecordsBounded`).
- `CyclesAreReported` (`DetectorAssumption`: the nodes are finite). Tarjan's
  algorithm, step by step, in four groups of facts. Order: callers are older than
  what they call, and the stack is in the order of visits. Reachability: a call
  reaches every younger node of the stack, and every node of the stack reaches a
  call that is not younger. Low links: the low link of a call is the index of a
  node of the stack that it reaches, and no edge it has looked at leads lower.
  The past: no edge leaves what has been popped, and every component of a popped
  node is reported. When a call ends with its low link equal to its index, what
  it pops is connected both ways (`PoppedIsConnected`) and closed, hence a
  component. `Reachable` is a recursive function, of which the proof uses that
  it is the set of what can be reached, shown without induction principles by
  taking a least counterexample (`LeastExists`, from the well-foundedness of
  the naturals).

**`CacheProofs`** (`MultiCacheAssumption`, `CachedRepositoryAssumption`).

- `FactoriesDoNotStampede`. `GuardInv`: each connection carries exactly the
  callers that await a command, once (`WiresOK`); the only leader of a process
  is the caller in its `inflight` map (`LeadersOK`). The difficult half is a call
  whose `get()` was on the wire while a factory ran: it will find the leader still
  in the map, because its reply comes before that of the leader's own `set`
  (`LateOK`): the order of commands on one connection is what keeps the guard
  from a second run.
- `CopiesAreFreshOrRaced`, `EveryCopyExpires`. `RepositoryInv`: an untainted copy
  held by a read is the current version, and while one is held no write is under
  way (`ReadOK`); after a write has cleared its L1, only tainted copies come back
  to it before it returns (`NearOK`); age and time left together never pass
  `2 * CacheTTL` in L2 and `2 * CacheTTL + DefaultTTL` in L1.

**`ContentProofs`** (`VersionsAssumption`, `PublishingAssumption`).

- `HistoryAlwaysMatches`. Every version on its way to the history was held by
  the row, and the row's own version is in the history or on its way there unless
  a call was cut off.
- `PublishesRightly`. `PublishingInv`: a change prepared by a request
  (`RequestsOK`), an entry listed by a check (`ChecksOK`) and a row that another
  caller has changed meanwhile (`RowsOK`) were rightly approved and dated when
  they were read, and approval and accepted dates are never taken back. This is
  why the gap between check and update does no harm to this property (it does to
  `AllowedTransitions`, section 4).

**`PaymentsProofs`** (`WebhooksAssumption`, `IdempotencyAssumption`).

- `EventsHandledOnce`. `WebhookInv`: the store holds an event once and in the
  order of the marks; with handlers that settle within the TTL, the mark of an
  event that was not evicted is there while its handler runs and until it expires
  (`MarksOK`).
- `OperationsRunOnce`. `KeyInv`: an answer that was not dropped is in the map for
  as long as it is valid, with exactly the life it has left (`AnswersKept`), and
  patient clients run one request of a key at a time (`RunsOK`).
- Both rest on lemmas about `InsertionOrder`: what is kept is picked from what
  was there in the same order (`InOrderFacts`), and trimming keeps the newest
  (`TrimmedFacts`).

**`AuthProofs`**.

- `GuessesAreBounded`, `ClosedFamiliesStayClosed` (`TrackerAssumption`,
  `AuthAssumption`). The first needs an account of the requests that have passed
  the lock and may still fail (`Comparing`): once the account is locked no other
  joins them until the lockout is over. The second needs that an exchange under
  way never belongs to a closed family, and that a family has one account, so
  that revoking the account closes it (`FamilyInv`).
- `DeadTokensStayDead` (`TokenStoreAssumption`). The two stores keep the promise
  in different ways, and so does the invariant: the memory store has deleted a
  dead token; the Redis store may still hold it, and then the flag of its family
  lives at least as long as it does. This needs `FlagTTL >= TokenTTL`, an
  assumption the code does not enforce: the flag lives 30 days and the life of a
  token is configured.
- `ResolvesWhatIsInherited` (`PermissionAssumption`): `resolveAll()`, a recursive
  function, yields exactly the roles that every closed set around the given ones
  contains, in cyclic hierarchies too. The recursion adds roles until it is
  closed, and a least counterexample in the number of roles missing refutes the
  opposite.
- `GrantsWereHeld`: what a check that has read the permissions may still be
  granted was held at some moment since its first read (`InReach`), though its
  two reads may see the store at different times.

Assumptions added for the proofs, none of them a restriction of the code:
processes, runners, versions, nodes and roles are finite sets, and the
placeholders for "nobody" and "no key" are none of the callers, events or keys.

Only model-checked:

- the liveness properties (`RecoversUnanswered`, `Resolved`, `ShutdownEnds`,
  `GetOrSetReturns`, `DueIsPublished`, `EventuallyHandled`): fairness and ENABLED
  are beyond the prover;
- the statements of section 4, which are false: TLC shows the behaviours.

## 6. What is left

The core of the library's stateful protocols is modelled. What could still be
added, in the order of its worth:

1. The retries of the content webhooks, over the attempts of `ResilientClient`.
2. `delByPrefix` in `MultiCache`, which `CachedRepository` models from its side.
3. The services of the examples, which use the library and add no protocol.

## 7. Left out of the modelled components

- Payloads, headers, signatures, formats, logs and metrics everywhere.
- Event store: `getEvents` is the refinement mapping, not an action; a read is
  one snapshot.
- Event bus: only `emitAsync`, as the outbox uses it; `emit` awaits nobody and
  `emitAndWait` is one timer against one answer.
- Resilient client: what an abandoned request still does at the service.
- Cache: `has` and the memcached adapter; keys other than one, because no
  operation but `delByPrefix` touches two; `delByPrefix` itself is modelled where
  it is used, in `CachedRepository`.
- Publishing: creating entries and updating their data are in
  `ContentVersions`; embedding and CDN purge are started and not awaited.
- Versions: validation, slugs and the listing of versions.
- Alerts: the list of the last 1000 alerts and the arithmetic of conditions.
- Permission checks: permissions in the token, which never change; the
  synchronous path, which is the same check without a store.
- Authentication: the expiry of a token inside its JWT, which only refuses more;
  registration and e-mail.
- Payments: signatures and payloads, which only reject a delivery, and the
  providers' own calls.
- Shutdown: the Kubernetes helpers, which only log.
