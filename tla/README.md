# Verification of the Chronicle TypeScript client

This directory holds TLA+ models of `@cratis/chronicle` (everything under `Source/`): the client library that
connects a Node.js program to a Cratis Chronicle kernel, appends events, observes them with reactors and
reducers, and keeps a session with the kernel alive. The models are translated from the TypeScript source; the
kernel is modelled only by what the client's code expects of it. TLC checks the models on small instances, and
TLAPS proves the most important safety properties for every value of the constants.

Contents

1. The system: components, state, interactions, what is hard
2. How the models relate to the code
3. The modules
4. The runs: what they check, bounds, fairness
5. The theorems
6. Where the code and its documentation disagree
7. What is not modelled
8. What could follow

## 1. The system

The program runs on one JavaScript thread. A callback runs to completion, then the promise continuations it made
ready; everything else interleaves at `await`s on timers, on the network, or on another caller's promise. Nothing
is persisted by the client: a crash of the process loses everything, so crash recovery is the kernel's business.
What goes wrong here goes wrong at an `await`: state that was read before it and used after it, promises shared
by several callers, cleanups that meet a newer generation of what they clean up, and calls that fail after the
kernel has done its part.

| Component | State | Operations | Interacts with | What makes it correct |
|---|---|---|---|---|
| Client connection (`ChronicleClient.ts`, `connection/ConnectionLifecycle.ts`, `connection/KernelKeepAlive.ts`) | the connect and the reconnect operation, the terminal failure, the count of rejected credentials, connection id, keep-alive stream, disposal | `getEventStore`, `getEventStores` and their retry, first connection, recovery, health watchdog, keep-alive loss, `dispose` | resets channels; announces connected, disconnected and failed to stores and watchers | one operation at a time; a terminal failure is final; the session with the kernel carries the id its observers register with; every call settles; recovery ends |
| Channels (`connection/ChronicleConnection.ts`, `ChronicleServices.ts`) | current channel and service clients, creation in flight | `resetChannel`, `createClients`, `disconnect`, middleware | used by everything that calls the kernel | calls go out on a channel whose contract was verified; none is left open |
| Access tokens (`connection/TokenProvider.ts`, `fetchOAuthAccessToken.ts`) | cached token and its expiry, request in flight, last failure | `getAccessToken`, `refresh` | the authentication middleware of every call | one request at a time; never an expired token; the rejected token is not used again; paced during an outage |
| Compatibility check (`connection/CompatibilityPreflight.ts`) | shared verification | `verify`, middleware | the channel | shared verdict, retried only after transient failures |
| Server selection (`connection/*LoadBalancer*`, `*Resolver*`, `ChronicleConnectionString.ts`) | offset and count of the round robin; counts that were probed | parse, resolve, select | channel creation, the servers' counts | connections spread over the servers although selections overlap |
| Event store cache (`ChronicleClient.ts`) | `_stores` | `getOrCreateEventStore`, connected handler, `dispose` | `EventStore.registerArtifacts` | calls share a store; what is handed out is re-registered; failed stores are not shared |
| Artifact registration (`EventStore.ts`) | the registrars of a store | `registerArtifacts`, `disposeObservations` | event types, constraints, read models, reactors, reducers, projections, seeding | every artifact once per connection; one failure disposes the store |
| Reactor and reducer observations (`reactors/Reactors.ts`, `reducers/Reducers.ts`) | `_registered`, `_disposed`, maps of queues and abort controllers, timers | `register`, stream end, re-observation, disconnect, dispose | the lifecycle, the kernel's observer streams | an observer is always observed, once, until it is unregistered; everything started can be stopped |
| Delivery (`reactors/ReactorPageDispatcher.ts`, `ReactorDispatcher.ts`, `reducers/ReductionOutcome.ts`, `observation/`) | page, partition, outcome | dispatch of pages, side effects, reductions | handlers of the application, event log, kernel | the outcome told to the kernel is what was handled |
| Event sequences (`eventSequences/`) | subscribers of `appendOperations` | `append`, `appendMany`, guards, publication, reading, redaction, compensation | kernel, event source routing, units of work | a guard covers everything between the tail it read and the batch; every iterator has every operation |
| Event source routing (`eventSources/`, `resolveEventSourceRouting.ts`) | registered definitions | resolve a route, derive a guard | appends, units of work | one guard for each source, empty scope expects nothing |
| Units of work (`transactions/`) | buffered events, scopes, results, completion; current unit of a context, units by correlation id | `addEvent`, `commit`, `rollback`, `begin`, `setCurrent` | event sequences of the store | a refused commit writes nothing; scopes are enforced; results match events; a unit is found while it is open |
| Read model watcher, read models (`readModels/`) | buffer, waiting consumer, resumption | watch, next, resume | lifecycle, kernel | no change lost in silence; nobody waits in vain |
| Event seeding (`seeding/`) | entries | `for`, `discover`, `register` | kernel | every entry sent |
| Projections, constraints, event types, schemas (`projections/`, `events/`, `schemas/`) | builders | compile to the kernel's definitions | registration | the definition means what was declared: variants exclude each other |
| Testing scenarios (`testing/`) | in-process history, staged setups, rows of a projection | append, seed, check, replay | the same declarations | accepts and rejects what the kernel does; reads follow the history |
| Webhooks, external services, subscriptions, patterns, compliance, identity, auditing, correlation, jobs, sinks, telemetry, logging | mostly none | requests and metadata | kernel | see section 7 |

The hard behaviours, each with its line, are the `hazards` of `PROJECT.json`; a hazard that no property covers says
why.

## 2. How the models relate to the code

* **An action is a run of JavaScript up to its next `await`** on the network, a timer or another caller. When an
  awaited promise settles, those who await it continue before anything else: `ChronicleClient` has "prompt" states
  for that, the other modules let the waiters continue in the same step. `ChronicleClient` keeps
  the gap of `ensureConnected` that exists only with `skipKeepAlive` (discovery of artifact files is awaited).
* **A call to the kernel** ends in an answer or in an error; an error may come after the kernel has done its part.
  A call on a closed channel fails for free; other failures are counted against a bound.
* **Data** is what the properties tell apart: tokens, channels, stores, streams and connection ids are numbers in
  the order of their creation; names, scopes, sources and guards are model values. Events carry their source,
  stream and guarded dimensions; elsewhere an event is its sequence number, a change or a seed entry the number of its
  emission, a read model the sequence of the events reduced into it.
* **Faults and repetitions** are bounded by constants (`MaxFaults`, `MaxProblems`, `MaxLosses`, ...), each named in the
  module that counts it down.
* **Operators named as mutants** stand beside the definitions they mutate, in the modules: `PROJECT.json` lists for
  each property a plausible bug that breaks it, so that no property holds whatever the code does.
* **Parts.** Where several small components share nothing, one run checks them beside each other: `MCParts`,
  `MCSequenceParts` and `MCSharedParts` choose one part in the initial state and take steps of that part only, so that
  their states add up and do not multiply. This is a way to run them, not a composition: no interaction between the parts
  is claimed. The interactions that are modelled are inside the modules (kernel and client, client and lifecycle).
* `PROJECT.json` `map` gives the source lines of every definition.

## 3. The modules

### ConnectionLifecycle: what the connection promises

The abstract specification. `isConnected`, `failure`, `connectionId` and `renewing` are the fields of
`ConnectionLifecycle.ts` and its calls of `disconnected()` that still await their handlers; the actions are
`failed()`, `connected()`, and the two halves of `disconnected()`. The object by itself takes its methods in any
order; the promise adds the order that observers rely on: no connection is announced after a failure, beside
another connection, or while an earlier disconnect is still being handled, so that the id an observer registers
with does not change under it. `ChronicleClient` implements it; `Observations` assumes it (it instantiates the
module and takes steps of it).

### ChronicleClient: connecting, recovering, failing

| In the module | In the code |
|---|---|
| `operation` | `_connectOperation` and `_reconnectOperation`, with where the loop of each stands |
| `pc`, `via`, `retried` | the calls of `getEventStore`/`getEventStores` and the watchdog's probe: where each waits, on which channel, and whether it is in the second try of `withReconnect` |
| `failure`, `rejections`, `isConnected`, `connectionId`, `disposed` | the fields of the client and its lifecycle |
| `channel`, `open`, `verified`, `initial` | channels created, not closed, verified; the constructor's creation in flight |
| `keepAlive` | the `Connect` stream: phase, connection id, channel, and the operation that opened it |
| `Enter`, `Validate`, `Gate` | `ensureConnected`, between its awaits |
| `Created`, `Compatible`, `Probed`, `Registered`, `AttemptFailed`, `Retry`, `HandlersDone` | the loops `connectWithRetry` and `reconnectWithRetry` and `ChronicleConnection.connect` |
| `Notified`, `Recover` | `reconnect` and `recoverConnection` |
| `HealthCheck`, `HealthCheckFailed`, `KeepAliveLost`, `Dispose` | watchdog, keep-alive, `dispose` |

Properties: `FailureIsFinal`, `NoCompetingAttempt`, `SessionIdentity`, `KeepsLifecyclePromise` (the refinement of
`ConnectionLifecycle`, with `renewing` mapped to `Renewing`), `EveryCallSettles`, `RecoveryEnds`; and the two that
the code violates, `CallsUseVerifiedChannel` and `KeepAliveLossIsFollowedUp`.

### Observations: reactors and reducers of a store

The state of `Reactors.ts` or `Reducers.ts` (they are the same up to an `await` of `registerReadModels`, which the
constant `AwaitReadModels` turns on), the calls of `registerArtifacts` in flight, and the streams: open, aborted but
not ended, and tracked (in the maps that `disconnectAll` walks). `Start` is `startObservation`, `StreamEnds` the end
of `observeReactor` with its `finally` and `scheduleReobserve`, `TimerFires` its timer. The registrations that
overlap are the new store's own and those of the connected handler.

Properties: `LatestIsTracked`, `NoObserverForgotten`, `DisposeIsFinal`, `ObservedOrUnregistered`; violated:
`NoDoubleObservation`.

### EventStores: the cache of stores

`getOrCreateEventStore` with its three awaits (connection, `ensureEventStore`, registration), the retry of
`withReconnect`, the connected handler and `dispose`. `settled` and `handed` are history: which store of a key was
handed out while no other was being created.

Properties: `CachedStoreIsLive`, `SettledStoreStays`, `OnlyFailedStoresAreDropped`; violated:
`HandedOutIsRegisteredAgain`.

### TokenProvider: the shared access token

The cache, the shared request, the throttle after a failure and the middleware's one retry, with a clock. A call may
end at any point (an aborted call leaves the request to the others).

Properties: `OneRequestAtATime`, `TokenIsValidWhenTaken`, `RetryTakesNewToken`, `PacedInOutage`.

### EventSequence: appends and their guards

Deriving guards from registered event sources (`planDerivedGuards`, `deriveConcurrencyScope`), reading one tail after
the other, the append, and the publication to `appendOperations`. The kernel is its log and its check of scopes.
`seen` and `first` are history variables of an event: how much of the log its guard knew, and where its batch
starts.

Properties: `NothingInBetween`, `EveryOperationIsReceived`.

### UnitOfWork: buffered events and their commit

`addEvent` with its scope check, `commit` up to each append it awaits, answers, failures, repeated commits and
`rollback`. What a single append does is in `EventSequence`; here it is refused by the client before it is sent, or
accepted, rejected or lost by the kernel. `Overlap` says whether the unit of work may be used while a commit is in
flight, which the code does not prevent.

Properties: `RejectedWritesNothing`, `ScopesAreEnforced`, `ResultsMatchEvents`; violated: `RollbackWritesNothing`.

### UnitOfWorkManager: which unit of work is current, and which is found

The units of a store under their correlation ids (`found` is `_unitsOfWork`), the current one of each asynchronous context
(`current` is the `AsyncLocalStorage`), and completion. `enterWith` acts on the context that runs: a rollback, or a
commit without events, completes before its first `await` and so clears the caller's current unit of work (`CompleteAtOnce`); a
commit that has awaited completes in its own continuation (`CommitAwaits`, `CommitEnds`, `CommitFails`). `Fork` is a
context that inherits.

Property: `FoundWhileOpen`.

### ObserverPages, ReactorDelivery: pages, problems and what the kernel is told

`ObserverPages` is what the kernel does for reactors and reducers alike: streams one after the other, and pages of the first
events that a partition has pending.

The loop of `observeReactor` over the pages of a stream, for each stream that was opened (a stream that ends does not
stop the dispatch it carries). `Deliver` takes a page; `BatchSucceeds`, `BatchThrows`, `BatchReports` are batch methods;
`Handled` and `Left` are `observePartition`, one handler at a time with its side effects; `HandlerFails` covers handlers
and appends of side effects; `Settle` is the answer, which an ended stream drops. The kernel is a position for each partition,
which an answer moves, and it sends again what is behind that.

Properties: `AcknowledgedWasHandled`, `HandledInOrder`, `EverythingIsObserved` (liveness).

### Reductions: the outcome of a reduction

The same loop of `Reducers.ts`, which reduces the partitions of a page concurrently (`TakeNext`), folds events into a
read model (`EventReduced`, `BatchReduced`), stops a partition at a failure or a deferral, and answers with an outcome of
each partition (`Answer`). The kernel keeps the read model and the position of a partition. As in `ReactorDelivery`, the
position moves to the last event that an answer names (`Observing`), whether the partition failed or not, and the kernel
delivers again what is behind it. The read model is written only with a success (`Writing`), as the state of any other
outcome is empty. The two come apart when a handler fails: the answer names the event before it, and carries no state.
`unwritten` is history: the events that the position of a partition passed that way.

Properties: `StateIsReduction`, `ReductionsAdvance` (an action property), `EverythingIsReduced` (liveness); violated:
`StateIsWhole`. `StateIsReduction` says that nothing but `unwritten` is missing from a read model, that everything else is in
it once and in order, and that nothing is `unwritten` with a batch method, whose outcome succeeds as a whole or names no event.

### ReadModelWatcher: changes for one consumer

`read()` as a loop over the stream of the current subscription (`TakeMarker`, `TakeChange`, `TakeEnd`), `deliver` as a chain of
tasks (`Converted`, `Notified`, `DeliveryFails`), the buffer with its limit, `next()`, and what the lifecycle and timers
do (`Disconnected`, `Connected`, `ConnectionFailed`, `RestartTimer`). All combinations of `resume`, `failOnOverflow`, a
callback and an initial connection are initial states.

Properties: `EveryChangeInOrder`, `GapIsAnnounced`, `NobodyWaitsInVain`, `WatchResumes` (liveness).

### EventSeeding: entries and overlapping registrations

What seeders and the application add, and the two awaits (`seeders` and `seedEvents`) over which registrations of a
store overlap. `overtaken` is history: what was added while a request was awaited.

Property: `SeedsReachTheKernel`.

### Compatibility: the verdict on a channel

A check is a promise that is created once for a channel, shared, and dropped when it fails; resets put channels in
each other's place while checks run.

Property: `VerdictIsOfItsChannel`.

### ServerSelection: least connections and round robin

Selections that overlap: each probes all servers one by one, chooses among the least loaded, reserves, and connects;
probes and reservations may fail. `load` is what each server counts. A round robin belongs to one connection
(`ChronicleConnection.ts:136`) and knows its own turns only: `robin` has its offset, its count and, as history, how often it
took each server. `ConnectionsSpread` bounds the `load` of clients that go by least connections, and the turns of each round
robin by itself; it says nothing of the sum over several round robins, which nothing bounds.

Property: `ConnectionsSpread`.

### InProcessEventSequence, ScenarioProjection: the testing scenarios

`InProcessEventSequence` has appends, batches, setups that stage their events, and constraints of both kinds over scopes;
what a source holds is recomputed from the history, as the code does. `ScenarioProjection` replays a history with a join or
with children; its properties state from the history alone what a read returns.

Properties: `UniqueThroughout`, `HistoryIsOneSequence`, `ReadsFollowHistory`.

### ProjectionVariants: variants that exclude each other

How `VariantReclassifier` compiles a group of variants (merged handlers, self joins, removals by siblings), and what a
projection engine makes of the compiled definitions, event by event.

Property: `ExclusiveVariants`.

## 4. The runs

Every run is finite by the bounds in the guards (`MaxFaults`, `MaxStores`, ...). Deadlock is not checked: when the
bounds are used up and the application makes no more calls, every one of these systems may stop.

| Run | Instance | What it shows |
|---|---|---|
| `client_kept` | one call at a time beside the watchdog, keep-alive on, 4 faults, dispose; 6.5 M states | terminal failure is final, the keep-alive carries the id of the connection, `ConnectionLifecycle` is implemented |
| `client_live` | two concurrent calls beside the watchdog, 1 fault; 0.3 M states | every call settles, every recovery ends, and a first connection never runs beside a recovery |
| `client_unverified` | two calls, 2 faults | violated: a call on a channel that was not verified |
| `client_lost_keepalive` | two calls, 2 faults | violated: a lost keep-alive that nothing follows up |
| `observations` | a reducer, three reconnects, two connected-handler registrations beside the new store's, 3 streams that end; 1.1 M states | tracking, no forgotten observer, finality of dispose, re-observation |
| `observations_double` | a reactor, two reconnects | violated: two streams of one reactor |
| `stores_overwritten` | two calls, one reconnection | violated: a handed-out store is not registered again |
| `shared_by_calls` | `MCSharedParts`; 1.7 M states | |
| - tokens | three calls, a clock to 5, 2 tokens, 3 failures, 2 rejections | sharing, validity, renewal and pacing |
| - compatibility | three calls, two servers, 2 channels, 3 checks | the verdict is of the call's own channel |
| - selection | three selectors or two round robins, three servers, 6 selections, 1 fault | connections spread |
| - stores | three calls for one key, 4 stores, 2 faults, 2 reconnections | a cached store is live, a settled one stays, failures drop only their own |
| `sequence_appends` | `MCSequenceParts`; 1.5 M states | |
| - appends | three appends over six batches, two sources, two streams, a lost answer, an iteration | guards and publication |
| - seeding | two overlapping registrations that may be repeated, 3 entries, 1 failing request | no entry is forgotten |
| - in process | all 4 definitions of a constraint, two sources, values and scopes, 3 events, 1 setup | constraints, one history |
| - scenarios | every history of 4 events over two sources, with a join or with children | a read follows the history |
| - variants | the 96 declarations of three variants, every history of 4 events | variants exclude each other |
| `unit_sequential` | `MCParts`; 0.4 M states | |
| - units | eight kinds of events over two sequences, 3 events, 3 commits, 2 failing appends | refusal before writing, scopes, results |
| - deliveries | 5 events of every kind in two partitions, pages of 2, 2 streams, 2 problems, a replay | acknowledged is handled; order; everything in the end |
| - reductions | 5 events, a removal among them, in two partitions, pages of 2, 2 streams, 2 mishaps | the read model is the reduction of what was written; it advances; everything in the end |
| - watchers | 16 combinations of options, a buffer of 1, 2 changes, 1 disconnect, 1 lost stream or failed conversion | order, announced gaps, waiting, resumption |
| - managers | two contexts, two correlation ids, two units | found while open |
| `reduction_lost` | the constants of `unit_sequential` | violated: an event that counts as observed is missing from its read model |
| `unit_late_rollback` | two kinds of events, one commit, rollback during it | violated: written after the rollback |

**Why the bounds suffice.** Three faults reach the third rejected credential in a row (`=== 3`), the fourth starts the
recovery which that rejection then races, and a closed channel
fails for nothing, so that one fault already tears a connection down, lets the watchdog, the keep-alive and a
call all report it, and fails again in the recovery. One call and the watchdog are two independent starters of a
recovery, two calls add callers that join each other's operation; the safety theorems hold for any number of both.
Two reconnects are what it takes for the end of an old stream to meet a newer registration; the third lets a timer of the
one before last fire. Observers do not interact, so one is enough, and the theorems hold for any
number. Three calls for one key are enough for a failing one between two that succeed, two faults for it to fail in its retry too.
Two round robins are enough to see that each has its own turns. A clock of 5 with a retry
delay of 2, a margin of 1 and lifetimes of 1 and 3 (the default) has tokens that are never fresh, that expire during a
request, and several retry periods in an outage. Six batches are the ways in which guards, explicit scopes and
unguarded events combine within a source and across sources; three calls let two others come in between.
Three events over two sequences let a later group be the one that is refused or fails.

A stream that ends and the one after it are all that can answer for the same event, so two streams are enough for
deliveries and reductions; partitions do not interact except in a page and in the limit of concurrency (2), and two share
both. Pages of 2 over five events leave a problem with something before and after it in its partition. A watcher's buffer of 1
is full beside a change that waits; one disconnect and one lost stream are the two ways to a new subscription, in
both orders. Two units of work in two contexts share an id, replace each other as current, and complete in
either context. Two registrations of a store are all that overlap (its own and the connected handler's). Three
selections at a time over three servers: the bound of `ConnectionsSpread` is reached, and one less is
violated. Three events of a history are a claim, its release and a claim by another source; four events of a scenario
are a row, its join, its removal and another event; four events of a group let every variant be entered, left and
entered again.

**Symmetry** is used in safety runs only, over calls, keys and subscribers, none of which the
specifications name.

**Fairness.** `client_live`: promise continuations run, timers fire, connected and disconnected handlers end, and
every call to the kernel ends in an answer or an error (gRPC deadlines, the keep-alive's own timer and the closing of
channels see to that). Handlers are the library's own; an application handler that never returns would block a
recovery, and one that calls `getEventStore` during a recovery would wait for itself. Nothing obliges the
application to call or to dispose, or the kernel to fail. `observations`: timers fire and an aborted stream ends, once
its handler has. `unit_sequential`: weak fairness of the `Progress` of a delivery, of a reduction and of a watcher, each as one
action: some step of the client's loops, of its timers or of the kernel that is behind with something is taken as long as there is
one. In particular handlers of the application return (or throw), which the client cannot do without either;
failures, stream ends, replays, the consumer's calls and the loss of a connection are never obliged, and are bounded. No fairness is
needed elsewhere; none is assumed for token requests, whose HTTP request has no timeout, and no liveness is claimed there.

**What is assumed of the kernel.** It checks a concurrency scope and appends in one step; it sends an observer the events
of a partition in order, from the position that the last answer it took says, be that of a success or of a failure; it writes
the read model that an answer carries together with the position, and none if the answer carries none; it sends changes of a read model in order, once, from the time a watch takes effect, and its marker
after that. Servers count a connection when it is reserved or
else made, and none is closed while the spread is looked at. These are the definitions that `map` marks external.

## 5. The theorems

All are proved for every value of the constants under the named assumptions of the modules (sets of calls are
arbitrary, finite or not; bounds are natural numbers; model values that must differ do), and the conditions that a
theorem states itself.

* **`ChronicleClient_proofs`**: `TypeCorrect`, `FailureStaysFinal`, `NeverCompeting`, `SessionKeepsIdentity` and
  `LifecyclePromise`. None but the first is inductive by itself. The invariant adds why recoveries cannot start beside a first
  connection: until there has been a connection no call, probe or stream is in a position to report its loss
  (`FirstConnection`, `NotYetConnected`, `Unused`), whoever has passed the check for a recovery gets to look at the connection
  before one can start (`GateAlone`), and while there is a connection no operation makes another (`Quiet`,
  `Reconnected`, `Departed`). `HandshakeIdentity` carries the session's id over the handshake.
  `LifecyclePromise` follows step by step: every action of the client maps to one of the lifecycle's or to a stutter.
* **`EventStores_proofs`**: `TypeCorrect`, `CachedStaysLive`, `SettledForGood`, `OnlyFailedAreDropped`. The invariant
  says that a store belongs to one call (`OneOwner`), is cached under that call's key only (`OwnKey`, `OneKey`),
  is not disposed of while it is being registered (`OwnIsLive`), and that no call creates a store for a settled key
  (`Settled`).
* **`EventSequence_proofs`**, of event sequences and what is seeded into them: `TypeCorrect`, `GuardsHold`, `OperationsReceived`. The first invariant (`AppendInv`)
  says that a batch being prepared has one guard for each source (`OneGuardEach`), that every scope it holds is
  the only one of its source, is that of a guard, and expects nothing newer than what its client had seen (`ScopesOfGuards`), that
  none is missing when it is sent (`AllDerived`), and that no event comes before its batch (`InItsBatch`). The second one
  (`IterationInv`) says that what an iterator was handed and what is queued for it count, without a gap, from where it began.
  Of the seed data of a store `NoSeedIsForgotten`, `SeedingTypeCorrect` (for natural bounds), whose invariant says that an
  entry a request under way does not carry came while one was awaited (`Carried`).
  Of the event sequence of a scenario `HistoryStaysUnique`, `HistoryIsKeptWhole`, for any history, batches and setups. The property speaks of
  what sources held after each event, which the model computes anew from a part of the history; the invariant speaks of the
  events themselves: which of them still holds its value after the first *n* (`Holder`), and that no two do (`UniqueIn`), over
  the history with what a setup has staged behind it (`WholeIsUnique`), as a setup commits what was validated before. Nothing
  is appended beside a setup that stages or commits (`SetupPhases`), which keeps its events together (`Setups`).
* **`UnitOfWork_proofs`**: `RefusalsWriteNothing`, `ScopesHold`, both under `~Overlap`: nobody else uses the unit of
  work while a commit is in flight. That is a condition on the application which the code does not enforce; without it
  `unit_late_rollback` shows what happens. The invariant says that one commit is in flight at most (`OneCommit`), that
  scopes are kept by what was enrolled (`EnrolledScopes`), and what the groups still to be sent were checked for (`Awaited`).
  `ResultsAreOfTheEvents`, `UnitTypeCorrect`: a commit has an answer for each event of the sequences that answered, one only, a success
  if that commit wrote it (`Answering`); when none is left, the only order of them that ascends has each at its own place
  (`Ascending`, by induction from both ends).
  Of the manager `OpenUnitsAreFound`, `ManagerTypeCorrect`: a unit is registered under its own id only (`OwnRegistration`), and one unit at
  the most uses an id that was not given away while in use (`OneInUse`).
* **`Channels_proofs`**, of a channel and what its calls share. For the contract check `VerdictsAreTrue`, `ContractTypeCorrect`, with nothing assumed of the constants. The invariant
  says that a check is about the server of its channel (`ChecksAreTrue`), that a channel holds a check of its own that
  has not failed (`HeldIsOwn`), and that a call awaits a check of its own channel (`AwaitsOwn`). For the choice of a server
  `SpreadsConnections`, `SelectionTypeCorrect`, for a finite set of selections under way and natural bounds. `ConnectionsSpread` alone is not
  inductive: several selections may have chosen the same server, none of them yet counted there. `LeastSpread` counts
  these. A selection is `Drawn` to server *i* over *j* at level *n* if it has chosen *i*, has counted at most *n*
  connections there, or could not probe *j*. Once *i* has more than *n* connections, no selection is newly drawn to it
  over a *j* that has at most *n*, unless a probe fails. So what *i* has beyond *n*, with the selections still drawn to
  it, stays within the selections under way and the probes that failed. That counts grow only (`CountsAreOld`), and
  stay below the value for an unreachable server (`CountedOnce`), makes the comparison sound. For the round robin,
  `OnARound` says which servers have had their turn in the current round.
  For the access token `OneRequest`, `RetriedWithNewToken`, `ValidWhenTaken`, `PacedThroughout`, `TokenTypeCorrect`. `TokenInv`
  adds that tokens are numbered in the order of issue and that nothing is cached while a call waits for a token
  to replace a rejected one (`NothingToGiveBack`). For the pacing it adds what the last failure allows (`Pace`): as long as
  requests are throttled, the number of failures is bounded by the time up to the last of them, so that the next one,
  a whole delay later, may be counted; the arithmetic of the integer division is in lemmas of its own.
* **`Observers_proofs`**, of the observers of a store.
  - `LatestStaysTracked`, `NeverForgotten`, `DisposeEndsStarting`, `ObservationsTypeCorrect`.
  - `NothingIsSkipped`, `OrderIsKept`, `DeliveryTypeCorrect`: for any log, partitions, page size, problems and replays. That
    what is acknowledged was handled is not inductive, as it says nothing of a page under way, and a page may be carried by a
    stream that has ended while a later one carries the same events. `DeliveryInv` says of every dispatch that its events
    come without a gap after what was done before (`WithoutGaps`), that as long as a partition goes on what came before
    the next event has succeeded (`GoesOnInOrder`), and that what was taken out of a page has succeeded or left a problem
    (`Accounted`). Two lemmas say what a problem does to the position that a partition is answered with.
  - `ReadModelsAreReductions`, `ReadModelsNeverGoBack`, `ReductionTypeCorrect`. `ReductionInv` says it of the current stream
    only: an outcome that has not failed holds the reduction of everything up to its last event but what was unwritten before
    (`WrittenUpto`), and what it still has to do comes right after that (`Whole`). Of an ended stream it need say nothing, since its queue takes no answer; and this is why
    the answers of overlapping streams cannot move a read model back. That the events of a batch are reduced as one by one
    is an induction over the events (`ReducedOver`).
* **`ReadModels_proofs`**, of what a reader of read models is given.
  - `NobodyIsLeftWaiting`, `ChangesKeepTheirOrder`, `GapsAreAnnounced`, for any number of changes, losses and disconnects.
    `WatcherInv` follows an emission from the kernel to the consumer: what is on the wire was emitted after all that was
    received, in order (`WireInOrder`), and whoever has a change knows of each one before it: that one is with the
    consumer, ahead of it in the chain of deliveries or on the wire, or a callback ahead of it makes the application query
    (`ChainAnnounced`, `WireAnnounced`, `EmissionsAnnounced`). A stream that the kernel has dropped has an end on the wire, or
    nothing (`StreamState`), so that nothing comes after a gap without a new marker.
  - `ScenariosReadTheirHistory`, `ScenarioTypeCorrect`: what a scenario reads against what its history says, for any history.
    `ScenarioInv` has for each source whether its row exists, what was reported of it, its children, each in one place
    (`ChildrenFollow`), its join, and what is known of a joined event before there is a row (`LookupFollows`). Lemmas say how the
    last place of a kind of event moves when the history grows.
  - `VariantsAreExclusive`, `VariantsTypeCorrect`, and `OneVariantAtTheMost`, which follows from it. The property is inductive
    with its types; the argument is that an event decides for each variant which of two sets of places gains the last one.
* **`Orders`** has what the proofs over a history rest on: a set of numbers that is not empty has a least member, so a
  statement that fails for a number fails for a first one (`Least`, `SetInduction`), and `Min` and `Max` are what they are called.

All safety properties of the passing runs are theorems. Only model-checked are the liveness properties (`EveryCallSettles`,
`RecoveryEnds`, `ObservedOrUnregistered`, `EverythingIsObserved`, `EverythingIsReduced`, `WatchResumes`), as the provers have no
rule for fairness and `ENABLED`; and the properties of units of work when they are used during a commit (`Overlap`), where
`unit_late_rollback` refutes what a reader would want. The general rules of induction of the library take an operator as a
parameter, which the provers cannot instantiate; inductions here go over sets of numbers instead. `UnitOfWork` states the order of
its results by a choice of an ascending sequence (`Ordered`) and the pages of observers by counting (`Leading`), which the
provers can reason about, as sorting operators of the community modules have an operator as a parameter.
Type invariants are stated in all modules but `ReadModelWatcher` and `InProcessEventSequence`, whose types are part of the inductive
invariant; all are theorems but that of the abstract `ConnectionLifecycle`, that of `UnitOfWork` under `~Overlap`.

## 6. Where the code and its documentation disagree

Each of the first six is shown by a violation run; `findings` in `PROJECT.json` quotes the lines.

1. `client_lost_keepalive` (a bug): the keep-alive reports its loss once. When it does so while the recovery that
   opened it still runs its connected handlers, `reconnect()` joins that recovery, which then ends: the client stays
   connected on a session the kernel has dropped, and its reactors never fire again.
2. `client_unverified`: the constructor's channel may arrive after the attempt's and replace it, unverified.
3. `observations_double`: the end of an aborted stream, or a timer armed before a disconnect, sees the registration that the
   reconnect has renewed, and starts a second stream of the same reactor.
4. `stores_overwritten`: two first calls for a key create two stores; the overwritten one is handed out, but not
   registered again after a reconnection.
5. `unit_late_rollback`: a rollback during a commit succeeds, and the commit goes on writing, now without scopes.
6. `reduction_lost`: when a handler of a reducer fails after others of the page have reduced their events, the answer names the
   last of these as observed (`ReductionOutcome.ts:30`, `:93`) but its state is empty, though a deferral and a failed completion
   reset the name with the state. A kernel that goes on after it, as it does for reactors, never has these events in the read model.
   That is what sections 3 and 4 assume of it; one that ignores the name of a failed reduction loses nothing.

Met while modelling, visible in the models and not stated as properties:

* The retry loops look at the disposal of the client but not at its failure: a loop in its backoff goes on
  creating channels after a terminal failure, although `Documentation/connecting.md:102` says it stops retrying.
* A channel whose creation is under way when the client is disposed is created and closed by nobody
  (`Documentation/connecting.md:174`).
* `appendOperations` also fires for appends of a unit of work, against `IEventSequence.ts:33`.
* An event that is added while a commit is in flight is taken without an error and never appended
  (`IUnitOfWork.ts:70`).
* A commit whose first append is rejected and whose second one throws keeps no result: `isSuccess` is true
  (`IUnitOfWork.ts:22`).
* A store is cached before its registration ends; a second caller gets it without the error of a registration that fails
  afterwards (`Documentation/connecting.md:104`).
* Seed entries that are added while `seedEvents` is awaited are cleared with the entries of the request and never
  sent (`EventSeeding.ts:101`). `SeedsReachTheKernel` says that nothing else is lost.
* A commit that ends after its unit of work was rolled back removes whatever is registered under its correlation id by
  then, also a newer unit (`UnitOfWorkManager.ts:67`); and a completed unit that is made current again is found again.
  `FoundWhileOpen` leaves these two out, by the history variables `reused` and `revived`.
* Compiling variants does not reject an event that enters two variants of an identity, an entering event that the variant
  maps nowhere, or one that it is also removed with; with any of these no or several variants may be active
  (`VariantReclassifier.ts:97`). `ExclusiveVariants` is about declarations without them (`WellDeclared`). Removal by a sibling's
  event always goes by the event source (`VariantReclassifier.ts:172`), so a variant that is keyed otherwise is outside the model.
* In a scenario a joined event whose content is null changes no existing row, but is what a row gets that comes after it
  (`ProjectionReadModelProcessor.ts:109`, which says so); `JoinIsCurrent` is about content that is not null.

## 7. What is not modelled

Every component is in `PROJECT.json` with its status and a note. What is left is of four kinds.

* **Request building without state between calls**: webhooks, external services, event store subscriptions, jobs, sinks,
  queries and sessions of read models, reading, redaction and compensation of events, registration of event types, constraints
  and projections (a single request whose failure fails the registration of the store, which `EventStores` has).
* **Look-ups and copies of metadata**: compliance, confidentiality, tags, identity, auditing, correlation, and the compilation
  of projections and constraints other than variants, which copies each declaration into the kernel's form.
* **Reflection, formatting and parsing**: decorators, discovery of classes and files, generation of schemas, connection strings,
  DNS answers, telemetry and logging. A model of a parser on a handful of abstract strings would restate it.
* **The kernel and the transport**, beyond what section 4 lists, TLS, and the HTTP requests.

This is most of the code by lines, so the `map` names a small share of them: the share that keeps state across an `await` or over a
sequence of calls is modelled.

Within modelled components: second and later calls of `dispose()`; the two guard dimensions that behave like the
two modelled; the random choice of a server; the closing of connections in `ServerSelection`; discovery and
validation of batch methods; what side effects append (only whether it succeeds); grouping of seed entries in a
request; conversions of content in scenarios, their arithmetic, fixtures, and the scenario of a reactor;
checks of arguments, which refuse a call before it does anything; callbacks on the completion of a unit of work other than the
manager's own; the checks of contradicting event source definitions at their registration. `skipKeepAlive` is the
constant `KeepAlive` of `ChronicleClient`: every run has a keep-alive, the theorems hold with and without. The notifications of
appends that a scenario rejects, which carry no number (`announced` has those of accepted events); the merging of several fields
of a child in a scenario, where a child has one.

## 8. What could follow

1. A run of `Observations` with `ReactorDelivery` in it: a stream that ends, a disconnect and a dispose while a handler runs. Here
   the two meet in what one assumes of the other, that a stream which ended is opened again.
2. An abstract delivery, in which the kernel has a position and a set of what was handled for each partition, with
   `ReactorDelivery` and `Reductions` shown to implement it; and an abstract event sequence of a scenario, which takes a setup in one step.
3. The retry of projection registration (`Projections.ts:281`) beside a reconnect: registrations that overlap there rebuild their
   maps without an `await` in between, so what remains is which of two sets of definitions the kernel keeps.
