# TLA+ verification of vektor-shipment

The shipment service keeps shipments and their status in PostgreSQL and
announces every change through a transactional outbox to RabbitMQ.  This
directory models it in TLA+, model-checks the models with TLC and proves their
invariants and refinements with TLAPS.

    tlc -workers 2 -config service_mixed.cfg MCShipmentService.tla
    tlc -workers 2 -config outbox_single.cfg MCOutboxWorker.tla
    tlc -workers 2 -config system.cfg MCShipmentSystem.tla
    tlc -workers 2 -config process.cfg MCServiceProcess.tla

The other configurations belong to `MCShipmentService` (`service_*`,
`claim_terminal_final`, `claim_old_status`) and `MCOutboxWorker` (`outbox_*`, the other
`claim_*`).  `tlapm X.tla` checks the proofs of each `X` that ends in `Proofs`.

Paths below are relative to `src/services/shipment-service/`, unless they begin
with `shared/`.

## 1. Inventory

| component | state | operations | interacts with |
|---|---|---|---|
| life cycle, `internal/domain/shipment.go` | `CurrentStatus` of a shipment | `NewShipment`, `CanTransitionTo`, `UpdateStatus`, `IsTerminalState` | called by the service on a private copy |
| outbox and history types, `internal/domain/outbox.go`, `status_event.go` | rows: status, attempts, timestamps | `NewStatusEvent` | written by the service, read by the worker |
| use cases, `internal/service/service.go` | none of its own | `CreateShipment`, `GetShipment`, `AddStatusEvent`, `GetShipmentHistory` | handler above, repository below |
| gRPC handler, `internal/infrastructure/grpc/handler.go` | none; one goroutine per call | the four RPCs, two validators, errors to codes | clients, use cases |
| repository, `internal/infrastructure/repository/postgres.go`, `shared/db/postgres.go` | tables `shipments`, `status_events`, `outbox_events`; a pool of 25 connections | two transactions, reads, four outbox statements | PostgreSQL; shared by all calls and the worker |
| outbox worker, `internal/infrastructure/worker/outbox_worker.go` | the batch it is in, the ticker | `processOutbox`, `publishEvent`, `handlePublishFailure` | repository, publisher |
| publisher, `shared/messaging/rabbitmq.go` | one AMQP connection and channel | `Publish`, `Close`, `handleConnectionErrors` | broker |
| topology, `internal/infrastructure/messaging/topology.go` | exchange, queues, bindings on the broker | `SetupTopology` | broker, once at start |
| debug consumer, `internal/infrastructure/consumer/debug_consumer.go` | connection, deliveries | `Start`, `handleMessage`, `Stop` | broker |
| process, `cmd/main.go` | contexts, goroutines | start-up, shutdown | everything above |

What is hard here:

- **Concurrency.** Calls run at once. `AddStatusEvent` validates a change on a
  copy it has read outside the transaction that applies it. Rows, the unique
  index and the pool make calls wait for each other.
- **Several steps, one of which fails.** Two or three inserts per transaction; a
  `COMMIT` whose answer is lost; the initial status event after the commit.
- **Time.** `created_at` is read before the transaction begins; the worker
  publishes in its order.
- **Delivery.** Publish, then mark: crash, cancelled context or database error in
  between; a connection that is never reopened; no publisher confirms.
- **Two processes.** A rolling update runs the old and the new pod side by side; both
  poll the same rows without locking them, declare the same queues and consume them.
- **Goroutines nobody waits for.** `Serve`, the worker and the debug consumer go on
  while `main` shuts down and returns; the worker shares the calls' connections.
- **Waiting without a limit.** `GracefulStop` waits for every RPC, for the streams of
  the reflection service (`main.go:133`) as long as their clients keep them open.

What makes each component correct:

- service and repository: shipments, history and outbox tell the same story;
  references are unique; the answer a client gets is true; racing changes cannot
  skip stages of the life cycle; nobody waits for ever;
- worker and publisher: nothing is marked that did not happen; nothing is stranded;
  a settled event stays settled; duplicates and disorder have a cause;
- topology and consumer: what is published is routed, and acknowledged only after it
  was handled;
- process: nothing is published before the topology is complete, the database outlives
  the calls that use it, a shutdown ends as soon as the streams do;
- the whole: subscribers are told of every acknowledged change or the row says it was
  given up, never of one that was refused, and of a cause before its effect.

`PROJECT.json` lists the hazards one by one, each at its line.

## 2. Modules

    ShipmentDomain <- ShipmentRequest <- ShipmentService <- ShipmentSystem
                            |                 :                 :
                      AtomicShipments <.......:                 :
                                                                :
    EventDelivery <........ OutboxWorker <......................:

    BrokerTopology <- ServiceProcess

Arrows point to the module used: `<-` by EXTENDS, `<..` by INSTANCE ... WITH. The bar: `AtomicShipments` EXTENDS `ShipmentRequest`.

### `ShipmentDomain`, `ShipmentRequest`

Statuses (with the numbers of the code and of the protobuf enum), the table
of `CanTransitionTo`, terminal states.  Then requests and the two layers that
validate them: `validateCreateShipmentRequest` and `validateAddStatusEventRequest` of
the handler, the checks of `NewShipment` (`NewShipmentAccepts`), and
`json.Marshal` of the event (`Marshalable`).  A request is what the validators tell
apart: the fields that are blank, the status number, the sign of the amounts, NaN
or infinite included.  Constants only.

### `ShipmentService`

The path of every RPC from the handler to PostgreSQL. `Calls` are the RPC
invocations of a behaviour; `pc[c]` is the statement call `c` executes next. An
action is a maximal stretch of local code up to one statement of the database:

| code | actions |
|---|---|
| handler, validation | `Receive` |
| `CreateShipment` up to the transaction | `Build` |
| `GetByReferenceNumber` and what follows from it | `LookupMisses`, `LookupFinds` (with `Proceed`: answer, read events, or validate the change) |
| `UpdateStatus`, the two events and their `time.Now()` | `StampChange` |
| `CreateWithOutbox` | `BeginTx`, `InsertShipment`, `InsertOutboxEvent`, `Commit` |
| `UpdateWithOutbox` | `BeginTx`, `UpdateShipment`, `InsertStatusEvent`, `InsertOutboxEvent`, `Commit` |
| error of `tx.Commit` while the server still decides | `CommitLost`, then `Resolve` |
| any other error of a statement, cancelled context, deferred `Rollback` | `Fail` |
| the initial status event of a creation | `StampInitial`, `RecordInitial`; `ResolveInitial` if its answer is lost |
| `GetStatusEvents` | `GetStatusEvents` |
| end of the process and restart on the same tables | `Crash`: a `COMMIT` or an `INSERT` in flight is in doubt (`LeftBehind`) |

`currentStatus`, `history` and `outbox` are the tables as committed (`outbox` in
commit order). A transaction's writes take effect in `Apply`; until then other
transactions meet them as locks: `RowLocked` (row lock of `UPDATE shipments`),
`RefReserved` (entry in the unique index). Both last until the server has
resolved the transaction, so a commit in doubt keeps them. `ConnFree` is the
pool limit: a transaction holds a connection from `BeginTx` to its end, a single
statement takes and returns one in its step.

Abstractions:

- A call draws fresh UUIDs, so `c` itself names its shipment, status event and outbox
  event. The request of a call is chosen in `Init`. The values of origin, driver, unit
  and amounts are left out beyond what `ShipmentRequest` keeps, and so is `updated_at`.
- The payload of an event is its old and new status; `ChangedEvent` puts the new
  one in both places, as the code does.
- `time.Now()` is one reading of a strictly increasing clock for each stretch of
  local code (the code reads it two or three times in a row). That the wall clock does
  not go back and no two readings are equal is an assumption: `created_at` has
  the resolution of microseconds, concurrent calls may share a reading, and pods may
  have different clocks. What depends on it (`HistoryInCausalOrder`,
  `RowIsNewestUnlessRaced`, `SystemImplementsWorker`, and `CausesAnnouncedFirst` through
  it) says nothing about equal or reversed readings.
- A creation with a duplicate reference answers `AlreadyExists` or `Internal`:
  `isDuplicateKeyError` (`postgres.go:216`) compares the whole text of the driver's
  error. Whether the pinned lib/pq v1.11.2 words it so cannot be told from the
  repository; if it appends the SQLSTATE the answer is always `Internal`. The
  properties hold for both answers.
- Isolation is READ COMMITTED, the default the code does not change.

### `OutboxWorker`

Workers poll, publish and mark. `status` and `attempts` are the columns of
`outbox_events`; an event is named by its place in the order of `created_at`, and
`Enqueue` commits events in any order.

| code | actions |
|---|---|
| an outbox row commits | `Enqueue` |
| `main` connects and starts the worker | `Start` |
| `GetPendingEvents` | `Fetch` (`Pending`, `Oldest`), `Idle` when nothing is pending |
| `publishEvent`, `Publish` | `Publish`: written to the connection, or an error if it is closed |
| `MarkAsProcessed` | `Mark`, or its error, which is only logged (`StatementFails`) |
| `handlePublishFailure` | `HandleFailure`, from the attempts of the fetched copy, or its error |
| the broker reads | `Deliver` (external) |
| `handleConnectionErrors` | `ConnLost`: what is on the wire is lost, nothing reopens it |
| SIGTERM, `workerCancel` | `Cancel`: statements fail from now on, `Publish` does not |
| `main` returns, deferred `Close` | `Exit` at any point after `Cancel`: the worker is not waited for |
| kill | `Crash` |

Abstractions: an update that returns an error has no effect. One that was executed and
whose answer was lost is covered, since the worker only logs the error and goes on as
after a success; one that the server executes later, when the worker has moved on, is
not. A failed `Publish` leaves nothing on the wire; two events never have
the same `created_at`; the literal 5 of the query and the constant 5 of the worker are
one constant `MaxAttempts`, so a change of only one of the two would not be noticed;
`Enqueue` may happen while no process runs (more
behaviours than the code, which is harmless for the properties); a fault
counts once for each lost connection, failed statement, cancellation and crash.
`processed_at` and `last_attempt`, into which the code writes Go's zero time, are
left out: nothing reads them but a scan into the entity.

### `AtomicShipments`, `EventDelivery`

What the two components promise, without their mechanism.

`AtomicShipments` is a log of writes. Every call enters it at most once, in one
step (`Write`), between its arrival and its definite answer, and answers tell the truth
about the log (`Respond`, `ReadHistory`); `Break` lets one call, or all open calls, end
without a definite answer. Two things the service does *not* promise are visible in it:
a change is legal from a status the shipment had at some moment since the change
arrived, not necessarily the latest; and a call with an unknown outcome (`Internal`,
`Unavailable`) may still enter the log. `ImplementsAtomicShipments` maps the log to
the committed outbox rows (`LogOf`), `start` to `arrived`, `answer` to the reply of
a received call and `view` to the status events a history returned.

`EventDelivery` is one event at a time: `Submit`, `Send`, `SendFails`, `Confirm` once
after a send, `GiveUp` once after `Limit` failed sends. `ImplementsEventDelivery` maps
`state` to the column `status` and `Limit` to `MaxAttempts`; it holds for one worker.
Overlapping workers lose the restriction to pending events and keep the rest:
`SharedSpec`, in which a settled event may be handled again and its outcome replaced
(the updates are by id only), but is never pending again.

### `ShipmentSystem`

The service and the worker in one process, on the same table and the same pool.
The worker is an instance of `OutboxWorker` whose `committed` is the service's outbox,
each row named by its `created_at`; a commit of a call is the worker's `Enqueue`
(`RowsFollowOutbox`).

| code | actions |
|---|---|
| `main` starts | `StartProcess` |
| a call, while the process is up | `SystemReceive`, `SystemProgress`, `SystemFault` |
| worker statements | `WorkerStatement`: needs a connection of the calls' pool, unless its context is cancelled |
| `publishEvent`, the broker | `WorkerPublish`, `BrokerReads`, `ConnectionLost` |
| SIGTERM | `Terminate`: the worker's context first, calls still run |
| `GracefulStop` returned, `main` returns | `ProcessExits`: only when no call runs |
| kill | `SystemCrash`: calls and worker together |
| only polls are left | `SystemIdle` |

A creation reads the clock twice and any other call once, so `MaxEvents` is twice the
number of calls. Clients keep calling after SIGTERM until `main` returns: more
behaviours than `GracefulStop` allows.

### `BrokerTopology`, `ServiceProcess`

`BrokerTopology` has the four queues of `DefaultShipmentTopology` with their flags and
keys, and how a topic exchange matches keys. `ServiceProcess` is `main`, its goroutines
and the broker, for several processes:

| code | actions |
|---|---|
| the process starts, connects, creates the schema | `Launch`, `ConnectDatabase`, `InitSchema`, `ConnectPublisher` |
| `SetupTopology`, queue by queue | `DeclareQueue`, `BindQueue` |
| worker, debug consumer, listener | `StartWorker`, `StartConsumer` or `SkipConsumer`, `Listen` |
| `log.Fatalf` in these steps | `Fatal`: no deferred call runs |
| SIGTERM | `Terminate`: `workerCancel`, `consumerCancel`, `DebugConsumer.Stop`; `GracefulStop` closes the listener and sends GOAWAY |
| `GracefulStop`: clients on open connections may call until they have acknowledged it | `ClientsGoAway` |
| `GracefulStop` waits for every RPC | `EndGracefulStop`: no call and no stream is left (and the publisher's deferred `Close`) |
| deferred `Close` of the database, end of `main` | `CloseDatabase`, `Return` |
| kill | `Kill` |
| the goroutine of `Serve` | `Serve`, `ServeTooLate` when `GracefulStop` was faster |
| the service's RPCs | `AcceptCall`, `EndCall` |
| streams of the reflection service | `OpenStream`, `CloseStream` |
| a message of a worker reaches the exchange | `PublishMessage` |
| `consume`, `handleMessage` | `Deliver` (prefetch 1), `HandleMessage`, `Ack`, `LoopEnds` |
| the broker restarts | `BrokerRestart` (external) |

Abstractions: queues are sets, their order is the subject of `OutboxWorker`; a message
is published once, repetition is the subject of `OutboxWorker`; the broker keeps
persistent messages of durable queues over a restart, as the code expects when it
asks for them; `Terminate` joins the statements of `main` from the signal to the GOAWAY of
`GracefulStop`, none of which waits; what calls do is in `ShipmentService`; a reflection
stream uses nothing but the server.

### `MC...` and `...Proofs`

`MCShipmentService`, `MCOutboxWorker`, `MCShipmentSystem` and `MCServiceProcess` give
TLC sets of requests, model values and symmetry. Symmetry is used only in
runs of invariants, action properties and step refinement, over sets whose elements no
formula distinguishes. The modules ending in `Proofs` hold the theorems of section 4.

## 3. Runs

| run | instance | shows |
|---|---|---|
| `service_mixed` | 3 calls, 12 kinds of request, 2 references, 2 connections, 1 crash | the tables agree, references are unique, answers are true, handler and entity refuse the same creations, whatever fails; `ShipmentService` implements `AtomicShipments` |
| `service_lifecycle` | 4 calls on one shipment, 1 connection | life cycle under races; row and newest event differ only after a race; histories contain what was acknowledged, in causal order |
| `service_live` | 3 contending calls, 1 connection, `FairSpec` | every call is answered |
| `outbox_single` | 1 worker, 3 events, batches of 2, 3 attempts, 3 faults, `FairSpec` | nothing stranded, order, duplicates, final outcomes; `OutboxWorker` implements `EventDelivery`; every event is settled |
| `outbox_overlap` | 2 workers, 2 events, 2 attempts, 3 faults | marks are true when two workers race; publishes and attempts beyond what one worker would do are bounded by the workers and the faults; `OutboxWorker` implements `SharedSpec` of `EventDelivery` |
| `system` | 2 calls that write, 1 connection, 1 crash, 2 attempts, 2 faults, `FairSystemSpec` | the service gives the worker what it assumes; causes are announced first, refusals never; acknowledged changes stay accounted for and are settled |
| `process` | 2 processes with debug consumers, 2 messages of different keys, 1 call or stream each, `FairSpec` | nothing unrouted or lost outside deleted queues; the database outlives calls; shutdown ends unless a stream stays open |

Bounds. Three calls suffice for two racing writers and the creation they need;
four take one shipment from creation to `DELIVERED` or let a reader see three
writes. Two references let a creation be a duplicate or not. One crash may come
between any two steps, and calls not yet received then run in the restarted process.
Pool sizes of 1 and 2 make every transaction wait for a connection or run
beside another. With three events and batches of two, the `LIMIT` cuts a batch, an
older event can appear after the batch was fetched, and a batch can be
interrupted in its middle. Three attempts distinguish first, middle and last
failure. Three faults allow a lost
connection, a failing statement and a crash on the same event. Two overlapping
workers or processes are what a rolling update of one replica yields. The composition
needs two writes, cause and effect, and one connection, so that every call and every
statement of the worker compete. Two messages of different keys reach different queues and
keep one waiting behind the other; `MaxCalls` of 1 tells a busy server from an
idle one. `process` has no bound on restarts, of processes or of the broker.

Fairness. `FairSpec` of the service assumes that a call that can take a regular step
takes one: the Go scheduler runs every goroutine, the server executes
statements it can execute and resolves a transaction whose client has gone.
Faults (`CommitLost`, `Fail`, `Crash`) are never assumed, so no wait is ended by an
error. Weak fairness is enough because a lock or connection, once freed, is
contended by finitely many calls. `FairSpec` of the worker assumes that
Kubernetes restarts a dead pod (`Start`), the ticker fires (`Fetch`), statements and
`Publish` return, a cancelled process exits, and the broker reads open connections.
`FairSystemSpec` joins the two: progress of calls, steps of the worker and of its
process, reads of the broker. `FairSpec` of the process assumes that `main` runs and
that a running call of the service ends, which is `EveryCallAnswered`. Nothing else is
assumed: no signal, failure or new call, no step of the consumer, and no client that closes
its reflection stream. `ShutdownEnds` therefore has the condition that the streams
of the process are closed again and again (`[]<>(streams[p] = 0)`); after GOAWAY no new one
comes, so it only excludes a stream that is never closed. With such a stream the shutdown
never ends: `GracefulStop` has no time limit of its own.

Deadlock is checked in every run: the service ends in `Quiescent` (all calls
are over), the worker and the system always have a tick or a restart, a process can
always be launched or killed.

Sensitivity. Every property of a passing run is violated when one definition is
replaced by a plausible mistake: the operators marked `(mutant)` in the modules, paired
with their properties in `PROJECT.json`. No specification uses them.

### Where documentation and code differ

Each has a run that finds the counterexample:

| run | the documentation | the code |
|---|---|---|
| `claim_terminal_final` | README.md:278, terminal states cannot be modified once set | a racing change validated on an old copy overwrites `CANCELLED` (`service.go:158`, `postgres.go:517`) |
| `claim_old_status` | `outbox.go:52`, `OldStatus` | read after the mutation: always the new status (`service.go:186`) |
| `claim_no_event_lost` | README.md:245, 250, at least once, no events lost | no confirms: a processed event may never have reached the broker (`rabbitmq.go:109`) |
| `claim_fifo` | README.md:279, published in order of creation | visible in commit order, not `created_at` order (`postgres.go:325`), without any fault |
| `claim_retry` | README.md:249, 281, retries handle transient failures | the connection is never reopened; five attempts on it and the event is `failed` for good |

Met while modelling, visible in the models, without a run of their own:

- README.md:203 lists `IN_TRANSIT -> CANCELLED`; `CanTransitionTo` refuses it.
- The initial status event may be missing although the creation succeeded; the code
  says "not critical" (`service.go:107`), TESTING.md:185 promises the full trail.
- With two workers `PendingIsSelected` does not hold: both increment the attempts of a
  row, which stays `pending` at the limit, selected by nobody and marked by nobody.
  `RetriesBounded` says how far: at most one attempt for every further worker.
- `MarkAsProcessed` stores the zero time in `processed_at`.
- README.md:256 promises manual acknowledgements; for the debug queue they do not
  help: it is deleted with its last consumer, unacknowledged messages included
  (`ConsumersGone`; that is why `NothingLostButWithQueue` is about what was accepted
  since the queue was declared).
- A SIGTERM before the goroutine of `Serve` runs makes `Serve` return `ErrServerStopped`
  and `log.Fatalf` end the process without its deferred calls (`ServeTooLate`). No
  property is violated by it.
- README.md:14 lists a graceful shutdown; while a client keeps a reflection stream open
  (`main.go:133`) it does not end, and Kubernetes kills the process instead.
- Racing changes may leave the row with another status than its newest event by
  `created_at`, which is what `ORDER BY` and subscribers go by: README.md:282 orders events
  by server timestamps. `RowIsNewestUnlessRaced` says that nothing but a race does it.
- A rolling update may find the debug queue deleted between `QueueDeclare` and `QueueBind`
  of the new process, whose start then fails (`BindQueue`, `Fatal`), or before `Consume`
  (`SkipConsumer`).
- With the debug consumer disabled, the default, its queue is declared and bound all
  the same, never deleted, and grows until the broker restarts.
- `GetInt` takes any number: `OUTBOX_INTERVAL_SECONDS=0` panics in `time.NewTicker`,
  `OUTBOX_BATCH_SIZE=0` polls nothing; `WorkerBoundsAssumption` excludes it.

## 4. Proofs

TLAPS proves, for every number of calls, references, workers, processes, messages,
events, connections, attempts and faults:

| module | theorem | property |
|---|---|---|
| `ShipmentServiceProofs` | `TypeCorrect` | `TypeOK` |
| | `ChangesHaveLegalOrigin` | `ChangeHasLegalOrigin` |
| | `DeliveredAfterTransit` | `DeliveredOnlyAfterTransit` |
| | `ReferencesUnique` | `UniqueReference` |
| | `AnswersFitStore` | `AnswersMatchStore` |
| | `ChangesAndEventsTogether` | `StoredWithEvent` |
| | `ValidatorsRefuseAlike` | `CreationRefusedAsByEntity` |
| | `CallsRunDown` | `[][CallAdvances]_vars`: no call goes back |
| `ServiceHistoryProofs` | `SequentialChangesAreLegal` | `SequentialChangesFollowTable` |
| | `HistoriesAreFresh` | `HistorySeesPastChanges` |
| | `HistoriesAreOrdered` | `HistoryInCausalOrder` |
| | `RowsNewestUnlessRaced` | `RowIsNewestUnlessRaced` |
| `AtomicShipmentsProofs` | `ServiceIsAtomic` | `ImplementsAtomicShipments` |
| `OutboxWorkerProofs` | `TypeCorrect` | `TypeOK` |
| | `ProcessedEventsWereSent` | `ProcessedWasSent` |
| | `OneWorkerLeavesNoneBehind` (one worker) | `PendingIsSelected` |
| | `OneWorkerSettlesOnce` (one worker) | `OutcomeIsFinal` |
| `EventDeliveryProofs` | `GivenUpAfterMaxAttempts` | `FailedOnlyAfterMaxAttempts` |
| | `OneWorkerDelivers` (one worker) | `ImplementsEventDelivery` |
| | `RepeatsNeedFaults` | `DuplicatesNeedFaults` |
| | `StaleCopiesBounded` | `RetriesBounded` |
| | `ManyWorkersDeliver` | `ImplementsSharedDelivery` |
| | `OldestFirst` (one worker) | `PublishedInOrder` |
| `ServiceProcessProofs` | `TypeCorrect` | `TypeOK` |
| | `DatabaseOutlivesCalls` | `RunningCallsHaveDatabase` |
| | `NoMessageUnrouted` | `RoutedToDurableQueues` |
| | `QueuesAccountForMessages` | `NothingLostButWithQueue` |
| `ShipmentSystemProofs` | `SystemIsService` | `SystemSpec => Spec` |
| | `SystemIsWorker` | `SystemImplementsWorker` |
| | `NothingRefusedIsAnnounced` | `RefusedNeverAnnounced` |
| `SystemDeliveryProofs` | `CausesComeFirst` | `CausesAnnouncedFirst` |
| | `AcknowledgedStaysAccounted` | `AcknowledgedIsAccounted` |
| | `SystemIsAtomic` | `ImplementsAtomicShipments`, of the system |
| | `SystemDelivers` | `W!ImplementsEventDelivery`, of the system |

Assumptions: those the modules state on their constants (`RequestsAssumption`,
`NoShipmentAssumption`, `BoundsAssumption`, `WorkerBoundsAssumption`,
`SystemBoundsAssumption`, `ProcessAssumption`); `Workers = {w0}` in the theorems marked
"one worker", which are false without it; `IsFiniteSet(Workers)` where workers are counted
(`GivenUpAfterMaxAttempts`, `RepeatsNeedFaults`, `StaleCopiesBounded`, which also
needs a worker, and `ManyWorkersDeliver`); `IsFiniteSet(Calls)` in the theorems about the
system that name events, whose `MaxEvents` counts calls.

Inductive invariants, service:

- `TypeInv == TypeOK /\ PathOK`. `TypeOK` alone is not inductive: that the stored
  status is one of the life cycle follows only because a call in a change's
  statements has found a shipment and passed `CanTransitionTo` (`PathOK`).
- `OriginInv`: besides `ChangeHasLegalOrigin`, the status a call has *seen* and the
  status of every row were announced by some event. Validation on a stale copy is then
  enough for a legal origin, which is what survives the race.
- `DeliveredOnlyAfterTransit` follows from `OriginInv` with no induction of its own: the
  origin of DELIVERED must be IN_TRANSIT, whose origin must be PICKED_UP.
- `UniqueInv`: a reference held by an unresolved creation (`HoldsRow`) belongs to no
  row and to no other such creation; a row a call has found exists.
- `AnswerInv`: for each call, how its position, its answer and the presence of its event
  in the outbox fit together; no identifier occurs twice.
- `StoredInv`: rows belong to creations, the event of a creation announces PENDING.
- `CreationRefusedAsByEntity` is inductive given `AnswerInv`, by `ValidatorsAgree`: for every
  request the handler's validator and `NewShipment` decide alike. It does not say that bad
  input is never `Internal`: an amount `json.Marshal` refuses passes both.
- `ArrivalInv`: the status a call has seen was in force (`InForce`) at some moment since
  it arrived: the stale read is no older than the call. If no change of the shipment was
  stored meanwhile, it is the latest, hence `SequentialChangesFollowTable`.
- `EventInv`: every outbox event belongs to a stored shipment, and its type tells whether
  its call creates. Together with the others it gives `HistorySeesPastChanges`.
- `TimeInv`: the stamp of a change is later than those of the changes
  committed before the call arrived (`AfterCauses`). Times are not in commit order,
  but they respect causes.
- `StampInv`: no two events share a stamp, and causes have the smaller one. With
  `RowInv`, which says that the status of a row is that of the last change stored, it
  gives `RowIsNewestUnlessRaced`: if the newest event by `created_at` was not stored last,
  the one that was cannot have arrived after it, or its stamp would be larger.
- `StatementsLeft` numbers the labels so that every step takes some call down and none up
  (`CallAdvances`): a call cannot go on for ever. That every wait ends is the part
  of `EveryCallAnswered` that only TLC checks.

Refinement of `AtomicShipments`: `RefinementInv` joins these (`ServiceInv`) with `CallInv`:
a creation in its transaction was accepted by `NewShipment`, and a shipment a call has
found carries the reference asked for. `LogAppends` shows that a commit appends one entry to
the log; then `StepRefines` maps every step: `Receive` to `Arrive`; a commit to
`Write`, with the answer in the same step if the call ends there; a late `Resolve` to a
`Write` of a call with unknown outcome; answers to `Respond` or `ReadHistory`; `Fail`,
`CommitLost` and `Crash` to `Break`; every other statement stutters.

Inductive invariants, worker:

- `SentInv`: who is about to mark an event has published it.
- `CopyInv` (one worker): the attempts in a batch equal those of the row, which is
  pending and below the limit, as long as the event is in the batch. It is what a
  second worker breaks.
- `CountInv`: the attempts of a row plus the workers that hold a failure not yet recorded
  (`Failing`) never exceed the failures, and so with every copy in a batch. Copies
  of two workers may be stale, but only too low: FAILED needs `MaxAttempts` real failures.
  The number of workers enters, hence `IsFiniteSet(Workers)`.
- `RepeatsInv`: while an event is pending, its sends (`Places`) and the faults that cancelled
  workers have spent but may still repeat it for (`Doomed`) are no more than the faults so
  far and the workers about to mark it (`Marking`). Once it is settled, its sends are no more
  than the faults and the workers that cannot publish it again (`Passed`): nobody fetches
  a settled row, so every stale copy is used once.
- `RetryInv`: the attempts of a row and the workers whose copy has room for one more
  (`Retrying`) stay within the bound: a row below `MaxAttempts - 1` leaves room for one
  retry by every worker, and of a row that has reached it no fresh copy allows another.
- `OrderInv` (one worker): with an event in the batch, every older one that committed
  before it (`Precedes`) and never failed is in the batch or was sent.

Refinement of `EventDelivery`: `StepHandles` shows, for any number of workers, that a step
submits an event, handles the one a worker is at, or leaves the abstract variables alone.
With one worker that event is pending (`OneWorkerInv`, from `SentInv`, `CopyInv` and
`CountInv`), hence `OneWorkerDelivers`; with several it is at least committed (`SharedInv`,
with `RepeatsInv` in place of `CopyInv`), hence `ManyWorkersDeliver`.

Inductive invariants, process:

- `ConsumerInv`: a consumer is connected only between its start and the signal, to a
  queue that exists, and the delivery its loop has is a message.
- `CallsInv`: calls run only between the start of the server and the end of
  `GracefulStop`, where the database is open.
- `BindingInv`: when a process has passed n queues in `SetupTopology`, the durable ones among
  them are bound, whatever other processes and broker restarts do. A worker
  runs only past the last queue, hence `RoutedToDurableQueues`.
- `DeliveryInv`: besides `NothingLostButWithQueue`, a message that is about to be
  acknowledged has been logged; unacknowledged ones return with the connection.

System:

- `SystemIsService`: every step of the system is one of the service or none, so all the
  theorems about `ShipmentService` hold of the running program.
- `SystemIsWorker` needs that a commit is an `Enqueue` of a *new* place in
  `1..MaxEvents`: `ReadsInv` (no call reads the clock more than twice), `StampInv` of the
  service and `RowsInv` (the rows the worker polls are exactly the committed events).
- `NothingRefusedIsAnnounced`: what is sent was committed, and `AnswerInv` says how the
  client of a committed write was answered.
- `DeliveryInv` joins the invariant of the composition with `OneWorkerInv` and `OrderInv`
  of its worker. They come from `EventDeliveryProofs` through the instance `D`,
  whose operators are those of `W` (`SameStep`), with the assumptions on the constants of
  `OutboxWorker` established for `MaxEvents` and `{Worker}` (`WorkerBounds`).
- `CausesComeFirst`: by `StampInv` a cause has the smaller `created_at`, and it
  committed before the effect (`CausesFollowOrder`); the worker keeps the order (`OrderInv`).
- `AcknowledgedStaysAccounted`: the event of an acknowledged call is in the outbox
  (`AnswerInv`), so in the worker's rows (`RowsInv`), where it is selected or settled with
  cause (`CopyInv`, `SentInv`, `CountInv`).

Each step lemma has one step per action, or one for all the actions that leave
its state alone (`StoreStep`, `AnswerFrame`); `ApplyAppends` states
once what a commit does to the outbox.

Only model-checked: the liveness properties `EveryCallAnswered`, `EverySettled`,
`AcknowledgedIsSettled` and `ShutdownEnds`, because fairness is out of the prover's reach.
Every invariant and step property of the passing runs is proved.

## 5. Not modelled

- Generated protobuf code beyond the status enum and the request fields the program looks at,
  `shared/env`, the scaffolding tool, manifests: no state of their own. What
  they configure is a constant of the models.
- `Create`, `Update` and `SaveOutboxEvent` of the repository, `PublishJSON`,
  `IsConnected`, `ExecSchema`, `HealthCheck` and `OutboxWorker.Stop`: the program
  never calls them.
- Lifetimes and idle limits of pooled connections: `database/sql` reopens them unseen.
- The conversion of entities to messages, texts of errors and logs: no property is
  about them.
- Limits of queues and disk: queues are unbounded sets.

## 6. Plan

Every part of the program with state of its own is modelled. What would add to it:

1. two processes in `ShipmentSystem`, each with calls and a worker, once an instance of
   useful size can be checked; the theorems on overlapping workers are ready for it;
2. clocks that go back or differ between pods, and which of the order properties remain;
3. the safety half of `EverySettled`: an event that is attempted again and again runs
   out of attempts, as a variant like that of `CallsRunDown`.
