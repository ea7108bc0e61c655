# Verification of the maritime test lab

TLA+ models of the voyage/estimator system, of its GraphQL gateway, of its onBOARD
sync client and of the processes they run in, the TLC runs that check them, and
TLAPS proofs of their safety, for every value of the constants.
`PROJECT.json` lists components, runs, mutants, findings, hazards and theorems,
and maps every definition to the source lines it models.

Run `tlc -config <Run>.cfg <Module>` for a run and `tlapm <Module>.tla` for the
proofs of a module.

## 1. The system

A vessel's client queues voyages on disk and sends them through a GraphQL gateway
to the voyage service (Postgres).  Each new voyage is announced over Kafka to the
estimator, which prices it and announces the price, which the voyage service
stores.

| Component | State | Operations | Talks to |
|---|---|---|---|
| Voyage repository (`services/voyage/adapters/postgres`) | tables `voyages`, `outbox` | Create, Update, Get, UpsertEstimate | Postgres over a bounded pool |
| Voyage gRPC server (`adapters/grpcserver`) | none | CreateVoyage, UpdateVoyage, GetVoyage | repository, estimator (quote) |
| Outbox poller (`adapters/kafka/poller.go`) | the batch of one Flush | select, publish, stamp | repository's outbox, topic `voyage.created` |
| Estimator consumer (`services/estimator/adapters/kafka`) | fetch position, committable records | fetch, price, produce, dead-letter, commit | `voyage.created`, `estimate.ready`, DLQ |
| Estimate consumer (`services/voyage/adapters/kafka`) | fetch position, committable records | fetch, upsert, dead-letter, commit | `estimate.ready`, repository, DLQ |
| Money, pricing (`internal/money`, `services/estimator/domain`) | none (pure) | Add, Mul, EstimateCost | estimator consumer and gRPC server |
| onBOARD syncer (`clients/onboard-sync/domain`) | retry counters | Enqueue, SyncOnce, SyncStatus | store, transport |
| onBOARD disk queue (`adapters/jsonlstore`) | map in memory, JSONL file | Open, Append, Pending, Ack | file system |
| onBOARD transport (`adapters/graphqltransport`) | none | Send | gateway |
| onBOARD retry policy (`domain/retry.go`) | none (pure but for its random source) | Backoff | syncer's caller |
| Gateway (`gateway/graph`) | none | two mutations, one query | voyage service |
| GraphQL executor (`gen/graphql`) | one operation's fields and errors | Exec | gateway's resolvers |
| Service wiring (`*/app`, `main`, `internal/serve`) | what has been acquired | Run: start, serve, stop | everything below it |
| Migrations (`adapters/postgres/migrate.go`, `cmd/migrate`) | schema, goose's version table | Migrate | Postgres |
| Avro serde (`internal/avroserde`, `eventreg`) | schema id per subject | New, Encode, Decode | schema registry |

What is hard in it: three processes and a broker that crash independently and
resume from what they made durable; produces, commits and statements that fail
after taking effect; batches in which one record fails; a pool in which every
request waits for the others; two statements where one transaction was meant; a
client whose requests time out, are retried, and arrive late; a queue file written
while the machine may stop; operations of which one part fails; replicas that
migrate one database at once; processes told to stop at any moment.  The `hazards`
of `PROJECT.json` give each its line.

What makes each part correct:

- pipeline: an event is never invented, an estimate is applied once and is the
  right price, and none is lost between two durable places;
- consumers: an offset is committed only after its record took effect;
- repository: one event per voyage, idempotent creates, the higher version wins,
  every request ends;
- pricing: exact, or an error; back-off: within its cap, and it does not shrink;
- gateway: a response says what happened, a null only what the schema lets it say;
- processes: no service runs on half a schema, stopping interrupts nothing it has
  promised to finish, every service comes up and goes down as asked;
- client: nothing durable is lost, the shore ends up with the highest edit, the
  queue drains.

## 2. Modules

| Module | Models |
|---|---|
| `Money` | `Money.Add`, `Money.Mul`, `EstimateCost` over integers that wrap at `Half` |
| `Retry` | `RetryPolicy.Backoff` and the ceiling it draws from, with the rounding of float64 (`Exact` is the 2^53 up to which floats hold every integer) |
| `PureCalls` | callers of those operations over all arguments, and what exact arithmetic would answer |
| `EstimateLedger` | abstract: what the voyage table promises about estimates |
| `VoyageRegister` | abstract: what the voyage service promises about a voyage; created once, the higher version wins |
| `EstimatePipeline` | repository (one step per operation), outbox poller, topics, both consumers, restarts, poison pills |
| `EstimatePipelineProofs`, `PipelineDeliveryProofs` | theorems about `EstimatePipeline` |
| `VoyageStore` | gRPC handlers and repository statement by statement, with the pool and concurrent requests |
| `GraphQL` | the generated executor: the type of every field, which nulls count, how values are marshalled; the functions that call each other are a recursive function of the objects that can be selected |
| `Gateway` | resolvers, the order in which root fields run, the response, and the voyage service behind them |
| `Lifecycle` | start-up, migrations, schema registration, serving, signals, deferred releases, exits, restarts |
| `OnboardSync` | syncer, disk queue, transport, and the shore as the client sees it |
| `VoyageStoreProofs`, `LifecycleProofs`, `PureCallsProofs`, `OnboardSyncProofs`, `GraphQLProofs`, `GatewayProofs` | theorems about those modules |
| `MCEstimatePipeline`, `MCGateway`, `MCLifecycle` | constants and symmetry for TLC; `MCGateway` computes the objects its operations can select, and their depths |

How they are composed:

- `EstimatePipeline` extends `Money` (prices are computed, so an overflow really is
  an event that cannot be priced) and implements `EstimateLedger`: the refinement
  mapping is the identity on `version`, `content` and `estimate`, with `Price` for
  the abstract price.
- `VoyageStore` (its committed rows) implements `VoyageRegister`; `Gateway` uses the
  register's actions as its voyage service, and the shore of `OnboardSync` lands
  creates and updates by the same conditions.
  So the request path is checked in detail once, and those above it rest on what
  it was shown to promise, plus the one thing a caller can see that the register
  does not have: a write and the read of its answer are two statements.
- `Gateway` extends `GraphQL`, which is free of state.  `Objects` are the objects an
  operation may select, with their parts, and `Depth` orders them: a selection ends.

### State and actions against the code

*EstimatePipeline.*  `version`, `content`, `estimate` are columns of `voyages`
(version 0: no row); `outbox` and `stamped` the outbox and its `published_at`.
`flush` and `acked` are the position of `Poller.Flush` in its batch: `Select` reads
it, `Publish` is an acked `ProduceSync`, `MarkPublished` the UPDATE after it;
`PublishFails` continues with the next row and `MarkPublishedFails` leaves Flush,
as in the code.  For each consumer group, `cursor`, `fetched` and `committable` are
the loop of `Run` (`PollFetches`, one `Handle...` action per way `handle` returns,
`CommitRecords`), and `committed` the broker's offset.  `CommitRecords` commits the
highest committable offset, which is what kgo does with the records of one
partition.  A call that fails may have taken effect: the failing actions choose.
`applied` counts the increments of the `estimateApplied` metric per voyage.  A
restart loses what is process memory and resumes at the committed offset
(`ConsumeResetOffset(AtStart)` without one).

Abstractions: one partition per topic and one member per group, so no rebalance;
outbox ids are in commit order; a Create or an Update that changes no table (a
duplicate, a stale version) is a stutter here and a step of `VoyageStore`.

*VoyageStore.*  A handler is at a statement of the repository (`pc`).  `tx` and
`conns` are the pool's connections in use, `inserting` the uncommitted insert of a
key, which a second insert of that key waits for, as a unique index does at READ
COMMITTED.  The inserts of the voyage and of its outbox row are one step, since
nothing outside the transaction sees either before `Commit`.  `pool` is the number
of connections, chosen at the start from `PoolSizes`, since pgx takes it from the
host.  `Fail` is any database call returning an error, `CommitLostAck` a commit that
happened and was not acknowledged, `QuoteFails` an estimator error other than
Unavailable.  `existed` is a history variable for `UpdateWins`.

*Gateway.*  An operation is a sequence of root fields; `stage` is where each is:
`todo`, `called` (the resolver's gRPC call is out), `written` (the service has
written and not yet read), `replied`, `done`.  `MayStart` is the loop of
`_Mutation`, which runs its fields in turn, and of `_Query`, which runs voyage
fields concurrently after the introspection fields of its loop.  `value` and `errs`
become the response in `Respond`.  A distance goes through `Narrow`, Go's conversion
to int32.  `CallFails` and `Disconnect` may leave a call in `late`, which the service
carries out at any later time or never.  `known` is a history variable for what the
answers given so far have shown.  A record stands for an object together with the
fields selected of it; of a voyage these are its id, version and distance.

*Lifecycle.*  `Startup` lists what each `Run` acquires, in order; `at` is the
position, `open` what a deferred call will release.  `Unwind` is a return from
`Run`, after which `Close` runs the deferred calls in reverse order and `Exit` ends
the process.  `ddl` is what migrations did to the database and `applied` what goose
recorded; `seen` and `tx` are one migrating process between its read of the version
and its commit.  `call` is a request in progress and what it needs next, `worker`
the background loops, `serde` the ids a process was given by the registry.  A
service that exits with an error is restarted, as `docker-compose.yml` says; one
that was told to stop is not, and neither is the migrate command, which is run by
hand (`go run` in the `Makefile`): when it loses a race it stays failed.

*OnboardSync.*  `ops` is the store's map, `file` and `ended` the queue file line by
line and whether it ends in a newline, `todo` and `sent` the loop of `SyncOnce`,
`merged` Enqueue between its two store calls.  `Enqueue` and `SyncOnce` interleave
between store calls if `Concurrent`, and exclude each other otherwise, as in the
repository's tests.  `late` holds requests whose client gave up on them.
`accepted` is a history variable: the highest operation that became durable.
`SyncOnce` attempts operations in any order (the code sorts by id).  When to retry
and the counters of `SyncStatus` are left out: no decision reads them.  An append
that returns an error (`AppendFails`) has written nothing, the whole line with or
without its newline, or part of it.

## 3. Runs

Passing:

| Run | Checks | Bounds and why they suffice |
|---|---|---|
| `PipelineSafety` | `TypeOK`, `PublishedIsOnTopic`, `EventsAreGenuine`, `AppliedAtMostOnce`, `CommittedNeverRewinds`, `LedgerSafe` | two voyages, a content that can be priced and one that overflows, an update each, every kind of fault (one), one poison pill; `LIMIT 1`, so that the poller and the consumers interleave most |
| `PipelineDelivery` | `CommitAfterProduce`, `CommitAfterUpsert`, `CommitAfterDLQ`, `NeverStranded`, and live: `LedgerLive`, `OutboxDrains`, `ConsumersCatchUp` | two voyages, so that a batch has a record before and after the disturbed one and, with `LIMIT 1`, a failed row competes with the next; one crash, failed publish, stamp or commit; one pill on either topic |
| `VoyageStore` | `TypeOK`, `OneEventPerVoyage`, `ConflictMeansRow`, `UpdateWins`, `IsRegister`, deadlock, and live: `EveryRequestEnds` | two requests at a time, enough for every race of two transactions; a pool of one (one too few) or two connections; two contents and versions up to 3, so that ties, stale and higher updates happen; two faults |
| `PureCalls` | `MoneyExact`, `EstimateExact`, `BackoffGrows` | all 5-bit amounts and 4-bit distances: every way a result can wrap; 7 attempts, so that the doubled base leaves the integer; floats that are exact up to `Exact = 4`, so that caps are rounded both ways, ties included, and the greatest ones to `Half` |
| `Gateway` | `ResponseConforms`, `CleanMeansDone`, `NullMeansUnknown`, `AnswersAreStored`, deadlock | two clients, five operations (a create and its edit together, parts that fail in each way, queries with introspection), `Half32 = 4`, so that 10 becomes 2 and 4 becomes -4; one failed or abandoned call |
| `Lifecycle` | `TypeOK`, `DrainsFirst`, `ServesMigrated`, `FramesDecode`, `ExitCutsNoStatement`, and live: `EveryStopEnds`, `ComesUp` | two replicas, a replica and the migrate command, a replica and the estimator, or the gateway; two migrations, so that one can be interrupted between them; two ids per subject; one fault, besides signals and lost races |
| `SyncConcurrent` | `TypeOK` (with `MergedWins`: Enqueue never takes a pending operation back to a lower version), `QueueOnDisk`, deadlock | two voyages, so that the compaction for one meets the pending operation of the other; three lines; two faults of any kind |
| `SyncSequential` | `NothingLost`, `Converged`, and live: `QueueDrains` | two voyages whose edits wait for their create, two contents (one cannot be priced), two faults: two late requests, or one and a crash |

Deadlock is checked except in the pipeline runs and in `Lifecycle`: once every
voyage is at its last version and every event handled, or every process was told to
stop and is down, nothing is left to do.

Runs that end in a violation; each is a finding with the sentence it contradicts:

| Run | Shows |
|---|---|
| `ProduceFailureSkips` | `handle` returns false and the record is to be redelivered, but a later success in the batch commits past it: the estimate is lost.  The estimate consumer has the same loop |
| `UpdateKeepsEstimate` | an updated voyage keeps the estimate of its old content |
| `EditBeforeCreateSyncs` | an edit replaces its unsynced create and is rejected for ever |
| `TornAppend` | a torn line makes the queue unreadable |

The models show more of the code's edges, which the passing properties are stated
around:

- a failed dead-letter produce drops its pill (`HandlePoisonFails`), and a crash
  before the commit dead-letters it twice, so `CommitAfterDLQ` is checked without
  the first and does not count entries;
- `Mul` does not report `MinInt64 * -1`, the exception in `MoneyExact`;
  `EstimateCost` never passes a negative factor;
- a price of 0 is read like a NULL estimate; the models keep the two apart, as the
  table does;
- an update that misses the row and then reads one that a create has just committed
  is answered OK with version 1, although its write was neither applied nor stale
  (`ports.go` promises one of the two); `UpdateWins` and `CleanMeansDone` speak of
  voyages that existed when the update came in (`existed`, `Exists`);
- the gateway stores the low 32 bits of a distance that does not fit, and the answer
  shows them (`AnswersAreStored`); no doc says what such a distance should become, so
  no property is claimed for it;
- a mutation of which one field fails answers with no data at all, and the other
  fields have taken effect all the same: `CleanMeansDone` is about every field without
  an error, whatever became of the others;
- the gateway exits while requests are in progress: `ListenAndServe` returns when
  `Shutdown` is called, not when it is done, so `Run` closes the connection and
  `main` returns, although the package comment says that it stops gracefully;
  `DrainsFirst` is stated for the two gRPC services;
- `GracefulStop` waits without a limit: `EveryStopEnds` holds because the calls of
  the system's own API end, and a health `Watch` or a reflection stream need not;
- `Backoff` takes its cap through float64.  A cap above 2^53 may be rounded up, by at
  most 512 ns (`Slack`), and a wait may exceed it by as much.  A cap from 2^63 - 512 on
  is rounded to 2^63, and `Backoff` may panic, depending on how the platform converts a
  float that is out of range.  `BackoffGrows` states both limits.  The number of attempts it is given is the number of failed operations since
  the start, which no success resets;
- `Ack` takes an id, so an edit enqueued while the previous one is being sent is
  removed unsent; `NothingLost` is checked, and proved, for callers that do not
  overlap `Enqueue` and `SyncOnce`;
- a create that the estimator cannot price is committed and answered with an error
  (`SendUnquoted`), so it stays queued; `QueueDrains` asks that it take effect
  ashore, not that the queue become empty;
- an operation whose `Append` failed is in the map and may be shipped although its
  caller was told it failed; `Converged` is checked without failing appends.

### Fairness

- Poller and consumers: weak fairness of each process's own successful steps.  The
  ticker and the `PollFetches` loops run for as long as the process does.  Faults
  are bounded by `MaxFaults`, so the runs show what happens once they stop.  No
  request, pill or fault is forced.
- Requests: weak fairness of each handler's steps, and strong fairness of getting a
  connection, because the pool queues its waiters in order.
- Processes: weak fairness of `Run`, of the call in progress and of ending a
  background statement, for each process; the container runtime restarts
  the services that failed.  No call,
  signal or fault is forced.
- Client: weak fairness of syncing and of reopening.  Retrying is the caller's
  duty ("retries are infinite while an operation is queued", `retry.go`).

## 4. Proofs

The theorems hold for any sets of voyages, contents, handlers and processes, any
widths, rates, limits, versions and fault budgets.  What they assume of the constants
is named in the module that declares them (`HalfAssumption`, `ExactAssumption`,
`PipelineAssumption`, `StoreAssumption`, `LifecycleAssumption`, `PricingAssumption`,
`SyncAssumption`, `ObjectsAssumption`, `GatewayAssumption`): the constants have their types, model values
differ from what they are told apart from, the client has finitely many voyages, a
selection is of fields its type has and ends, and an operation that is executed has
passed validation.  Hypotheses on which faults happen are part
of the theorems that need them.  Before it was proved, every inductive invariant was
checked by TLC on the instance of the module's run.

`EstimatePipelineProofs`:

- `TypeCorrect`, `OffsetsConsistent` (proved, so no run repeats it): `TypeOK` alone
  is not inductive, since a consumer reads `created[cursor]`, which exists only
  because the offsets are ordered; `Shape == TypeOK /\ OffsetsOrdered` is.
- `EventsGenuine`, `AppliedOnce`: the inductive invariant `Genuine` follows a
  content along the pipeline.  `OutboxGenuine` ties an outbox row to its voyage,
  `CreatedGenuine` the topic to the outbox, `ReadyGenuine` a price to the voyage,
  `TableGenuine` the stored estimate to the price.  Each is conditional on the
  voyage still being at version 1, which is what makes it stable: an update never
  returns to version 1.  Two estimates for one voyage are therefore equal, and the
  second is no change.
- `ImplementsLedger`: by `Genuine`, a write of an estimate is the ledger's
  `Estimate` and every other step is a `Create`, an `Update` or a stutter.

`PipelineDeliveryProofs`:

- `FlagOnAck`: with `AckedOnTopic` for the row acked and not yet stamped; topics
  only grow.
- `ProduceBeforeCommit`, `UpsertBeforeCommit`: the commit properties strengthened
  to everything the loop has passed, committed or not (`HandledProduced`,
  `HandledUpserted`), on condition that the handler's own call does not fail
  (`"produce" \notin Faults`, `"upsert" \notin Faults`).  `ProduceFailureSkips` shows
  that the condition is needed.
- `NoEstimateLost`: `OutboxComplete`, `FlagOnAck` and the two above chain into
  `NeverStranded`.
- `DeadLetterBeforeCommit`: the same strengthening for pills (`HandledDeadLettered`),
  on condition that no dead-letter produce fails.
- `CommitsOnlyAdvance`: a committable offset is ahead of the committed one.

`VoyageStoreProofs` (invariant `StoreInv`):

- `Shape` is `TypeOK` with `Serving`: what a handler is doing fits its request, so a
  request's fields are there when a statement uses them.
- `OneEvent`, `ConflictRow`: `Owned` says that an uncommitted insert belongs to exactly
  one handler, the one at its commit, and that its voyage has no row yet; without it a
  second commit could add a second event.  A conflicting insert therefore met a
  committed row, and rows are never deleted.
- `UpdateAnswered`: `Landed` says that after its UPDATE a handler's voyage, if it
  existed, has the asked version or a higher one, until the read.
- `StoreIsRegister`: a commit is the register's `Create` or no change, an UPDATE its
  `Raise` or no change, every other step a stutter.

`LifecycleProofs` (invariant `LifeInv`):

- `Reached` ties what a process holds and does to its position in `Startup`: serving
  is after every step of the list, so after the migrations and the registration.
- `ServesOnFullSchema`: `Schema` says that the database and goose's table agree, and
  that at most one transaction is open, which applies the next file; what the other
  migrating processes have read may be outdated.
- `AlwaysDecodes`: whatever ids were given out, a consuming process has registered both
  subjects and keeps the schema of its own, which does not depend on the id.
- `GracefulStop`, `NoStatementCut`: `Holds` says that a busy loop or a call at a
  statement holds a connection of an open pool, so closing the pool, which waits for
  them, comes before the exit.

`PureCallsProofs`: `CallInv` only says that a result answers its call; the theorems
rest on lemmas about the operators.

- `MoneyIsExact`: `AddIsExact` by cases of how a sum can wrap.  `BackDivision`: if the
  wrapped product divided back gives the amount, the product's magnitude is at most
  `Half`, so only `Half` itself could have wrapped, and then the quotient has the wrong
  sign; the wrapped quotient of the least integer by -1 is the one exception.
- `PricesAreExact`: from the two, since a distance is never -1 when it is multiplied.
- `BackoffNeverShrinks`: powers of two grow, by counting subsets (`PowersGrow`), so
  doubling a base never lowers the ceiling (`CeilingGrows`).  The spacing of floats is
  1 up to `Exact` and nowhere more than `Half \div Exact` (`CoarsestSpacing`,
  `SpacingBounded`), so a float is exact there and else within half a spacing of its
  integer (`RoundedNear`, `FloatNear`), which bounds the ceiling by the cap and the
  slack and keeps it below `Half` (`BackoffBounded`).

`OnboardSyncProofs`:

- `ReplayAppend`, `ReplayCompacted`, `WrittenLine`: appending is an assignment to the
  voyage's entry, reading a compacted file gives back the map, and appending to a file
  without a final newline leaves one that does not parse.
- `TypeCorrect`: `Shape` adds that operations are queued under their own id, without
  which a compaction would not write what memory holds; and `MergedWins`, what Enqueue
  chose still beats what is pending when it is appended, since acks in between only
  remove.
- `QueueStaysOnDisk`: from both.
- `NothingIsLost`, for `~Concurrent` and every fault: `LostInv` is `NothingLost`
  together with `Durable`, the same of what reopening a readable file would find, and
  `Turns`: a batch works on what is pending, and what was sent is ashore.  The proof
  needs nothing about which faults happen, so the theorem covers more than the run.
- `QueueConverges`, for `~Concurrent` and neither failing nor torn appends:
  `ConvergeInv` says that everything queued, in the file or on its way is `Harmless`:
  its version is one the vessel reached, and at the highest version it carries the
  accepted content unless the shore is past it.  A second operation with the same
  version is possible (a create repeated with other content), which is why the last
  clause is needed.

`GraphQLProofs`:

- `ObjectEquation`: the recursive definition of `Object` has a solution.  Partial
  solutions for the objects below a depth exist and agree (`SomeSolution`,
  `OneSolution`), since a marshaller looks only at an object's own parts, which are less
  deep.  Induction on the depth is by a least counterexample (`LeastNatural`).
- `EveryAnswerConforms`: the fields that count in Invalids are those the schema's text
  declares non-null (`InvalidsAreNonNull`, type by type), so an object that is not null
  holds only nulls that are allowed; the parts of a least deep object that does not
  conform do.

`GatewayProofs` (invariant `GatewayInv`):

- `TypeCorrect` (proved, so no run repeats it): one entry per root field of the
  operation in progress, and nothing of one that is over.
- `FieldInv` is what is known of a root field at each stage.  `Landed`, from the write
  on: the field's voyage has the asked version or a higher one.  An update lands only if
  its voyage exists, which `Exists` gives: it was known when the operation was posted,
  or a create in front of it has not failed; failures only add to `errs`, so `Exists`
  can only become false, and `Landed`, which is conditional on it, stays.  `Stored`,
  from the reply on: the row is not ahead of the table, and agrees with it at the same
  version; that is stable because contents change only with versions (`MovesUp`).
- `OrderInv`: a mutation's fields before one that has started are done, so the create
  that an update relies on has ended.  `KnownInv`: what was shown exists, so a voyage
  that a query finds missing was not known.  `LateInv`: a call that arrives late is a
  mutation with accepted arguments, so it writes no more than one in time would.
- `CleanResponse`, `NullVoyage`, `StoredAnswers` follow from `FieldInv` of fields that
  are done; `CleanResponse` holds of each field without an error.  `ConformingResponse` adds that voyages are marshalled to themselves
  (`VoyagesMarshalled`) and, for introspection, `EveryAnswerConforms`.

Only model-checked: liveness (`LedgerLive`, `OutboxDrains`, `ConsumersCatchUp`,
`EveryRequestEnds`, `QueueDrains`, `EveryStopEnds`, `ComesUp`), which is out of the
prover's reach.

## 5. Not modelled

- The bytes of an Avro body or a protobuf message: they are the libraries'.  A record
  on a topic decodes or it does not; `Lifecycle` models the framing and which schema
  a reader uses.
- Of the executor, the complexity limits, which the gateway does not install, and
  deferred groups, which need a directive that the schema does not have.
- Configuration and environment, metrics, the lag reporter and the contents of
  traces: nothing else reads what they keep.
- Rebalances of consumer groups: one partition, one member, and no callbacks in the
  code.
- The creation of goose's version table, which two processes on an empty database may
  race for: the loser fails as it does when it loses the race for a file
  (`MigrateConflict`).
- In the pipeline runs a batch of the poller has one row (`LIMIT 1`): that a failed
  publish goes on with the next row of its batch, and not with the next tick, is in the
  model and in the proofs, which hold for every limit, and TLC does not tell the two
  apart.
- The counters behind `SyncStatus`, which are read without a lock.
- `domain.Quote`, which no service calls; the estimator's generated bindings, which
  only forward a call; test fixtures.

## 6. Plan

Done: the pipeline with its abstract ledger and its proofs, the request path and
its register, the arithmetic and the back-off, the gateway with its executor, the
processes, the sync client.

Every invariant and action property of the passing runs, and every refinement in its
safety part, is proved; liveness is checked by TLC.  What the project could grow next:
several partitions and members per consumer group, once the code has callbacks for a
rebalance.
