# A verification of the transaction ingest service

These modules describe the Go service in `src/`: an HTTP API that records
billable transactions pushed by tolling equipment, idempotently on
`(source, source_reference)`, and a relay that tells the downstream pipeline
about each of them at least once, through a transactional outbox in PostgreSQL.

TLC checks the modules on small instances. TLAPS proves every safety property
that a passing run checks, of both stores, the outbox relay, the rules, the
request pipeline, the API process and the whole way from a push to a bill, for
every value of their constants that the named assumptions admit.
`PROJECT.json` lists the components, the hazards, the runs, for each property a
mutation of the code that breaks it, and the source lines behind every
definition.

## 1. The system

| Part | State it keeps | Operations | Talks to |
|---|---|---|---|
| HTTP pipeline (`internal/httpapi`, `middleware`) | the request's recorder and id | request id, body limit, logger, metrics, recover, contract validator, `IngestTransaction` | rules, store, metrics |
| Rules (`internal/transaction`, `internal/money`) | `TypeSet` behind an RWMutex; the currency table | `Accept`, `Replace`, `Parse`, `Fingerprint` | none |
| PostgreSQL store (`internal/store/postgres`) | tables `transactions`, `outbox_events`; a connection pool | `Ingest`, `Get`, `Ping` | the database |
| Memory store (`internal/store/memory`) | two maps behind a mutex | `Ingest`, `Get`, `All`, `Len` | none |
| Outbox relay (`internal/outbox`, `cmd/outbox-relay`) | the open transaction of a pass | `Run`, `RunOnce`, `claim`, `publishOne`, `recordFailure`, backlog gauges | the database, a `Publisher` |
| Metrics (`internal/platform/metrics`) | counters and the set of producer labels | `IngestResult`, `ValidationFailure`, `DivergentReplay`, `HTTPRequest`, `label` | none |
| Health (`internal/platform/health`) | registered checks | `Register`, `Ready` | store.Ping |
| Process (`cmd/transaction-api`) | server, pool | start, SIGTERM, drain, close | all |
| Configuration, logging, migrations | none at run time | `Load`, `New`, goose | environment, database |

What is hard, and what makes each part correct:

* **Store.** A producer's retry overlaps the request that was merely slow;
  either may still roll back; a `COMMIT` may be on the wire when its handler
  gives up. One record per key, one event per record, and every answer agrees
  with the record (`RowIffEvent`, `AnswersAgree`). A handler that holds a key
  holds a connection too, and others wait for both: the waits never close a
  circle, because who holds a connection asks for no second one
  (`NoCircularWait`), and every push ends (`EveryPushEnds`). A reader of the
  memory store is given one state of it (`ReadersSeeSnapshot`).
* **Relay.** Replicas compete for rows with `FOR UPDATE SKIP LOCKED` under READ
  COMMITTED; a pass publishes before it commits; connections, processes and
  acknowledgements are lost. No event is lost, none is published twice without
  such an accident, and broken events do not starve the healthy.
* **Pipeline.** The answer is sent after the commit and after the counters. The
  configuration a push is judged under may differ from that of its replay.
  Statuses tell the truth about the record; divergence is counted exactly; every
  answer is counted as it was sent.
* **Rules.** A replay is compared by a fingerprint computed before the row was
  written and shown a transaction rebuilt from the row. Formatting must not
  matter, content must.
* **Labels.** A check under the read lock is repeated under the write lock.
* **Health.** Checks run concurrently, each under a timeout, into one report, and
  share the pool with the pushes they speak for. Ready means heard from
  (`ReadinessIsHonest`), and a probe costs one timeout (`ProbeIsBounded`).
* **Process.** SIGTERM may come at any moment. Draining has a deadline, after
  which the pool is closed under whoever is left (`GraceIsHonoured`, `DrainEnds`).
* **Configuration.** Everything wrong is to be reported at once, no default may
  stand in for a refused value, and the pool size is narrowed to 32 bits
  (`StartsAsConfigured`).
* **The whole.** A push is retried and an event redelivered; the two must not add
  up to two bills, nor a recorded push to none (`BilledOnce`,
  `EveryPushIsBilled`).

## 2. The modules

| Module | What it is |
|---|---|
| `IngestContract` | What `transaction.Store` promises: each call takes effect in one step |
| `PostgresStore` | `Ingest` statement by statement; implements `IngestContract` |
| `MemoryStore` | `Ingest` lock by lock and map by map; implements `IngestContract` |
| `OutboxContract` | At-least-once delivery: queued, delivered, settled |
| `OutboxRelay` | the relays and the table; implements `OutboxContract` |
| `IngestSystem` | `PostgresStore` with one relay process, its gauges and a deduplicating consumer; implements `OutboxContract` end to end |
| `IngestHandler` | one API instance serving concurrent requests, with the store as one atomic step |
| `TransactionRules` | what becomes of a submission: rules, fingerprint, row, read-back, event |
| `Configuration` | `config.Load`, and what `Connect` makes of the pool size; no state |
| `HealthChecker` | `Register` and `Ready` with concurrent checks |
| `ApiProcess` | one life of the API process, with `Configuration` and `HealthChecker` |
| `...Proofs` | the theorems of the module they extend; `OutboxDuplicatesProofs` has the price of duplicates |
| `MC...` | instances for TLC |

The modules compose in two ways. `IngestSystem` extends `PostgresStore` and puts
the relay beside it as `OutboxContract` describes it; `ApiProcess` extends
`Configuration` and `HealthChecker`. Elsewhere they meet at contracts.
`IngestHandler` uses the store as `IngestContract` describes it, and both stores
are shown to implement that contract. `IngestHandler` takes what the rules make of
a push as a constant (`Verdict`), and `TransactionRules` looks inside it.
`ApiProcess` follows a push only as far as pool and shutdown see it. The rows that
`OutboxRelay` sees appear by `Enqueue` are those `PostgresStore` commits.

### PostgresStore

A *call* is one run of `Ingest`; it mints the transaction's and the event's id,
so its name stands for both. `table` is `transactions` under its unique index,
`events` is `outbox_events`. The handler (`pc`) and the server's session (`tx`)
are kept apart: pgx closes the connection of a handler whose context ends, but a
`COMMIT` already sent may still be carried out.

| Code | Action |
|---|---|
| a producer pushes, again after an error | `Push` |
| `pool.Begin` (waits for one of `PoolSize` connections) | `Begin` |
| `INSERT ... ON CONFLICT DO NOTHING RETURNING`, row returned / no row | `InsertNew` / `InsertConflict` |
| `writeOutboxEvent` | `WriteOutboxEvent` |
| `getByKeyTx` | `ReadBack` |
| `dbTx.Commit`, its two ends | `SendCommit`, `ServerCommit`, `CommitReturns` |
| a statement or the whole call fails; the deferred `Rollback` | `StatementFails`, `IngestFails` |
| the session ends; the context is cancelled | `LoseSession`, `ServerRollback`, `Abandon` |

An insert whose key is in another open transaction waits (`KeyBusy`), as
PostgreSQL does on a unique index. A waiter goes on when the other commits
(conflict) or rolls back (insert).

### OutboxRelay

`row` is the committed version of each row; `draft` the updates of an open pass.
Time is relative: `wait[e]` is `next_attempt_at` minus the present, `clock[r]`
the age of the relay's transaction, so SQL's `now()` is `clock[r]` ticks in the
past. The claim is two steps, a snapshot (`TakeSnapshot`) and then row locks
(`LockRow`) with the second look at the newest version that READ COMMITTED
takes, because the interesting interleavings lie between them. `PublishOk`,
`PublishFails` and `PublishUnacknowledged` are the transport's three answers;
`MarkPublished` and `RecordFailure` the two outcomes of `publishOne`;
`Commit` and `CommitUnacknowledged` the end of a pass. `Crash`, `Cancel`
(SIGTERM), `LoseConnection` and `BeginFails` may strike at any place. `Requeue`
is the statement of `docs/runbook.md`. Attempts saturate at `MaxAttempts`, from
where every failure is parked alike.

### MemoryStore

The goroutine's place goes through lock, look-up, each of the two map writes and
unlock. A reader copies one entry at a time under the keys it is asked for
(`Copy`) and returns when there are none left (`ReadReturns`): `All` is asked for
every key, `Get` for one. The order in which `All` sorts its copy is left out.

### IngestHandler

| Code | Action |
|---|---|
| middleware chain, routing, `MaxBody`, `specValidator` | `Receive` (`ContractSays` is what the generated validator finds) |
| `json.Decode` fails on what the validator let through | `DecodeFails` (`Unreadable` says of which pushes; the source counts as "unknown") |
| `Rules.Accept` under the types in force | `Accept`, `NewIDFails` |
| `store.Ingest` | `Ingest`, `IngestFails` (which may have recorded all the same) |
| `sourceLabels.label`, read lock, write lock | `Look`, `Track` |
| `WithLabelValues(...).Inc()`, which panics on a label that is not UTF-8 | `Count` |
| `writeJSON`, `writeError` | `Respond` |
| `Recover`, `Metrics` | `Recovered`, `Serve` |
| `TypeSet.Replace`, or a restart under other settings | `Reconfigure` |

`emit` is the list of increments that the handler still has to make, in the
code's order: they come after the commit and before the answer. The increments of
`ValidationFailure`, one for each field at fault, carry the same label and are one
increment here. `replay` is a
history variable: whether this very push was on record when the request arrived.

### TransactionRules

Text is kept as far as the code looks at it. An amount is a sequence of digits,
sign, point and junk; a name is a word with its case and padding; an identifier
is a sequence of `A`, `a` and `-`. `Accept` is the code's five checks in their
order; `Row` and `ReadBack` are the columns and what is rebuilt from them. Two
actions push two submissions under one key; the first also makes the event, as
`NewTransactionReceived` does, with its amount rendered by `StringFixed`.
`location` and `metadata` are left out.

### IngestSystem

`PostgresStore` as it is, and beside it `Run`: count, oldest, claim, publish,
commit. `reportBacklog` is two queries (`CountPending`, `ReadOldest`) between
which the store may commit, and either may fail (`BacklogQueryFails`), which
leaves both gauges as they were. A process that starts has gauges of zero
(`StartRelay`). `billed` is the consumer of ADR-0007, which acts once on each
event id; `Publish`, `PublishFails` and `PublishUnacknowledged` are the
transport's answers. A commit whose acknowledgement is lost leads to the same
place as `CommitPass`. Locks, attempts and backoff stay in `OutboxRelay`, and one
relay process stands for all: several are disjoint by `ClaimsAreExclusive`.

### Configuration

An environment is a function of the keys that `Load` can refuse. Numbers are
integers or junk, names a word with case and padding; `Problems` is what is
reported, `Settings` what is used. `Int32` keeps the low 32 bits, as the
conversion in `main.go` does, and `PoolSize` is the test in `Connect`. The check
that `HTTP_ADDR` is not empty has no counterpart, because `envString` has already
replaced an empty value.

### HealthChecker, ApiProcess

| Code | Action |
|---|---|
| `config.Load` fails or not | `LoadConfiguration` |
| `openStore`, without and with a database | `OpenMemory`, `OpenDatabase` / `OpenFails` |
| `ListenAndServe` in its goroutine, its error | `Listen`, `AcceptFails`, `ServeFails` |
| `signal.NotifyContext`, `stop` | `Sigterm`, which kills before the one and after the other |
| `srv.Shutdown` with its own context | `BeginShutdown`, `ShutdownCompletes` / `ShutdownTimesOut` |
| the deferred `pool.Close`, the end of `main` | `Return`, `CloseReturns` |
| a push: pool, store, answer | `Receive`, `AnswerWithoutDatabase`, `Acquire`, `AcquireFails`, `StoreReturns`, `StoreFails`, `Write`, `ClientLeaves` |
| `/readyz`: `Ready`, `store.Ping` | `Probe`, `PingAcquires`, `PingAnswered`, `PingFails`, `ReadyAnswers` |
| another check; `main` has none, `Register` allows it at any time | `RegisterOther`, `OtherReports` |

Time is in ticks: `grace` counts from the call of `Shutdown`, `left` is what the
context of a check has left. A check "must respect ctx and return promptly", so
no tick passes between its expiry and its report. A store call has no deadline:
`StoreFails` may happen and need not. `net/http` and `pgxpool` are external and
modelled from their use in `main.go`: `Shutdown` closes the listener and waits for
requests in flight, `Close` turns waiters away and waits for connections.

## 3. The runs

| Run | Question | Instance |
|---|---|---|
| `postgres_ingest` | safety, waits without a circle, and `IngestContract`; does every push end | 3 producers, two of which push twice, 1 key, 2 contents, pool of 2, 2 faults |
| `memory_ingest` | is the two-map `Ingest` atomic; is a reader given one state of the store | 3 calls, 2 keys, 2 readers, one in `All` and one in `Get` |
| `relays` | safety, `OutboxContract`, the price of duplicates | 2 relays, 2 events, 2 disruptions |
| `relays_liveness` | do healthy events get through past a poison event | 2 relays, 1 poison and 1 healthy event, batches of 1, 1 disruption |
| `system` | one bill per key, and `OutboxContract`; does every push get billed; do the gauges settle | 2 producers, 2 pushes each, 1 key, pool of 2, 1 fault in the store or in the relay; one producer's events are poison |
| `requests` | truth of statuses and counters, the label ceiling | 5 requests, at most 3 under way: one push sent twice, one with a cut label, one that is malformed or one that does not decode; 2 policies, 1 label, 1 fault |
| `rules` | `Accept` against an independent reference; fingerprint, read-back and event | all amounts of up to 4 characters; 124,416 pairs of pushes under one key |
| `api_process` | is the process configured, lossless, honest, and does its drain end | 53 environments, 2 pushes, 1 probe, 2 checks, timeouts of 1 and 2 ticks |

Four more runs end with a counterexample (section 6).

Why the bounds are enough to see something. Three producers on one key give a
holder, a waiter and a late comer, and two connections let the pool run dry while
one of them waits for the key: then the holder of the key has one connection, a
waiter for the key the other, and the third producer waits for the pool.
`EveryPushEnds` is checked there. The late comer needs no second push of its own.
Two faults allow a failing holder *and* a failing
waiter. Two relays and two events show every ordering of claim, lock and commit,
a batch with an outcome of each kind, and a row that changes between snapshot and
lock. A disruption more than needed to produce a duplicate shows that it is the
only one. In `system`, a push that fails is repeated while the relay runs, and the
one fault may strike in the store, or in a query, a pass or the life of the
relay. Store and relay meet only in committed rows, so a fault in one shows the
other a row that is late or missing, whether or not the other has a fault of its
own; the store and the relay alone are run with two and more. Three sources (a
producer, one whose label is cut, and "unknown") contend for one label, so three requests under way are enough for each of their
races; the malformed push and the undecodable one do not share a behaviour
(`WithinBounds`), being rejected under the same source. `rules`
enumerates every string over sign, point, zero and a digit up to four characters,
which holds `-0`, `.5`, `5.`, `5.50` and `5.500` with their neighbours. In
`api_process`, a pool of one connection is contended by two pushes and a probe,
a registered check hangs beside the database's, the grace period is one tick or
two, and integers have four bits, so that 8, 16 and 17 stand for 2^31, 2^32 and
2^32 + 1; every key that `Load` can refuse is set to something it refuses, alone
and with others.

In `MCOutboxRelay`, relays are symmetric; in `MCIngestHandler`, the two requests
that send the same push are. Only runs without liveness use symmetry.
`CHECK_DEADLOCK FALSE` is set where requests are finite (`IngestHandler`,
`TransactionRules`): a run ends when all are served. The stores and the
process have an explicit last step instead (`Done`, `Exited`), so a deadlock among
handlers or in the shutdown would be reported.

Named bounds: `MaxCalls` (`PostgresStore`: pushes of each producer), `MaxFaults`
(`PostgresStore`, `IngestHandler`), `MaxInFlight` and `WithinBounds`
(`MCIngestHandler`: requests under way, and which of them meet),
`MaxRelayFaults` (`IngestSystem`), `Budget` (`MCIngestSystem`: faults of store and
relay together), `MaxPass`, `MaxDisruptions` (`OutboxRelay`).
`MaxPass` says that a pass lasts at most that many ticks of the clock and cuts
`wait` off below.

## 4. Fairness

* `PostgresStore` (`Works`): as long as some producer, handler or backend can go
  on, one of them does. Pushes are finite here, so nobody can be overtaken for
  ever, and nothing need be assumed of the order in which pgxpool or PostgreSQL
  serve their waiters.
* `IngestSystem`: that, and the same of the relay, whose start is included because
  an orchestrator restarts it; strong fairness of `Publish` for events that are not
  poison.
* `ApiProcess`: `run` goes on from its select and from `Shutdown`, the clock ticks,
  and a check that respects its context reports once that has expired. Nothing is
  assumed of handlers, of the database, or of `pool.Close`.
* `OutboxRelay`: weak fairness of the clock and of every relay, `Start`
  included, because an orchestrator restarts it; strong fairness of an accepted
  publish for events that are not poison: a transport that is asked for ever
  takes an event in the end. Nothing is assumed of poison events and nothing of
  the disruptions, which are bounded.

`HealthyEventsSettle` needs the parked backoff to exceed the time a relay needs
to look at the table again; the instances keep that (parked 4, poll interval 1),
as the defaults do (24 hours, 2 seconds).

## 5. What is proved

Eight modules hold theorems. Each proof finds an inductive invariant, which TLC
has checked as well, and derives the properties from it. What follows holds for
every value of the constants that the named assumptions admit.

**`OutboxRelayProofs`** (any events, relays, poison events, batch size, backoffs,
bounds; `EventsAssumption`, `OptionsAssumption`, `BoundsAssumption`):

* `TypeCorrect`;
* `ExclusiveClaims`, `DueClaims` from the inductive `LockInv`: what a relay with
  a live transaction holds is disjoint from what others hold, unpublished and due;
  what it works on or has drafted, it holds. `ClaimsAreExclusive` is not inductive
  by itself, because a pass that lost its transaction goes on with its list and a
  commit writes rows by draft: `PassOK` says that there is then no draft, and that
  nothing is held outside a pass;
* `NothingLost` from `DeliveryInv`: an event that is about to be marked, or is
  marked in an open transaction, has been delivered;
* `AuditTrail`: `published_at` is final;
* `FailuresScheduledAhead`, under `BackoffOutlastsPass`: an attempt that failed is
  due again after its commit and not before. `BackoffInv` says that a relay within a
  pass is no older than `MaxPass`, and that the delay of a drafted failure is
  longer than that. The
  hypothesis is what the code leaves out: it counts the delay from the start of the
  pass, and `relay_backoff_from_pass_start` shows what happens without it;
* `RelayImplementsContract`: every step is a step of `OutboxContract` or a
  stutter. A commit settles a batch at once; all else queues, delivers or
  stutters.

**`OutboxDuplicatesProofs`** (and `RelaysAssumption`: finitely many relays):
`DuplicatesArePaidFor`. The invariant `DuplicateInv` is an account per event. A
relay that lost its transaction goes on with its list and may deliver the event
later, so a disruption may be spent long before the duplicate it buys: such
relays (`Adrift`) are counted with the deliveries, and the sum stays within the
disruptions so far and the one delivery that a commit is still to record
(`Underway`). Steps change the set of adrift relays by one at most, except a
claim, which starts with a live transaction.

**`PostgresStoreProofs`** (any producers, keys, contents, pool size, bounds;
`ProducersAssumption`, `PoolAssumption`, `BoundsAssumption`):

* `StoreCorrect`, the inductive `StoreOK`. `CallOK` ties a call's handler to its
  session, its uncommitted rows and its answer; `KeyOK` is the unique index (one
  uncommitted row under a key, and none under a key that has a committed one);
  `RecordOK` traces each row back to a committed call; `Decided` says that what a
  call will answer is right if its commit goes through. The last is what
  `AnswersAgree` lacks: the answer is computed before the commit and given after;
* from it `TypeCorrect`, `OutboxIsTransactional`, `AnswersCarryOneId` (the id, and
  divergence reported exactly when contents differ), `ReadBackSucceeds`,
  `WaitsAreNotCircular` and `Immutable`. The last has no run of its own, since
  `IngestContract` and `RowIffEvent` imply it;
* `WaitsAreNotCircular` rests on `KeyHolderGoesOn`: whoever holds a key is past the
  pool and past its insert, so it waits for nobody. A call that waits for a key is
  blocked by such a holder; one that waits for a connection is blocked by one that
  goes on, or that waits for a key whose holder does;
* `StoreImplementsContract`: the statement-level `Ingest` implements the atomic
  contract. The record appears at `ServerCommit`, and the answer at
  `CommitReturns`, whose handler the invariant knows to agree.

**`IngestSystemProofs`** (and `SystemAssumption`): a run of the system is, seen
from the store, a run of the store, so its theorems carry over
(`SystemImplementsStore`). `RelayOK` adds that the relay works through committed
events and that what is marked or settled has been billed. `KeysAreBilledOnce`
follows with the store's invariant: an event belongs to the record under its key,
and there is one. `SystemImplementsOutbox` maps every step to the
contract; the run `system` checks it as `ImplementsOutbox`.

**`MemoryStoreProofs`** (`CallsAssumption`: callers and readers are distinct):
`MemoryImplementsContract`, `ReadersAreCurrent` from `MemoryOK`: one goroutine at
a time is between `Lock` and `Unlock` (`MutexOK`), a call's place fits the entry
under its key (`CallOK`), and the second map lags behind the first only then
(`MapsOK`). `ReadersAreCurrent` says that a reader about to return has exactly
what is stored under the keys it was asked for, and with it every transaction
answered so far under one of them. A reader looks at one map and one entry at a
time, so `ReaderOK` says of the entries copied so far that they are what is stored.

**`IngestHandlerProofs`** (any requests, pushes, policies, labels, limit;
`PushesAssumption`, `LimitsAssumption`, `LabelAssumption`): `StatusesAreTrue`, `DivergenceCounted`,
`SeriesBounded`, `SeriesAreStable`, `EveryAnswerCounts`, `TypeCorrect` from
`HandlerOK`. `RecordOK` says who may have made a record; `DivergenceOK` that a
divergence is counted or about to be, the counter coming before the answer;
`LabelsOK` that a producer without a label of its own has come too late and stays
too late, which is why a label once used is used for ever. `ReplaysAreDuplicates`
says that a push that is on record is answered 200, or with an error of the
infrastructure, for every set of requests that is `ReplaysAreSteady`: no
configuration rejects a push sent twice that another accepts, and its label is not
cut inside a character. Both conditions hold in `requests` and both are needed: `ReplayOK`
carries from the record to the answer that the push has been decoded and has passed before (`PassedOK`),
and section 6 has the replays that end otherwise.

**`TransactionRulesProofs`** (any configuration, currency table, submissions, with
amounts and identifiers of any length; `MicroAssumption`, `PairsAssumption`,
`ConfigurationAssumption`), from `RulesOK`:

* `RowsPassChecks`, and `ReadBackFaithful` under the condition that no clock is
  finer than a microsecond. An identifier that is kept has a matching key, so NULL
  and "not read" coincide;
* `EveryProblemReported`: the problems that `Accept` appends one by one are the
  fields at fault, each once (`ProblemsListed`), and for the amount a fault is what
  the contract's grammar, the currency's minor units and the sign make it
  (`PayableIsAccepted`, by the position of the point and, for a signed zero, by the
  digits);
* `DivergenceIsDifference`: fingerprints are equal exactly when what is billed is.
  `CanonicalSame` is the core: two decimals have the same canonical form exactly
  when they have the same value, since the form is the one with the fewest places
  (`CanonicalForm`) and, of two forms of a value, the one with fewer places is a
  form of the other as well (`CanonicalPlaces`);
* `EventsAnnounceRows`: `StringFixed` pads what `Accept` let through and keeps its
  canonical form (`PaddedSame`).

The value of an amount and the powers of ten are recursive functions. The provers
cannot instantiate the library's induction and recursion theorems, whose premises
are operators, so the module derives its own from the well-foundedness of `<` on
the naturals: `NatMin`, `NatSetInduction` (a set where a textbook has a predicate)
and `NatRecursion` (a function where it has an operator). `PowerRec` and
`AbsoluteRec` apply them.

**`ApiProcessProofs`** (any environments, pushes, probes, checks, timeouts;
`FallbackAssumption`, `JunkAssumption`, `WidthAssumption`, `DefaultsAssumption`,
`CheckTimeoutAssumption`, `DatabaseAssumption`, `EnvironmentsAssumption`):
`DeploysAreLossless`, `ReadyMeansHeard`, `ProbesAreBounded`,
`ConfigurationInForce`, `TypeCorrect` from `ApiOK`. `RequestOK` ties the exit code
to what may still be in flight when `run` returns; `PingOK` that the database's
check is part of every evaluation, because it is registered before the listener
opens; `TimeOK` that a running check has the time its evaluation has not used.

Only model-checked: everything about liveness, which is out of the prover's reach
(`HealthyEventsSettle`, `EveryPushEnds`, `EveryPushIsBilled`, `GaugesSettle`,
`DrainEnds`), and the four counterexamples of section 6. `FailureIsScheduledAhead`,
`ReplayIsDuplicate` and `ReadBackIsFaithful` are false for some constants, as
section 6 shows; their theorems name the condition, and the runs that check them
meet it.

## 6. Where the code and its documents part

Each has a run that TLC ends with a counterexample.

1. `replay_with_cut_label`: `source` may have 64 characters, the metrics label is
   cut at 64 bytes (`labels.go:57`). A cut inside a character makes the counter
   panic after the commit: the producer gets 500 for a recorded transaction, on
   every replay too.
2. `amount_exceeds_column`: no rule bounds the integer digits of an amount; 10^15
   and more fails in `NUMERIC(19, 4)`, a 500 that asks for a retry where a 400 is
   owed.
3. `time_below_microsecond`: the fingerprint covers nanoseconds and the column
   keeps microseconds, so the `stored_fingerprint` of the divergence warning is
   not the stored one.
4. `relay_backoff_from_pass_start`: the backoff counts from the start of the
   pass, so a long pass uses it up before the failure is committed.

More, seen in the code while modelling and without a run of their own:

* Rules run before the key is looked up, so a recorded push is answered 400 once
  its type is gone from `TRANSACTION_TYPES` (`ingest.go`), where `openapi.yaml`
  promises 200 with the existing record. `ReplayIsDuplicate` holds in `requests`
  because no policy there removes the type of the push that is sent twice.
* `docs/runbook.md` says that in-flight requests finish within
  `SHUTDOWN_TIMEOUT`, "then the process exits". `Shutdown` obeys the timeout, but
  the deferred `pool.Close` waits for every connection that a handler holds, and a
  statement that hangs has no deadline: the process stays until it is killed.
  `DrainEnds` therefore promises the end of the drain and not of the process.
* SIGTERM during start-up kills the process, because the handler is installed
  after the database is open; nothing is in flight then.
* `DATABASE_MAX_CONNS` is narrowed to 32 bits. What results stays within the cap,
  but 2^32 + 1 gives a pool of one.
* The readiness check shares the pool with the pushes, so a busy pool makes a
  healthy instance report "down" (`PingFails` by expiry).
* A relay that restarts reports a backlog of zero until its first successful pair
  of queries.
* The fingerprint covers the operator's spelling of the type, so identical pushes
  diverge after it is respelt (`fingerprint.go`; the policies of `requests`
  differ in this way, and `DivergenceIsCounted` speaks of fingerprints therefore).
* `unknown` competes for a label and may be counted as `other` (`labels.go`).
* A pass whose publishes all fail sleeps, though `relay.go` says that "only an
  empty pass sleeps".

## 7. State of the work, and what is not modelled

The plan of the inventory is carried out: the stores, the relay, the pipeline, the
rules with the event, the configuration, health, the process and the composition
are modelled, checked and, as far as section 5 says, proved. What remains would be
a run for each observation of section 6, and several relay processes in
`IngestSystem`.

Not modelled, and why:

* log formatting and redaction: no state another part reads;
* the generated API code: a constant of `IngestHandler` (`ContractSays`);
* migrations: a wrapper of goose, run by hand; its tables are modelled;
* `healthcheck.go`: a client that asks once and exits; the relay's metrics
  listener: shares no state with the relay;
* histograms, the counter of publish results and runtime collectors: written and never
  read by the program;
* deployment, scripts and documents: no program state;
* `location` and `metadata`: free-form data, passed through a JSON decoder that
  turns large integers into the nearest double (see the hazards);
* SIGKILL: everything in flight is lost, which the stores model as lost sessions;
* a kept-alive connection that brings another request after the listener failed,
  and a probe whose client leaves: each is a step of a kind that other requests
  take.
