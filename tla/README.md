# Event Ledger in TLA+

TLA+ models, model-checking instances and machine-checked proofs of the two
services of this repository: the **Event Gateway** (`services/gateway`) and the
**Account Service** (`services/account`). Every definition is read off the source;
`PROJECT.json` maps each one to the lines it models. Line numbers below refer to
files under `services/<service>/app/`.

## 1. The system

A client posts financial events to the Gateway. The Gateway stores each event in
its own SQLite database and forwards it as a transaction to the Account Service,
which keeps the ledger in another. When the Account Service cannot be reached, the
event is queued in an outbox, and a background task replays it.

| Component | State it keeps | Operations | Talks to |
|---|---|---|---|
| Event ingestion: `gateway/services/event_service.py`, `api/events.py` | `events`, `outbox`, `audit_log` tables | `POST /events` | client's request; Account Service through the client below; database |
| Outbox replayer: `gateway/services/outbox_replayer.py` | a database session per drain | `drain_once` every 5 s, `start`, `stop` | same tables, same client |
| Account client: `gateway/services/account_client.py`, `resilience/retry.py` | none | `apply_transaction` | breaker around retry around one HTTP call |
| Circuit breaker: `gateway/resilience/circuit_breaker.py` | state, failure count, time of opening, probe flag | `call`, `reset` (tests only; a restart has its effect) | shared by all handlers and the replayer |
| Event queries: `api/events.py`, `db/repository.py`, `core/timestamps.py` | none | `GET /events`, `GET /events/{id}` | `events` table |
| Ledger: `account/services/ledger_service.py`, `db/repository.py` | `transactions`, `audit_log` tables | `POST /accounts/{id}/transactions`, `GET /accounts/{id}`, `GET .../balance` | its database |
| Request handling: `gateway/main.py`, `core/errors.py`, `schemas/event.py`, `resilience/rate_limit.py`, `db/session.py` | hits per client and minute | validation, rate limit, session per request, exception handlers | every handler; the libraries slowapi and SQLAlchemy |
| Health and metrics: `api/health.py`, `core/metrics.py` | counters and gauges of the process | `GET /health`, `GET /metrics` | its database; health probe of the Account Service |
| Logging, tracing, configuration | none | read or written on the side | none that changes what the others do |

What makes it hard, and what each part must get right:

- **Handlers interleave at every `await`.** The lookup that finds duplicates is not
  in the transaction that inserts; two handlers and the replayer share one SQLite
  write lock, which a handler keeps across its network call. At most one request may
  be the original of an event; the queue and the status of an event must agree.
- **Two databases, no distributed transaction.** A call can time out and be executed
  later, a crash can come between the two commits, a drain can be rolled back after
  its calls were executed. The two services must still agree on every settled event.
- **Retries, replays, duplicates.** The ledger must store an event once, however many
  calls carry it, and answer with a balance that is true at that moment.
- **A breaker with stragglers.** A call admitted in one state ends in another. No
  flag may be left behind and no threshold missed; failing fast must end.
- **Recovery.** Every queued event that can be settled must be settled.
- **The only write lock.** A handler keeps it while it waits for the Account Service.
  Every way out, exceptions included, must give it back.
- **Admission.** A body is validated before the rate limit counts the request; the limit
  is on POSTs alone, per client, and is switched off in the tests.
- **Arithmetic and order.** Balances are decimal sums with a finite precision;
  timestamps are compared as strings, pages are addressed by offset.

`PROJECT.json` lists each hazard at its line, with the properties that catch it.

## 2. The modules

### CircuitBreaker, AccountClient

`call` (circuit_breaker.py:67) is two critical sections under a lock with one await
between. Neither section awaits, so each is one atomic action: `AdmitClosed`,
`AdmitProbe`, `Refuse` before the call; `Succeed` and `Fail` after it.

| Model | Code |
|---|---|
| `state`, `failures`, `probing` | `_state`, `consecutive_failures`, `_half_open_in_flight` |
| `elapsed` | `monotonic() - _opened_at >= reset_timeout` |
| `admitted`, `result` | where a caller stands in `call`, what it returned |

`failures` saturates at `FailMax`: the code only compares it by `>=`. `Reset` (101-106,
and `build_breaker`) is no step of a running process: only tests call it. It is what a
restart does to the breaker, and `OutboxRecovery` uses it for that.

`AccountClient` EXTENDS the breaker: an admitted call makes up to `MaxAttempts` HTTP
requests, and only its end is a step of the breaker. `log` (the answers a call got)
and `streak` (failed requests since a success) are history variables.

### EventLifecycle, EventGateway

`EventLifecycle` is the abstract promise: an event is received, then applied, queued
or rejected; it is applied only if the ledger has it, rejected only if it has not and
never will; it is called for only while it is in the Gateway's hands.

`EventGateway` is the detailed module: handlers of `POST /events` and the replayer
over one database.

| Model | Code |
|---|---|
| `status`, `outbox`, `audit` | the committed tables |
| `ahead` | the order of `queued_at`: which rows were queued before this one |
| `writer` | the session that holds SQLite's write lock |
| `pc`, `saw`, `reply` | a handler: its next statement, the status it looked up, its HTTP status |
| `rp`, `todo`, `dirty`, `applied`, `failed` | the replayer: where it is, the rest of its batch, and what its session has changed but not committed |
| `sent`, `ledger` | calls that were made and may be executed at any time; what the Account Service has committed |

Actions of a handler, in the order of `ingest`: `Lookup` (line 54), then `Dedupe`
(55-66), or `Insert` (71-90) and `Send`, then `CallApplied` (127-138),
`CallUnavailable` (101-113) or `CallRejected` (114-125). `DuplicateKey` is the
IntegrityError of the insert, `LockTimeout` the OperationalError of a wait for the
lock; both become a 500. The uncommitted row of a handler is seen by nobody else, so
it is control state (`pc = "call"`) and not part of `status`.

A commit and the answer after it are one step: `reply` is what a handler decided at its
commit, whether or not the answer still reaches the client. In particular, a crash after
the commit of a duplicate's audit row leaves a DEDUPED of which nobody was told, in the
code; `AuditTrail` counts answers that were decided.

Actions of a drain: `DrainStart` (58), `Fetch` (61, with the autoflush of deferred
attempt counts), `ReplaySend`, `ReplayApplied` (90-100), `ReplayRejected` (78-89),
`ReplayDeferred` (74-77), `DrainCommit` (101), `DrainLockTimeout` (rollback, caught at
line 45). The branch for a missing event (62-64) is unreachable: no code deletes an
event.

`Apply` is the Account Service executing a call. It may come at any later moment and
more than once (the ledger is idempotent). `CallUnavailable` and `ReplayDeferred` are
possible at any time: before the call was sent, after it was executed, or because the
breaker refused. `Crash` cuts handlers off, rolls back sessions, and leaves the
committed tables and the calls on their way.

### EventLedgerSystem, the composition

`EventGateway` takes an event id for its content. `EventLedgerSystem` EXTENDS it with
what the id stands for: a content is named by the request that submits it, and one id
may come with several.

| Model | Code |
|---|---|
| `origin` | whose content the committed row of an event has |
| `shipped` | the contents that were sent to the Account Service, and may be executed at any later time |
| `booked` | whose content the Account Service stored: the first it executed (`ON CONFLICT DO NOTHING`) |
| `counted` | `events_applied_total` per event, incremented before the commit (event_service.py:136, outbox_replayer.py:99) |

Each action conjoins one of `EventGateway` with what it does to these; `Resend` is a
handler whose event was sent before by a request that was lost, which `EventGateway`
cannot see. The safety properties of `EventGateway` are checked here, with contents that
conflict, and its theorems carry over (section 5). Whether the Account Service accepts an
event is a matter of its id here, as in `EventGateway`.

### OutboxRecovery

Composes the replayer with an INSTANCE of `CircuitBreaker`, after an outage: does the
outbox drain? `EventGateway` lets any replay be deferred; here the breaker decides which
ones get through.

| Model | Code |
|---|---|
| `pending` | the outbox table; entries are numbered by their `queued_at` |
| `phase`, `todo`, `dirty`, `marked` | a drain: where it is, the rest of its batch, and what its session has changed |
| `writer` | SQLite's write lock |
| `post`, `posted` | the handler of a client's POST, and the last event posted |
| `up`, `Rejected`, `Poison` | how the Account Service answers (external) |

A drain is `DrainStart`, then per entry `Fetch` (with the autoflush), `Call` if the breaker
admits it, `Answered` and `Mark` (78-100, APPLIED or FAILED) or `Deferred` (74-77), and at
the end `Commit` or `DrainLockTimeout`. A client posts one event after the other (`Post`,
`PostCall`, `PostEnd`): its handlers use the same breaker, hold the lock that drains need,
and queue what they cannot deliver. A 4xx settles an entry, and the breaker counts it as a
failure. `Restart` is `stop` and `start` of the replayer (24-39), or a crash: it may cut a
drain off anywhere, and the next process has a new breaker (`Breaker!Reset`).

### IdempotentLedger, AccountLedger, LedgerArithmetic

`IdempotentLedger` is what the Account Service promises the Gateway: each event is
stored from the first call that gets through, every later call is told whose
transaction is stored, and a failed call has no effect. `AccountLedger` implements it
(`ImplementsLedger`) with `book <- row`, and for `answer` the status of a reply with
the transaction its body names. `EventLedgerSystem!SysApply` relies on that promise.

`AccountLedger` has the handlers of `POST .../transactions`: `Refuse` (the validation of
`TransactionIn`), `InsertIfAbsent` (takes the write lock), `SumBalance` (over committed
rows and its own), `Commit`; `SumRaises` and `LockTimeout` are the two ways to a 500,
`Crash` a restart. `ReadBalance`, `ReadCurrency` and `ReadRecent` are the three SELECTs of
`get_account`, outside any transaction (`get_balance` ends after the second); the last
lists the latest fifty (`RecentLimit`) transactions, `Recent` being any such choice
between equal times; `currency_for` picks any row of the account, and nothing keeps an
account to one currency. What a call carries is a constant of the call, so that calls may
conflict. `LedgerArithmetic` is the decimal sum: each partial result is rounded half to
even to `Precision` digits.

### RequestPipeline

The way of a request through the Gateway to its answer; what it does to the tables is in
`EventGateway`.

| Model | Code |
|---|---|
| `at`, `reply` | whether a request is in its handler, and which part of the program answered: validation, limiter, handler, or the last exception handler |
| `hits` | the limiter's count per client in the current window (external: slowapi), in the memory of the process |

`Refuse`, `Limited` and `Admit` are in the order of FastAPI and the limiter's decorator:
a body that does not validate is answered before the limiter counts it. `Handled` is the
end of any handler, `NewWindow` the end of a client's minute, `Crash` the loss of all
counts. A session takes no bounded resource besides the write lock: with the pinned
`sqlalchemy==2.0.36` and no `poolclass` (session.py:21), a file database is opened with
`NullPool`, one connection per session.

### EventListing

The order of a listing and a client that walks through its pages; each request is two
SELECTs, `ReadPage` and `Count`, between which events may arrive. `UtcIso` models
`to_utc_iso` by what a comparison of its strings sees: the second, then `Z`, or `.`
and six digits. A row's place in the listing is its `Rank`, the number of rows that
come before it.

## 3. What TLC checks

| Run | Module, cfg | Bounds | Result |
|---|---|---|---|
| breaker_and_client | AccountClient, MCAccountClient | 2 callers, FailMax 2, 3 attempts | passes, 17,785 states |
| system | MCEventLedgerSystem, MCEventLedgerSystem | 3 events, 4 requests, batch 2, 1 crash, CountMax 2 | passes, 202,564 states |
| gateway_live | MCEventGateway, MCEventGatewayLive | 3 events, 4 requests, batch 2, 1 crash | passes, 161,824 states |
| recovery | OutboxRecovery, MCOutboxRecovery | 3 entries and 2 POSTs, 2 of the 5 rejected, batch 2, FailMax 2, 1 restart | passes, 12,225 states |
| ledger | MCAccountLedger, MCAccountLedger | 3 events, 6 calls, 1 view that lists 2, 1 crash, 2 digits | passes, 564,308 states |
| listing | MCEventListing, MCEventListing | 4 events of 6 timestamps, pages of 2 | passes, 66,351 states |
| pipeline | MCRequestPipeline, MCRequestPipeline | 6 POSTs of 2 clients, 1 read, 1 health check, limit 2, 1 crash | passes, 88,432 states |
| client_error_counted | CircuitBreaker, MCClientError | 2 callers, FailMax 2 | ClientErrorNotCounted violated |
| poison_probe | OutboxRecovery, MCPoisonProbe | 4 entries and 1 POST, the oldest is poisonous, 1 restart | DrainsOnRecovery violated |
| duplicate_race | MCEventGateway, MCDuplicateRace | 2 requests for one event | NoErrorForDuplicate violated |
| lock_timeout | MCEventGateway, MCLockTimeout | 2 requests | AnsweredIsStored violated |
| fractions | MCEventListing, MCFractions | 3 timestamps | Chronological violated |

Why these bounds are enough to be interesting:

- Two callers let a straggler of the closed era meet a probe, let the straggler
  reopen the breaker, and let it be admitted as the next probe while the first still
  runs. A threshold of two separates the first failure from the one that trips.
- `system` has one event submitted twice with different contents, one the Account Service
  rejects, and one it always breaks on; the batch is smaller than the outbox can get;
  the crash may fall between any two steps. A count of two is the first that is wrong.
- `gateway_live` is the same without contents, under fairness; the poisonous entry is in
  the outbox beside two others, one fewer than the batch holds.
- `recovery` has more entries than a batch and more than the breaker's threshold; a POST
  may hold the lock when a drain commits, and be the probe; a rejected entry may be one,
  too, and reopen the breaker; the restart can undo a drain.
- `ledger` has a duplicate, an amount that validation refuses, a conflicting duplicate for
  another account whose sum raises, an amount beyond the precision, so that order
  matters, two currencies in one account, and one transaction more than a view lists.
- `pipeline` has three good POSTs for a limit of two, so that the third is refused in one
  window and not in the next; a POST that validation refuses, and another client whose
  requests must not matter.
- `listing` has the same instant twice with different offsets, and two fractions
  within one second.

The named bounds are `MaxCrashes`, `MaxRestarts`, `StreakMax`, `MaxEvents` and `CountMax`.

CHECK_DEADLOCK is off where a behaviour may end: all requests answered and the outbox
empty, all pages read. It is on for the breaker, which always has a next step.

### What the checks show

- **Gateway and system.** An event is QUEUED exactly while it has an outbox row
  (`QueuedIffPending`); what a drain read at its start is still true when it acts, with
  no lock taken until it settles something (`DrainSnapshotFresh`); an APPLIED event has
  its transaction, a FAILED one has none and gets none (`Agreement`); a transaction
  without an event needs a crash (`NoOrphanWithoutCrash`); one original per event
  (`OneOriginal`); an answer stays true (`ReplyDurable`); the audit log tells each
  event's story, DEDUPED rows included (`AuditTrail`). `ImplementsLifecycle` is the
  refinement of `EventLifecycle`. With contents: the two databases hold the same content
  of an event, unless the handler whose content was executed died with its process
  (`ContentAgrees`); the counter of applied events counts each one once and no other,
  although it is incremented before the commit (`CountExact`): a drain that has counted
  anything holds the write lock, so only the end of the process can undo it.
- **Liveness.** `EveryRequestEnds`; `LockComesFree`: whichever way the holder of the write
  lock ends, a duplicate key included, nobody keeps it.
- **Breaker and client.** `ClosedBelowThreshold`, `ProbeFlagExact`,
  `OneProbePerEpisode`, `TransitionsHaveCause`, `NeverStuck`; `VerdictExplained`,
  `OneCountPerCall`, `OutageBounded`, `EveryCallEnds`.
- **Ledger.** `ImplementsLedger` (once stored, a transaction never changes, and every
  duplicate, a conflicting one for another account included, is answered with it),
  `AppliedOnce`, `ReplyBalanceCurrent` (the balance is
  that of the moment of the commit, and exact while the amounts fit the precision),
  `AuditTrail`, `ViewCoversBalance` (a view can miss a transaction in its balance, never
  in its list, unless the list is full of transactions that are no older),
  `LabelExplained` (a view's currency is that of a transaction it lists, or of one no
  younger than a full list, or the default of an empty account).
- **Listing.** `Chronological` where each second is written in one form only,
  `NoEventSkipped`, `TotalCoversPages` (the total of an answer is never below the rows
  shown so far).
- **Recovery.** `DrainsOnRecovery`: every entry that the Account Service answers, with a 4xx
  or otherwise, is settled, whatever the breaker refuses, drains lose and clients post.
  It holds where no entry is poisonous; with one, `poison_probe` refutes it.
- **Pipeline.** `LimitEarned`: a 429 is given only to a client that had as many POSTs handled
  as the limit allows; `TypeOK` has the other half, no client gets beyond its limit.

### Where the code and its documents differ

1. A 4xx counts as a breaker failure (circuit_breaker.py:82); DESIGN.md:85 says it
   does not. Five rejected events in a row stop forwarding for every account.
2. A poisonous entry at the head of the outbox is every probe and keeps the breaker
   open until a client's event happens to be the probe, or a restart; README.md:27 promises
   that the outbox drains on recovery.
3. Of two concurrent requests for one event the loser gets a 500; README.md:24 says
   that duplicates return the original.
4. While one handler waits for the Account Service, another new event can be answered
   500 and not be stored; README.md:27 promises a 503 and a durable event.
5. Timestamps with and without a fraction sort wrongly within a second;
   core/timestamps.py:7 and README.md:25 say that the order is chronological.

Smaller observations, without a run:

- The event is not durable before the Account Service is called, it is only in the
  handler's open transaction; DESIGN.md:55 says "always persists locally first".
  `NoOrphanWithoutCrash` and `ContentAgrees` say what follows from it.
- `status_map` answers 200 for a duplicate of a FAILED event, which
  docs/api-contracts.md:25 describes as "previously applied".
- An amount that is no number is answered 500: `Decimal(str(v))` raises
  `decimal.InvalidOperation`, which is no ValueError (gateway/schemas/event.py:22; action
  `RequestPipeline!Refuse`).
- `outbox_depth` is set by the replayer only: to the length of its batch, at most 50, at
  the start of a drain, and to the true depth after the commit of one that gets there.
- The audit actions CB_OPENED, CB_CLOSED and RATE_LIMITED of DESIGN.md:141 are never
  written.
- A straggler can end a half-open episode before its probe returns, after which two
  probes run at once; each episode still has one (`OneProbePerEpisode`).
- A balance is exact only within 28 digits (docs/ai-workflow.md:55 has no such limit);
  `ReplyBalanceCurrent` states the limit.

## 4. Fairness

- `AccountClient`: `reset_timeout` passes; a request that was sent ends (httpx bounds
  each operation); some caller comes back to an open breaker whose timeout is over
  (the replayer polls as long as an event is queued).
- `EventGateway`: weak fairness of the handlers together (their waits have timeouts,
  their retries are counted; each has finitely many steps, so that one which can go on is
  not passed over for ever) and of the replayer's loop, which catches every exception.
  Nothing is assumed of the Account Service: a call that is not answered times out.
- `OutboxRecovery`: the replayer runs, a handler that was begun ends, the timeout passes,
  the outage ends. No client has to come back.
- `RequestPipeline`, `AccountLedger`, `EventListing` state no liveness and assume nothing.

## 5. What is proved

TLAPS proves these for all values of the constants, from the named assumptions of the
modules only (`FailMaxAssumption`; `RequestsAssumption`, `EventsAssumption`,
`BoundsAssumption`: event and request sets of any size, the session names distinct from
requests, no event both rejected and poisonous; `CallsAssumption`: the constants of a call
are functions of it; the ledger's `BoundsAssumption`: a view lists at least one
transaction; `SystemAssumption`: the counter's bound is at least two, and "absent" is no
request; `PipelineAssumption`: finitely many requests, only POSTs have a body, a limit of
at least one; `ClientAssumption`: at least one attempt, finitely many callers;
`PrecisionAssumption`: at least one digit; `ListingAssumption`: a microsecond is below a
million, a page has 1 to 500 rows). One theorem, `ListingChronological`, has a hypothesis
of its own.

- **CircuitBreakerProofs**: `TypeCorrect`, `ThresholdRespected`, `ProbeFlagNeverStale`,
  `ProbeAlone`, `TransitionsExplained`. The inductive invariant is the conjunction of the
  type invariant, the threshold and the probe flag's exact meaning; the flag's meaning
  needs that a half-open breaker's probe is among the admitted callers, which a
  straggler's outcome could break only by ending the episode.
- **AccountClientProofs**: `ClientUsesBreaker`, `ClientSpec => Spec`, with which the theorems
  above hold under concurrent, retrying callers (`BreakerSafeUnderClient`);
  `ClientTypeCorrect`, `VerdictTellsTheCall`, `OutageTripsBreaker`, `CallCountedOnce`. The
  invariant says that a caller is in its requests exactly while the breaker has it
  admitted (`Admission`), that what a running call was answered so far is transient
  (`OnlyTransient`), and, for the outage, that a failed request since the last success
  belongs to a call that was counted, at most `MaxAttempts` of them, or is a finished
  attempt of a call that still runs (`Covered`). The latter are counted as a set of pairs
  of caller and attempt, so that nothing has to be summed; this is where the callers have
  to be finitely many.
- **EventGatewayProofs**: `TypeCorrect`, `QueueConsistent`, `SnapshotFresh`,
  `ServicesAgree`, `NoOrphan`, `OriginalUnique`, `RepliesDurable`, `AuditComplete`,
  `Refinement`. No single one of these
  is inductive. `IInv` adds
  - `HandlerInv`: a handler in its call holds the lock and its event has no committed
    row; a handler's answer and position agree;
  - `SessionInv`: the replayer's batch and marks lie within the outbox, and marks
    exist only under the lock, so no handler can commit beneath a drain;
  - `LedgerInv`: the ledger holds only what was called for and is not rejected;
  - `SentKnown`: without a crash, an event that was called for is stored or in the
    hands of a handler.

  One lemma per conjunct proves that each step preserves it (`QueuedNext`, `AgreementNext`,
  `HandlerNext`, `SessionNext`, `ReplyNext`, `OriginalNext`, ...); `IInvNext` puts them
  together. The audit log has an invariant on top (`AuditInv`): its rows that are not
  DEDUPED are the first two and at most one later, at a position that stays where it is
  as the log grows.

  `Refinement` is `Spec => ImplementsLifecycle`. An event maps to
  RECEIVED while a handler is in its call and else to its committed status. One case per
  action: `Insert` is Receive, the three outcomes are Queue, Apply and Reject,
  `DrainCommit` is one Replay of all marked entries, `Crash` is Forget of the at most one
  event in a call, and the rest are Attempt, Record or stutters.
- **EventLedgerSystemProofs**: `ImplementsGateway`, `SysSpec => Spec`, with which the
  theorems above hold of the system too (`GatewayTheoremsHold` states them);
  `ContentKnown`, `ContentsAgree`, `CountsExact`. On top of `IInv` the invariant has
  - `ShippedInv`: what was sent for an event is the content of the handler in its call, of
    the committed row, or of a lost handler. It rests on the lock (two handlers never call
    at once) and on the replayer sending what the row has;
  - `NamesInv`: what is executed was sent, and is of its event;
  - `CountInv`: an event is counted exactly when this process has applied or marked it. It
    rests on marks existing only under the lock (`SessionInv`), so that no lock timeout can
    undo what was counted.
- **LedgerArithmeticProofs**: `TotalExact`: a total is the exact sum of the signed amounts, in
  whatever order they are added up, as long as the amounts together fit the precision. It
  is an induction along the list, with the sum of the amounts added so far as a bound on
  every partial total (`Between`), so that no step of `Plus` rounds (`PlusExact`, from
  `RoundFits`). Its lemmas give the folds a meaning: that the function which a fold or
  `Unit` chooses exists (`IterationExists`, `UnitExists`), that a sum over a finite set is a
  number (`SumsTyped`) and does not depend on the order (`SumAnyOrder`), and that a total is
  reached in one `Plus` per transaction (`TotalSteps`).
- **AccountLedgerProofs**: `StoredOnce`, `AuditComplete`, `ViewsCover`,
  `LabelsExplained`, `BalanceCurrent`, `TypeCorrect`, and `Refinement`,
  `Spec => ImplementsLedger`. `IInv` adds to the types
  - `LockInv`: a handler between its INSERT and its commit has the lock, and what it read
    back is still what the table has. This is what `ON CONFLICT DO NOTHING` as the first
    statement buys; with a lookup before it, it fails;
  - `OutcomeInv`: a stored row was answered 201 and is about the event of its call; a
    200 is about another call's row.

  The audit log and the views have invariants on top of it (`AuditInv`, `ViewInv`), and so
  have the balances: the table a session sums over has finitely many rows, all validated
  (`RowsInv`), and what it summed is still a total of them when it commits, because nobody
  else commits in between (`BalanceInv`). With `TotalExact` this gives `BalanceCurrent`. In
  the refinement `Commit` is Record or Repeat, `Refuse`, `LockTimeout` and `SumRaises` are
  Fail, and all else stutters.
- **EventListingProofs**: `ListingTypeCorrect`, `WalkShowsAll`, `TotalNeverShort`,
  `OrderedUpToFractions`, `ListingChronological`. `Before` is a strict total order, hence
  `Rank` is a bijection and `Listing` a permutation of the rows; an arrival never moves a
  row forward, so the invariant `Shown`, that of the rows stored when the walk began those
  that rank below the number of rows shown have been shown, survives it. For
  the order, `OrderedUpToFractions` says without any hypothesis that two events out of
  order lie in one second, one with a fraction and one without; `ListingChronological` has
  the hypothesis `OneForm`, that no second has events of both forms, which run `fractions`
  shows to be necessary.
- **RequestPipelineProofs**: `TypeCorrect`, `LimitedOnlyByOwn`. The invariant says that a
  client's count is at most the number of its POSTs that passed the limiter; these are a
  finite set that only grows, by one element in the step that counts.

Only model-checked: all liveness (`NeverStuck`, `EveryCallEnds`, `EveryRequestEnds`,
`LockComesFree`, `DrainsOnRecovery`), which is out of the prover's
reach. Every invariant and every action property of a passing run is a
theorem, except the type invariant of `OutboxRecovery`. Induction
over data is done over sets: the library's theorem that inclusion of finite sets is
well-founded has no operator parameter, and a set of counterexamples has a smallest one
(`SmallestSet`, `SubsetInduction`, `NumberInduction`). That a rounded total is near the
exact one beyond the precision is not stated anywhere and not proved.

## 6. Abstractions and what is not modelled

- An event id stands for one payload in `EventGateway`; `EventLedgerSystem` lifts that, but
  there too the id alone decides whether the Account Service accepts an event.
- Times are abstracted: any wait may time out, any call may take longer than any other.
- A commit and the answer that follows it are one step (section 2).
- The rate limit is taken to be enabled, as it is by default (config.py:31).
- A commit is atomic and, for the session that holds the write lock, succeeds.
- What the Account Service rejects (`Rejected`) are events that the Gateway's validation
  lets through, for instance an account id with a slash, which is no route of the
  Account Service and is answered 404.
- A task cancelled inside a breaker call leaves the breaker as it was; this happens only
  when the process ends, so it is part of `Restart`.
- A client that disconnects is not modelled: its handler runs to its end.
- Not modelled, because nothing in the program depends on them: logs and traces; metrics
  other than `events_applied_total`; the outbox's attempt counts, which nothing reads.
- Configuration: its values are the constants of the modules. The Account Service's start
  creates tables and registers handlers; its timestamps are the Gateway's function again.
- Tests, the smoke check and the deployment run the program and are no part of it.

## 7. Plan

Done: the Gateway with its abstract specification and proofs; its composition with the
contents that travel and the counter; breaker and client; recovery; the ledger with its
abstract specification and proofs; requests and their limit, with proofs; listing.

What is left to prove, in this order:

1. The composition of the two services: that `AccountLedger`, as the Gateway's calls reach
   it, takes the steps `EventGateway!Apply` and `EventLedgerSystem!SysApply` assume.
2. What the abstract specifications promise, as theorems of their own, so that they carry
   over to everything that implements them: a stored transaction never changes
   (`IdempotentLedger`), a settled event never moves (`EventLifecycle`).
3. Rounding beyond the precision: a result is within half a unit of the exact one.
4. The safety of `OutboxRecovery`: its type invariant, and what its batch and its marks say
   of the outbox.
