# Formal models of the Moomoo Alpha Console backend

TLA+ specifications of the FastAPI backend under `src/backend/app`, TLC
configurations that model-check them, and TLAPS proofs of their main
invariants. All paths below are relative to `src/backend/app` unless they
start with `src/`.

## 1. The system

The backend is one Python process with one asyncio event loop. Every HTTP
request is a task with an SQLAlchemy `AsyncSession` of its own over one SQLite
file (aiosqlite). Tasks interleave only where a coroutine really suspends,
which is at the database calls and at the calls that go to another thread; the
mock and paper broker adapters are `async def` bodies without an await inside,
so calling them does not let another task run. SQLite has one write lock: the
first INSERT, UPDATE or DELETE of a session takes it, its COMMIT or ROLLBACK
gives it back, and a second writer waits for the driver's timeout and then gets
"database is locked".

### Inventory

| Component | State it keeps | Operations | Interacts with | Hard behaviour | What makes it correct |
|---|---|---|---|---|---|
| Orders (`services/execution/order_service.py`, `api/routes/orders.py`) | rows of `orders` | preview, approve, cancel | risk engine, broker adapter, audit trail, runtime state | overlapping approvals and cancellations of one row, commits after the broker has acted, restarts | no duplicate open order; row, verdict, broker and audit agree; nothing in read-only mode |
| Risk engine (`services/risk/engine.py`, `api/routes/risk.py`) | the kill switch, in memory | evaluate eleven rules, offer a maximum quantity, set the switch | orders | switch thrown during an approval, lost at a restart, boundaries of the rules | a killed system places nothing; verdict monotone in size and consistent with the offered maximum; from one account |
| Local brokers (`services/broker/mock.py`, `paper.py`) | open orders, in memory | quotes, positions, place, cancel | orders, risk | orders forgotten at a restart | ids unique, a cancelled order stays cancelled |
| Moomoo broker (`services/broker/moomoo.py`) | SDK connection, the first account id it found | read-only account data | previews, guidance, price resolver | every failure looks like an empty answer, the account list may change | a failure is not taken for an empty account; one account for all reads |
| Position guidance (`services/position_management/profit_tail.py`, `api/routes/position_signals.py`) | rows of `position_management_signals`, `position_lifecycle_state`, `position_guidance_runs` | run, list, stale cleanup | broker, K-lines, price resolver | a run holds the write lock over network calls, two commits per run, one failing symbol, cleanup against old holdings, reopened positions | batch all-or-nothing, highs only rise, cleanup spares held positions, every run settles |
| Trading universe (`services/settings/trading_universe.py`, `api/routes/settings.py`) | a line of `.env`, `settings.universe_symbols`, a row of `app_settings` | resolve, save, delete | every screener and watchlist call | three places, rollback by hand, overlapping saves, torn file | the three places agree; a refused save leaves nothing; never empty |
| K-line cache (`services/kline/service.py`) | rows of `bars_1d`, error field and column cache in memory | get-or-fetch, batch | screener, guidance, price resolver | one error field shared by all requests, savepoint writes committed by the caller | a reported error is a recent one; results have no holes; a failed write is local |
| Price resolution (`services/market_data/price_resolver.py`) | none | fall-back chain quote, position, bars, cached close | broker, K-lines | each source fails or is empty by itself | yesterday's close only when nothing newer answered |
| Entry signals (`strategies/momentum_relative_strength.py`, `services/research/*.py`, `api/routes/signals.py`) | rows of `signals` and `entry_signal_runs` | screen, run, list, stale cleanup | K-lines, universe | runs waiting for the write lock, failures between flushes, universe changed under a cleanup, list cut before symbols are told apart | batch all-or-nothing; the list shows the last stored run; cleanup spares good rows; strength never hurts, twin providers agree |
| Watchlist (`api/routes/watchlist.py`) | rows of `watchlist_items` | list (seeds when empty), add, remove | universe | check-then-insert by two clients, two seedings | one row per symbol and list, unless the clients overlap |
| Audit trail (`services/audit/service.py`) | rows of `audit_logs` | append, in a transaction of its own | orders | missing entry after a crash | every submission audited |
| Sessions and start-up (`db/session.py`, `main.py`) | engine, adapter instances | lifespan, get_session | all | restarts | tables survive, memory does not |
| Runtime state (`services/runtime/state.py`) | configuration | read | order routes | - | the gate is asked first |
| Profiles, scheduler, health, diagnostics, websocket manager, frontend | configuration or display data | reads | - | none that changes state others rely on | - |

`PROJECT.json` lists the same components with their status, and under
`hazards` what is hard to test in this code, at the line where it bites.

## 2. Modules

| Module | Models |
|---|---|
| `OrderLifecycle` | approve and cancel over rows, sessions, broker book, kill switch, audit trail, restarts |
| `BrokerBook` | abstract: what the broker may see of all that |
| `OrderLifecycleProofs` | theorems about the two |
| `SignalTable` | abstract: how a table of signals is written; implemented by `PositionGuidance` and by `SignalDesk`; one theorem |
| `PositionGuidance` | guidance runs and stale cleanups over the SQLite write lock, an account that changes by itself, crashes |
| `PositionGuidanceProofs` | theorems |
| `TradingUniverse` | save, delete and resolve over `.env`, memory and row, restarts |
| `TradingUniverseProofs` | theorems |
| `BarStore` | abstract: what the readers of `bars_1d` rely on |
| `KLineCache` | get-or-fetch of daily bars over `bars_1d`, the service object, its callers' transactions, midnight, restarts |
| `KLineCacheProofs` | theorems |
| `RiskRules` | the eleven rules of the risk engine and its maximum quantity, as operators |
| `RiskRulesProofs` | lemmas about them, a theorem about the maximum |
| `ProfitTailLadder` | the decision ladder of the position guidance, as operators |
| `MoomooMomentum`, `LocalMomentum` | filters, scores and verdicts of the two screeners, as operators |
| `MoomooBroker` | the Moomoo adapter over a gateway that comes, goes and lists other accounts |
| `Cockpit` | composes these: order previews, price lookups, guidance and verdicts over the one adapter |
| `CockpitProofs` | theorems |
| `DeskRequests` | what the signal and watch list routes share: tasks, the write lock, the universe |
| `EntrySignals` | runs, listing and stale cleanup of entry signals |
| `Watchlist` | the watch list routes |
| `SignalDesk` | composes the three, with database failures, universe changes and restarts |
| `SignalDeskProofs` | theorems |
| `MC*` | constants and symmetry for TLC |

An operator whose comment starts with "Mutant:" is a variant of the definition after it, with a
plausible bug. Nothing in the specifications uses it: substituting it for that
definition must make TLC report the property it is listed with.

### OrderLifecycle

`rows` is the `orders` table (status, broker id, risk verdict), `seen[r]` the
ORM object that request `r` loaded, `outcome[r]` the status it decided on,
`book` the adapter's open orders, `audit` the audit table. A request is
`new -> loaded -> commit -> log -> done`:

- `Load` / `Forbid`: the read-only gate of the route and `session.get`;
- `Refuse`: the early returns for a wrong status *of the loaded row*;
- `DecidePlace`, `DecideFail`, `DecideReject`, `DecideCancel`: everything from
  there to the commit. This is one action because the local adapters do not
  suspend. The other nine rules of the engine (sizes, losses, universe, quote)
  are an arbitrary Boolean here (they are `RiskRules`); the duplicate rule and the kill switch are real;
- `Commit`: the ORM writes the changed columns by primary key, without a
  version check, so a later commit overwrites an earlier one column by column;
- `Log`: the audit entry, in its own transaction;
- `CommitFails`: a COMMIT raises. The except branch commits again in a session
  that needs a rollback first, which raises too, so nothing is stored;
- `SetKillSwitch`, `Restart`.

A broker order id is a fresh uuid, so the model identifies it with the request
that placed the order. `readOnly` is a variable that no step changes, so one
run covers both modes. `FILLED` is left out of the statuses: no code stores it in a row.

`BrokerBook` says what all this must look like from the broker's side: an order
is placed only with the switch off and no open order of its pair, orders are
closed one at a time, a restart forgets everything. `ImplementsBrokerBook` maps
its `live` to the open orders of `book`.

### PositionGuidance

`held`, `reachable` and `peak` are the account and the connection, which change
at any moment; `peak` is a history variable, the highest price really seen
since the position was opened. `high`, `signals` and `runs` are the tables,
`draft` and `staged` the dirty objects of a run's session, `writer` the holder
of the SQLite lock. A run is `new -> started -> scanning -> saved -> done`:
`Start` flushes the run row and so takes the lock, `FetchPositions` asks the
broker, `Evaluate`, `EvaluateError` and `EvaluateLost` go through the positions, `CommitSignals`
stores everything and gives the lock back, `CommitCompleted` stores the
counters. `RollBack`, `CommitFailed` and `GiveUp` are the route's except branch
and its own failure. `EvaluateLost` is the inner except of the loop: the evaluation
of a position has raised and the storing of its DATA_ERROR row raises as well,
which is only logged, so the run goes on and completes one row short, with a
`signals_generated` that counts the row. The history variable `lost` holds such positions.
(A failed autoflush, which spoils the session, ends in `RollBack` at the commit.)
The cleanup is asked, read and deleted in three steps
(`CleanupFetch`, `CleanupRead`, `CleanupDelete`).

Of the decision ladder only the drawdown branch is kept here, the one that reads the
lifecycle high; the others give `GUIDANCE` (the whole ladder is `ProfitTailLadder`). `BrokerRaises` is the contract
between adapter and routes: the routes are written for an adapter that raises
when it cannot ask, `MoomooBrokerAdapter` returns `[]`.

`SignalTable` says what is left when runs, sessions, the lock and the account are
taken away: a run puts its signals into the table in one step, once, at most one
for each symbol, and everything else only deletes. `ImplementsSignalTable` maps
its `rows` to `signals` and its `stored` to the runs that have ever committed a
signal. The entry signals, written by other code with other failures, promise the
same, so `SignalDesk` implements it too; there `stored` is the COMPLETED runs.

### TradingUniverse

A validated list of symbols is a model value; an empty list and a missing line are
`None`. `Init` is any installation: `.env` has a list or not (the default of
`core/config.py` is the empty one), there is a row or not, and a row may say something
else than `.env`. `given` remembers that state. `SaveWrite` remembers file and
memory and replaces both, which the code does without an await, or cannot write the
new file (`SaveWriteFails`); `SaveSelect` reads the row (`found`, `foundId`);
`SaveCommit` inserts, updates, or sends nothing when the row already said so;
`SaveFails` is a failing SELECT or COMMIT with its rollback, after which other
requests may run before `SaveRestore` puts file and memory back. `RestoreFails` is a
`restore_env_file` that raises, before or after it has truncated the file: the
memory is then not put back, and keeps the refused list. `DatabaseMayFail` and
`FilesMayFail` say which failures an instance has; `settled` is what the last
accepted request left. A `.env` of which only a part was written counts as one
without the line.
`rowId` tells a row from a later row with the same key, because an UPDATE or
DELETE goes by primary key. `Restart` reads the file again; a restart that hits
`restore_env_file` between its truncation and its write can leave it without
the line. `trouble` is a history variable saying whether any request was
overlapped, cut off, tore the file, or failed to restore (`unrestored` when `.env` was
left as it was, `parted` when it was truncated and memory was not), so that one run can state both what holds always and what
holds for undisturbed requests.

### KLineCache

`bars` is the table, `staged` what a session has in its open transaction,
`writer` the holder of the SQLite lock, `service` the `KLineService` object
(column cache, error field), `result` the `KLineFetchResult` of a session's last
call. A *batch* is a guidance or screener run: it flushes its run row before it
asks for bars, so it has the lock throughout, and its cache writes become
visible with its commit or vanish with its rollback. A *reader* is the
diagnostics route, which asks for several symbols in one session and never commits:
it has no transaction, so the savepoint around a cache write is outermost and its
release commits. When that write fails, though, SQLAlchemy only rolls back *to* the
savepoint: SQLite's transaction stays open until the session closes (`unreleased`),
a write that had got the lock keeps it, and what the reader stores for later
symbols is released inside that transaction (`InTransaction`) and lost at the close.
A call is
`idle -> inspect -> select -> write -> idle`:

- `Begin`: the window `[today - Lookback, today]`, the error field cleared;
- `Inspect`, `InspectFails`: PRAGMA table_info; a failure leaves the empty column
  set behind, after which calls fetch and write nothing, until another session's
  inspection that was under way replaces it;
- `ReturnCached`, `Miss`, `SelectFails`: the answer of the SELECT;
- `Fetch` is part of the last step before it, because the provider is called
  without a suspension: `ProviderRaises`, `ProviderEmpty`, `ProviderAnswers`;
- `WriteCache`, `WriteFails`: the savepoint is released or rolled back to; the
  caller gets the fetched bars in both cases. `LeftOpen` is what a failed write
  leaves of the transaction.

A day stands for a trading day and a symbol has a bar on every day up to the last
that the provider knows. `NextDay` assumes that no call lasts longer than from
one midnight to the next. One `Lookback` for all: every caller passes 400 or uses
the setting whose default is 400. Prices are left out; so are the counters the
status page shows.

`BarStore` is the table without sessions and calls: in one step any number of
symbols get bars, none is lost, and below the newest bar of a symbol nothing of
today's window is missing. `ImplementsBarStore` needs no mapping, because `today`
and `bars` are the same variables.

### Cockpit, with MoomooBroker, RiskRules, ProfitTailLadder and the momentum modules

`MoomooBroker` is `MoomooBrokerAdapter`: `connected` is set by the start-up alone
and never again, so an OpenD that was away then is away for good; `accountId` is
remembered from the first `get_acc_list` that succeeds, the fallback to an
account of another environment included. `Query` is one read: an SDK call is
synchronous, so it is one step, and it answers from the remembered account or
with the zeros and empty lists of a failure (`None`). `opend` and `listed` are the
gateway, which changes between any two reads.

`request` is the one request under way. The requests of this module keep their
data to themselves and share the adapter alone, whose state only grows from
`None` to an account until a restart, so interleaving more of them adds no behaviour that one
request over an arbitrarily changing gateway does not have.

- `Preview` to `Evaluate` is `preview_order`: account, quote, positions, open
  orders, each a read that fails by itself, then the rules of `RiskRules`. The
  preview passes `connected = TRUE` whatever the adapter is, and the adapter
  reports neither loss nor drawdown. `Raises` is the multiplication by a missing
  position price; the answer is then an error. Money is in whole units,
  percentages of the rules in tenths; comparisons are multiplied out, so nothing
  is rounded. A limit price of 0 passes the size rules, as it does in the code.
- `Lookup` to `LookupCached` is `PriceResolver.resolve`; `failed` records which
  sources raised or could not be asked.
- `Advise` evaluates the ladder on a position. Two branches of the code can never
  decide anything (a threshold or-ed with itself and a moving average, the
  drawdown inside the tail), and the operators leave them out with a comment
  saying so. The ladder has a corner worth knowing: a tail position at a loss of
  less than the review threshold is told to hold even below its averages.
- `Screen` gives the verdict of the Moomoo provider. `LocalMomentum` is its copy
  for generated data, written from its own lines; `INSTANCE` keeps the two apart.

### SignalDesk, with DeskRequests, EntrySignals and Watchlist

A request is made once and is of any kind. `writer` is the holder of the SQLite lock
between two of its steps, which only a run needs: the other writers take it and
give it back in their commit, for which the lock must be free. A run is
`wait -> locked -> storing -> report -> done`: `Run` builds the runtime state, so
it reads the universe and takes the creation time of its row *before* it waits
for the lock; `Lock` is the flush of the run row; `Screen` the provider call;
`Flush` one signal, with the time of its own flush; `Complete` the commit;
`Report` the answer, with `_latest_entry_run`. `Fail` is a provider that fails before
any signal is flushed (the run is stored as FAILED), `Reject` a missing profile.
When a flush or the commit raises, the except branch commits again in a session
that needs a rollback first, so that raises too and nothing is stored, not even
FAILED (`DatabaseFails`). `Listing` is the filter of `GET /signals`, whose limit
is applied before the rows are told apart by symbol. `CleanUp`, `LoadStale` and
`DeleteStale` are `DELETE /signals/stale`; the universe may change between them.

`Watchlist` has `Show` (the GET, which fills an empty list with the universe),
`Add` and `Remove`, each with its SELECT in one step and its commit in another
(`Insert`, `RemoveFound`). The tables have no unique constraint on symbol and
list. `before[r]` remembers who had finished when `r` arrived, which is how
"overlapping" is stated; `lastStored` and `steady` are history too.

## 3. What TLC checks

| Run | Specification | Instance | Shows |
|---|---|---|---|
| `order_races` | `Spec` | 3 requests, 2 rows of one pair, failing commits, refusing adapter, both modes | safety and the refinement of `BrokerBook` |
| `order_live` | `SteadySpec` | the same with successful commits | open orders are traceable, submissions are audited |
| `order_stale_pending` | `Spec` | 3 requests | **violated**: placement of an order already cancelled |
| `guidance_runs` | `Spec` | 2 runs, 2 symbols, 2 prices, failing evaluations, statements and commits, crashes | batches, highs, the refinement of `SignalTable` |
| `guidance_requests` | `SteadySpec` | 2 runs, 1 cleanup, 1 symbol | cleanup, answers, settling |
| `guidance_offline` | `Spec` | 1 run, 1 cleanup, adapter that returns `[]` | **violated**: signals of held positions deleted |
| `guidance_reopen` | `Spec` | 2 runs, 2 prices | **violated**: exit against the high of an earlier position |
| `kline` | `Spec` | 2 symbols, a batch and a reader over both, a batch over one, 4 days, lookback 2, staleness 1 | holes, errors, failed writes, the refinement of `BarStore` |
| `decisions` | `Spec` of `Cockpit` | 2 accounts, 3 account lists, 2 symbols, 80 orders, some 660 positions, 2700 observations | the rules, the fall-back chain, the ladder, the verdicts |
| `entry_signals` | `Spec` of `SignalDesk` | 3 requests of any kind, 2 universes, 2 symbols and the benchmark, 2 lists, a page of 2 rows | batches, reports, listing, cleanup, watch list, the refinement of `SignalTable` |
| `universe` | `Spec` | 3 saves, 2 deletes, 2 lists, any installation, failing database and file | agreement, never empty, all-or-nothing |
| `universe_refused` | `Spec` | 2 saves, 3 lists, failing database | **violated**: a refused list stays in force |

The properties, apart from the inductive invariants `IInv`:

- `NoDuplicateOpenOrder`: never two open broker orders for one symbol and side.
- `VerdictMatchesStatus`: status and risk verdict of a row come from one
  decision, although overlapping commits write single columns.
- `RecordsTruthful`: ids in rows and audit entries were issued for that order.
- `ImplementsBrokerBook`: the refinement. That no order is placed while the kill
  switch is on (`KillSwitchStopsPlacement`) is a part of it, so no run states it
  apart; `NoOrderWithoutApproval` and `ReadOnlyIsInert` are conjuncts of `IInv`.
- `OpenOrderTraceable`: an open order's row has its id, or is about to. It needs
  commits that succeed: with a failing commit the order stays open at the broker
  with a PENDING row, which is why `order_live` checks it and `order_races` does
  not.
- `SubmissionsAudited`: liveness. (That every request is answered goes without
  saying here: no handler waits for another, and none has a loop.)
- `BatchAtomic`: a run stores exactly one signal for every position it found or
  none at all, except that a position whose own storing failed has no signal
  (`lost`). "That symbol produces a `DATA_ERROR` signal" (`src/README.md:73`) does not
  hold of such a position; that the rest of the batch is not affected does.
- `ImplementsSignalTable` (twice): however runs fail, crash or are cleaned up
  after, a batch appears in one step and nothing is added to it later.
- `HighCoversSignals`, `HighNeverFalls`: signals and lifecycle rows agree and a
  run that writes back what it read never lowers a high; both rest on the lock
  a run takes before it reads.
- `CleanupSparesHoldings`: what a cleanup deletes was not held when it asked.
- `RunsAnswered`, `RunsSettle`: liveness of runs; a RUNNING row of a request
  under way is settled unless another run takes the lock between its two commits
  (then it can stay RUNNING for ever: nothing repairs it).
- `ResultHasNoHoles`: the bars of a result are all the days between its first
  and its last. The code decides a hit by the newest bar alone, so this rests on
  every fetch covering its whole window, on transactions being kept or dropped
  as a whole, and on windows moving by one day at most during a call.
- `ErrorIsRecent`: the error a caller is told was raised during its call. It can
  be another symbol's: the field is shared by all calls, so the stronger
  statement, that it is the call's own, does not hold.
- `BatchKeepsItsBars`: "A failed write for one symbol does not poison the session
  or affect other symbols" (`src/README.md:407`), which speaks of a batch run. A
  reader does lose the bars it stores after a failed write; they are fetched again.
- `ImplementsBarStore`: the table of bars only grows, whatever fails, is rolled
  back or restarted, and always by whole windows.
- `MemoryFollowsFile`: memory and `.env` are equal at every step, unless a rollback
  has truncated `.env` and raised before it wrote the rest.
- `UniverseNeverEmpty`: with a list in `.env` at installation the program resolves
  to an empty universe only after a torn `.env`; with a list in the row alone only
  after a DELETE, which takes the row and has nothing in `.env` to fall back to. With
  neither it is empty from the start.
- `AllOrNothing`: without overlap, stop or failing rollback, memory and row are between
  requests what the last accepted request left, at whatever step another failed.
- `BeyondMaximumRefused`: an order for more than the maximum the same answer
  offers is refused. The maximum ignores what is held and the risk per trade,
  so the converse does not hold: the offered quantity may itself be refused.
- `ShrinkingNeverHurts`: a smaller order is allowed wherever a larger one is.
- `VerdictIsOfOneAccount`: an allowed preview whose reads all succeeded would be
  allowed on the data of some one account. Without "succeeded" it is false, and
  that is the code's behaviour: a failed read gives a total of zero, which the
  size rules skip, or no positions and orders, to which nothing is added.
- `StaleCloseOnlyAfterFailedRead`: the resolver answers with a close, or not at
  all, only if quote and position had no price or could not be asked.
- `DefenceMonotone`: a lower price never makes the guidance less urgent, so no
  loss falls between two thresholds and no branch shadows a more severe one.
- `NothingDueWhenHeld`: HOLD outside the tail means that nothing is due.
- `StrengthNeverHurts`: a better return never gives a worse verdict, whichever
  sign the benchmark's return has.
- `ProvidersAgree`: the two copies of the screener give one verdict on every
  candidate both judge with one reward score.
- `IInv` of `SignalDesk` contains `BatchAtomic`: every stored signal belongs to a
  completed run, however far a failing one got.
- `NeverOlderRun`: the run an answer names is the client's own or a later one.
- `ListingCurrent`: what the last run to store signals says of a symbol of the
  universe is what the list shows, while the universe fits into the rows read.
- `CleanUpKeepsReal`: a cleanup deletes no real row of a symbol that was in
  the universe from its first to its last step.
- `DuplicatesNeedOverlap`: two entries of one symbol in one list come from
  requests that overlapped. That they can is a property of the code (no unique
  constraint), which the repository says nothing against, hence no finding.

### Bounds

Every request is made once, so behaviours are bounded by the number of
requests and no counter needs a cap. Three order requests are the smallest
number with which an approval can meet a finished and an unfinished other one
(approve, cancel, approve again); two rows of one pair are needed for the
duplicate rule. Two runs are needed for a stale write-back and for the lock;
two symbols for a batch in which one fails; prices 1 and 2 are 50% apart, which
crosses the 35% drawdown. Three saves are needed for a rollback to overwrite
one save while another is under way; two batches contend for the lock while a
reader, which asks for both symbols so that it stores one after a failed write of the
other, writes between them; four days, a lookback of 2 and a staleness of 1 are
the least with which a cached day can be too old for a hit, inside the window,
and then outside it. In `universe` two lists are enough to tell what was there from
what was asked for; `universe_refused` has three, to tell apart old, first and
second.

In `decisions` one request at a time is enough (see above). The orders are around
every limit (0, 1, 2, 3 and 6 pieces at 10 against a total of 1000 or 400, a stop
near and none), the positions have every price at and next to each rung of the
ladder, the observations a value on both sides of every threshold, with a rising,
a flat and a falling benchmark. Two accounts and three account lists (none,
one, both) are the least with which the remembered account differs from the one
that would be selected now. In `entry_signals` three requests are two runs that
wait for one another and a cleanup or a third run between them, or three watch
list requests of which two overlap; a page of two rows for a universe of two
symbols makes the limit bite on the rows of an older run. `kline` and the order
runs do not need more for the same reason: what a session does is told apart by
the others only through the lock, the tables and one shared object.

Symmetry is used only in runs without liveness. Requests, runs, symbols
and lists are interchangeable in the specifications; rows and pairs are not
(they are fixed by `KeyOf`) and are left out of the symmetry.

### Fairness

`SteadySpec` is one server run: no restart, and weak fairness of each request's
steps (`Handle(r)`, `RunStep(r)`). The event loop runs every ready task, an
answer from the database thread makes its task ready, and a wait for the write
lock ends with the lock or with the driver's timeout, which are both steps of
the model. Nothing is assumed fair about clients, the account, the connection
or the kill switch.

### Findings

1. `order_stale_pending` (`services/execution/order_service.py:79`): the status is checked on
   the loaded row only; a cancellation committed meanwhile is overwritten and
   the order goes to the broker.
2. `guidance_offline` (`api/routes/position_signals.py:211`): an unreachable OpenD looks like an
   empty account to the cleanup.
3. `guidance_reopen` (`services/position_management/profit_tail.py:219`): the high of a closed position is
   used for the next one in the same symbol.
4. `universe_refused` (`api/routes/settings.py:58`): the rollback of one save restores what another,
   later refused, had written.

Each is also bounded by a theorem (section 4): the first needs two handlers of
one row at once (`PlacedWhilePending`), the second an OpenD that is away
(`CleanupSafeOnline`), the third a
symbol bought again (`RealExits`), the fourth two requests at once, or a rollback that
itself fails
(`SerialLeavesNoTrace`).

## 4. What is proved

For any sets of requests, rows, pairs, runs, symbols, prices, lists, accounts,
orders, positions, observations and limits, and with the assumptions named in the modules
(`None` is none of the others, flags are Booleans, prices are positive, `KeyOf`
is a function, an account's symbols are finitely many, limits and thresholds are
natural numbers, the loss thresholds are in order).

**OrderLifecycle.** None of the properties is inductive alone. `IInv` adds what
the handlers know of each other: a request between decision and commit holds a
decision its handler can make (`DecisionsLegal`); a request that is logging has
committed (`LoggedAfterCommit`); an id is visible in a row or a session only
after the request it stands for has committed (`IdsPublished`); so nobody can
have cancelled an order whose id is not yet committed (`UncommittedStaysOpen`),
which is what `OpenOrderTraceable` needs (`NoOrderWithoutApproval` is a conjunct of it too); and behind the read-only gate nobody
is past the first step (`GateHolds`). `TypeCorrect` and `Inductive` are the two
invariance proofs, `NoDuplicates`, `Verdicts`, `Truthful`, `Approved`, `Traceable`
(assuming commits do not fail) and `ReadOnlyInert` follow. `KillSwitchTheorem`
shows that only `DecidePlace` adds to the book. `Refinement` maps every step to
a step of `BrokerBook` or a stutter.

What `order_stale_pending` refutes is proved under the condition that is missing:
`PlacedWhilePending` and `StatusAdvances` (a status leaves PENDING for anything,
anything else for CANCELLED only, CANCELLED never) hold of every behaviour in
which no two handlers *of one row* are under way at once (`Serial`). Handlers of
different rows may overlap as they like, commits may fail and the process may
restart. The invariant is `ReadIsCurrent`: what a handler has read is still what
the table says until it has committed.

`GoForward` is progress that needs no fairness: each of its
own steps takes a handler to a later stage and no step of anything takes it
back, so four steps end it. `SteadyIsSpec` carries all theorems over to the
fair behaviours that `order_live` checks.

**PositionGuidance.** `IInv` ties the lock to the program counters
(`LockHeld`), says that only a scanning session has staged signals
(`StagedWhileScanning`) and that the holder of the lock has drafts at or above
everything stored and staged (`StagedAbove`); that makes the commit keep
`HighCoversSignals` (`HighsCover`) and never lower a high (`HighsRise`).
`CleanupSafeOnline` proves `CleanupSparesHoldings` for every adapter as long as OpenD
can be reached (`[]reachable`); `guidance_offline` shows that the condition is needed of
`MoomooBrokerAdapter`, and `guidance_requests` that an adapter which raises would not need
it. `Batches` proves
`BatchAtomic` from an invariant of its own, `BatchOf`: while a run scans, the
symbols of its staged signals are those it has gone through and not lost, one signal
each; an injection from signals to symbols then gives the equal cardinalities
(`OneEachCounts`).

`TableRefinement` rests on `BatchOf` too: a run that commits has stored nothing
before and has one signal for each symbol (`StepTable`). `NoTwoSignals` is a
theorem of `SignalTable` alone, and `OneSignalEach` carries it down through the
refinement. `RealExits` proves `ExitAfterRealDrawdown`, which `guidance_reopen`
refutes, for behaviours in which no symbol that has been priced is bought again
(`NoReopening`): then no draft and no stored high exceeds the price really seen
(`SeenHighs`), and a drawdown from a lower high is one from a higher high
(`DeeperFromHigher`).

`RunsForward` is the part of `RunsAnswered` that needs no fairness: a step of a
run leads to a later stage or takes a position off its list, and nothing puts
one back. `RunningOnlyLocked` is that of `RunsSettle`: when commits succeed, a
request that ends with its row still RUNNING was stopped with the process or met
another run's lock. `SteadyIsSpec` as above.

**KLineCache.** Holes are excluded by an invariant on sets of bars instead of
results: `Closed(B)` says that below any day of `B` nothing of today's window is
missing. It is kept by unions (`ClosedUnion`), by fetches from the start of a
window, and by midnight, which only shrinks the window (`StepClosed`). A call
under way has today's or yesterday's window (`WindowInv`), and that is near
enough for what its SELECT finds to have no hole (`CachedNoHoles`, `NoHole`).
`WriterInv` says who may hold the lock and have bars staged: batches, and readers whose
failed write has left their transaction open.
`ErrorInv` carries the error field across other sessions' calls for
`RecentError`; `KeepsItsBars` is the action property. `StoreRefinement` maps
each step to one of `BarStore`: writes and commits only add (`TableGrows`), and
`Closed` is `Complete` there. All of it holds for any
lookback and staleness bound, so not for the values 400 and 5 alone.

**RiskRules and Cockpit.** `RiskRulesProofs` proves, for every order context, that
within the limits a smaller quantity breaks no rule and that the size rule
refuses whatever is over the maximum. `MaximumIsExact` adds that for a symbol
that is not held it refuses nothing else: the maximum is a quotient rounded down
and the rule compares products, and the two agree at every quantity. (For a
symbol that is held the maximum may be refused, see section 3.) A verdict is computed in the step that
ends a request and must still describe that request later, which is `Sound`;
with it `MaximumIsKept`, `ShrinkingIsSafe`, `DefenceIsMonotone`,
`HoldMeansNothingDue` and `StrengthIsRewarded` follow from facts about the
operators, for all values of limits, thresholds and margins that satisfy the
named assumptions. `CopiesAgree` assumes the default parameters, because
the copy has them built in. `VerdictsAreConsistent` needs `OneAccount`: the
answers a preview has so far are from the remembered account or failed.
`StaleCloseIsLast` needs `Passed`: a lookup at its third step has passed the two
before it for a reason.

**SignalDesk.** `BatchInvariant` proves `IInv`, which ties the lock to the
handlers (`LockHeld`), gives a run that reports a row (`ReportedStored`) and one that
has not ended none (`Undecided`). On top of it each property has one
invariant: `Unanswered` for `AnswersAreCurrent`; `Freshest` for `ListingIsCurrent`
(the signals of the last run to store are newer than all others, one for each
symbol, so no more than the page holds can precede them); `CleanUps` for
`CleanUpIsSafe` (what a cleanup loaded was stale in the universe it read);
`Entries` for `DuplicatesOverlap`. `TableRefinement` uses `Freshest` (the batch
about to be committed has one signal for a symbol) and `Undecided` (its run has
stored nothing before), and `OneSignalEach` follows as in `PositionGuidance`.

**TradingUniverse.** A save remembers a file and a memory that are equal
(`OldInStep`), so restoring both keeps them equal (`InStep`), until a restoration
fails halfway. `NeverEmpty` proves, for every installation, that only a torn file
empties a universe that `.env` gave, and only a DELETE one that the row alone gave. `Alone` describes an
undisturbed request (what it found is what the last accepted save left, and the
row is unchanged until its commit), from which `SerialAtomic` derives
`AllOrNothing`. `SerialLeavesNoTrace` proves what `universe_refused` refutes, up
to the first overlap or failing restoration (`Serial`): as long as requests come one
after the other and rollbacks succeed, the list in
force is no refused one, unless the refused save found it there or another save
was granted it (`OneAtATime`, `Traced`).

Only model-checked: the liveness properties `SubmissionsAudited`,
`RunsAnswered` and `RunsSettle`, because the prover does not
do fairness; `GoForward`, `RunsForward` and `RunningOnlyLocked` are the safety
side of that progress. Each of the four violated properties is proved under the condition whose
absence its counterexample uses.

## 5. Not modelled, and the plan

Done, in this order: `OrderLifecycle` with `BrokerBook`, `PositionGuidance`,
`TradingUniverse`, `KLineCache`, `Cockpit` with its operators and its adapter,
`SignalDesk` with its two halves, each with its runs and proofs. What could be
added:

1. An abstract list in force, implemented by `TradingUniverse` when requests do
   not overlap, and one of the watch list in the same sense.
2. The quantities the guidance suggests for a trim, with the remaining quantity
   over several runs.
3. The prices in `bars_1d`: a hit returns the unadjusted close and a fetch the
   adjusted one, a hazard no property covers yet.

Left out for good: the averages, returns and ranges behind an observation, the
weekly resampling, symbol validation and formatting, the answers of the Moomoo
market data provider (nothing in the modelled parts keeps them), table creation and column migrations, strategy
profile seeding (once, at start-up, without concurrency), the scheduler (its
jobs log a line), health and diagnostics (reads), the websocket manager (its
`broadcast` has no caller), the frontend (presentation of the API), and the
Moomoo and yfinance SDKs (external). That the kill switch is off after a restart
is in the model (`Restart`), but nothing in the repository says whether it
should be, so no property does.
