# Stock AI Platform: TLA+ models

The platform collects Korean market data, scores stocks, recommends, checks
holdings, and turns a decision into an order: an *order candidate* that an
operator approves, which becomes a simulated ("paper") order or, behind ten
gates, an order at the broker KIS. It is one FastAPI process with a pool of
request threads, an APScheduler thread in the same process, and one SQL database
(SQLite in development, PostgreSQL in production).

The modules follow the code in that order of importance: first where money, state
and concurrency meet (approvals, risk limits, real orders, the paper ledger, the
wire to the broker), then what serves requests (login, watchlists, calls to data
providers), then the daily work (jobs, notifications, collection, decisions,
outcomes, backtests, imports).

## 1. Inventory

| Component | State | Operations | What is hard | What makes it correct |
|---|---|---|---|---|
| Approval workflow (`app/approval`, `api/approval_routes.py`) | `order_candidates`, `approval_audit_log`, `virtual_orders` | create, approve, reject, expire, the 5-minute expiry job | check, then write, in separate statements of concurrent transactions; restarts; settings cached per process | one order per candidate; decisions are final; the audit log explains the row; an overdue candidate is resolved |
| Pre-trade risk engine (`app/risk`) | none: reads candidates and the account | seven rules | limits at their boundary; what a concurrent creation does not see | caps hold of the committed rows |
| Real order executor (`broker/real_order_executor.py`) | `real_orders`, audit log | `execute`: gates 1 to 10, dry-run branch, real branch | an answer that is lost, a crash with the order already at the broker, midnight | a submitted row has an order of its own at the broker; one live order per candidate; the daily cap |
| Fill synchronisation (`broker/fill_sync_service.py`, `api/real_order_routes.py`) | `real_orders.status`, `real_fills` | `sync_fills` | row and total are read around a network call | fills never run ahead of the broker; terminal means terminal |
| KIS order transport (`broker/kis_order_transport_real.py`) | none | place, query, cancel, with retries | what an HTTP answer allows to conclude | no order is placed twice by a retry; a definite answer is true |
| Paper broker and ledger (`broker/simulation_broker.py`, `app/paper`) | `virtual_accounts`, `_orders`, `_positions`, `_fills`, `_pnl_snapshots` | submit, cancel, match at close, snapshot | a cancellation racing the matching job; balances computed from earlier reads | cash and positions are the sum of the fills |
| Scheduler, job runner (`app/scheduler`) | `job_runs` | 12 jobs on a timetable, `run_job`, jobs run by hand | two sessions, two commits; a job that needs what a later job collects | a run's row tells what the run wrote |
| Notification (`app/notification`) | `notification_logs` | three dispatchers, deduplication, send | sending is not transactional; the list that deduplicates has a limit | no alert is recorded twice; what is lost is accounted for |
| Login and brute-force guard (`app/auth`) | failure counters in memory, users, audit, tokens | login, me, logout, token check | check and count are two critical sections; nobody re-reads the user | a locked key stays locked; access ends with the token |
| Watchlists and preferences (`api/watchlist_routes.py`, `preferences_routes.py`) | `watchlists`, `watchlist_items`, `user_preferences` | CRUD per user, default list | ownership is checked in an earlier statement; SQLite has foreign keys off and reuses ids | only owners write; references hold; one default |
| Provider resilience (`data/provider_resilience.py`, `provider_health_monitor.py`) | breaker state, call log, statistics | `call`, `retry_with_backoff`, `_log_call` | one breaker for all targets of a provider; answers given without a call | open means no calls; the statistics digest the log |
| DART and RSS providers, ingestion (`data/dart_provider.py`, `rss_provider.py`, `data/ingestion/`) | news, disclosures, fundamentals, earnings tables | fetch, classify, deduplicate, store | repeated and reordered listings, limits and cut-offs | what was fetched is stored, what was stored stays |
| Market data collection (`data/collectors/`) | rankings, stocks, universe, daily prices; the token | `collect_market_close_data` | a token that dies between requests; a bad row in the middle | each symbol's bars are of one answer |
| CSV imports, consensus (`data/importers/`, `data/aggregators/`) | report, earnings, fundamentals tables, consensus snapshots | import, dry run, `update_consensus` | rows that fail half-way; keys with NULLs | importing again adds nothing |
| Score producers and rules (`app/analysis`, `decision/scoring_engine.py`, `risk_engine.py`) | none | score, weigh, flag | missing inputs, boundaries, nesting of producers | scores stay on scale; order of nesting does not matter |
| Decision engines (`app/decision`) | `holding_checks`, `recommendation_runs`, `recommendations`, `recommendation_results` | check, recommend, review outcomes | late bars, repeated runs, a score compared with a differently computed one | a decision follows from its inputs; horizons agree |
| Strategy and backtest (`app/strategy`, `app/backtest`) | `backtest_runs`, `backtest_results` | run, walk-forward, compare | the tables move while it reads | what a backtest claims follows from its rows |
| Read-only API, reports, monitoring, scripts, migrations, frontend | none | queries | - | - |

How they interact. A route opens a session, calls a service, commits; the
service calls repositories, which flush. The scheduler calls `run_job`, which
gives each job a session of its own. `approve` calls the paper broker inside its
own transaction. `execute` and `sync_fills` call the KIS transport in the middle
of a transaction. Jobs leave each other rows: prices feed indicators, indicators
feed checks and recommendations, recommendations feed outcomes and backtests. All
components share the `Settings` of the process, which `get_settings` caches: a
switch changes by a restart only. There are no callbacks and no messages; the
database is the only thing two threads share, apart from the login guard, the
rate limiter and the breakers.

`PROJECT.json` lists each component with its status and each hazard at its line.

## 2. Modules

| Module | Models | Uses |
|---|---|---|
| `PreTradeRisk` | the seven rules of `PreTradeRiskEngine.evaluate` as operators | - |
| `CandidateLifecycle` | abstract: what a candidate may become, and when it may have an order | - |
| `ApprovalWorkflow` | routes, service, repository, expiry job, `submit_order` | `PreTradeRisk`, refines `CandidateLifecycle` |
| `RealOrderLifecycle` | abstract: the status machine written in `db/models.py` and the duplicate guard | - |
| `RealOrders` | `RealOrderExecutor.execute`, `FillSyncService.sync_fills`, the sync route, the broker | refines `RealOrderLifecycle` |
| `KisTransport` | `place_order`, `query_fill_status`, `cancel_order` request by request | - |
| `PaperBroker` | paper routes, `SimulationBroker`, `PnLTracker`, cost model, the paper jobs and their timetable | - |
| `DailyJobs` | `run_job`, the collecting, computing, checking and reporting jobs, the dispatchers, the timetable, an operator's shell | - |
| `LoginGuard` | login, me, logout, the guard's records, tokens | - |
| `Watchlists` | watchlists, items, preferences on PostgreSQL and SQLite | - |
| `ProviderCalls` | retry loop, breaker, health monitor, DART and RSS fetches, four ingestions | - |
| `MarketData` | KIS client and token, normalizers, two collectors, their tables | - |
| `ScoreRules` | score, weight, flag and penalty arithmetic, as operators | - |
| `ScoreEvidence` | the rows behind a symbol's scores, as they arrive and age; nested producers | `ScoreRules` |
| `DailyDecisions` | holding checks, recommendation runs, reviewed outcomes | `ScoreRules` |
| `Backtests` | strategies, single runs, walk-forward, comparison | `DailyDecisions` |
| `Imports` | three CSV imports row by row, the consensus job | - |
| `Services` | the composition of what serves requests, and the shape of its state | `PaperBroker`, `LoginGuard`, `Watchlists`, `ProviderCalls`, `KisTransport` |
| `DailyWork` | the composition of the daily work, and the shape of its tables | `DailyJobs`, `MarketData`, `Backtests`, `ScoreEvidence`, `Imports` |
| `ApprovalWorkflow_proofs`, `RealOrders_proofs`, `PaperBroker_proofs` | theorems about the module named before the underscore | that module, `SumTheorems`, `TLAPS` |
| `DailyJobs_proofs` | theorems about the jobs; the composition `DailyWork` | `DailyJobs`, `DailyWork`, `DailyData_proofs` |
| `OutsideCalls_proofs` | theorems about the modules that call out; the composition `Services` | `KisTransport`, `ProviderCalls`, `Services`, `PaperBroker_proofs`, `Users_proofs` |
| `Users_proofs` | theorems about what users do | `LoginGuard`, `Watchlists` |
| `DailyData_proofs` | theorems about the data of a day and what is decided on it | `MarketData`, `ScoreEvidence`, `DailyDecisions`, `Backtests`, `Imports`, `SumTheorems` |
| `SumTheorems` | lemmas about sums over a finite set and about the newest members of a set | `TLAPS` |
| `MC*` | values for the constants, and the runs' initial states and steps | |

### ApprovalWorkflow

The row variables (`status`, `link`, `profile`, `audit`, `orders`) are the
*committed* rows. A request is an entry of `tx`, one per worker thread, and moves
through the places where another transaction can interleave: the read that
decides it (`ApproveLoad`, `RejectLoad`, `ExpireLoad`, `CreateEvaluate`), the
flush that takes the row's lock (`ApproveFlush`, `ApproveDenyFlush`), the lookup
and insert of the paper order (`ApproveSubmit`), the commit. Everything between
two of these is private to the transaction and is one step. READ COMMITTED: a
transaction sees what is committed when it reads; the UPDATE has only the id in
its WHERE clause, so a later commit wins. `deployment` is what the
process is installed with and never changes: with `deployment.singleWriter` the database
is SQLite, where the first write of a transaction excludes all others, without it
PostgreSQL with row locks; it also says whether requests come one at a time and
whether the scheduler runs. `DRAFT`, `RISK_CHECKING` and `APPROVED` occur inside a transaction
only, so no committed row has them. `job` is the transaction of
`expire_pending_approvals`, which locks one candidate after another. The clock is
three sets (`recent`, `today`, `overdue`), moved by `WindowPasses`, `Midnight`,
`TtlPasses`; the account's books are moved by `BookMoves`. `Restart` drops every
open transaction and picks the settings of the new process.

### RealOrders and KisTransport

`orders` holds committed rows in the order of their commits. `exec` is the call
of `execute` each caller is in: `Execute` stands for the gates and the flushed
CREATED row, `PlaceAccepted`/`PlaceRejected`/`PlaceLost` for the one call of
`place_order` and what it may tell, `RecordSubmitted`/`RecordFailed` for the rest
up to the caller's commit. A gate that blocks changes nothing, so it is a step
that is not taken. `sync` is the call of `sync_fills` each request thread is in:
`SyncLoad` reads the row, `SyncQuery` asks the broker, `SyncTotal` adds up the
recorded fills, the others write and commit. `broker` is external: the broker
fills unit by unit, cancels or rejects. `FakeSync` chooses the transport the
service asks: the route leaves the default, a fake that calls every order
filled. The executor has no caller in `app/`; two executors stand for two
sessions that call it, one for a caller that runs one at a time.

`KisTransport` opens the one step `PlaceAccepted`/`PlaceLost` stands for: a call
is its requests, each of which KIS may carry out or not and answer or not, and
the table that turns timeouts, HTTP statuses, unreadable bodies and `rt_cd` into
a class. It shows what `RealOrders` takes for granted: that SUBMITTED is true, and so is
a REJECTED that names its reason (a 4xx, or an `rt_cd` of KIS's own). A REJECTED with
`rt_cd=?`, the code's answer to an object without that field, tells nothing
(`Unreasoned`); neither does anything else. That a 4xx means "not done" is an assumption on KIS.

Abstracted in both: prices, fees, symbols beyond equality, texts, hashes (an
order number is the broker's index, or 0).

### PaperBroker

`orders`, `cash`, `position`, `fills` and `snapshot` are committed rows. The
matching job is one transaction for all accounts, and `job` is what it has in
hand: the pending orders it has listed (`JobAccount`) and not yet matched, the
balance and the positions it has computed, the fills it will commit. Each order
is one step (`SkipOrder`, `RejectOrder`, `FillOrder`), so requests come between
two of them; `JobCommit` writes the statuses over whatever is there, as the
UPDATE does. A submission reads the key and inserts in two steps; the unique
constraint fails the second of two inserts. A cancellation tests the status it
read and waits for the row if the job has written it. Amounts are whole units of
the fourth decimal; costs and `avg_cost` are rounded to the nearest unit, as the
`Numeric(18, 4)` columns do, here after each fill. `Timetable` is the order of
the day's jobs; `hour` is the next one. Prices come from outside (`Collect`): a
close or none. `Restart` loses the open transactions and perhaps jobs whose time
passes, and picks `paper_trading_enabled`. Accounts are made by hand and fixed.

### DailyJobs

`db` is the committed tables the jobs of the day share, `jobRuns` the rows of
`job_runs`, `call[t]` what thread `t` has in hand: its run, its uncommitted
writes `w`, the result it will return. `run_job` is `Begin` (the RUNNING row, a
transaction of its own), the work, `Commit` or `Raise`, and `Finish` (the row's
status, a third transaction); `WriteFails` is a commit of the work or an update of
the row that raises outside the handler, `Crash` the death of the server or of the
shell. The threads of `Pool` are APScheduler's (`Fire`, with `max_instances = 1`;
`Missed`, because the job store is in memory); those of `Shell` run jobs by
hand, as the runbook describes. The timeline of a holding check is `RunHoldingCheck`
(the rows), `SendHoldingReport`, `PlanAlerts` (which alerts the log does not list
yet), `SendAlert` for each, `AlertsDone`, and the commit; two checks of one day
meet on the rows' unique key, where the second waits (`locked`) and then collides
or updates. `delivered` counts the messages that reached the chat, which the
database cannot undo. `Send` is the dispatcher's send and its log row. Prices and
indicators have a row for each date and are read by the newest (`Newest`): the commit of a
run that began the day before does not hide today's rows. (The first version of `Applied`
let it; no run of two days within the bounds showed the difference, the proof of
`JobsShape` did.)

### LoginGuard

A login is `Arrive`, `CheckAllowed`, `Lookup` (the user's row and the password), then
`RecordFailure`, or `Issue` and `RecordSuccess`, then `Answer`. The check and the
count are each under the guard's lock, but not together. `rec` is
the guard's `_records`, `fails` and `inLock` are histories. A token carries its
expiry and the secret it is signed with: `epoch` tells the ephemeral secrets of
processes apart. `Deactivate` is a statement from an operator's shell.

### Watchlists

A request loads, then writes and commits: `work[s]` is what its first statements
left in hand (the owner was checked, the items listed, the flag `is_default` seen).
A promotion clears the other defaults (`pc = "demoted"`) before its commit.
`backend` is `postgres` (foreign keys, ids from a sequence, row locks) or
`sqlite` (foreign keys off, a freed last id is handed out again, one writer).

### ProviderCalls and MarketData

`ProviderCalls` has one fetch at a time, because the code says the breaker is not
thread-safe and every fetch is a sequential loop over `Targets`. `Admit` is the breaker's permission,
`Ask` one request of the retry loop with its answer, `FastFail` an answer of the open
breaker, which is logged as a failed call too; `Store` is the ingestion. `log` is a
history of the recorded calls, `stats` the monitor's counters and two ring buffers.
`MarketData` is one transaction of the collecting job: the
ranking first, then the bars of each symbol; a row that cannot be normalised fails its
symbol, one that the database refuses fails the transaction. A request goes through phases
between which time may pass: KIS issues a token and its life begins (`IssueToken`), the answer
arrives and the client sets its own deadline, `Margin` short of that life
(`TokenArrives`), a request leaves with a token the client still trusts (`SendRequest`), and
KIS hears it and looks at the token then (`Asked`). An issuance or a request is under way for at most
`Flight`, after which the client gives it up; both ages, the answer's and the request's, eat from
the margin, hence the assumption `2 * Flight <= Margin` (in the code a timeout of 10
seconds, the default, and a margin of 60). A token from the settings has no deadline on the client's side.

### ScoreRules, ScoreEvidence, DailyDecisions, Backtests

`ScoreRules` is the arithmetic: integers in hundredths of a point, `Missing` for
None. `ScoreEvidence` lets the rows behind one symbol arrive, age and be replaced,
and reads the scores off them, in every order in which the wrapping producers may
be nested. `DailyDecisions` has days, bars that arrive late, not at all, or again
(a collection fetches its whole look-back in prices adjusted as of now and the upsert writes over what is
stored), indicator rows, and the three engines (`CheckHoldings`, `Recommend`,
`ReviewOutcomes`), each one transaction and one step. `basis` is a history: the bars an outcome was
last judged on. `Backtests` adds the
strategies and their replay. A comparison reads
the recommendations once per strategy, so other steps come between
(`StartComparison`, `CompareNext`, `FinishComparison`).

### Imports

`importing` is the import under way: its file, how many rows are done, and the
tables as its transaction sees them. A row's `fault` names the column at which it
fails; what the row had flushed before stays. `ImportEnd` publishes the tables or
rolls them back (a dry run), `ImportAborts` is an error of the database or a killed
script. `ConsensusJob` is the nightly job, which reads committed reports only. One import at a time: the scripts
are run by hand.

The `MC` modules of the last two groups hold several modules in one
state space and let one of them, its *part*, move; the others stay in their
initial state. They share no variable, so this checks exactly what separate runs
would, and what one part leaves to another is in its constants.

## 3. Runs

Each passing run asks several questions of modules that do not touch each other, or of
one module as several *deployments* (SQLite or PostgreSQL, one caller or many): its
initial states choose, and nothing changes the choice. Bounds are the smallest in which the cases named here happen.

### `approval_safety`

Two candidates, two workers, one restart: every pair of operations meets on one
row, and a lost update needs two transactions and one row.

* Deployment *races*: row locks, the expiry job, settings of normal operation, kill switch
  or safety off.
* Deployment *one_writer*: SQLite, three kinds of request, caps that one request fits under
  but not two.
* Deployment *serial*: one request at a time, every book of the account, every setting.

`OrderInvariant` (one order per candidate, and what makes it so),
`AuditExplainsStatus`, `SettledIsFinal` (a decided candidate in nobody's hands never
changes), `SwitchesFreezeTheWorkflow`; `OneWriterKeepsTheLimits` (both caps and
the duplicate rule hold of the committed rows); `SerialImplementsLifecycle` (the
refinement of `CandidateLifecycle`).

### `approval_liveness`

Two candidates and a batch size of 1, so that the job's limit bites; a kill
switch that a restart lifts. `RequestsFinish`, `OverdueIsResolved`.

### `real_orders_safety`

Two candidates of 1 and 2 under a cap of 2, quantity 2 in the serial deployment (so
there is a partial fill), two orders.

* Deployment *races*: two callers of `execute`, one candidate, a dry run with the
  executor's own fake.
* Deployment *serial*: one caller, two syncs, a restart, midnight, a dry run with an
  injected transport.

`RowsAreBacked` (a submitted row has a broker order of its own),
`AttemptsAreOnTheBooks` (one audit row per committed attempt; the broker has no
order nobody accounts for), `SerialCallersKeepTheRules` (one live order per candidate,
fills that follow the broker, the daily cap), `SerialImplementsLifecycle`.

### `paper_ledger`

Two buys and a sale are the shortest history in which a rounded average cost
is sold; closes of 2 and 3 and costs of a third make amounts round both ways; the
cash is enough for two buys at one price and one at the other; a fourth submission fails.
`LedgerIsTheFills`, `BooksBalance`, `SnapshotAddsUp`, and `MarketOrdersAreMatched` when
the close is collected before the orders are matched.

### `services`

* *buying*, *selling*: two workers, two orders, the matching job, a restart: a
  cancellation meets the job at each of its steps. `FillsMatchOrders` (one fill per
  filled order), `SettledOrdersStay`.
* *login*: two threads, a threshold of 2, a window shorter than the lockout, so that
  one passes before the other. `GuardHolds`: how many guesses a key gets within a window
  however threads interleave; behind a closed lock only those that had passed the
  check; nobody is locked out who has not earned it. `AccessEndsWithTheToken`: a
  deactivated user is served on tokens asked for before, and on no other.
* *lists of two*, *lists of one*: two users with lists of one name, and one user with
  lists of two names; both databases. `ReferencesHold`: on PostgreSQL references are
  sound. `WatchlistsAreKept`: only owners write, though the writes go by id; a second
  default takes two overlapping promotions (on SQLite, a reused id).
* *outage*: a feed that fails, rests behind the breaker, and recovers.
  `HealthFollowsTheCalls`: the monitor's statistics digest the log, the breaker counts
  consecutive failures, a failing provider is left alone for the reset timeout.
* *listings*, *statements*: repeated and reordered listings, cut-offs and limits; two
  statements of one account. `IngestionKeepsWhatItGot`: good rows are returned, stored
  rows stay.
* *wire*: two orders of two shares, four calls. `NoOrderIsDoubled`,
  `DefiniteAnswersAreTrue`: SUBMITTED, CANCELED, a fill and a REJECTED with its reason say what KIS did.
  Every kind of reply occurs, the object without `rt_cd` among them.

### `daily`

* *jobs*: one scheduler thread, one operator's shell, two runs, one crash or failed
  write, a log list of two rows of which one may be taken: the smallest in which
  an alert falls beyond the list and two checks of one day collide.
  `RunsTellWhatWasDone`: no notification of a FAILED run is on record, SUCCESS of a check
  means every holding was checked and the report went out. `AlertsRepeatOnlyPastTheList`:
  an alert is on record twice only past the list's limit. `LossesAreAccounted`: what
  the chat got and the log does not say belongs to runs that failed or never ended.
  `CallsEnd`: nobody waits for ever for another's rows.
* *market*: lists with duplicate ranks, bad rows and rows that the database refuses;
  collections repeated. `CollectionsAreWhole`.
* *tokens*: a margin of 2, requests under way for at most 1, lives of 1 (shorter than the margin, so
  the client never trusts it for longer than the request it was asked for) and 3, an injected token or none. In `DailyTypeOK`: KIS
  refuses no token of the client's own whose life exceeds two flights. Without the margin it would.
* *checks*, *picks*, *reviews*: three kinds of share, rising, falling and flat days, late
  bars and bars written over. `DecisionsAreReproducible`: a check made again from the same facts says the
  same, a recommendation run keeps the best. `HorizonsAgree`, `FailuresAreFinal`: outcomes at
  several horizons are consistent, and prices that come late undo a failure only by moving the
  reference or by writing over a bar it was judged on.
* *tests*, *signals*: `BacktestsAddUp`: what single runs, walk-forward folds and
  comparisons claim follows from their rows, each day is validated once, and nothing beats the
  chosen strategy.
* *evidence*: two news rows, four snapshots, eight days in steps of four.
  `BetterSnapshotsNeverHurt`; and in `DailyTypeOK` that scores stay on scale and do not
  depend on the nesting of the producers.
* *imports*: six files with duplicates, NULL keys and a fault at every column, two of
  them imported. `ImportsAreWhole`: importing again adds nothing, keys with NULLs stay
  single, consensus counts committed reports.

### Disagreements

Six runs check a sentence of the repository against the code and end in a violation;
`PROJECT.json` quotes the sentence.

* `approval_lost_update`: a second concurrent decision overwrites a terminal
  status.
* `approval_recheck_lost`: a refused approval is rolled back with its audit row.
* `real_phantom_fill`: the sync route asks a fake transport and records a fill
  the broker never made.
* `paper_timetable`: orders are matched at 16:00 with a close that arrives at
  18:00 and is not looked for the next day, so no order is ever matched. The same
  property holds in `paper_ledger`, where the collection comes first; the
  property is about the order of the jobs and nothing else.
* `score_drop_missed`: the earlier total is taken after its penalty and today's before, so totals
  that fall by 15 points before penalties may raise no SCORE_DROP.
* `login_audit_lost`: login and logout flush audit rows that nothing commits.

The models also contain behaviour that no run is spent on. Approvals and orders: two
creations on PostgreSQL pass a cap together; the expiry job skips while the kill switch
is on; a crash after `place_order` rolls back the CREATED row; a candidate whose order
FAILED may be executed again; two concurrent syncs of one order both insert the same
fill; a paper order canceled while the job has it in hand may end FILLED, or CANCELED
with a fill; a retried cancel of a canceled order is reported REJECTED; a 200 with
`rt_cd` 0 and no order number is SUBMITTED without a number; a 200 with an object that has no
`rt_cd`, or has the number 0 for the string, is REJECTED with `rt_cd=?`
(`kis_order_transport_real.py:500`) and its order may be KIS's: `RUNBOOK_REAL_TRADING.md:211` tells
operators that REJECTED is an answer KIS defined. Jobs: an alert that failed
is on record and never tried again; a failed commit leaves the job row RUNNING for ever.
Data: DART's "013, no data" counts as a failure and opens the breaker all
targets share (`dart_provider.py:595` calls failures isolated); an open breaker's own
answers lower the provider's health; a limit of 0 returns one disclosure; an ingestion
without consensus figures wipes those stored; an injected token never expires on the
client's side; members that leave the ranking stay in the universe. Decisions: every
horizon has a return from the first bar on, and backtests count it; a bar of the
run's date that comes late moves the reference; a later collection in newly adjusted prices may turn
a FAILED outcome over, and a collection that does not reach back to the reference leaves that one
as it was while the bars after it are adjusted; a comparison reads the
recommendations again for every strategy (`multi_strategy_runner.py:142` says they are
guaranteed identical); a validation window of 0 days never ends the walk-forward and a
negative gap lets train and validation overlap (the models start at 1 and 0); a negative
PER scores as the cheapest. Imports: a faulty row is counted and what it flushed is
committed; a report that failed its own columns may get its themes on the second import.

### Deadlock and fairness

Deadlock checking is off where bounds (orders, runs, calls, days) let the system
stop; the two paper runs check it.

`approval_liveness`: a thread that has begun a request goes on (weak fairness of
`Proceed`); a thread waiting for a row lock gets it when it is free again and again, as
PostgreSQL queues lock waiters (strong fairness of `TakeLock`, `JobExpire`); the
scheduler starts the job again and the job commits (weak fairness of `JobStart`, `JobCommit`).
No new request, no restart and no passing of time is assumed. `OverdueIsResolved`
excludes executions in which the settings keep the job off.

`paper_ledger`, `paper_timetable`: the scheduler's thread runs the jobs of the day and the
matching job to its end (weak fairness of `Clock` and `Match`), and a request that is
being served ends. That prices come is a premise of `MarketOrdersAreMatched`, not an
assumption on the collector.

`daily`: a thread goes on with what it has begun (weak fairness of `Step(t)`), since
the steps are its own code and every send has a timeout; that the scheduler fires, that an
operator runs anything or that days pass is not assumed. `login_audit_lost`: a
request thread runs until it has answered (weak fairness of `Serve(t)`).

Symmetry of workers, executors and owners is used only where no liveness is checked.

## 4. Proofs

The theorems hold for every value of the constants that the named assumption of the
module allows; TLC evaluates those assumptions in the runs. Leaves are discharged by an
SMT solver, Zenon and, for temporal steps, LS4.

`ApprovalWorkflow_proofs`, for every set of candidates, workers, accounts and
profiles, any number of restarts, and both kinds of locking.

* `TypeCorrect`: `TypeOK`. It is not inductive alone: an approval that found an
  order by its key links it at the commit, so the order must still be there
  (`FoundStays`).
* `OrdersAreUnique`: `OrderInvariant`, the inductive invariant behind
  `OneOrder`. Its parts: row locks exclude one another (`RowLocksExclude`), an
  order's key names its candidate (`KeysNameCandidates`), what an approval learnt
  in its lookup stays true until it commits (`LookupsStayTrue`). Without the locks
  two approvals could both insert; without the key a retry could.
* `OneOrder`: no candidate has two paper orders, an executed one has one.
* `AuditIsComplete`: the last audit row of a candidate explains its status.
* `SettledStaysSettled`: a decided candidate that no transaction has in flight
  never changes again. This is what remains of "terminal states refuse every
  further transition", which `approval_lost_update` refutes.
* `SwitchesFreeze`: under the kill switch nothing is created, ordered or decided.
* `OneWriterKeepsLimits`: `OneWriterKeepsTheLimits`, the caps and the duplicate rule where
  the database has one writer. The rules count other rows, so the invariant `LimitsInv`
  adds that what a creation has evaluated still stands at its commit (`EvaluationStands`): it
  holds the write lock (`WritersExclude`), so no other candidate joins those that it counted, and
  decisions, expiry, midnight and the end of the window only take some away.
* `SerialWorkflowImplementsLifecycle`: `SerialImplementsLifecycle`, the refinement of
  `CandidateLifecycle`, step by step, where requests come one at a time and the expiry job is off. Its invariant `SerialInv` says that at most one worker is in
  a request, that the job is not running, and that the candidate of a request still has
  the status the request found.

`RealOrders_proofs`, for any number of executors, syncs, fills, midnights, restarts and
lost answers.

* `RowsStayBacked`: `RowsAreBacked`. The invariant adds what calls have in hand: an order
  number that an executor has been given and not yet recorded belongs to its candidate, is in no
  row, and is in no other executor's hands (`NumbersAreNew`); and a sync only holds
  rows that were submitted (`SyncsHoldRealRows`), so it never turns a failed row into one that
  needs an order.
* `AttemptsAreAudited`: every committed attempt has one audit row. The rows are
  counted when they are written, and no sync moves a row between FAILED and
  the real statuses (`RowsCounted`).
* `AttemptsStayOnTheBooks`: `AttemptsAreOnTheBooks`, that and: an order at the broker belongs to a row,
  to a call that has its number in hand, or to an answer that a restart lost.
* `SerialCallersAreSafe`: `SerialCallersKeepTheRules`. With one caller at a time what a gate has
  read is true until the row is committed (`GateStands`), so no second live order and no
  amount beyond the cap (`CallersInv`); a sync's total is still the recorded one when it writes,
  so a row's fills are the broker's or fewer, and the status tells them (`SyncersInv`). The day's total is a
  sum over rows; the lemmas on sums follow it through an insertion and a change of status.
* `SerialOrdersImplementLifecycle`: `SerialImplementsLifecycle`, the refinement of
  `RealOrderLifecycle`: every step of a serial deployment is one of the transitions in the
  table's docstring, a permitted insertion or a stutter.

`OutsideCalls_proofs`, for every order, any number of calls, losses and retries of
queries and cancels; and for every feed, threshold, timeout, buffer and number of fetches. The
first two assume `PlaceRetries = 0`, the value in the code.

* `PlacedOnce`: `NoOrderIsDoubled`; the invariant adds that a placement still on the
  wire is owed an order: KIS has fewer orders than there were placements.
* `AnswersAreTrue`: `DefiniteAnswersAreTrue`, in which a REJECTED counts as an answer only
  if it names its reason. An answer is about the past while the market
  moves on; a query that is under way remembers what was filled when it began, and fills
  only grow.
* `HealthAlwaysFollows`: `HealthFollowsTheCalls`. The statistics are kept in counters and two ring
  buffers and the property recomputes them from the whole history of calls. `HealthInv`
  ties the breaker to it per provider (`Healthy`): closed, it has counted the failures since the
  last success, and they are fewer than the threshold; open, it remembers the time of the
  last call that was asked; half-open, a call that came a full timeout later is under way.
  The answers an open breaker gives are in the history too, and must not count as asked.
* `IngestionAlwaysKeeps`: `IngestionKeepsWhatItGot`. `ListingInv` says what a fetch holds while it is
  under way: of a feed all that was read, of the disclosures what is fresh as long as
  there is room. The filters of parsers, cut-off and deduplication are each the rows at
  some places in their order (`Picked`), so that `PickedRows` serves them all; and a fresh row that
  deduplication drops leaves a first copy (`FirstOfAKind`) that is as fresh, as copies are of one day.
* `WireShape`, `ProviderShape`: `WireTypeOK` and `ProvTypeOK`, whose points are the bounds: fills
  within the order, requests within the operation's retries, buffers within their caps.
* `ServicesKeepTheirShape`: `ServicesTypeOK` of the composition `ServicesSpec`, the conjunction of
  the parts' specifications, in which any of them may step together. The run
  moves one part at a time.

`PaperBroker_proofs`, for every timetable, prices, cost rates, set of accounts,
keys and workers, and any number of orders and restarts.

* `TypeCorrect`: `TypeOK`, whose point is that cash and holdings stay natural
  numbers. The invariant `TypeInv` adds what a request and the job have in hand;
  the arithmetic is in `NetNat` (a sale never costs more than it brings),
  `BoughtTyped` and `SoldTyped`.
* `KeysAreHonoured`: `OneOrderPerKey`. It rests on the unique constraint; the
  lookup before it is not needed.
* `NothingMatchesBeforeTheCloses`: in a timetable whose executions all precede its
  collections, as in the shipped one, no order is ever filled or rejected, over any number of days.
  `paper_timetable` shows that on one instance; this says it depends on no price, order or
  crash, but on the timetable alone. `NoMatchInv`: when an execution of the day is still to come,
  no close of that day is there.
* `FillsAgree`: `FillsMatchOrders`. The job writes last and over whatever is
  there, so `JobInHand` is needed: what it has in hand was pending when listed,
  is in hand once (its account is not listed again), and has no committed fill.
* `DecidedStays`: `SettledOrdersStay`, from the same invariant.
* `LedgerRecomputes`: `LedgerIsTheFills`. `LedgerInv` says it of the committed rows and of what
  the job has in hand: its balance and its positions are what the committed fills *and* its own
  would give, which is what makes the commit of all of them at once right.
* `NothingIsMadeOrLost`: `BooksBalance`, with the drift bounded by what the rounding of `avg_cost` may
  have done: half a unit for each share held after each buy. A sale moves cost into realised
  profit exactly and adds nothing.
* `SnapshotsAddUp`: `SnapshotAddsUp`, from the same invariant at the step that takes the snapshot;
  positions without a price are left out of the market value and stand at their cost.

`Users_proofs`: `LoginGuard`, for any users, clients, thresholds, windows and restarts.

* `AccessEnds`: `AccessEndsWithTheToken`. The invariant `AccessInv` says of every login under
  way, too, that the read of its user's row came no later than the deactivation.
* `LocksHold`, for finitely many threads: behind a closed lock only those fail that had passed the
  check, and every lock was earned. Its invariant `LockInv` counts: the failures behind a
  lock and the threads that are past the check and may still fail never exceed the number of
  the other threads.
* `GuardAlwaysHolds`: all of `GuardHolds`, where the lockout is longer than the failure window
  (`settings.py:194-205`: 900 and 300 seconds). The bound on the guesses within a
  window is about intervals of a history: `GuessInv` cuts the history into rounds, one
  for each time the count starts again (`Rounds`), and a window meets the end of one and the beginning of the next, because
  a lock between rounds lasts longer. The hypothesis is needed: with a shorter lockout a window reaches over
  several locks, and the bound is not kept. The run has the default's order of the two.

* `LoginShape`: `LoginTypeOK`.

`Users_proofs`: `Watchlists`, for any users, names, threads and number of lists.

* `ReferencesAlwaysHold`: `ReferencesHold`. What a request loaded was its user's list, and
  a list that is still there under that id is still that user's: ids are fresh (`IdsAreFresh`,
  which fails on SQLite).
* `WatchlistsStayKept`: `WatchlistsAreKept`; on SQLite from the write lock, under which the
  holder has cleared every other default (`OneWriter`).
* `WatchShape`: `WatchTypeOK`. Beside the rows it needs what a request is about to write
  (`RowsAndWork`): a write by id goes to an id that was given out.

`DailyJobs_proofs`, for any ranking, holdings, threads, timetable, list limit and
number of runs, crashes and failed writes.

* `RunsTell`: `RunsTellWhatWasDone`. The invariant `RunsInv` says of what a thread has in hand
  what the property says of the tables (`Honest`): its run is its own and RUNNING, the rows
  it will commit are that run's, and a SUCCESS it is about to report is backed by them
  before the commit and by the tables after it. Rows of the log belong to runs that
  have not failed and whose thread, if any, is past the commit and will not report FAILED
  (`LogsAreSafe`), which is where the order of the two transactions matters.
* `AlertsRepeatLate`: `AlertsRepeatOnlyPastTheList`. `AlertsInv` says what a thread between
  its plan and its commit may carry: an alert on its way is not among the rows that the
  dispatcher lists, and as long as the log is shorter than the list it is about a row of
  the check that this thread has written and not committed (`Unlisted`). No two threads
  hold rows of one key (`Exclusive`, the lock of `WaitsFor`), so that a commit cannot put
  another thread's alert on record; committed checks have theirs in the log
  (`ChecksAreLogged`), which is what a later check of the same day finds.
* `LossesAccounted`: `LossesAreAccounted`. `LossInv` charges every message: what the chat got is on
  record, or in the uncommitted rows of a thread, or its run FAILED, or its run never ended; a
  crash leaves one run for each thread that never ends, a failed write leaves one.
* `JobsShape`: `JobsTypeOK`. Its last conjuncts relate tables that different jobs of different
  days write from what they read before the other's commit: an indicator is never ahead of its
  prices and a check never of its indicators. The invariant `DataInv` says the same of what a
  thread has read and not committed.
* `CallsGoOnward` and `WaitersWaitForWorkers`, the safety half of `CallsEnd`: a step of a call
  brings it to a later stage (`Stage`) or leaves one alert less of finitely many (`FewToDo`,
  under `HoldingsAreFew`), and who waits for rows waits for a call that waits for nobody. What is
  missing to `CallsEnd` is fairness alone.
* `DailyWorkKeepsItsShape`: `DailyTypeOK` of the composition `DailySpec`. It is stated stronger
  than the run checks it: the part on scores without its guard `Evidence`, which spares
  the run the computation in the states where there is no evidence at all.

`DailyData_proofs`: `MarketData`, for every answer of the broker, clock and number of
collections.

* `CollectionsStayWhole`: `CollectionsAreWhole`. `CollectionInv` says of the books a collection is
  working on what the property says of the committed ones: one list of ranks, and for each
  symbol counted as saved the bars of one answer on top of what was committed when
  the collection began (`Gathers`), nothing else touched. A symbol is asked for once
  (`todo` and `saved` are disjoint), so a later symbol never disturbs an earlier one.
* `TokensStayFresh`: `MDTypeOK`, whose point is that no request arrives with a token of the client's own that
  has died, if such a token lives for more than two flights. `Outlived` compares the two clocks: the client's
  deadline lies a margin before the broker's, less the time the answer took. `LivesOnTheWay` takes from
  there what the request itself needs; the margin covers both. A token that lives for less than the margin is used
  once, for the request it was asked for, and needs its two flights.

`DailyData_proofs`: `ScoreEvidence`, for every set of news rows, snapshots, events, reports and
signals, and any number of days.

* `EvidenceStaysOnScale`: the evidence part of `DailyTypeOK`. The tables keep their shape while rows
  age (`EvidenceInv`); every producer's score, every component and the adjusted total stay within 0
  to 100 points, and the penalty within 50. That the nesting changes nothing is proved producer by
  producer: each turns what the producers of a set `S` leave into what those of `S` and itself
  leave (`ProducersFill`), and every nest holds all three (`NestsHoldAll`).
* `BetterNeverHurts`: `BetterSnapshotsNeverHurt`. Growth, valuation, income and debt each
  contribute no less, and neither clipping nor the weights turn that round. Proving it made
  `Better` precise: a figure below zero costs points and one that is unknown does not, so a known
  figure may only be compared with a known one.

`DailyData_proofs`: `DailyDecisions`, for every universe, holdings, situations, prices,
horizons and look-back, and any number of days, checks, runs and reviews, in any order.

* `HorizonsAlwaysAgree`: `HorizonsAgree`. A review writes every horizon from one reference
  and from windows that contain one another; outcomes of runs too old to be reviewed again keep
  what they had. `OutcomesStand` adds that outcomes are those of recommendations on record.
* `FailuresStayFinal`: `FailuresAreFinal`. The verdict is recomputed from bars each time, and bars
  are written over, so the property has a premise: the bars the outcome was judged on are still there as they
  were (`StillRests`). The invariant keeps the evidence beside the verdict: among the bars in the `basis` of a FAILED
  outcome is a low deep enough (`FailuresStand`). Whatever else has come since, the next review
  finds that low in its window.
* `DecisionsStayReproducible`: `DecisionsAreReproducible`. Each row is the function of its
  inputs that the engine computes (`ChecksInv`), and the row a check compares with is strictly
  earlier than its own, so repeating a check does not feed it its own result. The
  sorts are one total order: every candidate has a place of its own (`StandingsAreRanks`).
* `TablesKeepTheirShape`: `DDTypeOK`.
* `WideDropsAreSeen`: what is left of the claim that `score_drop_missed` refutes. Between two checks of
  a holding `SCORE_DROP` is never raised for a fall of less than 15 points, always for one of 15
  if the earlier check raised no flag, and always for one of 65, as a penalty is at most 50
  (`Penalized`). In between the earlier penalty may hide the fall.

`DailyData_proofs`: `Backtests`, for every list of strategies, regimes, dates, gaps, costs and
windows of at least a day.

* `BacktestsAlwaysAddUp`: `BacktestsAddUp`. `BTInv` says it of each test on record (`TestsStand`),
  from rows that lie in `runs`, which only grows, and of the comparison under way (`DeskInv`): the
  results so far are counted, whatever other transactions committed between two of them.
  Actions and regimes partition the rows, and sums over a partition add up (`SumOfGroups`); folds
  advance by the length of the validation window, so no day is validated twice and a sum over
  folds is at most one over the days (`WindowsAskOnce`); rates are compared as fractions, which is an
  order (`RatesAreOrdered`), so some rate is unbeaten. Outcomes enter through `ReturnsInv`: a
  return is a number above -100% or is missing, and never the number that stands for missing.
* `BacktestsKeepTheirShape`: `BTTypeOK`; a comparison loses none of its strategies.

`DailyData_proofs`: `Imports`, for all files, imported any number of times, and any days.

* `ImportsStayWhole`: `ImportsAreWhole`. The constraints of the tables do not give it, since they
  take NULLs for distinct: `Whole` is kept by each row because of the lookup before it
  (`ReportRowKeeps`, `MetricRowKeeps`). The invariant says of a report file that its rows are in the tables as far
  as their faults let them (`RowIn`), which tables that only grow keep (`Grows`); of an earnings or a
  fundamentals file, while it is the last, that every key has the last row of that key
  (`Latest`). Reading such a file again may well write: a key that occurs twice is overwritten
  and written back, and `Catching` says that what differs is about to be overwritten.
  Reading a whole file is a recursion over its rows (`FileIsRead`); what holds before
  the first row and passes from each to the next holds after the last (`CountsUpwards`). A
  consensus row stays within its window because rounding half to even stays within
  bounds that are multiples of the unit (`HalfEvenWithin`).
* `ImportsKeepTheirShape`: `ImportsTypeOK`.

`SumTheorems` holds what the sums need: `SumFunctionOnSet` over a finite set changes by the
difference when one term changes, is additive over groups, typed, monotone and bounded; that a
finite set of integers has a largest and a smallest member, and with it an induction over an
interval of numbers for one set (`CountsUpwards`); and that the places in a strict total order are
`1 .. n`, each taken once. The
community module defines the sum by a fold whose recursion is over subsets; the lemmas get
along without an induction theorem, by taking a smallest subset for which a claim
fails (`SmallestSubset`).

Assumptions about constants beyond their types, each named in its module: `PlaceRetries = 0` for
the two theorems on the wire, a lockout longer than the window for `GuardAlwaysHolds` (both are
hypotheses of the theorems), the order of the timetable for `NothingMatchesBeforeTheCloses` (a
hypothesis, which the shipped timetable satisfies), finitely many holdings for `CallsGoOnward`
(`HoldingsAreFew`: they are rows of a table), a margin of at least two flights for `MarketData`
(`FlightAssumption`), and for `Backtests` at least one strategy and
windows of at least a day.

Model-checked only: liveness, that is `RequestsFinish`, `OverdueIsResolved`,
`MarketOrdersAreMatched` and `CallsEnd`. They need ENABLED, which is out of reach. Every other
property that a passing run checks is stated by a theorem.

## 5. What is left

* A composition of `ApprovalWorkflow` with `PaperBroker` over `virtual_orders`: now the
  approval's order and the matching job's order are the same row seen from two modules.
* Two imports at once, and two collectors at once, on PostgreSQL: the code has neither a
  lock nor a constraint for keys with NULLs; today both are started by hand or
  by one scheduler.
* `decision_logs` and `report_score_logs`, which the engines write and nothing reads back.

## 6. Not modelled

HTTP, parsing and rendering, the texts of reports and messages; indicator arithmetic
and the metrics of a backtest beyond counts and sums; request ids, security
headers, the request limiter and metrics; read-only queries; migrations and
scripts, which run on an idle database; the frontend; `app/data/ingestion.py`, which a
package of the same name shadows. The list with reasons is in `PROJECT.json`.
