# Trident trader: specifications, model checking and proofs

TLA+ modules for the paper-trading core of this repository, the TLC runs that
check them on small instances, and TLAPS proofs for every value of the
constants. Everything is translated from the Python source; documents and
docstrings only supply the promises the code is compared with. Paths below are
relative to the repository root.

## 1. Inventory

The system is one long-running runner, a few helper processes, a dashboard, one
Postgres database and one brokerage account (Alpaca, paper).

| Component | Source | State | Operations | What makes it correct |
|---|---|---|---|---|
| Paper runner | `scripts/paper_run.py` | handler in progress, strategy memory, `flattened`, `starting_equity` | startup recovery, `on_bar`, management pass, heartbeat / order-poll / reconcile / EOD-flatten loops, shutdown | one entry per symbol and day across crashes; kill switch effective; flat at the close |
| End-of-day flatten | `safety/eod_flatten.py` | none | `seconds_until_flatten`, `flatten_now` | cancels and closes everything before every close, despite failing calls |
| Startup recovery | `data/bars_backfill.py`, `persistence/signal_recovery.py` | bars, signals tables | replay of today's bars, relabelling of unsubmitted signals | the rebuilt memory is the lost one; no resubmission; "stale" means never submitted |
| Kill switch, heartbeat | `persistence/state.py` | `system_state` table | set, read | a switch set is seen by the next decision |
| Dead-man's switch | `scripts/deadman.py` | `armed` | poll, check, flatten | reacts once per silence, misses no exposure, leaves nothing unattended |
| Broker adapter | `execution/alpaca.py`, `execution/orders.py` | none | submit, list, close, cancel | client order ids make submission idempotent |
| Order and position books | `portfolio/tracking.py` | `orders`, `positions`, `managed_positions`, `live_trades` tables | `sync_orders`, `reconcile_positions` | rows agree with the account in the end, no sale is booked twice |
| Managed positions | `persistence/managed_position.py`, `portfolio/manage.py`, `strategies/management.py` | `managed_positions` | record, trail, scale out, close, manual stop and close | a stop only tightens, what is held is managed |
| Risk gate, sizing | `risk/*.py` | none (pure) | `evaluate` | every approval respects every limit |
| Daily plan | `persistence/daily_plan.py` | `daily_plans` | upsert, observed facts, `resolve_today` | caps of the plan bind |
| Watchlists | `persistence/watchlist_store.py` | `watchlists` | create, rename, edit, activate, delete | exactly one active list |
| Screen presets | `persistence/screen_presets_store.py` | `screen_presets` | upsert, activate, delete, resolve | a screen runs with criteria somebody saved |
| Accounting | `accounting/round_trip.py`, `persistence/live_trade_store.py` | `live_trades` | round trip, exit match, wash-sale flag | trades add up to the cash, one exit per trade |
| Strategies | `strategies/orb.py`, `strategies/vwap_reversion.py`, `strategies/registry.py` | per-day state by symbol | `on_bar` | one signal per symbol and day, replay rebuilds the state |
| Backtest | `backtest/*.py`, `scripts/replay.py`, `backtest.py`, `compare.py` | `replay_runs`, `replay_trades` | simulate, walk forward, statistics, save | trades what the runner would have; costs never help; windows share out the trades |
| Market clock | `clock.py` | calendar tables | sessions, business days | windows of exactly n business days |
| Feed and bar store | `data/*.py` | ring buffers, `bars` table | append, upsert | ordered, idempotent |
| Shadow runner | `scripts/shadow_run.py` | as the runner, no orders | as the runner | shares the heartbeat key and the bars table with the runner |
| Screener | `screener/*`, `scripts/screen.py` | `screen_runs` with rows | query, scan, filter, rank, save | a saved screen is what its criteria say of the market |
| AI suggestions | `suggest/*`, `scripts/suggest.py` | `suggestion_runs` with rows | ask, parse, save | suggestions are about the screen they are linked to |
| Dashboard, CLI | `dashboard/*`, `cli.py` | job locks | forms onto the stores and the broker, background jobs | one job per lock, every lock released |
| Audit log | `audit/log.py` | `audit_log` | record | append only |
| Schema | `persistence/models.py`, migrations | the tables | | generated DDL |

**How they interact.** A bar from the feed calls `on_bar`: the bar is stored,
the strategy consulted, the account and the kill switch read, the gate asked,
the signal row committed, the bracket order submitted and the managed row
written. The broker keeps its own state and moves whenever it likes; two loops
of the runner copy it into the database. Dashboard, CLI and dead-man's switch
are separate processes that share the database and the account with the runner
without any lock. In the evening the replay, backtest and compare scripts read the
day's bars again, from the data service; before the market opens the screener and
the suggestions, started from the dashboard's threads or from scripts, fill tables
that the dashboard shows and the watchlists are edited from.

**What is hard.** The runner is single threaded and `on_bar` has no suspension
point, so its handlers do not interleave with each other. But a handler is a
sequence of separate database transactions and broker calls, and between any two
of them the account fills orders, another process writes, a call fails after it
took effect, or the process dies. Memory (`entered`, `flattened`, `armed`,
`session_start_iso`, `starting_equity`, the strategies' day state) is lost and rebuilt. Snapshots are applied after the
account has moved on. Bars are lost, come late or twice, and the strategy sees them
all the same. The hazards in `PROJECT.json` list each place.

## 2. Modules

| Module | Models | Used with |
|---|---|---|
| `Broker` | the account as the code uses it (external): brackets, legs, flatten, expiry. `BrokerSpec` is the abstract specification the others are held to | extended by `PaperRunner`, `Deadman`; instantiated by `Tracking` |
| `PaperRunner` | `on_bar`, the EOD loop, crash, restart and recovery, kill switch | `MCPaperRunner` (symmetry), `AccountProofs` |
| `Deadman` | the dead-man's switch, the heartbeat, a runner that blocks or dies, a shadow runner | `MCDeadman`, `AccountProofs` |
| `Tracking` | `sync_orders`, `reconcile_positions` and the recording of trades, against a moving account | `MCTracking`, `TrackingProofs` |
| `RiskGate` | `evaluate` with limits and sizing, as operators | extended by `DailyPlan`, `Simulator` |
| `Clock` | business days | extended by `DailyPlan`, `Session` |
| `DailyPlan` | the plan, its form and its facts, and the path from a signal to an order through the whole gate | `MCDailyPlan`, `DailyPlanProofs` (the gate's lemmas too) |
| `Manage` | a managed position: passes of the runner, manual controls, reconciliation with prices and quantities, round trips | `MCManage`, `ManageProofs` |
| `Strategies` | ORB and VWAP reversion as functions of state and bar | extended by `Simulator` |
| `Simulator` | costs, fills, a day's backtest, statistics, walk-forward windows, as operators | extended by `Session` |
| `Session` | the bars of a day from the websocket to store, table and strategy; crash and replay; the scripts of the evening | `MCSession`, `SessionProofs` |
| `Screener` | FMP's query, candidates, filter, ranking and the parser of the model's reply, as operators | extended by `Desk` |
| `Desk` | screen presets, the dashboard's background jobs, `screen.py` and `suggest.py` over the tables they share | `MCDesk`, `DeskProofs` |
| `WatchlistBook` | what the watchlist store promises: lists of which one is current | abstract |
| `WatchlistStore` | the `watchlists` table and its operations as overlapping transactions | `MCWatchlistStore`, `WatchlistStoreProofs` |
| `SumTheorems` | nothing of the code: induction, sums and folds for the proofs | extended by `DailyPlanProofs`, `ManageProofs`, `DeskProofs`, `SessionProofs` |

The models overlap where a component has two faces: `PaperRunner` needs of a
strategy only whether it has entered, `Session` needs the bars and none of the
account; `Tracking` cuts a reconciliation between query and transaction, `Manage`
takes it in one step but keeps sides, prices and quantities. Each module's header
says which part is the other's.

### Broker

An entry order is identified by its signal, since `client_order_id_for` is
injective. `order[i].status` collapses the entry, its two legs and the market
order of a flatten into one status: `working`, `filled` (legs open), `naked`
(legs expired at the close), `closing` (flatten order open), `exited`,
`canceled`. Partial fills and quantities are abstracted. Fills are
unconstrained; nothing is assumed to fill, except that `PaperRunner.Tick` lets
the market close only after the market orders of a flatten have filled.

### PaperRunner

| State | In the code |
|---|---|
| `pc`, `bar`, `cur` | the point `on_bar` has reached, its bar, its `signal_id` |
| `entered` | `_DayState.entered` of the strategy, per symbol, today |
| `saved` | the `bars` table has today's triggering bar |
| `signal` | `signals` rows: symbol, day, `gate_decision` |
| `managed` | `managed_positions` rows |
| `killed` | `system_state['kill_switch']` |
| `flattened`, `eodDue` | local of `eod_flatten_loop`; its sleep has elapsed |
| `clock`, `day` | the session, cut to what the flatten logic tells apart |
| `leak`, `watched` | history variables of the properties |

`on_bar` is cut exactly at its external calls: `OnBar` (store the bar),
`Evaluate` / `LookupFails` / `AlreadyEntered` (strategy, reads, gate, signal row),
`Submit` (broker call: it may fail, succeed, or succeed and raise), `RecordOpen`.
The gate's arithmetic (sizing, loss limit, spread, budget) is a free rejection:
`Evaluate` may always reject, and may approve only when the checks that read
shared state pass. The `clock` has one value for the session before the flatten
point, `FlattenTicks` values for the minutes from there to the close, and
`Closed`. `BarsMayBeLost` lets `persist_bar` or the startup replay fail, whose
errors the code swallows. `EarlyClose` makes the day a half day, on which the
VWAP strategy's 14:30 limit and the gate's 15:55 limit outlast the session.

### Deadman

The poll is cut at its three calls (positions, open orders, close all) because the
account and the runner's in-flight submission move in between. A step of time is five
seconds, the interval of both the heartbeat and the poll. The runner is reduced to
a heartbeat writer which stops writing while a submission blocks its event loop.
The shadow runner writes the same key, so its heartbeat counts. `HasStopped` is the guard of
a reaction: armed, and the row is stale. `DeadmanTypeOK` has, beside the types, what the
guard is for (`ArmedCheck`): the switch looks at the account only while it is armed, so that
a row left over from another day closes nothing.

### Tracking

One symbol (rows of different symbols never meet). A trip is a bracket with an
entry, the leg that may end it and the market order that flattens it. Each of the
two loops is cut between its query and its transaction. `seen` is what the broker
lists for `session_start_iso`, which a restart moves. `LegsListed` says in which
of two ways the account reports a leg: as an order with a client id of its own, or
only through its parent, which is the case `_record_legs` is written for. Sides are
not modelled: every trip is entered on one side and left on the other. Fill times
count fills and opened rows, so two fills never have the same time.
`Tracking!AccountIsBroker` instantiates `Broker` with `Bracket` as refinement
mapping and checks that the finer account only does what `Broker` allows.

### RiskGate, Clock and DailyPlan

`RiskGate!Verdict` is `evaluate` check by check in its order; money is a number of
the smallest unit and every quotient is turned into a product, so nothing is
rounded that the code does not round. `Clock` has the weekday and holiday test and
the window of business days.

| State of `DailyPlan` | In the code |
|---|---|
| `handler` | where `on_bar` is and what it has read: signal, plan and facts, then positions, then the approved shares |
| `plan` | `daily_plans`, by date |
| `rows` | `orders`: state, `submitted_at`, `avg_fill_price` |
| `emitted` | the strategy's entered flag, by symbol |
| `starting` | `starting_equity` of `main` |
| `entries`, `equity` | the account: entries sent and the realised equity |
| `opening`, `peak`, `edited`, `crowded`, `doubtful` | history variables of the properties |

The handler is cut between `resolve_today`, the reads of positions and of the
equity with the gate's decision, and the submission (paper_run.py:165-255); the
account and the dashboard move in between. The equity is read with open positions
marked at their stop or at their target, the two ends of what the gate can be told.
`EquityReads` is what `_fetch_starting_equity` returns: the setting `account_equity_override`
where there is one (`Override`, 0 if unset), else the account's equity or, if that cannot be
read, the fallback. With an override that is not the equity of the opening, the day is
`doubtful` from the start.
`submitted` stays 0 because no statement of the order poll sets `submitted_at`.
`Reward` bounds how far a target lies in units of the distance to the stop (a strategy's
parameter); with it `LossBounded` can say how much of an unrealised gain the gate may have
counted as equity: `WorstDay` allows for the loss limit, the risk of every position under
the cap, and the gain each of the others may have shown when the last one was approved.

### Manage

| State | In the code |
|---|---|
| `trip`, `cash`, `exits` | the account: the symbol's bracket, realised cash, fills that closed shares |
| `managed`, `position`, `trades` | the symbol's rows in `managed_positions` and `positions`, and `live_trades` |
| `pass` | the management pass: the view it read, actions left, shares left, the trailed stop |
| `manual` | the dashboard's close has been sent and the row not yet removed |
| `excuses` | history: what happened that a property allows for |

A pass reads the row (`Consult`), carries out its actions one by one, each of which
may fail before or after it took effect, and writes the outcome (`Persist`); the
dashboard's manual stop, close and cancel come in between. The strategy is a set of
action lists (`Menus`): no strategy of the repository implements `manage`, and the
protocol lets one return any. `PositionOpened`, `PositionChanged`, `PositionClosed`
and `ManagedDropped` are the branches of `reconcile_positions`; the first keeps the
entry price, the stop of the managed row and the number of exits seen, from which
`PickExit` finds the sale. `Booked` makes the round trip: the day of the sale is that of the
exit's fill, which may lie before the day of the reconciliation, and the window of the
wash-sale flag is around it (`tracking.py:300-309`). The market orders of a close fill at once: that a close
and its fill come apart is in `PaperRunner` and `Tracking`.

### Strategies, Simulator and Session

`OrbStep` and `VwapStep` map a symbol's day state and a bar to the new state and the
signal, if any. Prices are whole cents, and a signal carries its own unit, so that a
VWAP, a quotient, stays exact. `Simulator` builds the backtest from them and from
`RiskGate`: `RunDay` feeds a day's bars, asks the gate as the engine does (a flat
account, no quote), and fills what it approves by the bars that follow.

| State of `Session` | In the code |
|---|---|
| `market`, `wire` | bars closed today; those the websocket has under way |
| `st`, `store`, `hand` | the strategy's state, the bar store, the bar the handler has in hand |
| `rows` | today's part of the `bars` table, which the shadow runner fills too |
| `fired` | the signals the strategy returned |
| `saved` | `replay_runs` with their trades |
| `drift`, `faults` | history: what set memory apart from the table since it was built, and what went wrong at all |

A bar is received and stored (`Arrives`), then shown to the strategy (`Consult`);
it may be lost, overtaken (`ArrivesEarly`), repeated (`ArrivesAgain`) or not stored.
`Crash` clears memory and `Restart` replays the table, unless that fails. When the
wire is empty the evening's scripts run over today's market and the archive, each
with the symbols it takes: the replay and the comparison use the static list
whatever the runner watches. The opening range is two minutes long in the runs
instead of five, and the entry windows are as short.

### Screener and Desk

`Screener` has the pure parts: `Params` loosens the criteria for FMP, `Universes` is
everything `resolve_universe` can return (FMP's rows up to the cap, or Alpaca's list
without metadata), `Candidates` builds the facts batch by batch, `Screen` filters
and ranks, `Parsed` reads the model's reply. `Criteria` is the type of a `ScreenCriteria`,
`MarketAssumption` that of bars and metadata. `FmpAssumption` says that FMP's quote is
within the tolerance the code's widening is made for (less the cent that rounding to
two digits may take) and its volume more than a fifth of any day's.

| State of `Desk` | In the code |
|---|---|
| `presets`, `active` | `screen_presets`, and the rows with `is_active` |
| `proc` | requests, background threads and scripts: the step each is at and what it holds |
| `locks` | `_screen_run_lock`, `_backtest_run_lock` |
| `screens`, `picks` | `screen_runs` and `suggestion_runs` with their rows |

`Asked` is what the flags of `screen.py` make of a preset, `Scanned` what a scan leaves to
be saved. Every step is a transaction or a call to a service, so that the save of a preset and
its activation come apart, and so do a screen and the suggestions about it. `Stop`
ends a job at any step (an exception, a refused write, a kill) through the `finally`
that releases its lock; `RestartDashboard` ends all threads and clears the locks,
while scripts go on.

### WatchlistStore

| State | In the code |
|---|---|
| `rows`, `active`, `content` | committed rows, those with `is_active`, name and symbols |
| `txn[c]` | what client `c`'s open `session_scope` has read and which rows it has written |
| `tidy` | history: no overlap since the start or since the last activation that ran alone |

The dashboard runs its handlers one at a time, but the CLI is another process, so
two transactions overlap. Under READ COMMITTED a statement sees the rows committed
when it starts; an `UPDATE ... WHERE is_active` waits for a row somebody else has
written and then looks at that row again, but never at rows that have become active
meanwhile. Hence `Deactivate` works on `seen`, read when the statement started, and
drops from it what is no longer active. Rows are written by their id: an UPDATE that
finds no row raises, and the whole transaction is rolled back (`Rollback`, which is
also what a violated unique name, a deadlock and a lost client end in); a DELETE that
finds no row is only warned about, so `DeleteRow` and `Drop` go on. Uuids are
represented by the rank of `created_at`, the only order the code asks for. The three
edits of a list (`BeginSet`, `BeginAdd`, `BeginRemove`) differ in what they compute,
and all write back the whole column. `WatchlistStore!Book` instantiates
`WatchlistBook` with the rows as `lists` and what `get_active_watchlist` returns as
`current`.

## 3. Runs

| Run | Question | Result |
|---|---|---|
| `runner_day` | one full day, 2 symbols, 3 signals, 2 crashes, a 3-minute flatten window with up to 2 failing flattens | `NoDoubleEntry`, `KillSwitchLeak`, `FlatAtClose` hold; the inductive invariant `RunnerInv` of the proofs holds |
| `runner_two_days` | two half days where bars may be lost | a double entry needs a crash; no stale signal is resubmitted; the account does only what `Broker` allows |
| `plan` | two days, three signals, one plan edit, one sync, one restart | more positions than the cap need an approval beside a working entry (`CapNeedsWorking`); each entry fits the plan as it is when sent, unless it was edited meanwhile (`EntriesFitThePlan`); what a day loses is bounded (`LossBounded`); the window has five business days (`WindowExact`) |
| `plan_caps` | do the plan's facts count the entries of the day? | no, see 5 |
| `manage` | two brackets, long and short, two passes, one manual control | no pass loosens a stop (`PassTightens`); what is held has a managed row (`HeldIsManaged`); booked trades add up to the cash (`TradesAddUp`); each but for the exceptions it names; a trade is marked as a wash sale exactly for the entries before its sale, however late it is booked (`WashSales`) |
| `manage_stop` | is the managed stop the account's stop? | no, see 5 |
| `session` | a day of up to four bars of one symbol, one fault, one crash, either strategy, then any script | memory is what a restart would rebuild (`RecoveryFaithful`); a second signal of a symbol needs a crash and, by strategy, the faults `Perils` names (`OneSignal`); the backtest of a clean day trades the runner's signals, and windows share out all trades (`EveningAgrees`); costs never help, the risk limit and the stop-first rule hold (`TradesHonest`) |
| `orb_premarket` | does ORB skip a day only for a missed bar? | no, see 5 |
| `desk` | two processes among requests, threads and scripts, three stocks, failing services, restarts | a saved screen is what its criteria say (`ScreenIsHonest`); suggestions belong to their screen (`PicksFromTheirScreen`); a lock is held exactly while its job lives (`LockMatchesJob`) |
| `watchlist` | two clients, three names, one symbol, three lists | without overlap since an activation that ran alone exactly one list is active (`OneActive`) and every commit is a step of `WatchlistBook` (`BookSteps`) |
| `deadman` | one symbol, two orders, calls may fail, processes die and restart | one reaction per silence, the check is exact, silence is flattened unless a call fails |
| `tracking` | two brackets, six fills or rows, one crash | rows are faithful, no sale is booked twice, every trade is real, the books converge, the account refines `Broker` |

**Bounds.** Two symbols are needed for handlers of different symbols; three signals allow two signals of one symbol and one of
another. Two crashes allow a process that has recovered to die again. `FlattenTicks`
is one more than `MaxFlattenFailures`, the least the code needs: with as many
failures as passes nothing can be promised. In `Deadman` two orders allow one that
is held and one that is in flight, and `StaleAfter = 2` separates a late from a
stale heartbeat. In `Tracking` two trips allow a sale of the first to be mistaken
for one of the second, and six time units allow both to fill, exit and be seen. The
counters bounded in guards are `crashes`, `failures`, `day` and `now`; `age` is
capped at the first value above the threshold. Symbols and signal ids are
symmetric in `PaperRunner`. In `WatchlistStore` two clients are the dashboard and
the CLI; three lists allow a deletion that must choose between two survivors, and
each needs a name; ranks above all in use are used again, so the run never ends.

In `plan` the holiday on day 8, a Tuesday, makes the window of five business days step over
it and over a weekend; `positions = 1` is the least cap and two entries the least that
exceed it; the forms have a budget below one share, one above, and no trades. In `manage` two trips
with a gap of 20 days put trades inside and outside of the 30-day window, the gap before a
booking too, and 40 days allow two gaps; the menus
have two trails, the second of which would loosen a short's stop, a scale-out
followed by more than is left, and a close beside other actions; `ManualStops` has
one the form refuses. `plan` reads the account and `plan_caps` the
override. In `session` bars of four minutes and
two shapes cover a full and a broken opening range, a breakout, and both sides of the
VWAP; `MaxLen = 3` lets the ring buffer wrap; a holiday lies between the
archive and today, and the last bar of its first day touches a stop and a target at once. In `desk` the stocks
are a cheap one whose quote is off, one with punctuation in its symbol and one without a
market cap; `MaxSymbols = 2` and `BatchSize = 2` let an answer be cut off and a batch fail;
two processes are enough for each race the properties speak of. Days, edits, syncs,
passes, manual controls, faults, crashes, jobs and presets in use are the counters
bounded in guards; `Desk` takes ids no longer in use again and its restarts are not
bounded.

**Deadlock** is checked in `watchlist` and `desk`: elsewhere a session ends, and so
does the run.

**Fairness.** Only `Deadman` and `Tracking` have liveness properties; the properties
of the other modules are safety. In `Deadman`,
time passes, and the switch's own loop is scheduled and its calls return or
raise (`deadman.py:47-95` is an endless loop over them); nothing is assumed of
the runner, the account or restarts. In `Tracking` the two loops wake up again and
again (`paper_run.py:293-317`), hence strong fairness of the two fetches, since
each is disabled while the other runs, and a call that was made returns, hence
weak fairness of the rest; nothing is assumed of the account, of crashes or of
restarts. `BooksConverge` is about a runner that stays up in the end, and about an
account that comes to rest, which the bounds of the run bring about.

## 4. Proofs

Eight modules hold proofs, one of them (`SumTheorems`) only lemmas. The others prove, for
all values of the constants that satisfy the named assumptions of the modules:

| Theorem | In | Property | Assumption beyond the constants' |
|---|---|---|---|
| `TypeCorrect` | `AccountProofs` | `TypeOK`, `HandlerInv` | |
| `InvariantHolds` | `AccountProofs` | `RunnerInv` | |
| `KillSwitch` | `AccountProofs` | `KillSwitchLeak` | |
| `StaleNotSubmitted` | `AccountProofs` | `NeverResubmitted` | |
| `ImplementsBroker` | `AccountProofs` | `BrokerSpec` | |
| `EntryOnce` | `AccountProofs` | `NoDoubleEntry` | bars are stored and replayed |
| `DoubleNeedsCrash` | `AccountProofs` | `DoubleEntryNeedsCrash` | |
| `FlatCorrect` | `AccountProofs` | `FlatAtClose` | full days, the first day of the process |
| `DeadmanTypeCorrect` | `AccountProofs` | `DeadmanTypeOK` | |
| `ReactsOnce` | `AccountProofs` | `OneReaction` | |
| `NothingEscapes` | `AccountProofs` | `CheckIsExact` | |
| `TrackingTypeCorrect` | `TrackingProofs` | `TypeOK` | |
| `RowsAreFaithful` | `TrackingProofs` | `RowsFaithful` | |
| `SalesBookedOnce` | `TrackingProofs` | `SoldOnce` | |
| `TradesAreReal` | `TrackingProofs` | `TradeIsReal` | |
| `TrackingImplementsBroker` | `TrackingProofs` | `AccountIsBroker` | |
| `ApprovalRespectsLimits` | `DailyPlanProofs` | (of the operators) | prices, equity and limits are integers |
| `PlanTypeCorrect` | `DailyPlanProofs` | `TypeOK` | |
| `EntriesFit` | `DailyPlanProofs` | `EntriesFitThePlan` | |
| `CapHolds` | `DailyPlanProofs` | `CapNeedsWorking` | |
| `LossIsBounded` | `DailyPlanProofs` | `LossBounded` | |
| `WindowIsExact` | `DailyPlanProofs` | `WindowExact` | |
| `ManageTypeCorrect` | `ManageProofs` | `TypeOK` | |
| `HeldStaysManaged` | `ManageProofs` | `HeldIsManaged` | |
| `TradesAreComplete` | `ManageProofs` | `TradesAddUp` | |
| `WashSalesAreMarked` | `ManageProofs` | `WashSales` | |
| `StopsTighten` | `ManageProofs` | `PassTightens` | |
| `DeskTypeCorrect` | `DeskProofs` | `TypeOK` | |
| `ScreensAreHonest` | `DeskProofs` | `ScreenIsHonest` | |
| `PicksKeepTheirScreen` | `DeskProofs` | `PicksFromTheirScreen` | |
| `LocksMatchJobs` | `DeskProofs` | `LockMatchesJob` | |
| `SessionTypeCorrect` | `SessionProofs` | `TypeOK` | |
| `RecoveryIsFaithful` | `SessionProofs` | `RecoveryFaithful` | |
| `SignalsOnce` | `SessionProofs` | `OneSignal` | |
| `TradesAreHonest` | `SessionProofs` | `TradesHonest` | the selling fee is a fraction of what is sold |
| `EveningFollowsDay` | `SessionProofs` | `EveningAgrees` | |
| `StoreTypeCorrect` | `WatchlistStoreProofs` | `TypeOK` | |
| `OneListActive` | `WatchlistStoreProofs` | `OneActive` | |
| `StepsOfTheBook` | `WatchlistStoreProofs` | `BookSteps` | |

The constants' own assumptions are types and bounds, and five that say something of the
world. `DailyPlanAssumption`: a signal's target is at most `Reward` times as far as its
stop. `CalendarAssumption`: the calendar reaches back a window from the first day.
`FmpAssumption`: FMP's quote and volume are near enough to the bars, which is what the
query's widening relies on. `DeskAssumption`: a form or a flag holds criteria, and a lookback of two
at least, as the code insists (`app.py:788`, `screen.py:209`, `upsert_preset`). `SessionAssumption`: the fee on
a sale is a fraction of it, and the data service has each symbol's bars in order of time. TLC
evaluates each of them in a run.

The argument of `AccountProofs`, for the runner: the conjunction `RunnerInv` is inductive
(`InvariantHolds`) and the others follow from it. `HandlerInv` ties the handler to the signal it
holds: past the gate, the row of `cur` is approved. A restart can relabel rows but
never while a handler is running, so what is submitted is always approved
(`StaleNotSubmitted`), and since every order has a row and a new signal takes an id
without a row, an id is accepted once (`InHandInv`, `ImplementsBroker`).
`KillSwitchLeak` is not inductive: `LeakInv` adds that a handler waiting to submit
has not leaked yet, so at most the one in hand gets through. `NoDoubleEntry` needs
`EntryInv`: every row of today is backed by a stored bar, and in a live process by an
entered flag, so no second row for that symbol can be made; the bar is stored
*before* the flag is set, which is what makes a crash harmless. Where bars are lost the
flags alone back the rows until the first crash (`MemoryInv`, `DoubleNeedsCrash`).
`FlatAtClose` needs
`FlatInv`: after a flatten the gate's window is over and no handler is past the
gate, and a window without a flatten has one failure for each pass, so
`MaxFlattenFailures < FlattenTicks` leaves a pass that succeeds. The lemmas on
`CloseAll`, `ExpireDayOrders`, `BrokerStep` and `Accept` say what each does to one
order and are cited wherever the account moves. For the switch, `ArmedCheck` says that it checks only while armed, `ArmedInv`
that an armed idle switch has not acted since the last heartbeat; `CheckInv` that a
check which saw no position and no order landing cannot hide a naked holding.

In `WatchlistStoreProofs` the invariant is `StoreInv`: `AloneInv` says that a
transaction nobody has joined finds the table as it read it (which rows are active,
which is the newest survivor), and `TidyInv` that in a tidy state every open
transaction is one of these. `OneActive` follows for the last statement of each
operation, and an activation that ran alone makes the state tidy whatever it was
before, because the rows it deactivates are all the active ones. `BookSteps` uses
the same invariant: with one active row, `get_active_watchlist` returns it, and each
commit maps to the operation of the same name.

`TrackingProofs`. An order only moves `Onward`: a snapshot a loop still holds may be
old, but where it shows a fill it shows the account's (`SnapInv`), so applying it late
cannot put the orders table ahead (`RowsAreFaithful`). `SoldOnce` needs `TradesInv`:
every booked sale came before the row that is open or being closed, because a row is
opened after every fill so far, while the trade of a row takes a fill since it was opened.
The refinement needs `BracketsInv`: the three orders of a bracket are found in few shapes
together, and a bracket is sent when those before it have ended. `Bracket` is then a
function of the three states (`Look`), at most one bracket is live, and a flatten of that
one is `CloseAll` of the account. `TradeIsReal` adds `RealInv`: nothing fills at the moment
a row is opened, an entry was filled before it, and what belongs to an earlier bracket was
sold before a later one was entered.

`DailyPlanProofs` begins with the gate, that is with operators. `Verdict` names the first check that fails, so an
approval passed them all (`ApprovedChecks`); the quotients round down (`DivBelow`), and
the smallest of the three sizes respects each limit, not only its own, because the risk
and the cost grow with the shares (`TimesMonotone`).

The plan. Positions appear when the account fills, which no gate guards, so
`CapNeedsWorking` is not inductive. `CapInv` counts the symbols of open *and* working
entries and, while an approved signal is not sent yet, the one it adds: unless `crowded`,
these are within the cap. An approval that saw every entry as a position left room for
one more (`DecideKeepsCap`); everything else only shrinks the set (`StateChange`).

The loss of a day is a sum over the open entries. `LossInv` bounds, in place of the realised
loss, the *exposure*: the loss so far with every live entry, and the approved one that is
still in hand, stopped out. Fills leave it alone, a stop moves from one summand to the
other, a target only lowers it; only an approval adds to it, and there the gate's own
comparison bounds the loss it saw, at marks that hide at most the open risk and the open
gain (`WorstCase`), of at most `positions - 1` others (`FewOpen`, which needs `ApartInv`: unless
`crowded`, no symbol is live twice, so counting symbols counts entries). Until the first
approval of the day the equity is at least the opening's, which is why the bound is a
disjunction (`Quiet \/ Bounded`). `EntriesFit` needs that what the handler holds is the plan's
as long as nobody wrote the plan since (`FitInv`). `WindowIsExact` is about a recursive
function: an induction over the dates shows that `n` business days back from `d` there is a
business day with `n` of them up to `d`, as long as the calendar has that many.

`ManageProofs`. A pass removes the row when the shares it counted down from the row are
gone, so `HeldIsManaged` needs that count tied to the account: while the bracket lives and
nothing excuses it, the row is its own, a running pass has at least as many shares left
as are held, and has not declared the position closed (`LiveInv`). `PassTightens` needs
that the row is still what the pass read unless the dashboard touched it (`PassInv`); the
dashboard's removal and a second bracket cannot put another row in its place.
`TradesAddUp` speaks of the moment when the books have caught up; `LedgerInv` says what
holds before: while shares are held, the position's row is theirs and was opened after
every exit so far; once they are gone, exactly one exit has come since, and the
cash is the booked trades and the result that row will be booked with (`NetPnl`).
`ClosedKeepsLedger` is the step that turns one into the other, since `PickExit` then finds
that one exit (`OnlyExit`). `WashSales` says of each trade which others were opened before
its sale, and a trade that is appended could be such a one for those before it. `TimesInv`
excludes that: no sale is of a later day than today, and a row that is open was opened on the
day of every booked sale or after it (`TimesStep`). So in `WashStep` the older trades keep
what their marks were made from, and the new one has been compared with all of them.

`DeskProofs` replaces the cardinality of `LockMatchesJob` by who is under a lock: whoever
runs under it holds it, no two do, and a lock that is held has someone under it
(`HolderInv`). One lemma each says that working on, ending and starting keep this.
`DeskInv` adds what each process has in hand (`JobsInv`), that an active preset exists and
no two share a name (`PresetInv`), and what was saved (`SavedInv`). The work is in the
operators. `RankingOrders`: `Before` is a total order of candidates with different symbols, so
counting who is before gives a ranking without gaps. `AverageBounded`: an average of
volumes, rounded to even, stays under a bound each volume is under. `QueryLeavesNoneOut` is the promise of
`fmp.py`: whatever of the bounds FMP is sent, what it drops would have failed the filter. From these
`ScanIsHonest` follows for every answer and every failed batch. `ParsedKeeps` goes through the
reply as the parser does, from a table of the fold's values. That no other screen
of the dashboard comes between a pre-market check and its suggestions is the lock's doing
(`StoreScreenIsFit`): whoever came to save one would run under the same lock.

`SessionProofs` is about folds over bars. `InOrder` folds a set, the latest bar last
(`OrderStep`), and gives a sequence of all of it in order of time (`OrderKeeps`); `Replayed`
and `Warm` fold a sequence, the last bar last (`ReplayStep`, `WarmStep`, both from
`RunTables`: a table of a fold's values for a longer sequence agrees with that for the
shorter one). From these, `SymbolFollows`: whatever the bars of the others, a replay leaves
a symbol in the state, with the signals and the buffer, that its own bars alone (`Alone`)
leave it in. `SessionTypeCorrect` needs that a range of ORB that has enough bars has one of
each minute (`FullRange`, a pigeonhole argument). `RecoveryFaithful` needs `Memory`: while
nothing went wrong, what is on the wire is newer than what is stored (`WireIsNew`), the bar
in hand is the latest row of its symbol (`HandIsLatest`), and the strategy knows of each
symbol what its rows say without that one bar, while the store has it already
(`MemoryIsTable`). The handler's step is then one step of `Alone` (`AloneStep`); a restart
is `SymbolFollows`.

`OneSignal` has three reasons, and `Spent` holds one for each life and strategy. Before the
first crash the mark is in memory (`FirstLife`). VWAP reversion marks itself again when it
replays the bars it signalled on, so without a drift what the table replays to has entered
(`VwapSpent`). ORB needs less: its state is not the table's after a drift, but the range it
signalled on is complete and stored, and so is the bar that broke out (`Kneaded`). A replay
of a complete range and a breakout ends entered, or skipped by a bar before the range
(`ReplayTells`, from `OrbMove`, what one bar does, by an induction over the replay). A
restart that does not read the table leaves an empty range; that is harmless as long as no
bar of the opening comes again (`RangeIsOver`, `RangeIsSpent`). What is left is what
`Perils` names.

`TradesHonest` is about one trade and where trades come from. What passes the gate has
shares, a stop above zero and, if it is long, a target above the entry, and loses no more
than the risk limit at the stop (`PassedShares`; the quotient of `PositionSize` is rounded
down). Slippage moves a price against the trader, but for half a cent of rounding a leg
(`SlippageHurts`), and each leg pays a commission. The fee on what is sold is a fraction of
it, so selling for less costs more than the fee it saves, and a price that slips below zero
earns nothing (`NetBounded`, `CostsCost`; this is where `SessionAssumption` asks that `sec`
be at most `Basis`, "a fraction of sell-leg notional", `costs.py:40`). A target is booked at
the first bar by place that touches a leg, and within a symbol that is the first by time,
since the market closes bars in order (`ExitIs`, `MarketGoesOn`). Runs are saved once, and
the market stands still after that, so what was true of a run stays true (`HonestStep`).

`EveningAgrees` needs what the runner has heard. On a day without a fault the table and the
wire have all of the market's bars between them, each in its turn, and the signals of a
symbol are those that its stored bars alone give, but for the one in hand (`Heard`). A
script starts when nothing is under way, and nothing is after it (`Settled`), so then the
table is the market, and the replay of the market gives each symbol the signals of its own
bars, whatever else was replayed with it (`SymbolFollows`, `ReplayedAsHeard`). For the
windows, `trading_days_back` gives days in their order (`DaysAscend`), each place of that
list lies in just one window (`PlaceIsOne`), and things that each fall into one place are
counted once (`PlacesAddUp`).

`SumTheorems` has what these need about data. A predicate cannot be a parameter of a lemma
here, but a set can: `NatSetInduction` and `SubsetInduction` are stated of a set that holds
what has been shown, and each use defines that set. The community modules' sums and folds
are recursive functions on the subsets of a set, defined with `CHOOSE`; `TableExists` and
`FoldTable` show that such a function exists, `SumStep`, `SumAdd` and `SumRemove` that the
sum does not depend on the element chosen.

The operators of some modules take a form that can be reasoned about: `Screen` ranks by
counting what is before, not with `SortSeq`, `Upsert` writes a function, not `:>` and `@@`,
and the bars that follow a signal and the trades of a run are sets, not sequences cut with
`SelectSeq`, since the prover does not see what those do.

Every invariant that a passing run checks is proved. Liveness,
`SilenceIsFlattenedOrCallFailed` and `BooksConverge`, is model-checked only: fairness and
`ENABLED` are out of the prover's reach. No module declares a `RECURSIVE` operator.

## 5. Where the code does not do what it says

Three runs end in a violation:

* **Facts of the plan** (`plan_caps`). Both facts select on `orders.submitted_at`, which
  no statement sets, so both are zero for good: the budget bounds each entry alone and the
  day-trade cap binds only when it is 0.
* **Trailed stops** (`manage_stop`). A trailed stop, or one typed into the dashboard, is
  written to `managed_positions`; the leg at the account keeps its price.
* **Premarket bars** (`orb_premarket`). ORB finalises its range on any bar outside
  9:30-9:35, so one before 9:30, which the scripts fetch from 8:00 on, skips the day.

Nine more were found the same way; the modules keep the properties, and the line after
each says what to check to see it again:

* **Wash sales**. The flag is computed once, when a trade is booked, from the trades
  recorded by then (tracking.py:305-309, live_trade_store.py:19-33), and is never revised. A
  loss that is booked before the symbol is entered again stays unmarked, while
  models.py:239-240 says that the flag marks "a realized loss followed by a re-entry in the
  same symbol within 30 days", and round_trip.py:14-15 and 125-126 "before or after".
  `ReentryIsFlagged` in `manage`. What the flag does tell, whether there was an entry before
  the sale, is `WashSales`.
* **Active presets**. A form of the dashboard and `screen.py --save-preset` that activate at
  the same time each deactivate what they find active, and both targets end up active;
  models.py:408-409 and screen_presets_store.py:8 say exactly one, and 175 "atomically". Nor
  is there always one: a preset may be saved and its activation, another transaction, fail,
  and deleting the active one activates no other (201-208); the next screen then runs with
  the default. Of two active ones `get_active_preset` returns the one created last, not "the
  most-recently-activated" (99-104). `OnePresetActive` in `desk`.
* **Half day**. The flatten runs at 12:55, but the VWAP strategy's window (14:30) and the
  gate's (15:55) do not know about the early close, so an entry after the flatten is held
  over the close, while README.md:164-166 says that half-day sessions are handled.
  `FlatAtClose` in `runner_day` with `EarlyClose = TRUE`, one symbol, two signals.
* **Second day**. `flattened` is a local of the loop and is never reset: a process that
  lives for two sessions flattens only the first (eod_flatten.py:2-3: "fires once per
  session"). `FlatAtClose` in `runner_day` with `Days = 2`, `MaxCrashes = 0`.
* **Stale**. No code writes `orders.signal_id`, so every approved signal of the day,
  submitted or not, is relabelled stale by a restart (signal_recovery.py:25-26).
  `StaleMeansUnsubmitted` in `runner_day`.
* **Two active lists**. Two creations that overlap both find no active list and both
  insert an active one; overlapping activations and deletions leave two or none active.
  Nothing in the schema prevents it, and models.py:381-382 promises exactly one.
  `ExactlyOneActive` in `watchlist`.
* **Failed call of the dead-man's switch**. An error of a broker call is taken for an
  empty account, or logged, and the switch disarms (README.md:169-170 promises that it
  cancels and closes everything). `SilenceIsFlattened` in `deadman`.
* **Legs**. The synthetic id of a leg has 87 characters and its column 64, so the
  transaction fails, every time, with all order updates in it. `BooksConverge` in
  `tracking` with `LegsListed = TRUE`.
* **Exit order**. Reconciliation may see a close before the order poll has recorded the
  fill, an order first seen filled never gets its fill time, and one sent before a restart
  is never listed again: a sold position is then recorded as unmatched, for good
  (tracking.py:265-267). `UnmatchedHasNoSale` in `tracking`.

Some behaviour that no document contradicts, met while modelling and named by a property's
exception:

* Shares of a scale-out are in no booked trade (`TradesAddUp`, "scaled"), and the row's
  quantity stays, so a later scale-out asks for shares that are gone.
* Reconciliation drops the managed row of an entry that is still working (`HeldIsManaged`,
  "early"), and the dashboard's close may remove the row of the next bracket ("race").
* The position cap counts filled positions, not working entries (`CapNeedsWorking`).
* The daily loss is measured from an equity read at the start of the process, 100000 if
  that fails (`LossBounded`, `doubtful`).
* A repeated or late bar moves the VWAP although the store drops it, and so does the
  shadow runner's row of a bar the runner missed, at the next restart (`RecoveryFaithful`).
* `replay.py` and `compare.py` look at the static list, whatever the runner watches.

One promise is kept only as far as an assumption goes. fmp.py:64-66 and 71 say that the
loosened query never excludes a symbol the engine would keep. `ScreenIsHonest` and the theorem
`ScreensAreHonest` show it where FMP's figures are as near to the bars as `FmpAssumption`
says, which is what the widening is made for. A stock whose quote is more than ten per cent
away from its last daily close, or whose volume at FMP is a fifth of a day's or less, as it
may be before the market opens, can be dropped by the query although its bars meet the
criteria; neither the run nor the theorem speaks of it. That a saved row meets the criteria,
and the ranking, hold all the same.

## 6. Not modelled, and why

* The pages, charts and the settings form of the dashboard, the CLI's output and the smoke
  test: input and output. The backtest job is a job that ends in any way; its subprocess,
  which a restart of the dashboard leaves running, writes what `Session!BacktestScript`
  writes.
* The session's hours and early closes as dates (`clock.py`): `PaperRunner` has a clock cut
  to what the flatten can tell apart; of `clock.py` itself only the business days are here.
* The runner's graceful shutdown: its loops end, which is a crash at a convenient point.
* Statistics that are quotients (rates, drawdown), the R multiple, prompts and log lines:
  nothing decides on them.
* The shadow runner's own signals and decisions, which nothing reads.
* The audit log, which nothing reads to decide, and the migrations.
* Partial fills and short trips in `Tracking`; `Manage` has both sides and quantities, but
  takes a reconciliation in one step.
* The overlap of two preset writers statement by statement: activation is the one of the
  watchlists, where `WatchlistStore` does it; `Desk` cuts it in two.

Next: a reconciliation cut between query and update, as in `Tracking`, with the prices of
`Manage`.
