------------------------------ MODULE Session -------------------------------
(***************************************************************************)
(* The bars of one trading day, live and afterwards:                       *)
(*   - the market closes bars, the websocket carries them to the runner    *)
(*     (data/feed.py), which keeps them in memory (data/bars.py), stores   *)
(*     them (data/persistence.py) and shows them to its strategy;          *)
(*   - the process may die at any point, and the next one replays the      *)
(*     stored bars (data/bars_backfill.py);                                *)
(*   - the shadow runner stores into the same table;                       *)
(*   - in the evening the replay, backtest and compare scripts run over    *)
(*     the day and those before it (scripts/replay.py, backtest.py,        *)
(*     compare.py) and save what they found (backtest/persistence.py).     *)
(*                                                                         *)
(* What the paper runner makes of a signal is PaperRunner's.  The feed's   *)
(* handler awaits the runner's, so one bar is in hand at a time.           *)
(***************************************************************************)
EXTENDS Simulator, Clock, Folds

CONSTANTS
    Today,
    Traded,         \* symbols whose bars close today
    Watchlist,      \* symbols the runner watches: the active list, or the static one
    Static,         \* WATCHLIST, which replay.py and compare.py use whatever the runner watches
    Minutes,        \* minutes of the day in which a bar may close
    Shapes,         \* high, low, close and volume of a bar
    Archive,        \* bars of the days before, by day
    Names,          \* --strategy
    CostModels,     \* cost models of the honest scripts
    WindowSizes,    \* --window-days
    DayCounts,      \* --days
    Equity,         \* --equity
    MaxLen,         \* maxlen of the bar store
    MaxWire,        \* bound: bars under way
    MaxFaults,      \* bound: bars lost, late, repeated, not stored, or not read back
    MaxCrashes      \* bound

Symbols == Traded \union Static
Tape(symbols, days) ==
    [symbol : symbols, day : days, ts : Nat, high : Nat, low : Nat, close : Nat, vol : Nat]

\* The bars of each symbol come in order.
Chronological(bars) ==
    \A i, j \in DOMAIN bars : i < j /\ bars[i].symbol = bars[j].symbol => bars[i].ts < bars[j].ts

ASSUME SessionAssumption ==
    /\ Today \in Nat /\ TradingDay(Today)
    /\ Minutes \subseteq Nat /\ Names \subseteq Strategy
    /\ Shapes \subseteq [high : Nat, low : Nat, close : Nat, vol : Nat]
    /\ DOMAIN Archive \subseteq 0..(Today - 1)
    /\ \A d \in DOMAIN Archive : Archive[d] \in Seq(Tape(Symbols, {d})) /\ Chronological(Archive[d])
    /\ Watchlist \subseteq Traded
    /\ CostModels \subseteq [bps : Nat, share : Nat, floor : Nat, sec : 0..Basis, taf : Nat]
    /\ WindowSizes \subseteq Nat \ {0} /\ DayCounts \subseteq Nat
    /\ {Equity, Limits.risk, Limits.notional} \subseteq Nat /\ Limits.budget \in Nat \union {NoCap}
    /\ {MaxLen, MaxWire, MaxFaults, MaxCrashes} \subseteq Nat

VARIABLES
    name,       \* the strategy that was asked for
    market,     \* bars that closed today, in order
    wire,       \* those on their way to the runner
    up,         \* the runner lives
    st,         \* its strategy: state by symbol
    store,      \* its bar store: bars by symbol
    hand,       \* the bar its handler works on, stored but not seen by the strategy
    rows,       \* bars table, today's part
    fired,      \* signals its strategy has returned
    saved,      \* replay_runs with their replay_trades
    \* history
    drift,      \* what set the strategy apart from the table since it was built
    faults,     \* what went wrong today
    failures, crashes

runner == <<up, st, store, hand, rows, fired>>
history == <<drift, faults, failures, crashes>>
vars == <<name, market, wire, runner, saved, history>>

Drifts == {"unstored", "repeated", "late", "foreign", "unread"}
Faults == Drifts \union {"lost", "cut"}

NoBar == None

Bars == {b \in Tape(Traded, {Today}) : b.ts \in Minutes}

\* One bar of a symbol and minute.
Keyed(bars) == \A a, b \in bars : a.symbol = b.symbol /\ a.ts = b.ts => a = b
Ascending(bars) == \A i, j \in DOMAIN bars : i < j => bars[i].ts < bars[j].ts

Init ==
    /\ name \in Names
    /\ market = <<>> /\ wire = <<>>
    /\ up = TRUE /\ st = Morning(name, Watchlist).st
    /\ store = [x \in Watchlist |-> <<>>]
    /\ hand = NoBar
    /\ rows = {} /\ fired = <<>> /\ saved = {}
    /\ drift = {} /\ faults = {} /\ failures = 0 /\ crashes = 0

Fault(kind) ==
    /\ failures < MaxFaults /\ failures' = failures + 1
    /\ faults' = faults \union {kind}
Fine == UNCHANGED <<faults, failures>>

-----------------------------------------------------------------------------
(* The market and the websocket.                                           *)

\* A minute in which nothing trades has no bar.  The runner subscribes to its watchlist.
BarCloses(x, t, shape) ==
    /\ saved = {} /\ Len(wire) < MaxWire
    /\ \A b \in ToSet(market) : b.ts < t \/ (b.ts = t /\ b.symbol # x)
    /\ LET bar == [symbol |-> x, day |-> Today, ts |-> t, high |-> shape.high,
                   low |-> shape.low, close |-> shape.close, vol |-> shape.vol]
       IN  /\ market' = Append(market, bar)
           /\ wire' = IF up /\ x \in Watchlist THEN Append(wire, bar) ELSE wire
    /\ faults' = IF up \/ x \notin Watchlist THEN faults ELSE faults \union {"lost"}
    /\ UNCHANGED <<name, runner, saved, drift, failures, crashes>>

Watched == {b \in ToSet(market) : b.symbol \in Watchlist}

\* A connection that breaks loses what was sent.
Lost ==
    /\ wire # <<>> /\ wire' = Tail(wire) /\ Fault("lost")
    /\ UNCHANGED <<name, market, runner, saved, drift, crashes>>

\* The shadow runner stores what it receives.
ShadowStores ==
    /\ \E bar \in Watched \ rows : rows' = rows \union {bar}
    /\ drift' = drift \union {"foreign"} /\ Fault("foreign")
    /\ UNCHANGED <<name, market, wire, up, st, store, hand, fired, saved, crashes>>

-----------------------------------------------------------------------------
(* The runner.                                                             *)

Newest(bars, n) == IF Len(bars) <= n THEN bars ELSE SubSeq(bars, Len(bars) - n + 1, Len(bars))

Mutant_Appended(bars, bar) == Newest(Append(bars, bar), MaxLen)    \* whatever its time

\* BarStore.append: a bar that is not newer than the last is dropped, and the oldest goes
\* when the buffer is full.
Appended(bars, bar) ==
    IF bars # <<>> /\ Last(bars).ts >= bar.ts THEN bars ELSE Newest(Append(bars, bar), MaxLen)

\* The insert does nothing on a conflict.
Persisted(bar) == IF \E b \in rows : b.symbol = bar.symbol /\ b.ts = bar.ts THEN rows
                  ELSE rows \union {bar}

\* _handle_raw_bar and the head of on_bar: whatever the store made of the bar, the handlers
\* get it.  An insert that fails is logged.
Receive(bar) ==
    /\ up /\ hand = NoBar
    /\ hand' = bar
    /\ store' = [store EXCEPT ![bar.symbol] = Appended(@, bar)]

Overtaken(bar) == \E b \in rows : b.symbol = bar.symbol /\ b.ts > bar.ts

Stored(bar, d) ==
    /\ rows' = Persisted(bar)
    /\ drift' = drift \union d \union (IF Overtaken(bar) THEN {"late"} ELSE {})
Unstored == rows' = rows /\ drift' = drift \union {"unstored"}

Arrives ==
    /\ wire # <<>> /\ Receive(Head(wire)) /\ wire' = Tail(wire)
    /\ \/ Stored(Head(wire), {}) /\ Fine
       \/ Unstored /\ Fault("unstored")
    /\ UNCHANGED <<name, market, up, st, fired, saved, crashes>>

\* Out of order: a later bar of the wire comes first.
ArrivesEarly ==
    /\ Len(wire) > 1 /\ Receive(wire[2]) /\ wire' = RemoveAt(wire, 2)
    /\ Stored(wire[2], {}) /\ Fault("late")
    /\ UNCHANGED <<name, market, up, st, fired, saved, crashes>>

\* Delivered once more, after a reconnection.
ArrivesAgain ==
    /\ \E bar \in Watched \ ToSet(wire) : Receive(bar) /\ Stored(bar, {"repeated"})
    /\ Fault("repeated")
    /\ UNCHANGED <<name, market, wire, up, st, fired, saved, crashes>>

Consult ==
    /\ up /\ hand # NoBar
    /\ hand' = NoBar
    /\ LET day == Fed(name, [st |-> st, signals |-> fired], hand)
       IN  st' = day.st /\ fired' = day.signals
    /\ UNCHANGED <<name, market, wire, up, store, rows, saved, history>>

Crash ==
    /\ up /\ crashes < MaxCrashes /\ crashes' = crashes + 1
    /\ up' = FALSE
    /\ st' = Morning(name, Watchlist).st /\ store' = [x \in Watchlist |-> <<>>] /\ hand' = NoBar
    /\ wire' = <<>>
    /\ faults' = faults \union (IF hand = NoBar THEN {} ELSE {"cut"})
                         \union (IF wire = <<>> THEN {} ELSE {"lost"})
    /\ drift' = {}
    /\ UNCHANGED <<name, market, rows, fired, saved, failures>>

\* load_day_bars: ascending by time; bars of a minute in any order.
Latest(bars) == CHOOSE bar \in bars : \A b \in bars : b.ts <= bar.ts
InOrder(bars) ==
    MapThenFoldSet(LAMBDA bar, before : Append(before, bar), <<>>, LAMBDA bar : bar, Latest, bars)
DayBars == InOrder(rows)

Mutant_Recovered ==     \* the store is warmed, the strategy is not
    Morning(name, Watchlist).st

\* replay_bars_through: the signals of the replay are discarded.
Recovered == Replayed(name, Watchlist, DayBars).st

\* fill_store, symbol by symbol.
Warm(bars) ==
    [x \in Watchlist |-> FoldLeft(LAMBDA kept, b : IF b.symbol = x THEN Appended(kept, b) ELSE kept,
                                  <<>>, bars)]

\* A recovery that fails is logged, and the session goes on without it.
Restart ==
    /\ ~up /\ up' = TRUE
    /\ \/ st' = Recovered /\ store' = Warm(DayBars) /\ drift' = {} /\ Fine
       \/ UNCHANGED <<st, store>> /\ drift' = {"unread"} /\ Fault("unread")
    /\ UNCHANGED <<name, market, wire, hand, rows, fired, saved, crashes>>

-----------------------------------------------------------------------------
(* The scripts of the evening.                                             *)

\* fetch_minute_bars: the day as the data service has it.
BarsOf(d) == IF d = Today THEN market ELSE IF d \in DOMAIN Archive THEN Archive[d] ELSE <<>>

\* trading_days_back, oldest first.
TradingDaysBack(end, n) ==
    LET back[d \in 0..end] ==      \* on day d, with k days to find
            [k \in 0..n |-> IF k = 0 \/ (d = 0 /\ ~TradingDay(d)) THEN <<>>
                            ELSE IF ~TradingDay(d) THEN back[d - 1][k]
                            ELSE Append(IF d = 0 THEN <<>> ELSE back[d - 1][k - 1], d)]
    IN  back[end][n]

\* compare_strategies and the loops of the scripts: every strategy on the same bars.
TradesOf(strategy, symbols, days, costs) ==
    UNION {RunDay(strategy, symbols, BarsOf(d), Equity, costs) : d \in ToSet(days)}

\* save_replay: one run with its trades, in one transaction.
Run(mode, strategy, symbols, days, costs, n) ==
    LET trades == TradesOf(strategy, symbols, days, costs)
    IN  [mode |-> mode, strategy |-> strategy, symbols |-> symbols, first |-> Head(days),
         last |-> Last(days), days |-> Len(days), costs |-> costs, summary |-> Summary(trades),
         windows |-> WalkForward(trades, days, n), trades |-> trades]

\* A run without a trade is not saved.
Save(runs) == saved' = {run \in runs : run.trades # {}}

Evening ==
    /\ saved = {} /\ wire = <<>> /\ hand = NoBar /\ market # <<>>
    /\ UNCHANGED <<name, market, wire, runner, history>>

\* Days of a script: one of --date, or --days before the day it runs on.
Spans == {<<Today>>} \union {TradingDaysBack(Today, n) : n \in DayCounts}

ReplayScript ==
    /\ Evening
    /\ \E days \in Spans :
        Save({Run("idealistic", name, Static, days, ZeroCost, Len(days))})

\* resolve_watchlist: the static list stands in for one that cannot be read.
BacktestScript ==
    /\ Evening
    /\ \E days \in Spans, symbols \in {Watchlist, Static}, costs \in CostModels, n \in WindowSizes :
        Save({Run("honest", name, symbols, days, costs, n)})

CompareScript ==
    /\ Evening
    /\ \E days \in Spans, costs \in CostModels, chosen \in SUBSET Strategy \ {{}} :
        Save({Run("honest", strategy, Static, days, costs, Len(days)) : strategy \in chosen})

-----------------------------------------------------------------------------
Next ==
    \/ \E x \in Traded, t \in Minutes, shape \in Shapes : BarCloses(x, t, shape)
    \/ Lost \/ ShadowStores
    \/ Arrives \/ ArrivesEarly \/ ArrivesAgain \/ Consult \/ Crash \/ Restart
    \/ ReplayScript \/ BacktestScript \/ CompareScript

Spec == Init /\ [][Next]_vars

-----------------------------------------------------------------------------
(* Properties.                                                             *)

TypeOK ==
    /\ name \in Names
    /\ market \in Seq(Bars) /\ Keyed(ToSet(market))
    /\ wire \in Seq(Watched) /\ rows \subseteq Watched
    /\ up \in BOOLEAN /\ hand \in Watched \union {NoBar}
    /\ hand # NoBar => up
    /\ st \in [Watchlist -> StrategyState(name, Bars)]
    /\ store \in [Watchlist -> Seq(Bars)]
    /\ \A x \in Watchlist : Len(store[x]) <= MaxLen /\ Ascending(store[x])
    /\ fired \in Seq(Signals(Watchlist, {Today}))
    /\ \A run \in saved : run.trades # {}
    /\ drift \subseteq Drifts /\ faults \subseteq Faults
    /\ failures \in 0..MaxFaults /\ crashes \in 0..MaxCrashes

\* Recovery (bars_backfill.py:89): whenever no handler runs, the memory of the runner is
\* what a restart would rebuild from the table, unless since it was built a bar was not
\* stored, came twice or out of order, was stored by the other runner, or was not read back.
RecoveryFaithful ==
    up /\ hand = NoBar /\ drift = {} => st = Recovered /\ store = Warm(DayBars)

\* What makes a strategy signal twice, together with a crash: a bar that was not stored, or,
\* after a restart that could not read the table, the bars of the opening range once more;
\* VWAP reversion, whose state every bar moves, falls to any drift.
Perils == IF name = "orb_5m" THEN {{"unstored"}, {"unread", "repeated"}} ELSE {{d} : d \in Drifts}

\* "At most one entry per symbol per day" (orb.py:8) across restarts: a second signal of a
\* symbol takes a crash and one of the perils of its strategy, whatever else goes wrong.
OneSignal ==
    (\E i, j \in DOMAIN fired : i < j /\ fired[i].symbol = fired[j].symbol)
        => crashes > 0 /\ \E peril \in Perils : peril \subseteq faults

TradesToday(run) == {t \in run.trades : t.signal.day = Today}
TakenLive == {s \in ToSet(fired) : Passes(s, Equity) /\ Followups(s, market) # {}}
TradesOfWindows(run) == [w \in DOMAIN run.windows |-> run.windows[w].summary.trades]

\* A run of the live strategy over the day trades just the signals the runner had of the
\* symbols both looked at, if the runner received and stored every bar; and the
\* walk-forward windows share out all of a run's trades.
EveningAgrees ==
    \A run \in saved :
        /\ run.strategy = name /\ run.last = Today /\ faults = {}
            => {s \in {t.signal : t \in TradesToday(run)} : s.symbol \in Watchlist}
                = {s \in TakenLive : s.symbol \in run.symbols}
        /\ SumFunctionOnSet(TradesOfWindows(run), DOMAIN run.windows) = run.summary.trades

\* Half a cent a share and leg, which rounding to the cent may give back when the price is
\* not a whole cent.
Rounding(t) == IF t.signal.unit = 1 THEN 0 ELSE t.qty * t.signal.unit * Basis

\* Costs never help a trade, but for that rounding; no trade plans to lose more than the
\* risk limit; and a target is not booked when a bar on the way to it touched the stop.
TradesHonest ==
    \A run \in saved : \A t \in run.trades :
        LET s     == t.signal
            bars  == BarsOf(s.day)
            ideal == Simulated(s, bars, Equity, ZeroCost)
        IN  /\ t.net <= ideal.net + Rounding(t)
            /\ 100 * t.qty * Distance(s.entry, s.stop) <= Equity * s.unit * Limits.risk
            /\ t.reason = "target" =>
                \A i \in Followups(s, bars) : bars[i].ts <= t.ts => ~HitsStop(s, bars[i])

\* orb.py:10: "If we missed any of the five OR bars, skip the symbol for the day."
SkipMeansMissed ==
    name = "orb_5m" /\ up => \A x \in Watchlist : st[x].skipped =>
        \E t \in OrStart..(OrEnd - 1) : \A b \in ToSet(market) : b.symbol = x => b.ts # t
=============================================================================
