------------------------------ MODULE RiskGate ------------------------------
(***************************************************************************)
(* The pre-trade gate (risk/gate.py) with its limits and its sizing        *)
(* (risk/limits.py, risk/sizing.py).  It is a pure function: what it is    *)
(* given is decided by its callers, the runners and the backtest.          *)
(*                                                                         *)
(* Money is a number of the smallest unit, a percentage a whole number and *)
(* a spread a number of basis points, so that every quotient of the code   *)
(* is exact here; int() and ROUND_DOWN are \div.  Times are minutes of the *)
(* day.  NoCap stands for None.                                            *)
(***************************************************************************)
EXTENDS Integers, FiniteSets

NoCap == -1

Side == {"long", "short"}

Distance(a, b) == IF a < b THEN b - a ELSE a - b

-----------------------------------------------------------------------------
(* Sizing.                                                                 *)

\* The shares that lose at most pct of the equity at the stop.
PositionSize(equity, pct, entry, stop) ==
    IF equity <= 0 \/ pct <= 0 \/ entry <= 0 \/ stop <= 0 \/ entry = stop THEN 0
    ELSE (equity * pct) \div (100 * Distance(entry, stop))

\* The order with a buffer of 5%.
FitsBuyingPower(shares, entry, power) == 105 * shares * entry <= 100 * power

\* The shares that pct of the equity pays for, less what is deployed already.
Affordable(equity, pct, deployed, entry) ==
    IF equity * pct <= 100 * deployed THEN 0
    ELSE (equity * pct - 100 * deployed) \div (100 * entry)

-----------------------------------------------------------------------------
(* The checks.                                                             *)

DailyLossTripped(start, equity, pct) == start * pct <= 100 * (start - equity)

\* A stop or a target on the wrong side of the entry.
BadStop(s) == IF s.side = "long" THEN s.stop >= s.entry ELSE s.stop <= s.entry
BadTarget(s) == IF s.side = "long" THEN s.target <= s.entry ELSE s.target >= s.entry

\* A quote that is missing or not positive is no quote.
WideSpread(m, bps) ==
    /\ m.bid > 0 /\ m.ask > 0
    /\ 20000 * (m.ask - m.bid) > bps * (m.bid + m.ask)

ByRisk(s, a, l) == PositionSize(a.equity, l.risk, s.entry, s.stop)
ByNotional(s, a, l) == Affordable(a.equity, l.notional, 0, s.entry)
ByBudget(s, a, l) ==
    IF l.budget = NoCap THEN ByNotional(s, a, l)
    ELSE Affordable(a.equity, l.budget, a.deployed, s.entry)

Smaller(a, b) == IF a < b THEN a ELSE b

Mutant_Shares(s, a, l) ==    \* the day's budget is not asked
    Smaller(ByRisk(s, a, l), ByNotional(s, a, l))

Shares(s, a, l) == Smaller(ByRisk(s, a, l), Smaller(ByNotional(s, a, l), ByBudget(s, a, l)))

Mutant_Full(a, l) == Cardinality(a.positions) > l.positions   \* one too many

\* The cap of concurrent positions.
Full(a, l) == Cardinality(a.positions) >= l.positions

Mutant_Halted(a, l) ==      \* the two equities are swapped
    DailyLossTripped(a.equity, a.start, l.loss)

Halted(a, l) == DailyLossTripped(a.start, a.equity, l.loss)

\* The first check that fails names the reason; "ok" approves.
Verdict(s, a, m, l, t) ==
    IF m.killed THEN "kill_switch"
    ELSE IF t < l.before THEN "too_early"
    ELSE IF t >= l.after THEN "too_late"
    ELSE IF s.side \notin Side THEN "bad_side"
    ELSE IF s.symbol \in a.positions THEN "existing_position"
    ELSE IF Full(a, l) THEN "max_positions"
    ELSE IF Halted(a, l) THEN "daily_loss_limit"
    ELSE IF l.trades # NoCap /\ a.trades >= l.trades THEN "day_trade_limit"
    ELSE IF BadStop(s) THEN "bad_stop"
    ELSE IF BadTarget(s) THEN "bad_target"
    ELSE IF WideSpread(m, l.spread) THEN "wide_spread"
    ELSE IF m.volume # NoCap /\ m.volume < l.volume THEN "low_volume"
    ELSE IF ByRisk(s, a, l) <= 0 THEN "zero_shares"
    ELSE IF Shares(s, a, l) <= 0
         THEN IF l.budget # NoCap /\ ByBudget(s, a, l) <= 0 THEN "budget_exhausted"
              ELSE "position_too_large"
    ELSE IF ~FitsBuyingPower(Shares(s, a, l), s.entry, a.power) THEN "insufficient_buying_power"
    ELSE "ok"

Approves(s, a, m, l, t) == Verdict(s, a, m, l, t) = "ok"
=============================================================================
