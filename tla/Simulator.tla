----------------------------- MODULE Simulator ------------------------------
(***************************************************************************)
(* The backtest as a function of bars (backtest/engine.py, simulator.py,   *)
(* costs.py, stats.py, walk_forward.py): a day is replayed through a       *)
(* strategy and the gate, and what it approves is filled by the bars that  *)
(* follow.                                                                 *)
(*                                                                         *)
(* Prices are multiples of 1/unit cent, the unit being the signal's, and   *)
(* results multiples of 1/(unit * Basis) cent.  A cost model is a record:  *)
(* bps of slippage, share and floor of the commission in cents, sec in     *)
(* 1/Basis of the sold value, of which it is a fraction, and taf in cents  *)
(* a share.                                                                *)
(***************************************************************************)
EXTENDS Strategies, RiskGate, Sequences, SequencesExt

CONSTANT Limits         \* RiskLimits from the settings

Basis == 10000

ZeroCost == [bps |-> 0, share |-> 0, floor |-> 0, sec |-> 0, taf |-> 0]

-----------------------------------------------------------------------------
(* Costs.                                                                  *)

\* A long entry and a short exit buy.
IsBuy(side, action) == (action = "enter") = (side = "long")

\* The nearest whole cent, halves up; num / den is the price.
RoundCents(num, den) == (2 * num + den) \div (2 * den)

Mutant_Slipped(price, unit, side, action, costs) ==     \* in favour of the trader
    IF costs.bps = 0 THEN price
    ELSE LET bps == IF IsBuy(side, action) THEN -costs.bps ELSE costs.bps
         IN  unit * RoundCents(price * (Basis + bps), unit * Basis)

\* apply_slippage: against the trader, then to the cent; nothing without slippage.
Slipped(price, unit, side, action, costs) ==
    IF costs.bps = 0 THEN price
    ELSE LET bps == IF IsBuy(side, action) THEN costs.bps ELSE -costs.bps
         IN  unit * RoundCents(price * (Basis + bps), unit * Basis)

Larger(a, b) == IF a > b THEN a ELSE b

\* per_share_fee, in cents.
Commission(qty, costs) == Larger(costs.share * qty, costs.floor)

\* regulatory_fee of a leg that sells.
Regulatory(value, unit, qty, costs) == value * costs.sec + costs.taf * qty * unit * Basis

-----------------------------------------------------------------------------
(* Fills.                                                                  *)

HitsStop(s, bar) ==
    IF s.side = "long" THEN s.unit * bar.low <= s.stop ELSE s.unit * bar.high >= s.stop
HitsTarget(s, bar) ==
    IF s.side = "long" THEN s.unit * bar.high >= s.target ELSE s.unit * bar.low <= s.target

Exit(reason, price, ts) == [reason |-> reason, price |-> price, ts |-> ts]

\* The bars of the symbol after the signal, by their place in the day.
Followups(s, bars) == {i \in DOMAIN bars : bars[i].symbol = s.symbol /\ bars[i].ts > s.ts}

Mutant_ExitOf(s, bars) ==       \* the target wins a bar that touches both
    LET after    == Followups(s, bars)
        touching == {i \in after : HitsStop(s, bars[i]) \/ HitsTarget(s, bars[i])}
        first    == bars[Min(touching)]
        last     == bars[Max(after)]
    IN  IF touching = {} THEN Exit("eod", s.unit * last.close, last.ts)
        ELSE IF HitsTarget(s, first) THEN Exit("target", s.target, first.ts)
        ELSE Exit("stop", s.stop, first.ts)

\* The first bar that touches a leg; the stop wins ties; else the last close.
ExitOf(s, bars) ==
    LET after    == Followups(s, bars)
        touching == {i \in after : HitsStop(s, bars[i]) \/ HitsTarget(s, bars[i])}
        first    == bars[Min(touching)]
        last     == bars[Max(after)]
    IN  IF touching = {} THEN Exit("eod", s.unit * last.close, last.ts)
        ELSE IF HitsStop(s, first) THEN Exit("stop", s.stop, first.ts)
        ELSE Exit("target", s.target, first.ts)

Gain(side, entry, exit) == IF side = "long" THEN exit - entry ELSE entry - exit

\* _build_trade: a target is a limit order and does not slip.
Trade(s, qty, exit, costs) ==
    LET in    == Slipped(s.entry, s.unit, s.side, "enter", costs)
        out   == IF exit.reason = "target" THEN exit.price
                 ELSE Slipped(exit.price, s.unit, s.side, "exit", costs)
        gross == Gain(s.side, in, out) * qty * Basis
        sold  == IF s.side = "long" THEN out ELSE in
        fees  == 2 * Commission(qty, costs) * s.unit * Basis
                 + Regulatory(sold * qty, s.unit, qty, costs)
    IN  [signal |-> s, qty |-> qty, entry |-> in, exit |-> out, reason |-> exit.reason,
         ts |-> exit.ts, gross |-> gross, fees |-> fees, net |-> gross - fees]

-----------------------------------------------------------------------------
(* One day.                                                                *)

\* The account of the gate holds nothing, and its equity is the one sized against.
Flat(equity, unit) ==
    [equity |-> equity * unit, start |-> equity * unit, power |-> 2 * equity * unit,
     positions |-> {}, deployed |-> 0, trades |-> 0]
NoQuote == [killed |-> FALSE, bid |-> 0, ask |-> 0, volume |-> NoCap]

Passes(s, equity) == Approves(s, Flat(equity, s.unit), NoQuote, Limits, s.ts)

\* The strategies of a day's symbols after some bars, and the signals they returned.
Morning(name, symbols) == [st |-> [x \in symbols |-> Fresh(name)], signals |-> <<>>]

Fed(name, day, bar) ==
    IF bar.symbol \notin DOMAIN day.st THEN day
    ELSE LET r == OnBar(name, day.st[bar.symbol], bar)
         IN  [st |-> [day.st EXCEPT ![bar.symbol] = r.st],
              signals |-> IF r.signal = None THEN day.signals ELSE Append(day.signals, r.signal)]

Replayed(name, symbols, bars) ==
    FoldLeft(LAMBDA day, bar : Fed(name, day, bar), Morning(name, symbols), bars)

Simulated(s, bars, equity, costs) ==
    Trade(s, Shares(s, Flat(equity, s.unit), Limits), ExitOf(s, bars), costs)

\* run_day: no trade without a bar to follow.  The order of a list of trades is left out; a
\* bar gives one signal at most, so none is in it twice.
RunDay(name, symbols, bars, equity, costs) ==
    {Simulated(s, bars, equity, costs) :
        s \in {s \in ToSet(Replayed(name, symbols, bars).signals) :
                 Passes(s, equity) /\ Followups(s, bars) # {}}}

-----------------------------------------------------------------------------
(* Statistics.                                                             *)

\* summarize, without the quotients.
Summary(trades) ==
    [trades |-> Cardinality(trades),
     wins   |-> Cardinality({t \in trades : t.net > 0}),
     losses |-> Cardinality({t \in trades : t.net < 0})]

Mutant_Windows(days, n) == (Len(days)) \div n    \* the short last window is dropped

Windows(days, n) == (Len(days) + n - 1) \div n

\* walk_forward: consecutive windows of n days, the last one may be short; each is
\* summarised by the trades that were signalled on its days.
WalkForward(trades, days, n) ==
    [i \in 1..Windows(days, n) |->
        LET chunk == SubSeq(days, n * (i - 1) + 1, Smaller(n * i, Len(days)))
        IN  [first |-> Head(chunk), last |-> Last(chunk), days |-> Len(chunk),
             summary |-> Summary({t \in trades : t.signal.day \in ToSet(chunk)})]]
=============================================================================
