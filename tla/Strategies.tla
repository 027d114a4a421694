----------------------------- MODULE Strategies -----------------------------
(***************************************************************************)
(* The two entry strategies (strategies/orb.py, vwap_reversion.py) as      *)
(* functions of the state of a symbol's day and a closed bar, and the      *)
(* registry that names them.  The state is per symbol and day; neither     *)
(* strategy reads the bar store it is given.                               *)
(*                                                                         *)
(* A bar is of one minute; prices are whole cents.  A VWAP is a quotient,  *)
(* so a signal carries its prices as multiples of one unit-th of a cent,   *)
(* which keeps them exact (Decimal rounds after 28 digits).                *)
(***************************************************************************)
EXTENDS Integers, FiniteSets, FiniteSetsExt, Functions

CONSTANTS
    OrStart, OrEnd,                 \* OR_START, OR_END: the opening range
    LastEntry,                      \* LAST_ENTRY of ORB
    NoEntryBefore, NoEntryAfter     \* the window of VWAP reversion

ASSUME StrategiesAssumption ==
    /\ {OrStart, OrEnd, LastEntry, NoEntryBefore, NoEntryAfter} \subseteq Nat
    /\ OrStart < OrEnd

Strategy == {"orb_5m", "vwap_reversion"}

None == [none |-> TRUE]

\* What on_bar leaves and what it returns.
Quiet(st) == [st |-> st, signal |-> None]

Signal(name, bar, side, unit, stop, target) ==
    [strategy |-> name, symbol |-> bar.symbol, day |-> bar.day, ts |-> bar.ts, side |-> side,
     unit |-> unit, entry |-> unit * bar.close, stop |-> stop, target |-> target]

-----------------------------------------------------------------------------
(* Opening range breakout.                                                 *)

OrbFresh == [range |-> {}, levels |-> None, entered |-> FALSE, skipped |-> FALSE]

InRange(bar) == OrStart <= bar.ts /\ bar.ts < OrEnd

\* or_bars is keyed by time.
Collected(st, bar) == [st EXCEPT !.range = {b \in @ : b.ts # bar.ts} \union {bar}]

OrMinutes == OrEnd - OrStart

Levels(bars) ==
    [high |-> Max({b.high : b \in bars}), low |-> Min({b.low : b \in bars}),
     vol |-> SumFunctionOnSet([b \in bars |-> b.vol], bars)]

\* The first bar that is not in the window fixes the range, or gives up the day.
Finalized(st) ==
    IF st.levels # None \/ st.skipped THEN st
    ELSE IF Cardinality(st.range) < OrMinutes THEN [st EXCEPT !.skipped = TRUE]
    ELSE [st EXCEPT !.levels = Levels(st.range)]

\* A close above the range on half as much volume again as its average minute.
Breakout(st, bar) ==
    /\ ~st.skipped /\ ~st.entered
    /\ bar.ts < LastEntry
    /\ bar.close > st.levels.high
    /\ 2 * OrMinutes * bar.vol >= 3 * st.levels.vol

OrbStep(st, bar) ==
    IF InRange(bar) THEN Quiet(Collected(st, bar))
    ELSE LET fixed == Finalized(st)
         IN  IF Breakout(fixed, bar)
             THEN [st |-> [fixed EXCEPT !.entered = TRUE],
                   signal |-> Signal("orb_5m", bar, "long", 1, fixed.levels.low,
                                     2 * bar.close - fixed.levels.low)]
             ELSE Quiet(fixed)

-----------------------------------------------------------------------------
(* VWAP mean reversion.                                                    *)

VwapFresh == [pv |-> 0, v |-> 0, entered |-> FALSE]

\* cum_pv in thirds, since the typical price is (high + low + close) / 3.
Accumulated(st, bar) ==
    [st EXCEPT !.pv = @ + (bar.high + bar.low + bar.close) * bar.vol, !.v = @ + bar.vol]

Mutant_MayEnter(st, bar) ==      \* the entered flag is forgotten
    NoEntryBefore <= bar.ts /\ bar.ts < NoEntryAfter /\ st.v > 0 /\ st.pv > 0 /\ bar.close > 0

MayEnter(st, bar) ==
    /\ ~st.entered
    /\ NoEntryBefore <= bar.ts /\ bar.ts < NoEntryAfter
    /\ st.v > 0 /\ st.pv > 0 /\ bar.close > 0

\* More than 1.5% off the VWAP, which is pv / (3 * v).
Below(st, bar) == 3000 * st.v * bar.close < 985 * st.pv
Above(st, bar) == 3000 * st.v * bar.close > 1015 * st.pv

\* The target is the VWAP, the stop as far on the other side.
Mirrored(st, bar) == 6 * st.v * bar.close - st.pv

VwapStep(st, bar) ==
    LET fed  == Accumulated(st, bar)
        side == IF Below(fed, bar) THEN "long" ELSE "short"
    IN  IF /\ MayEnter(fed, bar)
           /\ Below(fed, bar) \/ Above(fed, bar)
           /\ side = "long" => Mirrored(fed, bar) > 0
        THEN [st |-> [fed EXCEPT !.entered = TRUE],
              signal |-> Signal("vwap_reversion", bar, side, 3 * fed.v, Mirrored(fed, bar), fed.pv)]
        ELSE Quiet(fed)

-----------------------------------------------------------------------------
\* build_strategy: every run gets a fresh one.
Fresh(name) == IF name = "orb_5m" THEN OrbFresh ELSE VwapFresh
OnBar(name, st, bar) == IF name = "orb_5m" THEN OrbStep(st, bar) ELSE VwapStep(st, bar)

StrategyState(name, bars) ==
    IF name = "orb_5m"
    THEN [range : SUBSET bars, levels : {None} \union [high : Nat, low : Nat, vol : Nat],
          entered : BOOLEAN, skipped : BOOLEAN]
    ELSE [pv : Nat, v : Nat, entered : BOOLEAN]

Signals(symbols, days) ==
    [strategy : Strategy, symbol : symbols, day : days, ts : Nat, side : {"long", "short"},
     unit : Nat \ {0}, entry : Nat, stop : Int, target : Int]
=============================================================================
