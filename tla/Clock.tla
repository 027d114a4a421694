------------------------------- MODULE Clock --------------------------------
(***************************************************************************)
(* The business days of clock.py.  A date is a number whose remainder by 7 *)
(* is its weekday, Monday 0.                                               *)
(***************************************************************************)
EXTENDS Naturals

CONSTANT Holidays       \* US_MARKET_HOLIDAYS_2026

ASSUME ClockAssumption == Holidays \subseteq Nat

TradingDay(d) == d % 7 < 5 /\ d \notin Holidays

Mutant_NthBusinessDayBack(d, n) ==   \* a day is counted before it is looked at
    LET back[e \in 0..d] ==
            [k \in 1..n |-> IF k = 1 \/ e = 0 THEN e
                           ELSE back[e - 1][IF TradingDay(e) THEN k - 1 ELSE k]]
    IN  back[d][n]

\* The first day of a window of n trading days that ends on d.
NthBusinessDayBack(d, n) ==
    LET back[e \in 0..d] ==      \* on day e, with the k-th trading day to find
            [k \in 1..n |-> IF e = 0 \/ (TradingDay(e) /\ k = 1) THEN e
                           ELSE back[e - 1][IF TradingDay(e) THEN k - 1 ELSE k]]
    IN  back[d][n]
=============================================================================
