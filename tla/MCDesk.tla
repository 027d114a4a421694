------------------------------- MODULE MCDesk -------------------------------
(* Desk on a small market: two sectors, a cheap stock whose quote is off,   *)
(* one without a market cap, one with punctuation.                         *)
EXTENDS Desk, TLC

Bars(closes, volume) == [i \in DOMAIN closes |-> [close |-> closes[i], volume |-> volume]]

MCDaily ==
    <<Bars(<<900, 1000>>, 9), Bars(<<200, 90, 95>>, 6), Bars(<<80, 80>>, 9)>>

Row(quote, volume, cap, sector) ==
    [quote |-> quote, volume |-> volume, market_cap |-> cap, sector |-> sector,
     exchange |-> "NYSE"]

MCFmp == <<Row(1000, 9, 20, "tech"), Row(100, 3, 10, "health"), Row(80, 9, None, "tech")>>

With(o, days) == [criteria |-> Overlaid(NoBounds, o), lookback |-> days]

MCWants == {With([max_price |-> 95, sectors |-> {"tech", "health"}], 2)}
MCOverrides == {[min_market_cap |-> 10, max_change_pct |-> 0, lookback |-> 3]}
MCReply == {<<2, 2, 1, 9>>}

Symmetry == Permutations(Proc) \union Permutations(Name)
=============================================================================
