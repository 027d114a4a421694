------------------------------ MODULE Screener ------------------------------
(***************************************************************************)
(* The screener as operators (screener/criteria.py, engine.py, data.py,    *)
(* fmp.py) and the parser of the model's reply (suggest/prompt.py).        *)
(*                                                                         *)
(* Prices are in cents, changes in hundredths of a percent.  A criteria is *)
(* a record with ScreenCriteria's fields; None, or an empty list, is no    *)
(* bound.  What the services know of the market is constant; what they     *)
(* return of it is chosen by Universes and Candidates.                     *)
(***************************************************************************)
EXTENDS Integers, Sequences, FiniteSets, SequencesExt, Functions

CONSTANTS
    None,
    Stock,          \* symbols, numbers for the sake of their order
    Plain,          \* those without punctuation
    Tradable,       \* Alpaca's active, tradable equities
    Daily,          \* Alpaca's daily bars of each, oldest first
    Fmp,            \* FMP's row of each
    MaxSymbols,     \* the caps on what is scanned: of FMP's answer,
    Fallback,       \* and of Alpaca's list
    BatchSize

\* What the services may know of a symbol; the caps.
ASSUME MarketAssumption ==
    /\ None \notin Int
    /\ IsFiniteSet(Stock) /\ Stock \subseteq Int
    /\ Plain \subseteq Stock /\ Tradable \subseteq Stock
    /\ MaxSymbols \in Nat /\ Fallback \in Nat /\ BatchSize \in Nat \ {0}
    /\ \A s \in Stock : /\ Daily[s] \in Seq([close : Nat, volume : Nat])
                        /\ Fmp[s].quote \in Int /\ Fmp[s].volume \in Int

\* FMP's quote is within ten percent of the last close, less a cent, and its volume, that
\* of all exchanges, above a fifth of any the bars show: what the widening is to cover.
ASSUME FmpAssumption ==
    \A s \in Stock : Daily[s] # <<>> =>
        /\ 10 * Fmp[s].quote >= 9 * Last(Daily[s]).close + 10
        /\ 10 * Fmp[s].quote + 10 <= 11 * Last(Daily[s]).close
        /\ \A i \in DOMAIN Daily[s] : 5 * Fmp[s].volume > Daily[s][i].volume

Fields == {"min_price", "max_price", "min_avg_volume", "min_change_pct", "max_change_pct",
           "min_market_cap", "max_market_cap", "sectors", "exchanges"}

\* The bounds of a ScreenCriteria, each of its type; what a lookback is.
Bound(f) == IF f \in {"sectors", "exchanges"} THEN SUBSET STRING ELSE Int \union {None}
Criteria(c) == DOMAIN c = Fields /\ \A f \in Fields : c[f] \in Bound(f)

NoBounds == [f \in Fields |-> IF f \in {"sectors", "exchanges"} THEN {} ELSE None]

\* replace(criteria, ...): the fields that o names are overlaid.
Overlaid(c, o) == [f \in Fields |-> IF f \in DOMAIN o THEN o[f] ELSE c[f]]

\* DEFAULT_CRITERIA and DEFAULT_LOOKBACK_DAYS, on the scale of the bars here.
Default == [criteria |-> Overlaid(NoBounds, [min_avg_volume |-> 5]), lookback |-> 2]

\* The bounds only FMP's metadata can satisfy.
FmpFields == {"min_market_cap", "max_market_cap", "sectors", "exchanges"}

Stripped(c) == [f \in Fields |-> IF f \in FmpFields THEN NoBounds[f] ELSE c[f]]

\* n/d to the nearest integer, a tie to the even one.
Rounded(n, d) ==
    LET q == n \div d  r == n % d
    IN  IF 2 * r > d \/ (2 * r = d /\ q % 2 = 1) THEN q + 1 ELSE q

-----------------------------------------------------------------------------
(* The engine.                                                             *)

AtLeast(v, bound) == bound # None => v # None /\ v >= bound
AtMost(v, bound) == bound # None => v # None /\ v <= bound
Listed(v, list) == list # {} => v \in list

Passes(x, c) ==
    /\ AtLeast(x.price, c.min_price) /\ AtMost(x.price, c.max_price)
    /\ AtLeast(x.avg_volume, c.min_avg_volume)
    /\ AtLeast(x.change_pct, c.min_change_pct) /\ AtMost(x.change_pct, c.max_change_pct)
    /\ AtLeast(x.market_cap, c.min_market_cap) /\ AtMost(x.market_cap, c.max_market_cap)
    /\ Listed(x.sector, c.sectors) /\ Listed(x.exchange, c.exchanges)

Before(x, y) ==
    \/ x.avg_volume > y.avg_volume
    \/ x.avg_volume = y.avg_volume /\ x.symbol < y.symbol

\* passes, then rank: each place is taken by the one that so many are before.
Screen(candidates, c) ==
    LET kept == {x \in candidates : Passes(x, c)}
        rank(x) == Cardinality({y \in kept : Before(y, x)})
    IN  [i \in 1..Cardinality(kept) |-> CHOOSE x \in kept : rank(x) = i - 1]

-----------------------------------------------------------------------------
(* The universe: FMP's answer to loosened bounds, or Alpaca's list.        *)

\* A list is sent only if it has one member; a change is not a parameter of FMP's.
One(list) == IF Cardinality(list) = 1 THEN list ELSE {}

Mutant_Params(c) ==             \* the price band is sent as it is
    [c EXCEPT !.min_avg_volume = IF @ = None THEN None ELSE @ \div 5,
              !.min_change_pct = None, !.max_change_pct = None,
              !.sectors = One(@), !.exchanges = One(@)]

\* build_screener_params.
Params(c) ==
    [c EXCEPT !.min_price = IF @ = None THEN None ELSE Rounded(90 * @, 100),
              !.max_price = IF @ = None THEN None ELSE Rounded(110 * @, 100),
              !.min_avg_volume = IF @ = None THEN None ELSE @ \div 5,
              !.min_change_pct = None, !.max_change_pct = None,
              !.sectors = One(@), !.exchanges = One(@)]

\* FMP's rows for a query; whether MoreThan includes the bound itself is not known here.
Answered(q, strict) ==
    {s \in Stock :
        LET row == Fmp[s]
            Beyond(v, bound) == strict /\ bound # None => v # bound
        IN  /\ AtLeast(row.quote, q.min_price) /\ Beyond(row.quote, q.min_price)
            /\ AtMost(row.quote, q.max_price) /\ Beyond(row.quote, q.max_price)
            /\ AtLeast(row.volume, q.min_avg_volume) /\ Beyond(row.volume, q.min_avg_volume)
            /\ AtLeast(row.market_cap, q.min_market_cap)
            /\ Beyond(row.market_cap, q.min_market_cap)
            /\ AtMost(row.market_cap, q.max_market_cap)
            /\ Beyond(row.market_cap, q.max_market_cap)
            /\ Listed(row.sector, q.sectors) /\ Listed(row.exchange, q.exchanges)}

First(n, S) == {s \in S : Cardinality({t \in S : t < s}) < n}

\* fetch_fmp_universe: the answer ends at the cap, and a punctuated symbol is dropped.
\* whole: no cap was reached.
Fetched(c) ==
    UNION {{[symbols |-> got \intersect Plain, meta |-> TRUE, whole |-> got = rows] :
             got \in {S \in SUBSET rows : /\ Cardinality(S) <= MaxSymbols
                                          /\ S = rows \/ Cardinality(S) = MaxSymbols}} :
           rows \in {Answered(Params(c), strict) : strict \in BOOLEAN}}

\* resolve_universe: if FMP has no key, fails, cannot be read or leaves nothing, Alpaca's
\* list is scanned, without metadata.
Universes(c) ==
    {u \in Fetched(c) : u.symbols # {}}
    \union {[symbols |-> First(Fallback, Tradable \intersect Plain), meta |-> FALSE,
             whole |-> Cardinality(Tradable \intersect Plain) <= Fallback]}

-----------------------------------------------------------------------------
(* The facts of each symbol.                                               *)

Window(s, lookback) ==
    LET n == Len(Daily[s])
    IN  SubSeq(Daily[s], IF n > lookback THEN n - lookback + 1 ELSE 1, n)

\* _candidate_from_bars needs a bar, and a first close to compare with.
Usable(s, lookback) ==
    LET w == Window(s, lookback) IN w # <<>> /\ w[1].close > 0

Candidate(s, lookback, meta) ==
    LET w == Window(s, lookback)
        volume == FoldLeft(LAMBDA sum, b : sum + b.volume, 0, w)
    IN  [symbol |-> s, price |-> Last(w).close, avg_volume |-> volume \div Len(w),
         change_pct |-> Rounded(10000 * (Last(w).close - w[1].close), w[1].close),
         market_cap |-> IF meta THEN Fmp[s].market_cap ELSE None,
         sector |-> IF meta THEN Fmp[s].sector ELSE None,
         exchange |-> IF meta THEN Fmp[s].exchange ELSE None]

Batches(symbols) ==
    LET place(s) == Cardinality({t \in symbols : t < s}) \div BatchSize
    IN  {{t \in symbols : place(t) = place(s)} : s \in symbols}

\* build_candidates: a batch that fails is skipped.
Candidates(symbols, lookback, meta, failed) ==
    {Candidate(s, lookback, meta) :
        s \in {t \in symbols \ UNION failed : Usable(t, lookback)}}

-----------------------------------------------------------------------------
(* The reply.                                                              *)

\* parse_suggestions, of a reply whose items are symbols, or None if it is unusable.
Parsed(reply, allowed, cap) ==
    FoldLeft(LAMBDA out, s :
                IF Len(out) < cap /\ s \in allowed /\ ~Contains(out, s)
                THEN Append(out, s) ELSE out,
             <<>>, reply)
=============================================================================
