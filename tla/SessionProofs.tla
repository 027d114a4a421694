---------------------------- MODULE SessionProofs ----------------------------
(***************************************************************************)
(* Proofs about Session, for any strategy, watchlist, bars and faults:     *)
(* type correctness; that the memory of the runner is what a restart would *)
(* rebuild (RecoveryFaithful); that a strategy signals once for a symbol   *)
(* (OneSignal); that the trades of the scripts are honest (TradesHonest)   *)
(* and on a clean day those of the runner's signals (EveningAgrees).       *)
(*                                                                         *)
(* Bars are replayed by folds, over a set in the order of time (InOrder)   *)
(* and over a sequence (Replayed, Warm).  Each is shown to be a recursion, *)
(* by way of a table of the fold's values, and a replay to be a matter of  *)
(* each symbol for itself: SymbolFollows.                                  *)
(***************************************************************************)
EXTENDS Session, SumTheorems, SequenceTheorems, TLAPS

-----------------------------------------------------------------------------
(* Bars in order.                                                          *)

\* Bars that can be put in order.
Timed(bars) == IsFiniteSet(bars) /\ \A b \in bars : b.ts \in Nat

\* The values of a function on a finite set are finitely many.
LEMMA ImageFinite ==
    ASSUME NEW S, IsFiniteSet(S), NEW f
    PROVE  IsFiniteSet({f[x] : x \in S}) /\ Cardinality({f[x] : x \in S}) <= Cardinality(S)
  <1>. DEFINE T == {f[x] : x \in S}
              h == [x \in S |-> f[x]]
  <1>1. h \in Surjection(S, T)
    BY DEF Surjection
  <1>. HIDE DEF h, T
  <1>2. IsFiniteSet(T) /\ Cardinality(T) <= Cardinality(S)
    BY <1>1, FS_Surjection
  <1>. QED  BY <1>2 DEF T

\* Of some bars one is the latest.
LEMMA LatestIsOne ==
    ASSUME NEW S, Timed(S), S # {}
    PROVE  Latest(S) \in S /\ \A b \in S : b.ts <= Latest(S).ts
  <1>. DEFINE times == {b.ts : b \in S}
  <1>1. IsFiniteSet(times) /\ times \subseteq Int /\ times # {}
    <2>. DEFINE time == [b \in S |-> b.ts]
    <2>1. times = {time[b] : b \in S}
      OBVIOUS
    <2>2. IsFiniteSet({time[b] : b \in S})
      <3>. HIDE DEF time
      <3>. QED  BY ImageFinite DEF Timed
    <2>3. IsFiniteSet(times)
      <3>. HIDE DEF times, time
      <3>. QED  BY <2>1, <2>2
    <2>. QED  BY <2>3 DEF Timed
  <1>2. Max(times) \in times /\ \A t \in times : Max(times) >= t
    <2>. HIDE DEF times
    <2>. QED  BY <1>1, Largest
  <1>3. PICK l \in S : l.ts = Max(times)
    BY <1>2
  <1>4. \A b \in S : b.ts <= l.ts
    BY <1>2, <1>3 DEF Timed
  <1>. QED  BY <1>3, <1>4, Zenon DEF Latest

IsOrder(g, S) ==
    g = [s \in SUBSET S |-> IF s = {} THEN <<>> ELSE Append(g[s \ {Latest(s)}], Latest(s))]

\* The fold is the recursion that takes the latest bar last.
LEMMA OrderIsTable == ASSUME NEW S PROVE InOrder(S) = (CHOOSE g : IsOrder(g, S))[S]
  BY Zenon DEF InOrder, MapThenFoldSet, IsOrder

LEMMA TimedParts == ASSUME NEW S, Timed(S), NEW s \in SUBSET S PROVE Timed(s)
  BY FS_Subset DEF Timed

Latests(S) == [s \in SUBSET S |-> Latest(s)]

LEMMA LatestsPick == ASSUME NEW S, Timed(S) PROVE Picks(Latests(S), S)
  BY TimedParts, LatestIsOne DEF Picks, Latests

\* There is such a table.
LEMMA OrderExists == ASSUME NEW S, Timed(S) PROVE \E g : IsOrder(g, S)
  <1>. DEFINE V == Seq(S)
              pick == Latests(S)
              f == [x \in V \X S |-> Append(x[1], x[2])]
              none == <<>>
  <1>1. none \in V /\ Operates(f, V, S) /\ Picks(pick, S) /\ IsFiniteSet(S)
    BY LatestsPick DEF Operates, Timed
  <1>. HIDE DEF V, pick, f, none
  <1>2. PICK g : IsFold(g, f, none, pick, V, S)
    BY <1>1, FoldTable
  <1>3. ASSUME NEW s \in SUBSET S, s # {} PROVE g[s] = Append(g[s \ {Latest(s)}], Latest(s))
    <2>. DEFINE r == s \ {Latest(s)}
    <2>1. pick[s] = Latest(s) /\ Latest(s) \in S /\ r \in SUBSET S
      BY <1>1, <1>3 DEF Picks, pick, Latests
    <2>2. g[r] \in V
      BY <1>2, <2>1 DEF IsFold
    <2>3. g[s] = f[<<g[r], Latest(s)>>]
      BY <1>2, <1>3, <2>1 DEF IsFold, Folded
    <2>. HIDE DEF r
    <2>4. f[<<g[r], Latest(s)>>] = Append(g[r], Latest(s))
      BY <2>1, <2>2 DEF f
    <2>. QED  BY <2>3, <2>4 DEF r
  <1>4. \A s \in SUBSET S : s = {} => g[s] = <<>>
    BY <1>2 DEF IsFold, Folded, none
  <1>5. g = [s \in SUBSET S |-> IF s = {} THEN <<>> ELSE Append(g[s \ {Latest(s)}], Latest(s))]
    BY <1>2, <1>3, <1>4 DEF IsFold
  <1>. QED  BY <1>5, Zenon DEF IsOrder

\* The latest bar comes after the others in order.
LEMMA OrderStep ==
    ASSUME NEW S, Timed(S)
    PROVE  InOrder(S) = IF S = {} THEN <<>> ELSE Append(InOrder(S \ {Latest(S)}), Latest(S))
  <1>. DEFINE U == S \ {Latest(S)}
              g == CHOOSE g : IsOrder(g, S)
              h == CHOOSE h : IsOrder(h, U)
              T == {s \in SUBSET U : g[s] = h[s]}
  <1>1. U \in SUBSET S /\ Timed(U) /\ IsFiniteSet(U)
    BY TimedParts DEF Timed
  <1>2. InOrder(S) = g[S] /\ InOrder(U) = h[U] /\ IsOrder(g, S) /\ IsOrder(h, U)
    BY <1>1, OrderExists, OrderIsTable
  <1>. HIDE DEF g, h
  <1>3. /\ \A s \in SUBSET S : g[s] = IF s = {} THEN <<>> ELSE Append(g[s \ {Latest(s)}], Latest(s))
        /\ \A s \in SUBSET U : h[s] = IF s = {} THEN <<>> ELSE Append(h[s \ {Latest(s)}], Latest(s))
    BY <1>2, Zenon DEF IsOrder
  <1>4. {} \in T
    BY <1>1, <1>3
  <1>. DEFINE pick == Latests(U)
  <1>5. Picks(pick, U)
    <2>. HIDE DEF U
    <2>. QED  BY <1>1, LatestsPick
  <1>6. ASSUME NEW s \in SUBSET U, s # {}, s \ {pick[s]} \in T PROVE s \in T
    <2>1. pick[s] = Latest(s) /\ s \in SUBSET S
      BY <1>1 DEF Latests
    <2>. HIDE DEF U, pick
    <2>. QED  BY <1>3, <1>6, <2>1
  <1>. HIDE DEF U, pick, T
  <1>7. U \in T
    BY <1>1, <1>4, <1>5, <1>6, SubsetInduction
  <1>8. g[U] = h[U]
    BY <1>7 DEF T
  <1>. QED  BY <1>2, <1>3, <1>8 DEF U

\* A sequence keeps what it is a sequence of, and its elements.
LEMMA SeqElements ==
    ASSUME NEW S, NEW s \in Seq(S), NEW e \in S
    PROVE  /\ ToSet(s) \subseteq S /\ s \in Seq(ToSet(s))
           /\ ToSet(Append(s, e)) = ToSet(s) \union {e}
           /\ IsFiniteSet(ToSet(s)) /\ ToSet(<<>>) = {}
  <1>1. DOMAIN s = 1..Len(s) /\ Len(s) \in Nat /\ \A i \in DOMAIN s : s[i] \in S
    OBVIOUS
  <1>2. ToSet(s) \subseteq S /\ s \in Seq(ToSet(s))
    BY <1>1 DEF ToSet
  <1>3. ToSet(Append(s, e)) = ToSet(s) \union {e}
    <2>. DEFINE more == Append(s, e)
    <2>1. /\ DOMAIN more = 1..(Len(s) + 1) /\ more[Len(s) + 1] = e
          /\ \A i \in 1..Len(s) : more[i] = s[i]
      OBVIOUS
    <2>. HIDE DEF more
    <2>2. ToSet(more) \subseteq ToSet(s) \union {e}
      BY <1>1, <2>1 DEF ToSet
    <2>3. ToSet(s) \union {e} \subseteq ToSet(more)
      BY <1>1, <2>1 DEF ToSet
    <2>. QED  BY <2>2, <2>3 DEF more
  <1>4. IsFiniteSet(ToSet(s))
    <2>1. IsFiniteSet(DOMAIN s)
      BY <1>1, FS_Interval
    <2>2. ToSet(s) = {s[i] : i \in DOMAIN s}
      BY DEF ToSet
    <2>. QED  BY <2>1, <2>2, ImageFinite
  <1>5. ToSet(<<>>) = {}
    BY DEF ToSet
  <1>. QED  BY <1>2, <1>3, <1>4, <1>5

\* Bars in order are those bars, and those of a symbol follow by time.
LEMMA OrderKeeps ==
    ASSUME NEW S, Timed(S), Keyed(S)
    PROVE  /\ InOrder(S) \in Seq(S) /\ ToSet(InOrder(S)) = S
           /\ Chronological(InOrder(S))
  <1>. DEFINE Good(s) == /\ InOrder(s) \in Seq(S) /\ ToSet(InOrder(s)) = s
                         /\ Chronological(InOrder(s))
              T == {s \in SUBSET S : Good(s)}
              pick == Latests(S)
  <1>1. \A s \in SUBSET S : Timed(s) /\ Keyed(s)
    BY TimedParts DEF Keyed
  <1>2. {} \in T
    <2>1. InOrder({}) = <<>>
      BY <1>1, OrderStep
    <2>. DEFINE none == <<>>
    <2>2. none \in Seq(S) /\ ToSet(none) = {} /\ Chronological(none)
      BY DEF ToSet, Chronological
    <2>. HIDE DEF none
    <2>3. InOrder({}) = none
      BY <2>1 DEF none
    <2>. QED  BY <2>2, <2>3
  <1>3. Picks(pick, S) /\ IsFiniteSet(S)
    BY LatestsPick DEF Timed
  <1>4. ASSUME NEW s \in SUBSET S, s # {}, s \ {pick[s]} \in T PROVE s \in T
    <2>. DEFINE l == Latest(s)
                r == s \ {l}
                q == InOrder(r)
    <2>1. l \in s /\ (\A b \in s : b.ts <= l.ts) /\ pick[s] = l
      BY <1>1, <1>4, LatestIsOne DEF Latests
    <2>2. InOrder(s) = Append(q, l)
      BY <1>1, <1>4, OrderStep
    <2>3. q \in Seq(S) /\ ToSet(q) = r /\ Chronological(q) /\ r \in SUBSET S
      BY <1>4, <2>1
    <2>. HIDE DEF l, q
    <2>. DEFINE more == Append(q, l)
    <2>4. more \in Seq(S) /\ ToSet(more) = r \union {l}
      BY <2>1, <2>3, SeqElements
    <2>5. /\ DOMAIN q = 1..Len(q) /\ Len(q) \in Nat /\ DOMAIN more = 1..(Len(q) + 1)
          /\ more[Len(q) + 1] = l /\ \A i \in 1..Len(q) : more[i] = q[i]
      BY <2>1, <2>3
    <2>6. \A i \in 1..Len(q) : q[i] \in r
      BY <2>3, <2>5 DEF ToSet
    <2>. HIDE DEF more
    <2>7. Chronological(more)
      <3>. SUFFICES ASSUME NEW i \in DOMAIN more, NEW j \in DOMAIN more,
                           i < j, more[i].symbol = more[j].symbol
                    PROVE  more[i].ts < more[j].ts
        BY DEF Chronological
      <3>1. CASE j \in 1..Len(q)
        <4>1. i \in 1..Len(q) /\ more[i] = q[i] /\ more[j] = q[j]
          BY <2>5, <3>1
        <4>. QED  BY <2>3, <2>5, <3>1, <4>1 DEF Chronological
      <3>2. CASE j = Len(q) + 1
        <4>1. i \in 1..Len(q) /\ more[i] = q[i] /\ more[j] = l
          BY <2>5, <3>2
        <4>2. q[i] \in s /\ q[i] # l /\ q[i].ts <= l.ts /\ q[i].ts \in Nat /\ l.ts \in Nat
          BY <1>1, <2>1, <2>6, <4>1 DEF Timed
        <4>3. q[i].ts # l.ts
          BY <1>1, <2>1, <4>1, <4>2 DEF Keyed
        <4>. QED  BY <4>1, <4>2, <4>3
      <3>. QED  BY <2>5, <3>1, <3>2
    <2>8. Good(s)
      BY <2>1, <2>2, <2>4, <2>7 DEF more
    <2>. QED  BY <2>8
  <1>. HIDE DEF T, pick
  <1>5. S \in T
    BY <1>2, <1>3, <1>4, SubsetInduction
  <1>. QED  BY <1>5 DEF T

-----------------------------------------------------------------------------
(* A strategy and a bar.                                                   *)

\* A finite set of numbers has a smallest one.
LEMMA Smallest ==
    ASSUME NEW S, IsFiniteSet(S), S \subseteq Int, S # {}
    PROVE  Min(S) \in S /\ \A y \in S : Min(S) <= y
  <1>. DEFINE minus == [x \in S |-> -x]
              T == {minus[x] : x \in S}
  <1>1. \A x \in S : minus[x] = -x /\ minus[x] \in Int
    OBVIOUS
  <1>2. IsFiniteSet(T) /\ T \subseteq Int /\ T # {}
    <2>1. T \subseteq Int /\ T # {}
      BY <1>1
    <2>2. IsFiniteSet(T)
      <3>. HIDE DEF minus
      <3>. QED  BY ImageFinite
    <2>. QED  BY <2>1, <2>2
  <1>3. Max(T) \in T /\ \A y \in T : Max(T) >= y
    <2>. HIDE DEF T
    <2>. QED  BY <1>2, Largest
  <1>4. PICK x \in S : minus[x] = Max(T)
    BY <1>3
  <1>. HIDE DEF minus
  <1>5. ASSUME NEW y \in S PROVE x <= y
    <2>1. Max(T) >= minus[y]
      BY <1>3
    <2>2. minus[x] >= minus[y] /\ minus[x] = -x /\ minus[y] = -y /\ x \in Int /\ y \in Int
      BY <1>1, <1>4, <2>1
    <2>. HIDE DEF T
    <2>. QED  BY <2>2
  <1>. HIDE DEF T
  <1>. QED  BY <1>5, Zenon DEF Min

Own(bars, x) == {b \in bars : b.symbol = x}

\* What the range of ORB is worth: once it is fixed it has a bar of each minute.
Complete(range) == {b.ts : b \in range} = OrStart..(OrEnd - 1)
Sound(s) ==
    /\ IsFiniteSet(s.range) /\ \A b \in s.range : InRange(b)
    /\ s.levels # None => Complete(s.range) /\ s.levels = Levels(s.range)
    /\ s.entered => s.levels # None

\* The states of a strategy that has seen some bars of a symbol.
States(n, bars) == {s \in StrategyState(n, bars) : n = "orb_5m" => Sound(s)}

\* One bar a minute, of one symbol.
Single(bars, x) == Keyed(bars) /\ \A b \in bars : b.symbol = x

OrbStates(bars) == States("orb_5m", bars)

\* As many bars of the range as it has minutes are one of each minute.
LEMMA FullRange ==
    ASSUME NEW bars, NEW x, Single(bars, x), \A b \in bars : b.ts \in Nat,
           NEW range \in SUBSET bars, IsFiniteSet(range), \A b \in range : InRange(b),
           ~(Cardinality(range) < OrMinutes)
    PROVE  Complete(range)
  <1>. DEFINE times == {b.ts : b \in range}
              time == [b \in range |-> b.ts]
              all == OrStart..(OrEnd - 1)
  <1>0. OrStart \in Nat /\ OrEnd \in Nat /\ OrStart < OrEnd
    BY StrategiesAssumption
  <1>1. time \in Surjection(range, times) /\ time \in Injection(range, times)
    BY DEF Surjection, Injection, IsInjective, Single, Keyed
  <1>2. IsFiniteSet(times) /\ Cardinality(times) = Cardinality(range)
    <2>. HIDE DEF times, time
    <2>. QED  BY <1>1, FS_Surjection
  <1>3. IsFiniteSet(all) /\ Cardinality(all) = OrMinutes
    <2>. DEFINE last == OrEnd - 1
    <2>1. OrStart \in Int /\ last \in Int /\ ~(OrStart > last) /\ last - OrStart + 1 = OrMinutes
      BY <1>0 DEF OrMinutes
    <2>. HIDE DEF last
    <2>2. IsFiniteSet(OrStart..last) /\ Cardinality(OrStart..last) = last - OrStart + 1
      BY <2>1, FS_Interval
    <2>. QED  BY <2>1, <2>2 DEF last
  <1>4. times \subseteq all
    <2>. SUFFICES ASSUME NEW b \in range PROVE b.ts \in all
      OBVIOUS
    <2>1. b.ts \in Nat /\ OrStart <= b.ts /\ b.ts < OrEnd
      BY DEF InRange
    <2>. QED  BY <1>0, <2>1
  <1>5. Cardinality(times) <= Cardinality(all) /\ (Cardinality(all) = Cardinality(times) => all = times)
    <2>. HIDE DEF times, all
    <2>. QED  BY <1>3, <1>4, FS_Subset
  <1>6. Cardinality(all) = Cardinality(times)
    <2>1. Cardinality(range) \in Nat /\ OrMinutes \in Nat
      BY <1>0, FS_CardinalityType DEF OrMinutes
    <2>. HIDE DEF times, all
    <2>. QED  BY <1>2, <1>3, <1>5, <2>1
  <1>. QED  BY <1>5, <1>6 DEF Complete

LEMMA LevelsType ==
    ASSUME NEW range, IsFiniteSet(range), range # {},
           \A b \in range : b.high \in Nat /\ b.low \in Nat /\ b.vol \in Nat
    PROVE  Levels(range) \in [high : Nat, low : Nat, vol : Nat]
  <1>. DEFINE highs == {b.high : b \in range}
              lows == {b.low : b \in range}
              high == [b \in range |-> b.high]
              low == [b \in range |-> b.low]
              vol == [b \in range |-> b.vol]
  <1>1. /\ highs = {high[b] : b \in range} /\ lows = {low[b] : b \in range}
        /\ highs \subseteq Nat /\ lows \subseteq Nat /\ highs # {} /\ lows # {}
        /\ \A b \in range : vol[b] \in Nat
    OBVIOUS
  <1>2. IsFiniteSet({high[b] : b \in range}) /\ IsFiniteSet({low[b] : b \in range})
    <2>. HIDE DEF high, low
    <2>. QED  BY ImageFinite
  <1>. HIDE DEF highs, lows, high, low, vol
  <1>3. Max(highs) \in Nat /\ Min(lows) \in Nat
    <2>1. highs \subseteq Int /\ lows \subseteq Int
      BY <1>1
    <2>. QED  BY <1>1, <1>2, <2>1, Largest, Smallest
  <1>4. SumFunctionOnSet(vol, range) \in Nat
    BY <1>1, SumNatural
  <1>. QED  BY <1>3, <1>4 DEF Levels, highs, lows, vol

\* A bar leaves ORB in a state that is worth as much.
LEMMA OrbKeeps ==
    ASSUME NEW x, NEW D, D \subseteq Nat, NEW bars \in SUBSET Tape({x}, D), Single(bars, x),
           NEW s \in OrbStates(bars), NEW bar \in bars
    PROVE  /\ OrbStep(s, bar).st \in OrbStates(bars)
           /\ OrbStep(s, bar).signal \in {None} \union Signals({x}, D)
  <1>. DEFINE full == [high : Nat, low : Nat, vol : Nat]
              shape == [range : SUBSET bars, levels : {None} \union full,
                        entered : BOOLEAN, skipped : BOOLEAN]
  <1>1. s \in shape /\ Sound(s)
    BY DEF OrbStates, States, StrategyState
  <1>2. \A r \in shape : Sound(r) => r \in OrbStates(bars)
    BY DEF OrbStates, States, StrategyState
  <1>3. \A b \in bars : /\ b.symbol = x /\ b.day \in D /\ b.ts \in Nat
                        /\ b.high \in Nat /\ b.low \in Nat /\ b.close \in Nat /\ b.vol \in Nat
    BY DEF Tape
  <1>4. /\ s.range \in SUBSET bars /\ s.levels \in {None} \union full
        /\ s.entered \in BOOLEAN /\ s.skipped \in BOOLEAN
    BY <1>1
  <1>5. CASE InRange(bar)
    <2>. DEFINE range == {b \in s.range : b.ts # bar.ts} \union {bar}
                r == [range |-> range, levels |-> s.levels, entered |-> s.entered,
                      skipped |-> s.skipped]
    <2>1. OrbStep(s, bar) = Quiet(r)
      <3>1. Collected(s, bar) = [s EXCEPT !.range = range]
        BY Zenon DEF Collected
      <3>. HIDE DEF range
      <3>2. [s EXCEPT !.range = range] = r
        BY <1>1
      <3>. QED  BY <1>5, <3>1, <3>2, Zenon DEF OrbStep
    <2>2. range \in SUBSET bars /\ \A b \in range : InRange(b)
      BY <1>1, <1>4, <1>5 DEF Sound
    <2>3. IsFiniteSet(range)
      <3>1. IsFiniteSet({b \in s.range : b.ts # bar.ts})
        BY <1>1, FS_Subset DEF Sound
      <3>. QED  BY <3>1, FS_AddElement
    <2>4. ASSUME s.levels # None PROVE range = s.range
      <3>1. bar.ts \in OrStart..(OrEnd - 1)
        <4>1. bar.ts \in Nat /\ OrStart \in Nat /\ OrEnd \in Nat
          BY <1>3, StrategiesAssumption
        <4>. QED  BY <1>5, <4>1 DEF InRange
      <3>2. PICK b \in s.range : b.ts = bar.ts
        BY <1>1, <2>4, <3>1 DEF Sound, Complete
      <3>3. \A c \in s.range : c.ts = bar.ts => c = bar
        BY <1>3, <1>4 DEF Single, Keyed
      <3>. QED  BY <3>2, <3>3
    <2>. HIDE DEF range
    <2>5. r \in shape /\ r.range = range /\ r.levels = s.levels /\ r.entered = s.entered
      BY <1>4, <2>2
    <2>. HIDE DEF r, shape
    <2>6. Sound(r)
      BY <1>1, <2>2, <2>3, <2>4, <2>5 DEF Sound
    <2>7. r \in OrbStates(bars)
      BY <1>2, <2>5, <2>6
    <2>. QED  BY <2>1, <2>7 DEF Quiet
  <1>6. CASE ~InRange(bar)
    <2>. DEFINE f == Finalized(s)
    <2>1. /\ f \in shape /\ Sound(f) /\ f.range = s.range /\ f.entered = s.entered
          /\ f.skipped \/ f.levels # None
      <3>1. CASE s.levels # None \/ s.skipped
        BY <1>1, <3>1 DEF Finalized
      <3>2. CASE ~(s.levels # None \/ s.skipped) /\ Cardinality(s.range) < OrMinutes
        <4>. DEFINE r == [range |-> s.range, levels |-> s.levels, entered |-> s.entered,
                          skipped |-> TRUE]
        <4>1. f = r
          BY <1>1, <3>2 DEF Finalized
        <4>2. /\ r \in shape /\ r.range = s.range /\ r.levels = s.levels /\ r.entered = s.entered
              /\ r.skipped
          BY <1>4
        <4>. HIDE DEF r, f, shape
        <4>. QED  BY <1>1, <4>1, <4>2 DEF Sound
      <3>3. CASE ~(s.levels # None \/ s.skipped) /\ ~(Cardinality(s.range) < OrMinutes)
        <4>. DEFINE levels == Levels(s.range)
                    r == [range |-> s.range, levels |-> levels, entered |-> s.entered,
                          skipped |-> s.skipped]
        <4>1. f = r
          BY <1>1, <3>3 DEF Finalized
        <4>2. Complete(s.range)
          BY <1>1, <1>3, <1>4, <3>3, FullRange DEF Sound
        <4>3. s.range # {}
          <5>1. OrStart \in OrStart..(OrEnd - 1)
            BY StrategiesAssumption
          <5>. QED  BY <4>2, <5>1 DEF Complete
        <4>. HIDE DEF levels
        <4>4. levels \in full /\ levels # None
          <5>1. \A b \in s.range : b.high \in Nat /\ b.low \in Nat /\ b.vol \in Nat
            BY <1>3, <1>4
          <5>2. levels \in full
            BY <1>1, <4>3, <5>1, LevelsType DEF Sound, levels
          <5>. QED  BY <5>2 DEF None
        <4>5. /\ r \in shape /\ r.range = s.range /\ r.levels = levels /\ r.entered = s.entered
          BY <1>4, <4>4
        <4>. HIDE DEF r, f, shape
        <4>6. ~r.entered
          BY <1>1, <3>3, <4>5 DEF Sound
        <4>. QED  BY <1>1, <4>1, <4>2, <4>4, <4>5, <4>6 DEF Sound, levels
      <3>. QED  BY <3>1, <3>2, <3>3
    <2>. HIDE DEF f, shape
    <2>2. f \in OrbStates(bars)
      BY <1>2, <2>1
    <2>3. CASE ~Breakout(f, bar)
      <3>1. OrbStep(s, bar) = Quiet(f)
        BY <1>6, <2>3 DEF OrbStep, f
      <3>. QED  BY <2>2, <3>1 DEF Quiet
    <2>4. CASE Breakout(f, bar)
      <3>. DEFINE r == [f EXCEPT !.entered = TRUE]
                  low == f.levels.low
                  signal == Signal("orb_5m", bar, "long", 1, low, 2 * bar.close - low)
      <3>1. f.levels # None /\ f.levels \in full /\ low \in Nat
        BY <2>1, <2>4 DEF Breakout, shape
      <3>2. r \in shape /\ r.range = f.range /\ r.levels = f.levels
        BY <2>1 DEF shape
      <3>3. OrbStep(s, bar) = [st |-> r, signal |-> signal]
        <4>. HIDE DEF low
        <4>. QED  BY <1>6, <2>4, Zenon DEF OrbStep, f, low
      <3>. HIDE DEF r, low
      <3>4. r \in OrbStates(bars)
        <4>1. Sound(r)
          BY <2>1, <3>1, <3>2 DEF Sound
        <4>. QED  BY <1>2, <3>2, <4>1
      <3>5. signal \in Signals({x}, D)
        <4>1. 1 * bar.close \in Nat /\ 2 * bar.close - low \in Int /\ low \in Int /\ 1 \in Nat \ {0}
          BY <1>3, <3>1
        <4>. DEFINE entry == 1 * bar.close
                    target == 2 * bar.close - low
        <4>2. signal = [strategy |-> "orb_5m", symbol |-> bar.symbol, day |-> bar.day, ts |-> bar.ts,
                        side |-> "long", unit |-> 1, entry |-> entry, stop |-> low,
                        target |-> target]
          BY Zenon DEF Signal
        <4>. HIDE DEF entry, target, signal
        <4>. QED  BY <1>3, <4>1, <4>2 DEF entry, target, Signals, Strategy
      <3>. QED  BY <3>3, <3>4, <3>5
    <2>. QED  BY <2>3, <2>4
  <1>. QED  BY <1>5, <1>6

\* A product of two of them is a natural number.
LEMMA TimesNat == ASSUME NEW a \in Nat, NEW b \in Nat PROVE a * b \in Nat
  OBVIOUS

VwapStates(bars) == States("vwap_reversion", bars)

\* A bar leaves VWAP reversion in a state of its own.
LEMMA VwapKeeps ==
    ASSUME NEW x, NEW D, D \subseteq Nat, NEW bars \in SUBSET Tape({x}, D),
           NEW s \in VwapStates(bars), NEW bar \in bars
    PROVE  /\ VwapStep(s, bar).st \in VwapStates(bars)
           /\ VwapStep(s, bar).signal \in {None} \union Signals({x}, D)
  <1>. DEFINE shape == [pv : Nat, v : Nat, entered : BOOLEAN]
              fed == Accumulated(s, bar)
              r == [fed EXCEPT !.entered = TRUE]
              side == IF Below(fed, bar) THEN "long" ELSE "short"
              signal == Signal("vwap_reversion", bar, side, 3 * fed.v, Mirrored(fed, bar), fed.pv)
  <1>1. VwapStates(bars) = shape
    BY DEF VwapStates, States, StrategyState
  <1>2. /\ bar.symbol = x /\ bar.day \in D /\ bar.ts \in Nat
        /\ bar.high \in Nat /\ bar.low \in Nat /\ bar.close \in Nat /\ bar.vol \in Nat
    BY DEF Tape
  <1>3. s \in shape
    BY <1>1
  <1>4. fed \in shape
    <2>. DEFINE more == (bar.high + bar.low + bar.close) * bar.vol
    <2>1. more \in Nat
      BY <1>2, TimesNat
    <2>. HIDE DEF more
    <2>2. fed = [s EXCEPT !.pv = @ + more, !.v = @ + bar.vol]
      BY Zenon DEF Accumulated, more
    <2>. HIDE DEF fed
    <2>3. s.pv + more \in Nat /\ s.v + bar.vol \in Nat
      BY <1>2, <1>3, <2>1
    <2>. QED  BY <1>3, <2>2, <2>3
  <1>. HIDE DEF fed
  <1>5. r \in shape
    BY <1>4
  <1>. HIDE DEF r, shape
  <1>6. CASE /\ MayEnter(fed, bar)
             /\ Below(fed, bar) \/ Above(fed, bar)
             /\ side = "long" => Mirrored(fed, bar) > 0
    <2>1. VwapStep(s, bar) = [st |-> r, signal |-> signal]
      BY <1>6, Zenon DEF VwapStep, fed, r
    <2>2. signal \in Signals({x}, D)
      <3>. DEFINE unit == 3 * fed.v
                  entry == unit * bar.close
                  stop == Mirrored(fed, bar)
                  target == fed.pv
      <3>1. fed.v \in Nat /\ fed.pv \in Nat /\ fed.v > 0
        BY <1>4, <1>6 DEF shape, MayEnter
      <3>2. unit \in Nat \ {0}
        BY <3>1
      <3>3. stop \in Int /\ target \in Int
        <4>. DEFINE six == 6 * fed.v
                    product == six * bar.close
        <4>1. six \in Nat
          BY <3>1
        <4>. HIDE DEF six
        <4>2. product \in Nat
          BY <1>2, <4>1, TimesNat
        <4>. HIDE DEF product
        <4>3. stop = product - fed.pv
          BY DEF Mirrored, product, six
        <4>. QED  BY <3>1, <4>2, <4>3
      <3>. HIDE DEF unit
      <3>4. entry \in Nat
        BY <1>2, <3>2, TimesNat
      <3>5. side \in {"long", "short"}
        OBVIOUS
      <3>6. signal = [strategy |-> "vwap_reversion", symbol |-> bar.symbol, day |-> bar.day,
                      ts |-> bar.ts, side |-> side, unit |-> unit, entry |-> entry, stop |-> stop,
                      target |-> target]
        BY Zenon DEF Signal, unit
      <3>. HIDE DEF entry, stop, target, side, signal
      <3>. QED  BY <1>2, <3>2, <3>3, <3>4, <3>5, <3>6 DEF Signals, Strategy
    <2>. QED  BY <1>1, <1>5, <2>1, <2>2
  <1>7. CASE ~(/\ MayEnter(fed, bar)
               /\ Below(fed, bar) \/ Above(fed, bar)
               /\ side = "long" => Mirrored(fed, bar) > 0)
    <2>1. VwapStep(s, bar) = Quiet(fed)
      BY <1>7, Zenon DEF VwapStep, fed
    <2>. QED  BY <1>1, <1>4, <2>1 DEF Quiet
  <1>. QED  BY <1>6, <1>7

\* What a bar leaves of either strategy.
LEMMA OnBarKeeps ==
    ASSUME NEW n \in Strategy, NEW x, NEW D, D \subseteq Nat, NEW bars \in SUBSET Tape({x}, D),
           Single(bars, x), NEW s \in States(n, bars), NEW bar \in bars
    PROVE  /\ OnBar(n, s, bar).st \in States(n, bars)
           /\ OnBar(n, s, bar).signal \in {None} \union Signals({x}, D)
  <1>1. CASE n = "orb_5m"
    BY <1>1, OrbKeeps DEF OnBar, OrbStates
  <1>2. CASE n = "vwap_reversion"
    BY <1>2, VwapKeeps DEF OnBar, VwapStates
  <1>. QED  BY <1>1, <1>2 DEF Strategy

LEMMA FreshIsSound == ASSUME NEW n \in Strategy, NEW bars PROVE Fresh(n) \in States(n, bars)
  <1>1. OrbFresh \in OrbStates(bars)
    BY FS_EmptySet DEF OrbFresh, OrbStates, States, StrategyState, Sound
  <1>2. VwapFresh \in VwapStates(bars)
    BY DEF VwapFresh, VwapStates, States, StrategyState
  <1>. QED  BY <1>1, <1>2 DEF Fresh, OrbStates, VwapStates, Strategy

-----------------------------------------------------------------------------
(* A strategy and a day of bars.                                           *)

\* The days a runner may have had with some bars of some days D.
Days(n, W, bars, D) ==
    {day \in [st : [W -> StrategyState(n, bars)], signals : Seq(Signals(W, D))] :
        \A x \in W : day.st[x] \in States(n, Own(bars, x))}

\* Bars of days D, one a minute and symbol.
Reel(bars, D) == D \subseteq Nat /\ bars \in SUBSET Tape(Symbols, D) /\ Keyed(bars)

LEMMA OwnIsSingle ==
    ASSUME NEW bars, NEW D, Reel(bars, D), NEW x
    PROVE  Single(Own(bars, x), x) /\ Own(bars, x) \in SUBSET Tape({x}, D)
  BY DEF Reel, Own, Single, Keyed, Tape

LEMMA StatesGrow ==
    ASSUME NEW n \in Strategy, NEW A, NEW B, A \subseteq B
    PROVE  States(n, A) \subseteq States(n, B) /\ States(n, A) \subseteq StrategyState(n, B)
  <1>1. CASE n = "orb_5m"
    BY <1>1 DEF States, StrategyState
  <1>2. CASE n = "vwap_reversion"
    BY <1>2 DEF States, StrategyState
  <1>. QED  BY <1>1, <1>2 DEF Strategy

LEMMA MorningIsDay ==
    ASSUME NEW n \in Strategy, NEW W, NEW bars, NEW D
    PROVE  Morning(n, W) \in Days(n, W, bars, D)
  <1>1. \A x \in W : Fresh(n) \in States(n, Own(bars, x)) /\ Fresh(n) \in StrategyState(n, bars)
    BY FreshIsSound DEF States
  <1>. QED  BY <1>1 DEF Morning, Days

\* What a bar changes: the state of its symbol, and perhaps the signals.
Moves(W, D, day, x, r, fed) ==
    /\ x \notin W => fed = day
    /\ x \in W => /\ fed.st = [day.st EXCEPT ![x] = r.st]
                  /\ r.signal \in {None} \union Signals({x}, D)
                  /\ r.signal = None => fed.signals = day.signals
                  /\ r.signal # None => fed.signals = Append(day.signals, r.signal)
                  /\ ToSet(fed.signals) = ToSet(day.signals) \union ({r.signal} \ {None})

LEMMA FedIs ==
    ASSUME NEW n \in Strategy, NEW W, NEW bars, NEW D, Reel(bars, D),
           NEW day \in Days(n, W, bars, D), NEW bar \in bars, NEW x, x = bar.symbol,
           NEW r, r = OnBar(n, day.st[x], bar), NEW fed, fed = Fed(n, day, bar)
    PROVE  /\ fed \in Days(n, W, bars, D) /\ Moves(W, D, day, x, r, fed)
           /\ x \in W => r.st \in States(n, Own(bars, x))
  <1>. DEFINE signals == IF r.signal = None THEN day.signals ELSE Append(day.signals, r.signal)
              states == [day.st EXCEPT ![x] = r.st]
  <1>1. /\ day.st \in [W -> StrategyState(n, bars)] /\ day.signals \in Seq(Signals(W, D))
        /\ \A y \in W : day.st[y] \in States(n, Own(bars, y))
    BY DEF Days
  <1>2. CASE x \notin W
    BY <1>1, <1>2 DEF Fed, Moves
  <1>3. CASE x \in W
    <2>1. fed = [st |-> states, signals |-> signals]
      BY <1>1, <1>3 DEF Fed
    <2>2. bar \in Own(bars, x) /\ Own(bars, x) \subseteq bars
      BY DEF Own
    <2>3. day.st[x] \in States(n, Own(bars, x))
      BY <1>1, <1>3
    <2>4. D \subseteq Nat /\ Single(Own(bars, x), x) /\ Own(bars, x) \in SUBSET Tape({x}, D)
      BY OwnIsSingle DEF Reel
    <2>5. r.st \in States(n, Own(bars, x)) /\ r.signal \in {None} \union Signals({x}, D)
      BY <2>2, <2>3, <2>4, OnBarKeeps
    <2>6. r.st \in StrategyState(n, bars)
      BY <2>2, <2>5, StatesGrow
    <2>7. Signals({x}, D) \subseteq Signals(W, D)
      BY <1>3 DEF Signals
    <2>8. PICK s, e : s = day.signals /\ e = r.signal
      OBVIOUS
    <2>9. s \in Seq(Signals(W, D)) /\ e \in {None} \union Signals(W, D)
      BY <1>1, <2>5, <2>7, <2>8
    <2>10. signals \in Seq(Signals(W, D)) /\ ToSet(signals) = ToSet(s) \union ({e} \ {None})
      <3>1. CASE e = None
        BY <2>8, <2>9, <3>1
      <3>2. CASE e # None
        <4>1. e \in Signals(W, D)
          BY <2>9, <3>2
        <4>2. Append(s, e) \in Seq(Signals(W, D)) /\ ToSet(Append(s, e)) = ToSet(s) \union {e}
          BY <2>9, <4>1, SeqElements, AppendProperties
        <4>. QED  BY <2>8, <3>2, <4>2
      <3>. QED  BY <3>1, <3>2
    <2>11. states \in [W -> StrategyState(n, bars)] /\ \A y \in W : states[y] \in States(n, Own(bars, y))
      BY <1>1, <1>3, <2>5, <2>6
    <2>. HIDE DEF states
    <2>12. Moves(W, D, day, x, r, fed)
      <3>1. fed.st = states /\ fed.signals = signals
        BY <2>1
      <3>2. /\ r.signal = None => fed.signals = day.signals
            /\ r.signal # None => fed.signals = Append(day.signals, r.signal)
        BY <3>1
      <3>. HIDE DEF signals
      <3>. QED  BY <1>3, <2>5, <2>8, <2>10, <3>1, <3>2 DEF Moves, states
    <2>. HIDE DEF signals
    <2>13. fed \in Days(n, W, bars, D)
      BY <2>1, <2>10, <2>11 DEF Days
    <2>. QED  BY <2>5, <2>12, <2>13
  <1>. QED  BY <1>2, <1>3

-----------------------------------------------------------------------------
(* Folds of a sequence of bars.                                            *)

Lasts(D) == [s \in SUBSET D |-> Max(s)]

LEMMA LastsPick ==
    ASSUME NEW m \in Nat
    PROVE  Picks(Lasts(1..m), 1..m) /\ IsFiniteSet(1..m)
  <1>. DEFINE D == 1..m
  <1>1. IsFiniteSet(D) /\ D \subseteq Int
    BY FS_Interval
  <1>. HIDE DEF D
  <1>2. Picks(Lasts(D), D)
    <2>. SUFFICES ASSUME NEW s \in SUBSET D, s # {} PROVE Max(s) \in s
      BY DEF Picks, Lasts
    <2>1. IsFiniteSet(s) /\ s \subseteq Int
      BY <1>1, FS_Subset
    <2>. QED  BY <2>1, Largest
  <1>. QED  BY <1>1, <1>2 DEF D

LEMMA NewPlace ==
    ASSUME NEW m \in Nat
    PROVE  Max(1..(m + 1)) = m + 1 /\ (1..(m + 1)) \ {m + 1} = 1..m
  <1>. DEFINE D == 1..(m + 1)
  <1>1. IsFiniteSet(D) /\ D \subseteq Int /\ m + 1 \in D
    BY FS_Interval
  <1>2. Max(D) \in D /\ Max(D) >= m + 1
    <2>. HIDE DEF D
    <2>. QED  BY <1>1, Largest
  <1>. QED  BY <1>2

\* The recursion of a fold of f over q, on the places of q, that takes the last place last.
IsRun(g, f, base, V, q) ==
    /\ g[{}] = base
    /\ \A s \in SUBSET DOMAIN q : s # {} /\ g[s \ {Max(s)}] \in V
                                    => g[s] = f[<<g[s \ {Max(s)}], q[Max(s)]>>]

IsMore(more, q, b) == more = Append(q, b)

\* There is a table for it.
LEMMA RunExists ==
    ASSUME NEW S, NEW V, NEW base \in V, NEW f, Operates(f, V, S), NEW q \in Seq(S)
    PROVE  \E g : g \in [SUBSET DOMAIN q -> V] /\ IsRun(g, f, base, V, q)
  <1>. DEFINE P == 1..Len(q)
              pick == Lasts(P)
              k == [x \in V \X P |-> f[<<x[1], q[x[2]]>>]]
  <1>1. DOMAIN q = P /\ Len(q) \in Nat /\ \A i \in P : q[i] \in S
    OBVIOUS
  <1>2. Picks(pick, P) /\ IsFiniteSet(P)
    BY <1>1, LastsPick
  <1>3. Operates(k, V, P)
    <2>1. \A x \in V \X P : <<x[1], q[x[2]]>> \in V \X S
      BY <1>1
    <2>2. \A x \in V \X P : f[<<x[1], q[x[2]]>>] \in V
      <3>. HIDE DEF P
      <3>. QED  BY <2>1 DEF Operates
    <2>. HIDE DEF P
    <2>. QED  BY <2>2 DEF Operates
  <1>. HIDE DEF P, k, pick
  <1>4. PICK g : IsFold(g, k, base, pick, V, P)
    BY <1>2, <1>3, FoldTable
  <1>5. ASSUME NEW s \in SUBSET P, s # {} PROVE g[s] = f[<<g[s \ {Max(s)}], q[Max(s)]>>]
    <2>. DEFINE r == s \ {Max(s)}
    <2>1. pick[s] = Max(s) /\ Max(s) \in P /\ r \in SUBSET P
      BY <1>2, <1>5 DEF Picks, pick, Lasts
    <2>2. g[r] \in V
      BY <1>4, <2>1 DEF IsFold
    <2>3. g[s] = k[<<g[r], Max(s)>>]
      BY <1>4, <1>5, <2>1 DEF IsFold, Folded
    <2>. HIDE DEF r
    <2>4. k[<<g[r], Max(s)>>] = f[<<g[r], q[Max(s)]>>]
      BY <2>1, <2>2 DEF k
    <2>. QED  BY <2>3, <2>4 DEF r
  <1>6. g[{}] = base /\ g \in [SUBSET P -> V]
    BY <1>4 DEF IsFold, Folded
  <1>7. IsRun(g, f, base, V, q)
    BY <1>1, <1>5, <1>6 DEF IsRun
  <1>. QED  BY <1>1, <1>6, <1>7

\* The tables of some bars and of one more.
LEMMA RunTables ==
    ASSUME NEW S, NEW V, NEW base \in V, NEW f, Operates(f, V, S), NEW q \in Seq(S), NEW b \in S,
           NEW more, IsMore(more, q, b),
           NEW g, IsRun(g, f, base, V, q), NEW h, IsRun(h, f, base, V, more)
    PROVE  /\ g[DOMAIN q] \in V
           /\ h[DOMAIN more] = f[<<g[DOMAIN q], b>>]
  <1>. DEFINE P == 1..Len(q)
              all == 1..(Len(q) + 1)
              T == {s \in SUBSET P : g[s] = h[s] /\ g[s] \in V}
              pick == Lasts(P)
  <1>1. /\ DOMAIN q = P /\ Len(q) \in Nat /\ DOMAIN more = all
        /\ more[Len(q) + 1] = b /\ \A i \in P : i \in all /\ more[i] = q[i] /\ q[i] \in S
    BY DEF IsMore
  <1>2. Picks(pick, P) /\ IsFiniteSet(P)
    BY <1>1, LastsPick
  <1>3. {} \in T
    BY DEF IsRun
  <1>4. ASSUME NEW s \in SUBSET P, s # {}, s \ {pick[s]} \in T PROVE s \in T
    <2>. DEFINE m == Max(s)
                r == s \ {m}
    <2>1. pick[s] = m /\ m \in s /\ m \in P /\ s \in SUBSET all
      <3>1. s \in SUBSET all
        BY <1>1
      <3>. HIDE DEF P, all
      <3>. QED  BY <1>2, <1>4, <3>1 DEF Picks, Lasts, pick
    <2>2. g[r] = h[r] /\ g[r] \in V
      BY <1>4, <2>1
    <2>3. more[m] = q[m] /\ q[m] \in S
      BY <1>1, <2>1
    <2>4. s \in SUBSET DOMAIN q /\ s \in SUBSET DOMAIN more
      BY <1>1, <2>1
    <2>. HIDE DEF P, all, m
    <2>5. g[s] = f[<<g[r], q[m]>>] /\ h[s] = f[<<h[r], more[m]>>]
      BY <1>4, <2>2, <2>4 DEF m, IsRun
    <2>. DEFINE e == q[m]
    <2>. HIDE DEF r, e
    <2>6. f[<<g[r], e>>] \in V
      BY <2>2, <2>3 DEF Operates, e
    <2>7. g[s] = h[s] /\ g[s] \in V
      BY <2>2, <2>3, <2>5, <2>6 DEF e
    <2>. QED  BY <2>7
  <1>5. P \in T
    <2>. HIDE DEF T, P, pick
    <2>. QED  BY <1>2, <1>3, <1>4, SubsetInduction
  <1>6. g[P] = h[P] /\ g[P] \in V
    BY <1>5
  <1>7. h[all] = f[<<h[P], b>>]
    <2>. DEFINE m == Len(q) + 1
    <2>1. Max(all) = m /\ all \ {m} = P /\ all # {} /\ DOMAIN more = all /\ more[m] = b
      BY <1>1, NewPlace
    <2>. HIDE DEF P, all, m
    <2>2. all \in SUBSET DOMAIN more /\ h[all \ {Max(all)}] = h[P] /\ h[P] \in V
      BY <1>6, <2>1
    <2>3. h[all] = f[<<h[all \ {Max(all)}], more[Max(all)]>>]
      BY <2>1, <2>2 DEF IsRun
    <2>. QED  BY <2>1, <2>2, <2>3
  <1>. QED  BY <1>1, <1>6, <1>7

-----------------------------------------------------------------------------
(* The replay.                                                             *)

IsReplay(g, n, W, q) ==
    g = [s \in SUBSET DOMAIN q |->
            IF s = {} THEN Morning(n, W) ELSE Fed(n, g[s \ {Max(s)}], q[Max(s)])]

\* The replay is the recursion that takes the last bar last.
LEMMA ReplayIsTable ==
    ASSUME NEW n, NEW W, NEW q
    PROVE  Replayed(n, W, q) = (CHOOSE g : IsReplay(g, n, W, q))[DOMAIN q]
  BY Zenon DEF Replayed, FoldLeft, MapThenFoldSet, IsReplay

Feeding(n, V, bars) == [x \in V \X bars |-> Fed(n, x[1], x[2])]

LEMMA ReplayRuns ==
    ASSUME NEW n \in Strategy, NEW W, NEW bars, NEW D, Reel(bars, D), NEW q \in Seq(bars),
           NEW V, V = Days(n, W, bars, D)
    PROVE  /\ Operates(Feeding(n, V, bars), V, bars) /\ Morning(n, W) \in V
           /\ \E g : /\ Replayed(n, W, q) = g[DOMAIN q]
                     /\ IsRun(g, Feeding(n, V, bars), Morning(n, W), V, q)
  <1>. DEFINE f == Feeding(n, V, bars)
              base == Morning(n, W)
  <1>1. base \in V
    BY MorningIsDay
  <1>2. Operates(f, V, bars)
    <2>1. ASSUME NEW x \in V \X bars PROVE Fed(n, x[1], x[2]) \in V
      <3>1. PICK b \in bars, day \in V : x[2] = b /\ x[1] = day
        OBVIOUS
      <3>2. Fed(n, day, b) \in V
        BY FedIs
      <3>. QED  BY <3>1, <3>2
    <2>. QED  BY <2>1 DEF Operates, Feeding
  <1>3. \A i \in DOMAIN q : q[i] \in bars
    OBVIOUS
  <1>4. \A s \in SUBSET DOMAIN q : s # {} => Max(s) \in DOMAIN q
    <2>1. DOMAIN q = 1..Len(q) /\ Len(q) \in Nat
      OBVIOUS
    <2>2. Picks(Lasts(1..Len(q)), 1..Len(q))
      BY <2>1, LastsPick
    <2>. QED  BY <2>1, <2>2 DEF Picks, Lasts
  <1>5. \A d \in V, i \in DOMAIN q : f[<<d, q[i]>>] = Fed(n, d, q[i])
    <2>. SUFFICES ASSUME NEW d \in V, NEW i \in DOMAIN q PROVE f[<<d, q[i]>>] = Fed(n, d, q[i])
      OBVIOUS
    <2>1. PICK b \in bars : b = q[i]
      BY <1>3
    <2>2. f[<<d, b>>] = Fed(n, d, b)
      BY DEF Feeding
    <2>. QED  BY <2>1, <2>2
  <1>. HIDE DEF f
  <1>6. \E g : IsReplay(g, n, W, q)
    <2>1. PICK g : g \in [SUBSET DOMAIN q -> V] /\ IsRun(g, f, base, V, q)
      BY <1>1, <1>2, RunExists
    <2>2. \A s \in SUBSET DOMAIN q : s # {} => g[s] = Fed(n, g[s \ {Max(s)}], q[Max(s)])
      BY <1>4, <1>5, <2>1 DEF IsRun
    <2>3. g[{}] = base
      BY <2>1 DEF IsRun
    <2>4. g = [s \in SUBSET DOMAIN q |->
                 IF s = {} THEN base ELSE Fed(n, g[s \ {Max(s)}], q[Max(s)])]
      <3>. HIDE DEF base
      <3>. QED  BY <2>1, <2>2, <2>3
    <2>5. IsReplay(g, n, W, q)
      BY <2>4, Zenon DEF IsReplay
    <2>. QED  BY <2>5
  <1>7. PICK g : g = (CHOOSE h : IsReplay(h, n, W, q))
    OBVIOUS
  <1>8. IsReplay(g, n, W, q) /\ Replayed(n, W, q) = g[DOMAIN q]
    BY <1>6, <1>7, ReplayIsTable
  <1>9. \A s \in SUBSET DOMAIN q : g[s] = IF s = {} THEN base ELSE Fed(n, g[s \ {Max(s)}], q[Max(s)])
    BY <1>8, Zenon DEF IsReplay
  <1>10. IsRun(g, f, base, V, q)
    <2>. HIDE DEF base
    <2>. QED  BY <1>4, <1>5, <1>9 DEF IsRun
  <1>. QED  BY <1>1, <1>2, <1>8, <1>10 DEF f

\* One bar more is one step more.
LEMMA ReplayStep ==
    ASSUME NEW n \in Strategy, NEW W, NEW bars, NEW D, Reel(bars, D), NEW q \in Seq(bars), NEW b \in bars
    PROVE  /\ Replayed(n, W, q) \in Days(n, W, bars, D)
           /\ Replayed(n, W, Append(q, b)) = Fed(n, Replayed(n, W, q), b)
  <1>1. PICK more : IsMore(more, q, b)
    BY DEF IsMore
  <1>2. more \in Seq(bars)
    BY <1>1 DEF IsMore
  <1>3. PICK V : V = Days(n, W, bars, D)
    OBVIOUS
  <1>4. PICK f, base : f = Feeding(n, V, bars) /\ base = Morning(n, W)
    OBVIOUS
  <1>5. Operates(f, V, bars) /\ base \in V
    BY <1>3, <1>4, ReplayRuns
  <1>6. PICK g : Replayed(n, W, q) = g[DOMAIN q] /\ IsRun(g, f, base, V, q)
    BY <1>3, <1>4, ReplayRuns
  <1>7. PICK h : Replayed(n, W, more) = h[DOMAIN more] /\ IsRun(h, f, base, V, more)
    BY <1>2, <1>3, <1>4, ReplayRuns
  <1>8. g[DOMAIN q] \in V /\ h[DOMAIN more] = f[<<g[DOMAIN q], b>>]
    BY <1>1, <1>5, <1>6, <1>7, RunTables
  <1>9. \A d \in V : f[<<d, b>>] = Fed(n, d, b)
    BY <1>4 DEF Feeding
  <1>. QED  BY <1>1, <1>3, <1>6, <1>7, <1>8, <1>9 DEF IsMore

LEMMA ReplayOfNothing ==
    ASSUME NEW n \in Strategy, NEW W
    PROVE  Replayed(n, W, <<>>) = Morning(n, W)
  <1>1. PICK none : none = <<>>
    OBVIOUS
  <1>2. PICK bars, D : bars = {} /\ D = {}
    OBVIOUS
  <1>3. none \in Seq(bars) /\ DOMAIN none = {} /\ Reel(bars, D)
    BY <1>1, <1>2 DEF Reel, Keyed
  <1>4. PICK V : V = Days(n, W, bars, D)
    OBVIOUS
  <1>5. PICK f, base : f = Feeding(n, V, bars) /\ base = Morning(n, W)
    OBVIOUS
  <1>6. PICK g : Replayed(n, W, none) = g[DOMAIN none] /\ IsRun(g, f, base, V, none)
    BY <1>3, <1>4, <1>5, ReplayRuns
  <1>. QED  BY <1>1, <1>3, <1>5, <1>6 DEF IsRun

-----------------------------------------------------------------------------
(* The bar store.                                                          *)

\* What a buffer may hold.
Buffers(bars) == {q \in Seq(bars) : Len(q) <= MaxLen /\ Ascending(q)}

LEMMA AppendedKeeps ==
    ASSUME NEW bars, \A b \in bars : b.ts \in Nat, NEW q \in Buffers(bars), NEW b \in bars
    PROVE  Appended(q, b) \in Buffers(bars)
  <1>0. MaxLen \in Nat
    BY SessionAssumption
  <1>1. CASE q # <<>> /\ Last(q).ts >= b.ts
    BY <1>1 DEF Appended
  <1>2. CASE ~(q # <<>> /\ Last(q).ts >= b.ts)
    <2>1. PICK more : more = Append(q, b)
      OBVIOUS
    <2>2. /\ more \in Seq(bars) /\ q \in Seq(bars) /\ Len(q) \in Nat /\ Len(more) = Len(q) + 1
          /\ more[Len(q) + 1] = b /\ \A i \in 1..Len(q) : more[i] = q[i] /\ q[i] \in bars
      BY <2>1 DEF Buffers
    <2>3. \A i \in 1..Len(q) : q[i].ts < b.ts
      <3>. SUFFICES ASSUME NEW i \in 1..Len(q) PROVE q[i].ts < b.ts
        OBVIOUS
      <3>1. PICK l \in bars : l = q[Len(q)]
        BY <2>2
      <3>2. l.ts < b.ts
        <4>1. q # <<>> /\ Last(q) = l
          BY <2>2, <3>1 DEF Last
        <4>. QED  BY <1>2, <3>1, <4>1
      <3>3. PICK c \in bars : c = q[i]
        BY <2>2
      <3>4. c = l \/ c.ts < l.ts
        BY <2>2, <3>1, <3>3 DEF Buffers, Ascending
      <3>5. c.ts < b.ts
        BY <3>2, <3>4
      <3>. QED  BY <3>3, <3>5
    <2>4. Ascending(more)
      <3>. SUFFICES ASSUME NEW i \in 1..(Len(q) + 1), NEW j \in 1..(Len(q) + 1), i < j
                    PROVE  more[i].ts < more[j].ts
        BY <2>2 DEF Ascending
      <3>1. CASE j = Len(q) + 1
        BY <2>2, <2>3, <3>1
      <3>2. CASE j # Len(q) + 1
        <4>1. PICK n \in Nat : n = Len(q)
          BY <2>2
        <4>2. i \in 1..n /\ j \in 1..n
          BY <3>2, <4>1
        <4>3. DOMAIN q = 1..n
          BY <2>2, <4>1
        <4>4. q[i].ts < q[j].ts
          BY <4>2, <4>3 DEF Buffers, Ascending
        <4>5. more[i] = q[i] /\ more[j] = q[j]
          BY <2>2, <4>1, <4>2
        <4>. QED  BY <4>4, <4>5
      <3>. QED  BY <3>1, <3>2
    <2>5. Appended(q, b) = Newest(more, MaxLen)
      BY <1>2, <2>1 DEF Appended
    <2>6. CASE Len(more) <= MaxLen
      BY <2>2, <2>4, <2>5, <2>6 DEF Newest, Buffers
    <2>7. CASE ~(Len(more) <= MaxLen)
      <3>. DEFINE m == Len(more)
                  k == m - MaxLen + 1
      <3>1. m \in Nat /\ k \in Int /\ 1 <= k /\ k <= m + 1
        BY <1>0, <2>2, <2>7
      <3>2. PICK r : r = SubSeq(more, k, m)
        OBVIOUS
      <3>3. Appended(q, b) = r
        BY <2>5, <2>7, <3>2 DEF Newest
      <3>4. r \in Seq(bars) /\ Len(r) = MaxLen /\ \A i \in 1..MaxLen : r[i] = more[i + k - 1]
        <4>1. \A i \in k..m : more[i] \in bars
          BY <2>2, <3>1
        <4>2. \A i \in 1..MaxLen : i + k - 1 \in k..m
          BY <1>0, <3>1
        <4>3. MaxLen = IF k <= m THEN m - k + 1 ELSE 0
          BY <1>0, <3>1
        <4>. HIDE DEF m, k
        <4>. QED  BY <1>0, <2>2, <3>1, <3>2, <4>1, <4>2, <4>3, SubSeqProperties
      <3>5. Ascending(r)
        <4>. SUFFICES ASSUME NEW i \in 1..MaxLen, NEW j \in 1..MaxLen, i < j
                      PROVE  r[i].ts < r[j].ts
          BY <3>4 DEF Ascending
        <4>1. i + k - 1 \in 1..m /\ j + k - 1 \in 1..m /\ i + k - 1 < j + k - 1
          BY <1>0, <3>1
        <4>2. DOMAIN more = 1..m
          BY <2>2
        <4>. HIDE DEF m, k
        <4>. QED  BY <2>4, <3>4, <4>1, <4>2 DEF Ascending
      <3>. QED  BY <1>0, <3>3, <3>4, <3>5 DEF Buffers
    <2>. QED  BY <2>6, <2>7
  <1>. QED  BY <1>1, <1>2
Kept(x, kept, b) == IF b.symbol = x THEN Appended(kept, b) ELSE kept

IsWarm(g, x, q) ==
    g = [s \in SUBSET DOMAIN q |-> IF s = {} THEN <<>> ELSE Kept(x, g[s \ {Max(s)}], q[Max(s)])]

\* The buffer of a symbol is the recursion that takes the last bar last.
LEMMA WarmIsTable ==
    ASSUME NEW x \in Watchlist, NEW q
    PROVE  Warm(q)[x] = (CHOOSE g : IsWarm(g, x, q))[DOMAIN q]
  <1>1. Warm(q)[x] = FoldLeft(LAMBDA kept, b : IF b.symbol = x THEN Appended(kept, b) ELSE kept, <<>>, q)
    BY Zenon DEF Warm
  <1>. QED  BY <1>1, Zenon DEF FoldLeft, MapThenFoldSet, IsWarm, Kept

LEMMA WarmIsFunction == ASSUME NEW q PROVE Warm(q) = [x \in Watchlist |-> Warm(q)[x]]
  BY Zenon DEF Warm

Keeping(x, V, bars) == [e \in V \X bars |-> Kept(x, e[1], e[2])]

LEMMA WarmRuns ==
    ASSUME NEW x \in Watchlist, NEW bars, \A b \in bars : b.ts \in Nat, NEW q \in Seq(bars),
           NEW V, V = Buffers(bars)
    PROVE  /\ Operates(Keeping(x, V, bars), V, bars) /\ <<>> \in V
           /\ \E g : /\ Warm(q)[x] = g[DOMAIN q]
                     /\ IsRun(g, Keeping(x, V, bars), <<>>, V, q)
  <1>. DEFINE f == Keeping(x, V, bars)
  <1>0. PICK base : base = <<>>
    OBVIOUS
  <1>1. base \in V
    BY <1>0, SessionAssumption DEF Buffers, Ascending
  <1>2. Operates(f, V, bars)
    <2>1. ASSUME NEW e \in V \X bars PROVE Kept(x, e[1], e[2]) \in V
      <3>1. PICK b \in bars, kept \in V : e[2] = b /\ e[1] = kept
        OBVIOUS
      <3>2. Kept(x, kept, b) \in V
        BY AppendedKeeps DEF Kept
      <3>. QED  BY <3>1, <3>2
    <2>. QED  BY <2>1 DEF Operates, Keeping
  <1>3. \A i \in DOMAIN q : q[i] \in bars
    OBVIOUS
  <1>4. \A s \in SUBSET DOMAIN q : s # {} => Max(s) \in DOMAIN q
    <2>1. DOMAIN q = 1..Len(q) /\ Len(q) \in Nat
      OBVIOUS
    <2>2. Picks(Lasts(1..Len(q)), 1..Len(q))
      BY <2>1, LastsPick
    <2>. QED  BY <2>1, <2>2 DEF Picks, Lasts
  <1>5. \A d \in V, i \in DOMAIN q : f[<<d, q[i]>>] = Kept(x, d, q[i])
    <2>. SUFFICES ASSUME NEW d \in V, NEW i \in DOMAIN q PROVE f[<<d, q[i]>>] = Kept(x, d, q[i])
      OBVIOUS
    <2>1. PICK b \in bars : b = q[i]
      BY <1>3
    <2>2. f[<<d, b>>] = Kept(x, d, b)
      BY DEF Keeping
    <2>. QED  BY <2>1, <2>2
  <1>. HIDE DEF f
  <1>6. \E g : IsWarm(g, x, q)
    <2>1. PICK g : g \in [SUBSET DOMAIN q -> V] /\ IsRun(g, f, base, V, q)
      BY <1>1, <1>2, RunExists
    <2>2. \A s \in SUBSET DOMAIN q : s # {} => g[s] = Kept(x, g[s \ {Max(s)}], q[Max(s)])
      BY <1>4, <1>5, <2>1 DEF IsRun
    <2>3. g[{}] = base
      BY <2>1 DEF IsRun
    <2>4. g = [s \in SUBSET DOMAIN q |->
                 IF s = {} THEN base ELSE Kept(x, g[s \ {Max(s)}], q[Max(s)])]
      BY <2>1, <2>2, <2>3
    <2>5. IsWarm(g, x, q)
      BY <1>0, <2>4, Zenon DEF IsWarm
    <2>. QED  BY <2>5
  <1>7. PICK g : g = (CHOOSE h : IsWarm(h, x, q))
    OBVIOUS
  <1>8. IsWarm(g, x, q) /\ Warm(q)[x] = g[DOMAIN q]
    BY <1>6, <1>7, WarmIsTable
  <1>9. \A s \in SUBSET DOMAIN q : g[s] = IF s = {} THEN base ELSE Kept(x, g[s \ {Max(s)}], q[Max(s)])
    BY <1>0, <1>8, Zenon DEF IsWarm
  <1>10. IsRun(g, f, base, V, q)
    BY <1>4, <1>5, <1>9 DEF IsRun
  <1>. QED  BY <1>0, <1>1, <1>2, <1>8, <1>10 DEF f

\* One bar more is one step more.
LEMMA WarmStep ==
    ASSUME NEW x \in Watchlist, NEW bars, \A b \in bars : b.ts \in Nat, NEW q \in Seq(bars), NEW b \in bars
    PROVE  /\ Warm(q)[x] \in Buffers(bars)
           /\ Warm(Append(q, b))[x] = Kept(x, Warm(q)[x], b)
  <1>1. PICK more : IsMore(more, q, b)
    BY DEF IsMore
  <1>2. more \in Seq(bars)
    BY <1>1 DEF IsMore
  <1>3. PICK V : V = Buffers(bars)
    OBVIOUS
  <1>4. PICK f, base : f = Keeping(x, V, bars) /\ base = <<>>
    OBVIOUS
  <1>5. Operates(f, V, bars) /\ base \in V
    BY <1>3, <1>4, WarmRuns
  <1>6. PICK g : Warm(q)[x] = g[DOMAIN q] /\ IsRun(g, f, base, V, q)
    BY <1>3, <1>4, WarmRuns
  <1>7. PICK h : Warm(more)[x] = h[DOMAIN more] /\ IsRun(h, f, base, V, more)
    BY <1>2, <1>3, <1>4, WarmRuns
  <1>8. g[DOMAIN q] \in V /\ h[DOMAIN more] = f[<<g[DOMAIN q], b>>]
    BY <1>1, <1>5, <1>6, <1>7, RunTables
  <1>9. \A d \in V : f[<<d, b>>] = Kept(x, d, b)
    BY <1>4 DEF Keeping
  <1>. QED  BY <1>1, <1>3, <1>6, <1>7, <1>8, <1>9 DEF IsMore

LEMMA WarmOfNothing == ASSUME NEW x \in Watchlist PROVE Warm(<<>>)[x] = <<>>
  <1>1. PICK none : none = <<>>
    OBVIOUS
  <1>2. PICK bars : bars = {}
    OBVIOUS
  <1>3. none \in Seq(bars) /\ DOMAIN none = {} /\ \A b \in bars : b.ts \in Nat
    BY <1>1, <1>2
  <1>4. PICK V : V = Buffers(bars)
    OBVIOUS
  <1>5. PICK f : f = Keeping(x, V, bars)
    OBVIOUS
  <1>6. PICK g : Warm(none)[x] = g[DOMAIN none] /\ IsRun(g, f, none, V, none)
    BY <1>1, <1>3, <1>4, <1>5, WarmRuns
  <1>. QED  BY <1>1, <1>3, <1>6 DEF IsRun

-----------------------------------------------------------------------------
(* Each symbol follows its own bars.                                       *)

\* The replay of the bars of one symbol.
Alone(n, x, own) == Replayed(n, {x}, InOrder(own))

LEMMA LatestIsIt ==
    ASSUME NEW S, Timed(S), NEW x, Single(S, x), NEW b \in S, \A c \in S : c.ts <= b.ts
    PROVE  Latest(S) = b
  <1>1. Latest(S) \in S /\ b.ts <= Latest(S).ts
    BY LatestIsOne
  <1>2. PICK l \in S : l = Latest(S)
    BY <1>1
  <1>3. l.ts \in Nat /\ b.ts \in Nat /\ l.ts <= b.ts /\ b.ts <= l.ts
    BY <1>1, <1>2 DEF Timed
  <1>4. l.ts = b.ts
    BY <1>3
  <1>. QED  BY <1>2, <1>4 DEF Single, Keyed

LEMMA ReelIsTimed ==
    ASSUME NEW bars, NEW D, Reel(bars, D), NEW S \in SUBSET bars, IsFiniteSet(S)
    PROVE  Timed(S) /\ Keyed(S) /\ \A b \in S : b.ts \in Nat /\ b.symbol \in Symbols
  BY DEF Reel, Tape, Timed, Keyed

\* The latest bar of a symbol is one step more.
IsNext(bars, x, S, b, more) ==
    /\ S \subseteq Own(bars, x) /\ IsFiniteSet(S)
    /\ b \in Own(bars, x) /\ b \notin S /\ \A c \in S : c.ts <= b.ts
    /\ more = S \union {b}

LEMMA AloneStep ==
    ASSUME NEW n \in Strategy, NEW x, NEW bars, NEW D, Reel(bars, D),
           NEW S, NEW b, NEW more, IsNext(bars, x, S, b, more)
    PROVE  /\ Alone(n, x, S) \in Days(n, {x}, bars, D)
           /\ Alone(n, x, more) = Fed(n, Alone(n, x, S), b)
           /\ x \in Watchlist => Warm(InOrder(more))[x] = Appended(Warm(InOrder(S))[x], b)
  <1>0. /\ S \subseteq Own(bars, x) /\ IsFiniteSet(S)
        /\ b \in Own(bars, x) /\ b \notin S /\ \A c \in S : c.ts <= b.ts
        /\ more = S \union {b}
    BY DEF IsNext
  <1>1. S \in SUBSET bars /\ more \in SUBSET bars /\ b \in bars /\ b.symbol = x /\ IsFiniteSet(more)
    BY <1>0, FS_AddElement DEF Own
  <1>2. Timed(S) /\ Keyed(S) /\ Timed(more) /\ Keyed(more) /\ \A c \in more : c.ts \in Nat
    BY <1>0, <1>1, ReelIsTimed
  <1>3. Single(more, x) /\ \A c \in more : c.ts <= b.ts
    <2>1. b.ts <= b.ts
      <3>1. b.ts \in Nat
        BY <1>0, <1>2
      <3>. QED  BY <3>1
    <2>2. \A c \in more : c.symbol = x
      BY <1>0 DEF Own
    <2>. QED  BY <1>0, <1>2, <2>1, <2>2 DEF Single
  <1>4. b \in more /\ more \ {b} = S /\ more # {}
    BY <1>0
  <1>5. Latest(more) = b
    BY <1>2, <1>3, <1>4, LatestIsIt
  <1>6. InOrder(more) = Append(InOrder(S), b)
    BY <1>2, <1>4, <1>5, OrderStep
  <1>7. InOrder(S) \in Seq(S)
    BY <1>2, OrderKeeps
  <1>8. PICK q : q = InOrder(S)
    OBVIOUS
  <1>9. q \in Seq(bars)
    BY <1>1, <1>7, <1>8
  <1>10. /\ Replayed(n, {x}, q) \in Days(n, {x}, bars, D)
         /\ Replayed(n, {x}, Append(q, b)) = Fed(n, Replayed(n, {x}, q), b)
    BY <1>1, <1>9, ReplayStep
  <1>11. ASSUME x \in Watchlist
         PROVE  Warm(Append(q, b))[x] = Appended(Warm(q)[x], b)
    <2>1. \A c \in bars : c.ts \in Nat
      BY DEF Reel, Tape
    <2>2. Warm(Append(q, b))[x] = Kept(x, Warm(q)[x], b)
      BY <1>1, <1>9, <1>11, <2>1, WarmStep
    <2>. QED  BY <1>1, <2>2 DEF Kept
  <1>. QED  BY <1>6, <1>8, <1>10, <1>11 DEF Alone

\* What is had of a symbol from bars of many.
Follows(n, W, q, x) ==
    LET day == Replayed(n, W, q)
        own == Own(ToSet(q), x)
    IN  /\ day.st[x] = Alone(n, x, own).st[x]
        /\ {s \in ToSet(day.signals) : s.symbol = x} = ToSet(Alone(n, x, own).signals)
        /\ x \in Watchlist => Warm(q)[x] = Warm(InOrder(own))[x]

LEMMA NothingInOrder == InOrder({}) = <<>>
  <1>1. Timed({})
    BY FS_EmptySet DEF Timed
  <1>. QED  BY <1>1, OrderStep

LEMMA SymbolFollows ==
    ASSUME NEW n \in Strategy, NEW W, NEW x \in W, NEW bars, NEW D, Reel(bars, D),
           NEW q \in Seq(bars), Chronological(q)
    PROVE  Follows(n, W, q, x)
  <1>. DEFINE T == {m \in Nat : \A r \in Seq(bars) : Len(r) = m /\ Chronological(r) => Follows(n, W, r, x)}
  <1>1. 0 \in T
    <2>. SUFFICES ASSUME NEW r \in Seq(bars), Len(r) = 0 PROVE Follows(n, W, r, x)
      OBVIOUS
    <2>1. r = <<>>
      OBVIOUS
    <2>2. ToSet(r) = {} /\ Own(ToSet(r), x) = {}
      BY <2>1 DEF ToSet, Own
    <2>3. Replayed(n, W, r) = Morning(n, W) /\ Alone(n, x, {}) = Morning(n, {x})
      BY <2>1, ReplayOfNothing, NothingInOrder DEF Alone
    <2>4. Morning(n, W).st[x] = Morning(n, {x}).st[x] /\ Morning(n, W).signals = <<>>
          /\ Morning(n, {x}).signals = <<>>
      BY DEF Morning
    <2>5. {s \in ToSet(<<>>) : s.symbol = x} = ToSet(<<>>)
      BY DEF ToSet
    <2>6. Warm(r)[x] = Warm(InOrder({}))[x]
      BY <2>1, NothingInOrder
    <2>. QED  BY <2>2, <2>3, <2>4, <2>5, <2>6 DEF Follows
  <1>2. ASSUME NEW m \in Nat, m \in T PROVE m + 1 \in T
    <2>. SUFFICES ASSUME NEW r \in Seq(bars), Len(r) = m + 1, Chronological(r) PROVE Follows(n, W, r, x)
      OBVIOUS
    <2>1. PICK p \in Seq(bars), b \in bars : r = Append(p, b)
      <3>1. r # <<>>
        OBVIOUS
      <3>. QED  BY <3>1, SequenceEmptyOrAppend
    <2>2. /\ Len(p) = m /\ DOMAIN p = 1..m /\ DOMAIN r = 1..(m + 1)
          /\ r[m + 1] = b /\ \A i \in 1..m : r[i] = p[i]
      BY <2>1
    <2>3. Chronological(p)
      BY <2>2 DEF Chronological
    <2>4. Follows(n, W, p, x)
      BY <1>2, <2>2, <2>3
    <2>5. ToSet(r) = ToSet(p) \union {b} /\ ToSet(p) \subseteq bars /\ IsFiniteSet(ToSet(p))
      BY <2>1, SeqElements
    <2>6. \A c \in ToSet(p) : c.symbol = b.symbol => c.ts < b.ts
      BY <2>2 DEF Chronological, ToSet
    <2>. DEFINE own == Own(ToSet(p), x)
                y == b.symbol
    <2>7. own \in SUBSET Own(bars, x) /\ own \subseteq bars /\ IsFiniteSet(own)
      BY <2>5, FS_Subset DEF Own
    <2>8. Replayed(n, W, p) \in Days(n, W, bars, D) /\ Replayed(n, W, r) = Fed(n, Replayed(n, W, p), b)
      BY <2>1, ReplayStep
    <2>9. PICK day : day = Replayed(n, W, p)
      OBVIOUS
    <2>10. day \in Days(n, W, bars, D) /\ Replayed(n, W, r) = Fed(n, day, b)
      BY <2>8, <2>9
    <2>11. PICK e, fed : e = OnBar(n, day.st[y], b) /\ fed = Fed(n, day, b)
      OBVIOUS
    <2>12. Moves(W, D, day, y, e, fed)
      BY <2>10, <2>11, FedIs
    <2>13. day.st \in [W -> StrategyState(n, bars)] /\ day.signals \in Seq(Signals(W, D))
      BY <2>10 DEF Days
    <2>15. x \in Watchlist => Warm(r)[x] = Kept(x, Warm(p)[x], b)
      <3>1. \A c \in bars : c.ts \in Nat
        BY DEF Reel, Tape
      <3>. QED  BY <2>1, <3>1, WarmStep
    <2>16. CASE y # x
      <3>1. Own(ToSet(r), x) = own
        BY <2>5, <2>16 DEF Own
      <3>2. fed.st[x] = day.st[x]
        BY <2>12, <2>13, <2>16 DEF Moves
      <3>3. {s \in ToSet(fed.signals) : s.symbol = x} = {s \in ToSet(day.signals) : s.symbol = x}
        <4>1. e.signal \in Signals({y}, D) => e.signal.symbol # x
          BY <2>16 DEF Signals
        <4>. QED  BY <2>12, <4>1 DEF Moves
      <3>4. x \in Watchlist => Warm(r)[x] = Warm(p)[x]
        BY <2>15, <2>16 DEF Kept
      <3>. HIDE DEF own, y
      <3>. QED  BY <2>4, <2>9, <2>10, <2>11, <3>1, <3>2, <3>3, <3>4 DEF Follows, own
    <2>17. CASE y = x
      <3>1. Own(ToSet(r), x) = own \union {b} /\ b \in Own(bars, x) /\ b \notin own /\ \A c \in own : c.ts <= b.ts
        <4>1. Own(ToSet(r), x) = own \union {b} /\ b \in Own(bars, x)
          BY <2>5, <2>17 DEF Own
        <4>2. \A c \in own : c.ts < b.ts /\ c.ts \in Nat
          BY <2>5, <2>6, <2>17 DEF Own, Reel, Tape
        <4>3. b.ts \in Nat
          BY DEF Reel, Tape
        <4>. QED  BY <4>1, <4>2, <4>3
      <3>. HIDE DEF own
      <3>0. PICK all : all = own \union {b}
        OBVIOUS
      <3>5. IsNext(bars, x, own, b, all)
        BY <2>7, <3>0, <3>1 DEF IsNext
      <3>2. /\ Alone(n, x, own) \in Days(n, {x}, bars, D)
            /\ Alone(n, x, all) = Fed(n, Alone(n, x, own), b)
            /\ x \in Watchlist => Warm(InOrder(all))[x] = Appended(Warm(InOrder(own))[x], b)
        BY <3>5, AloneStep
      <3>3. PICK one : one = Alone(n, x, own)
        OBVIOUS
      <3>4. one.st[x] = day.st[x] /\ {s \in ToSet(day.signals) : s.symbol = x} = ToSet(one.signals)
        BY <2>4, <2>9, <3>3 DEF Follows, own
      <3>13. one \in Days(n, {x}, bars, D)
        BY <3>2, <3>3
      <3>6. PICK after : after = Fed(n, one, b)
        OBVIOUS
      <3>8. Moves({x}, D, one, x, e, after)
        <4>1. e = OnBar(n, one.st[x], b)
          BY <2>11, <2>17, <3>4
        <4>. QED  BY <2>17, <3>6, <3>13, <4>1, FedIs
      <3>7. one.st \in [{x} -> StrategyState(n, bars)]
        BY <3>13 DEF Days
      <3>9. fed.st[x] = e.st /\ after.st[x] = e.st
        BY <2>12, <2>13, <2>17, <3>7, <3>8 DEF Moves
      <3>10. e.signal \in Signals({x}, D) => e.signal.symbol = x
        BY DEF Signals
      <3>11. {s \in ToSet(fed.signals) : s.symbol = x} = ToSet(after.signals)
        BY <2>12, <2>17, <3>4, <3>8, <3>10 DEF Moves
      <3>12. x \in Watchlist => Warm(r)[x] = Warm(InOrder(all))[x]
        <4>. SUFFICES ASSUME x \in Watchlist PROVE Warm(r)[x] = Warm(InOrder(all))[x]
          OBVIOUS
        <4>1. Warm(p)[x] = Warm(InOrder(own))[x]
          BY <2>4 DEF Follows, own
        <4>2. Warm(r)[x] = Appended(Warm(p)[x], b)
          BY <2>15, <2>17 DEF Kept
        <4>. QED  BY <3>2, <4>1, <4>2
      <3>. HIDE DEF y
      <3>. QED  BY <2>10, <2>11, <3>0, <3>1, <3>2, <3>3, <3>6, <3>9, <3>11, <3>12 DEF Follows
    <2>. QED  BY <2>16, <2>17
  <1>. HIDE DEF T
  <1>3. Nat \subseteq T
    BY <1>1, <1>2, NatSetInduction
  <1>4. Len(q) \in T
    BY <1>3
  <1>. QED  BY <1>4 DEF T

LEMMA ReplayIsDay ==
    ASSUME NEW n \in Strategy, NEW W, NEW bars, NEW D, Reel(bars, D), NEW q \in Seq(bars)
    PROVE  Replayed(n, W, q) \in Days(n, W, bars, D)
  <1>1. CASE bars = {}
    <2>1. q = <<>>
      BY <1>1
    <2>. QED  BY <2>1, ReplayOfNothing, MorningIsDay
  <1>2. CASE bars # {}
    <2>1. PICK b \in bars : TRUE
      BY <1>2
    <2>. QED  BY <2>1, ReplayStep
  <1>. QED  BY <1>1, <1>2

LEMMA WarmIsBuffer ==
    ASSUME NEW x \in Watchlist, NEW bars, \A b \in bars : b.ts \in Nat, NEW q \in Seq(bars)
    PROVE  Warm(q)[x] \in Buffers(bars)
  <1>1. CASE bars = {}
    <2>1. PICK none : none = <<>>
      OBVIOUS
    <2>2. q = none /\ Warm(none)[x] = none
      BY <1>1, <2>1, WarmOfNothing
    <2>3. none \in Buffers(bars)
      BY <2>1, SessionAssumption DEF Buffers, Ascending
    <2>. QED  BY <2>2, <2>3
  <1>2. CASE bars # {}
    <2>1. PICK b \in bars : TRUE
      BY <1>2
    <2>. QED  BY <2>1, WarmStep
  <1>. QED  BY <1>1, <1>2

-----------------------------------------------------------------------------
(* Types.                                                                  *)

\* Each state of the strategy comes from bars of its symbol that closed.
StatesSeen == \A x \in Watchlist : st[x] \in States(name, Own(ToSet(market), x))

Typed == TypeOK /\ StatesSeen

\* What the types say of the bars.
LEMMA Known ==
    ASSUME Typed
    PROVE  /\ name \in Strategy
           /\ Reel(ToSet(market), {Today}) /\ IsFiniteSet(ToSet(market)) /\ ToSet(market) \subseteq Bars
           /\ Watched \subseteq ToSet(market) /\ rows \subseteq ToSet(market)
           /\ \A b \in Watched : b.symbol \in Watchlist
           /\ \A b \in Bars : b.ts \in Nat /\ b.symbol \in Traded /\ b.day = Today
           /\ NoBar \notin Watched /\ NoBar \notin rows
  <1>1. market \in Seq(Bars) /\ Keyed(ToSet(market)) /\ rows \subseteq Watched
    BY DEF Typed, TypeOK
  <1>2. ToSet(market) \subseteq Bars /\ IsFiniteSet(ToSet(market))
    <2>1. CASE Bars = {}
      BY <1>1, <2>1, FS_EmptySet DEF ToSet
    <2>2. CASE Bars # {}
      <3>1. PICK b \in Bars : TRUE
        BY <2>2
      <3>. QED  BY <1>1, <3>1, SeqElements
    <2>. QED  BY <2>1, <2>2
  <1>3. \A b \in Bars : b \in Tape(Traded, {Today})
    BY DEF Bars
  <1>4. \A b \in Tape(Traded, {Today}) : b.ts \in Nat /\ b.symbol \in Traded /\ b.day = Today
    BY DEF Tape
  <1>5. Tape(Traded, {Today}) \subseteq Tape(Symbols, {Today}) /\ {Today} \subseteq Nat
    BY SessionAssumption DEF Tape, Symbols
  <1>6. Reel(ToSet(market), {Today})
    BY <1>1, <1>2, <1>3, <1>5 DEF Reel
  <1>7. NoBar \notin Bars
    BY <1>3 DEF Tape, NoBar, None
  <1>8. Watched \subseteq ToSet(market) /\ \A b \in Watched : b.symbol \in Watchlist
    BY DEF Watched
  <1>9. name \in Strategy
    BY SessionAssumption DEF Typed, TypeOK
  <1>. QED  BY <1>1, <1>2, <1>3, <1>4, <1>6, <1>7, <1>8, <1>9

\* The runner is on such a day, and any such day has its types.
LEMMA RunnerIsDay ==
    ASSUME Typed
    PROVE  [st |-> st, signals |-> fired] \in Days(name, Watchlist, ToSet(market), {Today})
  <1>1. \A x \in Watchlist : st[x] \in StrategyState(name, ToSet(market))
    <2>1. \A x \in Watchlist : Own(ToSet(market), x) \subseteq ToSet(market)
      BY DEF Own
    <2>. QED  BY <2>1, Known, StatesGrow DEF Typed, StatesSeen
  <1>2. st \in [Watchlist -> StrategyState(name, ToSet(market))]
    BY <1>1 DEF Typed, TypeOK
  <1>3. fired \in Seq(Signals(Watchlist, {Today}))
    BY DEF Typed, TypeOK
  <1>. QED  BY <1>2, <1>3 DEF Days, Typed, StatesSeen

LEMMA DayIsTyped ==
    ASSUME NEW n \in Strategy, NEW bars, bars \subseteq Bars,
           NEW day \in Days(n, Watchlist, bars, {Today})
    PROVE  /\ day.st \in [Watchlist -> StrategyState(n, Bars)]
           /\ day.signals \in Seq(Signals(Watchlist, {Today}))
           /\ \A x \in Watchlist : day.st[x] \in States(n, Own(bars, x))
  <1>1. /\ day.st \in [Watchlist -> StrategyState(n, bars)]
        /\ day.signals \in Seq(Signals(Watchlist, {Today}))
        /\ \A x \in Watchlist : day.st[x] \in States(n, Own(bars, x))
    BY DEF Days
  <1>2. \A x \in Watchlist : Own(bars, x) \subseteq Bars
    BY DEF Own
  <1>3. \A x \in Watchlist : day.st[x] \in StrategyState(n, Bars)
    BY <1>1, <1>2, StatesGrow
  <1>. QED  BY <1>1, <1>3

LEMMA InitTyped == Init => Typed
  <1>. SUFFICES ASSUME Init PROVE Typed
    OBVIOUS
  <1>1. name \in Strategy /\ name \in Names
    BY SessionAssumption DEF Init
  <1>2. PICK none : none = <<>>
    OBVIOUS
  <1>3. ToSet(none) = {} /\ \A S : none \in Seq(S)
    BY <1>2 DEF ToSet
  <1>4. market = none /\ wire = none /\ fired = none /\ Keyed(ToSet(market))
    BY <1>2, <1>3 DEF Init, Keyed
  <1>5. Morning(name, Watchlist) \in Days(name, Watchlist, {}, {Today})
    BY <1>1, MorningIsDay
  <1>6. /\ st \in [Watchlist -> StrategyState(name, Bars)]
        /\ \A x \in Watchlist : st[x] \in States(name, Own({}, x))
    BY <1>1, <1>5, DayIsTyped DEF Init
  <1>7. StatesSeen
    BY <1>3, <1>4, <1>6 DEF StatesSeen
  <1>8. none \in Buffers(Bars)
    BY <1>2, SessionAssumption DEF Buffers, Ascending
  <1>9. /\ store \in [Watchlist -> Seq(Bars)]
        /\ \A x \in Watchlist : Len(store[x]) <= MaxLen /\ Ascending(store[x])
    BY <1>2, <1>8 DEF Init, Buffers
  <1>10. /\ up \in BOOLEAN /\ hand = NoBar /\ up = TRUE /\ rows = {} /\ saved = {} /\ drift = {}
         /\ faults = {} /\ failures = 0 /\ crashes = 0
    BY DEF Init
  <1>11. failures \in 0..MaxFaults /\ crashes \in 0..MaxCrashes
    BY <1>10, SessionAssumption
  <1>. QED  BY <1>1, <1>3, <1>4, <1>6, <1>7, <1>9, <1>10, <1>11 DEF Typed, TypeOK

\* What the store makes of a bar.
LEMMA ReceiveTyped ==
    ASSUME Typed, NEW bar \in Watched, Receive(bar)
    PROVE  /\ store' \in [Watchlist -> Seq(Bars)]
           /\ \A x \in Watchlist : Len(store'[x]) <= MaxLen /\ Ascending(store'[x])
           /\ hand' = bar /\ up
  <1>1. /\ store \in [Watchlist -> Seq(Bars)] /\ bar.symbol \in Watchlist /\ bar \in Bars
        /\ \A x \in Watchlist : store[x] \in Buffers(Bars)
    BY Known DEF Typed, TypeOK, Buffers
  <1>2. PICK x \in Watchlist : x = bar.symbol
    BY <1>1
  <1>3. Appended(store[x], bar) \in Buffers(Bars)
    BY <1>1, Known, AppendedKeeps
  <1>4. PICK q \in Buffers(Bars) : q = Appended(store[x], bar)
    BY <1>3
  <1>5. store' = [store EXCEPT ![x] = q] /\ hand' = bar /\ up
    BY <1>2, <1>4 DEF Receive
  <1>6. \A y \in Watchlist : store'[y] \in Buffers(Bars)
    BY <1>1, <1>5
  <1>7. store' \in [Watchlist -> Seq(Bars)]
    BY <1>1, <1>4, <1>5 DEF Buffers
  <1>. QED  BY <1>5, <1>6, <1>7 DEF Buffers

LEMMA FaultTyped ==
    ASSUME Typed, NEW kind \in Faults, Fault(kind)
    PROVE  failures' \in 0..MaxFaults /\ faults' \subseteq Faults
  <1>1. failures \in 0..MaxFaults /\ faults \subseteq Faults /\ MaxFaults \in Nat
    BY SessionAssumption DEF Typed, TypeOK
  <1>. QED  BY <1>1 DEF Fault

\* What arrives comes from the wire; the rest stays there.
LEMMA WireKeeps ==
    ASSUME NEW S, NEW w \in Seq(S), w # <<>>
    PROVE  /\ Head(w) \in S /\ Tail(w) \in Seq(S)
           /\ Len(w) > 1 => w[2] \in S /\ RemoveAt(w, 2) \in Seq(S)
  <1>1. Head(w) \in S /\ Tail(w) \in Seq(S) /\ Len(w) \in Nat /\ \A i \in 1..Len(w) : w[i] \in S
    OBVIOUS
  <1>2. ASSUME Len(w) > 1 PROVE w[2] \in S /\ RemoveAt(w, 2) \in Seq(S)
    <2>1. 2 \in 1..Len(w)
      BY <1>1, <1>2
    <2>2. RemoveAt(w, 2) = SubSeq(w, 1, 2 - 1) \o SubSeq(w, 2 + 1, Len(w))
      BY Zenon DEF RemoveAt
    <2>3. \A i \in 1..(2 - 1) : w[i] \in S
      BY <1>1, <1>2
    <2>4. \A i \in (2 + 1)..Len(w) : w[i] \in S
      BY <1>1
    <2>5. SubSeq(w, 1, 2 - 1) \in Seq(S) /\ SubSeq(w, 2 + 1, Len(w)) \in Seq(S)
      BY <1>1, <2>3, <2>4, SubSeqProperties
    <2>. QED  BY <1>1, <2>1, <2>2, <2>5, ConcatProperties
  <1>. QED  BY <1>1, <1>2

\* A step that touches neither the market nor the memory of the runner.
Apart == UNCHANGED <<name, market, up, st, store, hand, fired>>

LEMMA ApartTyped ==
    ASSUME Typed, Apart, wire' \in Seq(Watched), rows' \subseteq Watched,
           \A run \in saved' : run.trades # {}, drift' \subseteq Drifts, faults' \subseteq Faults,
           failures' \in 0..MaxFaults, crashes' \in 0..MaxCrashes
    PROVE  Typed'
  <1>1. Watched' = Watched
    BY DEF Apart, Watched
  <1>2. StatesSeen'
    BY DEF Apart, Typed, StatesSeen
  <1>3. TypeOK'
    BY <1>1, Zenon DEF Apart, Typed, TypeOK
  <1>. QED  BY <1>2, <1>3 DEF Typed

LEMMA LostTyped == Typed /\ Lost => Typed'
  <1>. SUFFICES ASSUME Typed, Lost PROVE Typed'
    OBVIOUS
  <1>1. wire \in Seq(Watched)
    BY DEF Typed, TypeOK
  <1>2. wire' \in Seq(Watched)
    BY <1>1, WireKeeps DEF Lost
  <1>3. failures' \in 0..MaxFaults /\ faults' \subseteq Faults
    BY FaultTyped DEF Lost, Faults
  <1>4. Apart /\ rows' = rows /\ saved' = saved /\ drift' = drift /\ crashes' = crashes
    BY DEF Lost, Apart, runner
  <1>. QED  BY <1>2, <1>3, <1>4, ApartTyped DEF Typed, TypeOK

LEMMA ShadowTyped == Typed /\ ShadowStores => Typed'
  <1>. SUFFICES ASSUME Typed, ShadowStores PROVE Typed'
    OBVIOUS
  <1>1. rows' \subseteq Watched
    BY DEF ShadowStores, Typed, TypeOK
  <1>2. failures' \in 0..MaxFaults /\ faults' \subseteq Faults
    BY FaultTyped DEF ShadowStores, Faults, Drifts
  <1>3. Apart /\ wire' = wire /\ saved' = saved /\ crashes' = crashes
    BY DEF ShadowStores, Apart
  <1>4. drift' \subseteq Drifts
    BY DEF ShadowStores, Drifts, Typed, TypeOK
  <1>. QED  BY <1>1, <1>2, <1>3, <1>4, ApartTyped DEF Typed, TypeOK

EveningRuns == ReplayScript \/ BacktestScript \/ CompareScript

LEMMA EveningTyped == Typed /\ EveningRuns => Typed'
  <1>. SUFFICES ASSUME Typed, EveningRuns PROVE Typed'
    OBVIOUS
  <1>1. UNCHANGED <<name, market, wire, runner, history>>
    BY DEF EveningRuns, ReplayScript, BacktestScript, CompareScript, Evening
  <1>2. \A run \in saved' : run.trades # {}
    <2>1. \E runs : Save(runs)
      BY Zenon DEF EveningRuns, ReplayScript, BacktestScript, CompareScript
    <2>. QED  BY <2>1 DEF Save
  <1>3. Apart /\ UNCHANGED <<wire, rows, drift, faults, failures, crashes>>
    BY <1>1 DEF runner, history, Apart
  <1>. QED  BY <1>2, <1>3, ApartTyped DEF Typed, TypeOK

\* A bar that arrives: the store, and perhaps the table, take it.
Arrived(bar) ==
    /\ Receive(bar)
    /\ rows' = Persisted(bar) \/ rows' = rows
    /\ UNCHANGED <<name, market, up, st, fired, saved, crashes>>

LEMMA PersistedIn == ASSUME NEW bar PROVE Persisted(bar) \in {rows, rows \union {bar}}
  BY DEF Persisted

LEMMA ArrivedTyped ==
    ASSUME Typed, NEW bar \in Watched, Arrived(bar), wire' \in Seq(Watched),
           drift' \subseteq Drifts, faults' \subseteq Faults, failures' \in 0..MaxFaults
    PROVE  Typed'
  <1>1. /\ store' \in [Watchlist -> Seq(Bars)]
        /\ \A x \in Watchlist : Len(store'[x]) <= MaxLen /\ Ascending(store'[x])
        /\ hand' = bar /\ up
    BY ReceiveTyped DEF Arrived
  <1>2. rows' \subseteq Watched
    BY PersistedIn DEF Arrived, Typed, TypeOK
  <1>3. UNCHANGED <<name, market, up, st, fired, saved, crashes>> /\ Watched' = Watched
    BY DEF Arrived, Watched
  <1>4. StatesSeen'
    BY <1>3 DEF Typed, StatesSeen
  <1>5. TypeOK'
    BY <1>1, <1>2, <1>3 DEF Typed, TypeOK
  <1>. QED  BY <1>4, <1>5 DEF Typed

LEMMA StoredTyped ==
    ASSUME Typed, NEW bar, NEW d, d \subseteq Drifts, Stored(bar, d) \/ Unstored
    PROVE  drift' \subseteq Drifts
  <1>1. drift \subseteq Drifts
    BY DEF Typed, TypeOK
  <1>. QED  BY <1>1 DEF Stored, Unstored, Drifts

LEMMA ArrivalTyped == Typed /\ (Arrives \/ ArrivesEarly \/ ArrivesAgain) => Typed'
  <1>. SUFFICES ASSUME Typed, Arrives \/ ArrivesEarly \/ ArrivesAgain PROVE Typed'
    OBVIOUS
  <1>0. wire \in Seq(Watched)
    BY DEF Typed, TypeOK
  <1>1. CASE Arrives
    <2>1. PICK bar \in Watched : bar = Head(wire)
      BY <1>0, <1>1, WireKeeps DEF Arrives
    <2>2. wire' \in Seq(Watched)
      BY <1>0, <1>1, WireKeeps DEF Arrives
    <2>3. Arrived(bar)
      BY <1>1, <2>1 DEF Arrives, Arrived, Stored, Unstored
    <2>4. Stored(bar, {}) \/ Unstored
      BY <1>1, <2>1 DEF Arrives
    <2>5. drift' \subseteq Drifts
      BY <2>4, StoredTyped
    <2>6. failures' \in 0..MaxFaults /\ faults' \subseteq Faults
      <3>1. "unstored" \in Faults
        BY DEF Faults, Drifts
      <3>. QED  BY <1>1, <3>1, FaultTyped DEF Arrives, Fine, Typed, TypeOK
    <2>. QED  BY <2>2, <2>3, <2>5, <2>6, ArrivedTyped
  <1>2. CASE ArrivesEarly
    <2>1. PICK bar \in Watched : bar = wire[2]
      <3>1. wire # <<>>
        BY <1>0, <1>2 DEF ArrivesEarly
      <3>. QED  BY <1>0, <1>2, <3>1, WireKeeps DEF ArrivesEarly
    <2>2. wire' \in Seq(Watched)
      <3>1. wire # <<>>
        BY <1>0, <1>2 DEF ArrivesEarly
      <3>. QED  BY <1>0, <1>2, <3>1, WireKeeps DEF ArrivesEarly
    <2>3. Arrived(bar)
      BY <1>2, <2>1 DEF ArrivesEarly, Arrived, Stored
    <2>4. Stored(bar, {})
      BY <1>2, <2>1 DEF ArrivesEarly
    <2>5. drift' \subseteq Drifts
      BY <2>4, StoredTyped
    <2>6. failures' \in 0..MaxFaults /\ faults' \subseteq Faults
      <3>1. "late" \in Faults
        BY DEF Faults, Drifts
      <3>. QED  BY <1>2, <3>1, FaultTyped DEF ArrivesEarly
    <2>. QED  BY <2>2, <2>3, <2>5, <2>6, ArrivedTyped
  <1>3. CASE ArrivesAgain
    <2>1. PICK bar \in Watched : Receive(bar) /\ Stored(bar, {"repeated"})
      BY <1>3 DEF ArrivesAgain
    <2>2. Arrived(bar) /\ wire' = wire
      BY <1>3, <2>1 DEF ArrivesAgain, Arrived, Stored
    <2>3. drift' \subseteq Drifts
      <3>1. {"repeated"} \subseteq Drifts
        BY DEF Drifts
      <3>. QED  BY <2>1, <3>1, StoredTyped
    <2>4. failures' \in 0..MaxFaults /\ faults' \subseteq Faults
      <3>1. "repeated" \in Faults
        BY DEF Faults, Drifts
      <3>. QED  BY <1>3, <3>1, FaultTyped DEF ArrivesAgain
    <2>. QED  BY <1>0, <2>2, <2>3, <2>4, ArrivedTyped
  <1>. QED  BY <1>1, <1>2, <1>3

\* What a runner with a day of the bars that closed needs more.
LEMMA DayTyped ==
    ASSUME Typed, NEW day \in Days(name, Watchlist, ToSet(market), {Today}),
           UNCHANGED <<name, market, saved>>, st' = day.st, rows' = rows, up' \in BOOLEAN,
           wire' \in Seq(Watched), hand' = NoBar,
           store' \in [Watchlist -> Seq(Bars)],
           \A x \in Watchlist : Len(store'[x]) <= MaxLen /\ Ascending(store'[x]),
           fired' = fired \/ fired' = day.signals,
           drift' \subseteq Drifts, faults' \subseteq Faults,
           failures' \in 0..MaxFaults, crashes' \in 0..MaxCrashes
    PROVE  Typed'
  <1>1. /\ st' \in [Watchlist -> StrategyState(name, Bars)]
        /\ day.signals \in Seq(Signals(Watchlist, {Today}))
        /\ \A x \in Watchlist : st'[x] \in States(name, Own(ToSet(market), x))
    BY Known, DayIsTyped
  <1>2. Watched' = Watched
    BY DEF Watched
  <1>3. StatesSeen'
    BY <1>1 DEF StatesSeen
  <1>4. TypeOK'
    BY <1>1, <1>2 DEF Typed, TypeOK
  <1>. QED  BY <1>3, <1>4 DEF Typed

LEMMA ConsultTyped == Typed /\ Consult => Typed'
  <1>. SUFFICES ASSUME Typed, Consult PROVE Typed'
    OBVIOUS
  <1>1. hand \in ToSet(market)
    BY Known DEF Consult, Typed, TypeOK
  <1>2. PICK was : was = [st |-> st, signals |-> fired]
    OBVIOUS
  <1>3. was \in Days(name, Watchlist, ToSet(market), {Today})
    BY <1>2, RunnerIsDay
  <1>4. PICK x, r, day : x = hand.symbol /\ r = OnBar(name, was.st[x], hand) /\ day = Fed(name, was, hand)
    OBVIOUS
  <1>5. day \in Days(name, Watchlist, ToSet(market), {Today})
    BY <1>1, <1>3, <1>4, Known, FedIs
  <1>6. st' = day.st /\ fired' = day.signals /\ hand' = NoBar
    BY <1>2, <1>4 DEF Consult
  <1>7. UNCHANGED <<name, market, wire, up, store, rows, saved, drift, faults, failures, crashes>>
    BY DEF Consult, history
  <1>8. Watched' = Watched
    BY <1>7 DEF Watched
  <1>. QED  BY <1>5, <1>6, <1>7, <1>8, DayTyped DEF Typed, TypeOK

LEMMA CrashTyped == Typed /\ Crash => Typed'
  <1>. SUFFICES ASSUME Typed, Crash PROVE Typed'
    OBVIOUS
  <1>1. PICK day : day = Morning(name, Watchlist)
    OBVIOUS
  <1>2. day \in Days(name, Watchlist, ToSet(market), {Today})
    BY <1>1, Known, MorningIsDay
  <1>3. PICK none : none = <<>>
    OBVIOUS
  <1>4. none \in Buffers(Bars) /\ none \in Seq(Watched)
    BY <1>3, SessionAssumption DEF Buffers, Ascending
  <1>5. store' = [x \in Watchlist |-> none] /\ wire' = none /\ st' = day.st /\ hand' = NoBar /\ up' = FALSE
    BY <1>1, <1>3 DEF Crash
  <1>6. /\ store' \in [Watchlist -> Seq(Bars)]
        /\ \A x \in Watchlist : Len(store'[x]) <= MaxLen /\ Ascending(store'[x])
    BY <1>4, <1>5 DEF Buffers
  <1>7. UNCHANGED <<name, market, rows, fired, saved, failures>>
    BY DEF Crash
  <1>8. drift' \subseteq Drifts /\ faults' \subseteq Faults
    BY DEF Crash, Faults, Drifts, Typed, TypeOK
  <1>9. crashes' \in 0..MaxCrashes
    <2>1. crashes \in 0..MaxCrashes /\ MaxCrashes \in Nat
      BY SessionAssumption DEF Typed, TypeOK
    <2>. QED  BY <2>1 DEF Crash
  <1>10. failures' \in 0..MaxFaults /\ up' \in BOOLEAN
    BY <1>5, <1>7 DEF Typed, TypeOK
  <1>. QED  BY <1>2, <1>4, <1>5, <1>6, <1>7, <1>8, <1>9, <1>10, DayTyped

\* The table in order, as the replay and the store see it.
LEMMA DayBarsKnown ==
    ASSUME Typed
    PROVE  /\ Timed(rows) /\ Keyed(rows)
           /\ DayBars \in Seq(rows) /\ ToSet(DayBars) = rows /\ Chronological(DayBars)
           /\ DayBars \in Seq(ToSet(market)) /\ DayBars \in Seq(Bars)
  <1>1. rows \subseteq ToSet(market) /\ IsFiniteSet(rows) /\ ToSet(market) \subseteq Bars
    BY Known, FS_Subset
  <1>2. Timed(rows) /\ Keyed(rows)
    BY <1>1, Known, ReelIsTimed
  <1>3. DayBars \in Seq(rows) /\ ToSet(DayBars) = rows /\ Chronological(DayBars)
    BY <1>2, OrderKeeps DEF DayBars
  <1>4. PICK q : q = DayBars
    OBVIOUS
  <1>5. q \in Seq(ToSet(market)) /\ q \in Seq(Bars)
    BY <1>1, <1>3, <1>4
  <1>. QED  BY <1>2, <1>3, <1>4, <1>5

LEMMA RestartTyped == Typed /\ Restart => Typed'
  <1>. SUFFICES ASSUME Typed, Restart PROVE Typed'
    OBVIOUS
  <1>1. /\ UNCHANGED <<name, market, wire, hand, rows, fired, saved, crashes>> /\ up' = TRUE
        /\ Watched' = Watched
    BY DEF Restart, Watched
  <1>2. hand = NoBar
    BY Known DEF Restart, Typed, TypeOK
  <1>3. CASE st' = Recovered /\ store' = Warm(DayBars) /\ drift' = {} /\ Fine
    <2>1. PICK day : day = Replayed(name, Watchlist, DayBars)
      OBVIOUS
    <2>2. day \in Days(name, Watchlist, ToSet(market), {Today})
      BY <2>1, DayBarsKnown, Known, ReplayIsDay
    <2>3. \A x \in Watchlist : Warm(DayBars)[x] \in Buffers(Bars)
      BY DayBarsKnown, Known, WarmIsBuffer
    <2>4. store' = [x \in Watchlist |-> store'[x]]
      BY <1>3, WarmIsFunction
    <2>5. /\ store' \in [Watchlist -> Seq(Bars)]
          /\ \A x \in Watchlist : Len(store'[x]) <= MaxLen /\ Ascending(store'[x])
      BY <1>3, <2>3, <2>4 DEF Buffers
    <2>6. st' = day.st
      BY <1>3, <2>1 DEF Recovered
    <2>. QED  BY <1>1, <1>2, <1>3, <2>2, <2>5, <2>6, DayTyped DEF Typed, TypeOK, Fine
  <1>4. CASE UNCHANGED <<st, store>> /\ drift' = {"unread"} /\ Fault("unread")
    <2>1. "unread" \in Drifts /\ "unread" \in Faults
      BY DEF Drifts, Faults
    <2>2. failures' \in 0..MaxFaults /\ faults' \subseteq Faults
      BY <1>4, <2>1, FaultTyped
    <2>3. PICK day : day = [st |-> st, signals |-> fired]
      OBVIOUS
    <2>4. day \in Days(name, Watchlist, ToSet(market), {Today})
      BY <2>3, RunnerIsDay
    <2>. QED  BY <1>1, <1>2, <1>4, <2>1, <2>2, <2>3, <2>4, DayTyped DEF Typed, TypeOK
  <1>. QED  BY <1>3, <1>4 DEF Restart

LEMMA BarClosesTyped ==
    ASSUME Typed, NEW x \in Traded, NEW t \in Minutes, NEW shape \in Shapes, BarCloses(x, t, shape)
    PROVE  Typed'
  <1>1. PICK bar : bar = [symbol |-> x, day |-> Today, ts |-> t, high |-> shape.high,
                          low |-> shape.low, close |-> shape.close, vol |-> shape.vol]
    OBVIOUS
  <1>2. bar \in Bars /\ bar.ts = t /\ bar.symbol = x
    <2>1. t \in Nat /\ shape \in [high : Nat, low : Nat, close : Nat, vol : Nat] /\ Today \in Nat
      BY SessionAssumption
    <2>. QED  BY <1>1, <2>1 DEF Bars, Tape
  <1>3. market' = Append(market, bar) /\ wire' = IF up /\ x \in Watchlist THEN Append(wire, bar) ELSE wire
    BY <1>1 DEF BarCloses
  <1>4. market \in Seq(Bars) /\ Keyed(ToSet(market)) /\ wire \in Seq(Watched)
    BY DEF Typed, TypeOK
  <1>5. market' \in Seq(Bars) /\ ToSet(market') = ToSet(market) \union {bar}
    BY <1>2, <1>3, <1>4, SeqElements
  <1>6. Keyed(ToSet(market'))
    <2>1. \A b \in ToSet(market) : b.ts < t \/ (b.ts = t /\ b.symbol # x)
      BY DEF BarCloses
    <2>2. \A b \in ToSet(market) : b.ts \in Nat /\ t \in Nat
      BY Known, SessionAssumption
    <2>3. \A b \in ToSet(market) : ~(b.ts = bar.ts /\ b.symbol = bar.symbol)
      BY <1>2, <2>1, <2>2
    <2>. QED  BY <1>4, <1>5, <2>3 DEF Keyed
  <1>7. Watched \subseteq Watched' /\ (x \in Watchlist => bar \in Watched')
    BY <1>2, <1>5 DEF Watched
  <1>8. wire' \in Seq(Watched')
    <2>1. PICK W : W = Watched'
      OBVIOUS
    <2>2. wire \in Seq(W) /\ (x \in Watchlist => bar \in W)
      BY <1>4, <1>7, <2>1
    <2>. QED  BY <1>3, <2>1, <2>2
  <1>9. /\ UNCHANGED <<name, up, st, store, hand, rows, fired, saved, drift, failures, crashes>>
        /\ faults' \subseteq Faults
    BY DEF BarCloses, runner, Faults, Typed, TypeOK
  <1>10. StatesSeen'
    <2>1. \A y : Own(ToSet(market), y) \subseteq Own(ToSet(market'), y)
      BY <1>5 DEF Own
    <2>2. \A y \in Watchlist : st[y] \in States(name, Own(ToSet(market'), y))
      BY <2>1, Known, StatesGrow DEF Typed, StatesSeen
    <2>. QED  BY <1>9, <2>2 DEF StatesSeen
  <1>11. TypeOK'
    <2>1. rows' \subseteq Watched' /\ hand' \in Watched' \union {NoBar}
      BY <1>7, <1>9 DEF Typed, TypeOK
    <2>. QED  BY <1>5, <1>6, <1>8, <1>9, <2>1 DEF Typed, TypeOK
  <1>. QED  BY <1>10, <1>11 DEF Typed

LEMMA StepTyped == Typed /\ [Next]_vars => Typed'
  <1>. SUFFICES ASSUME Typed, [Next]_vars PROVE Typed'
    OBVIOUS
  <1>1. ASSUME \E x \in Traded, t \in Minutes, shape \in Shapes : BarCloses(x, t, shape) PROVE Typed'
    BY <1>1, BarClosesTyped
  <1>2. CASE UNCHANGED vars
    <2>1. Watched' = Watched
      BY <1>2 DEF vars, Watched
    <2>2. TypeOK'
      BY <1>2, <2>1 DEF vars, runner, history, Typed, TypeOK
    <2>3. StatesSeen'
      BY <1>2 DEF vars, runner, Typed, StatesSeen
    <2>. QED  BY <2>2, <2>3 DEF Typed
  <1>. QED  BY <1>1, <1>2, LostTyped, ShadowTyped, ArrivalTyped, ConsultTyped, CrashTyped,
               RestartTyped, EveningTyped DEF Next, EveningRuns

\* The variables keep their types: what the strategy holds of a symbol comes from bars of
\* that symbol that closed today, its buffer has at most maxlen bars, oldest first, and no
\* run is saved without a trade.
THEOREM SessionTypeCorrect == Spec => []TypeOK
  <1>1. Init => Typed
    BY InitTyped
  <1>2. Typed /\ [Next]_vars => Typed'
    BY StepTyped
  <1>3. Typed => TypeOK
    BY DEF Typed
  <1>. QED  BY <1>1, <1>2, <1>3, PTL DEF Spec

-----------------------------------------------------------------------------
(* The wire.                                                               *)

\* r is w without its i-th element.
Without(r, w, i) ==
    /\ Len(r) = Len(w) - 1
    /\ \A k \in 1..Len(r) : (k < i => r[k] = w[k]) /\ (k >= i => r[k] = w[k + 1])

LEMMA TailIsWithout ==
    ASSUME NEW S, NEW w \in Seq(S), w # <<>>
    PROVE  1 \in 1..Len(w) /\ Head(w) = w[1] /\ Tail(w) \in Seq(S) /\ Without(Tail(w), w, 1)
  BY DEF Without

LEMMA RemoveIsWithout ==
    ASSUME NEW S, NEW w \in Seq(S), Len(w) > 1
    PROVE  2 \in 1..Len(w) /\ RemoveAt(w, 2) \in Seq(S) /\ Without(RemoveAt(w, 2), w, 2)
  <1>1. Len(w) \in Nat /\ 2 \in 1..Len(w) /\ \A i \in 1..Len(w) : w[i] \in S
    OBVIOUS
  <1>2. PICK m \in Nat : m = Len(w)
    BY <1>1
  <1>3. PICK a, b : a = SubSeq(w, 1, 1) /\ b = SubSeq(w, 3, m)
    OBVIOUS
  <1>4. RemoveAt(w, 2) = a \o b
    <2>1. RemoveAt(w, 2) = SubSeq(w, 1, 2 - 1) \o SubSeq(w, 2 + 1, Len(w))
      BY Zenon DEF RemoveAt
    <2>. QED  BY <1>2, <1>3, <2>1
  <1>5. a \in Seq(S) /\ Len(a) = 1 /\ a[1] = w[1]
    <2>1. \A i \in 1..1 : w[i] \in S
      BY <1>1, <1>2
    <2>2. /\ SubSeq(w, 1, 1) \in Seq(S) /\ Len(SubSeq(w, 1, 1)) = 1
          /\ \A i \in 1..1 : SubSeq(w, 1, 1)[i] = w[1 + i - 1]
      BY <2>1, SubSeqProperties
    <2>. QED  BY <1>3, <2>2
  <1>6. b \in Seq(S) /\ Len(b) = m - 2 /\ \A i \in 1..(m - 2) : b[i] = w[i + 2]
    <2>1. \A i \in 3..m : w[i] \in S
      BY <1>1, <1>2
    <2>2. /\ SubSeq(w, 3, m) \in Seq(S)
          /\ Len(SubSeq(w, 3, m)) = IF 3 <= m THEN m - 3 + 1 ELSE 0
          /\ \A i \in 1..(m - 3 + 1) : SubSeq(w, 3, m)[i] = w[3 + i - 1]
      BY <2>1, SubSeqProperties
    <2>3. m - 3 + 1 = m - 2 /\ (~(3 <= m) => m - 2 = 0)
      BY <1>1, <1>2
    <2>4. \A i \in 1..(m - 2) : 3 + i - 1 = i + 2
      OBVIOUS
    <2>. QED  BY <1>3, <2>2, <2>3, <2>4
  <1>7. PICK r : r = a \o b
    OBVIOUS
  <1>8. /\ r \in Seq(S) /\ Len(r) = m - 1
        /\ \A k \in 1..(m - 1) : r[k] = IF k <= 1 THEN a[k] ELSE b[k - 1]
    <2>1. /\ r \in Seq(S) /\ Len(r) = Len(a) + Len(b)
          /\ \A k \in 1..(Len(a) + Len(b)) : r[k] = IF k <= Len(a) THEN a[k] ELSE b[k - Len(a)]
      BY <1>5, <1>6, <1>7, ConcatProperties
    <2>2. Len(a) + Len(b) = m - 1
      BY <1>1, <1>2, <1>5, <1>6
    <2>. QED  BY <1>5, <2>1, <2>2
  <1>9. Without(r, w, 2)
    <2>. SUFFICES ASSUME NEW k \in 1..(m - 1)
                  PROVE  (k < 2 => r[k] = w[k]) /\ (k >= 2 => r[k] = w[k + 1])
      BY <1>2, <1>8 DEF Without
    <2>1. CASE k = 1
      BY <1>5, <1>8, <2>1
    <2>2. CASE k # 1
      <3>1. k - 1 \in 1..(m - 2) /\ (k - 1) + 2 = k + 1 /\ ~(k <= 1)
        BY <1>2, <2>2
      <3>2. r[k] = b[k - 1] /\ b[k - 1] = w[(k - 1) + 2]
        BY <1>6, <1>8, <3>1
      <3>. QED  BY <2>2, <3>1, <3>2
    <2>. QED  BY <2>1, <2>2
  <1>. QED  BY <1>1, <1>4, <1>7, <1>8, <1>9

\* What one bar leaves of some in order.
LEMMA WithoutKeeps ==
    ASSUME NEW S, \A b \in S : b.ts \in Nat, NEW w \in Seq(S), Chronological(w),
           NEW i \in 1..Len(w), NEW r \in Seq(S), Without(r, w, i)
    PROVE  /\ Chronological(r) /\ ToSet(r) \subseteq ToSet(w)
           /\ w[i] \in ToSet(w) /\ w[i] \notin ToSet(r)
           /\ ToSet(w) \subseteq ToSet(r) \union {w[i]}
  <1>1. PICK m \in Nat : m = Len(w)
    OBVIOUS
  <1>2. /\ DOMAIN w = 1..m /\ DOMAIN r = 1..(m - 1) /\ i \in 1..m
        /\ \A k \in 1..m : w[k] \in S
    BY <1>1 DEF Without
  <1>3. \A k \in 1..(m - 1) : (k < i => r[k] = w[k]) /\ (k >= i => r[k] = w[k + 1])
    BY <1>1, <1>2 DEF Without
  <1>. DEFINE at(k) == IF k < i THEN k ELSE k + 1
  <1>4. \A k \in 1..(m - 1) : at(k) \in 1..m /\ at(k) # i /\ r[k] = w[at(k)]
    BY <1>2, <1>3
  <1>5. \A k, l \in 1..(m - 1) : k < l => at(k) < at(l)
    BY <1>2
  <1>. HIDE DEF at
  <1>6. Chronological(r)
    <2>. SUFFICES ASSUME NEW k \in 1..(m - 1), NEW l \in 1..(m - 1), k < l, r[k].symbol = r[l].symbol
                  PROVE  r[k].ts < r[l].ts
      BY <1>2 DEF Chronological
    <2>. QED  BY <1>2, <1>4, <1>5 DEF Chronological
  <1>7. \A k \in 1..m : k # i => w[k] # w[i]
    <2>. SUFFICES ASSUME NEW k \in 1..m, k # i, w[k] = w[i] PROVE FALSE
      OBVIOUS
    <2>1. PICK e \in S : e = w[i] /\ e = w[k]
      BY <1>2
    <2>2. k < i \/ i < k
      BY <1>2
    <2>3. e.ts < e.ts
      BY <1>2, <2>1, <2>2 DEF Chronological
    <2>4. e.ts \in Nat
      OBVIOUS
    <2>. QED  BY <2>3, <2>4
  <1>8. ToSet(r) \subseteq ToSet(w) /\ w[i] \in ToSet(w) /\ w[i] \notin ToSet(r)
    BY <1>2, <1>4, <1>7 DEF ToSet
  <1>9. ToSet(w) \subseteq ToSet(r) \union {w[i]}
    <2>. SUFFICES ASSUME NEW k \in 1..m, k # i PROVE w[k] \in ToSet(r)
      BY <1>2 DEF ToSet
    <2>1. CASE k < i
      <3>1. k \in 1..(m - 1) /\ r[k] = w[k]
        BY <1>2, <1>3, <2>1
      <3>. QED  BY <1>2, <3>1 DEF ToSet
    <2>2. CASE k > i
      <3>1. k - 1 \in 1..(m - 1) /\ r[k - 1] = w[k]
        BY <1>2, <1>3, <2>2
      <3>. QED  BY <1>2, <3>1 DEF ToSet
    <2>. QED  BY <1>2, <2>1, <2>2
  <1>. QED  BY <1>6, <1>8, <1>9

-----------------------------------------------------------------------------
(* Memory and table.                                                       *)

\* The wire carries the bars of a symbol in order, and to a runner that is down none.
WireInOrder == Chronological(wire) /\ (~up => wire = <<>>)

\* Nothing on the wire is stored already.
WireIsNew == drift = {} => ToSet(wire) \intersect rows = {}

\* The bar in hand is stored, the last of its symbol.
HandIsLatest ==
    up /\ drift = {} /\ hand # NoBar
        => hand \in rows /\ \A b \in rows : b.symbol = hand.symbol => b.ts <= hand.ts

\* The strategy knows of a symbol what its stored bars say, but for the one in hand; the
\* store has that one too.
MemoryIsTable ==
    up /\ drift = {} => \A x \in Watchlist :
        /\ st[x] = Alone(name, x, Own(rows, x) \ {hand}).st[x]
        /\ store[x] = Warm(InOrder(Own(rows, x)))[x]

Memory == WireInOrder /\ WireIsNew /\ HandIsLatest /\ MemoryIsTable

LEMMA InitMemory == Init => Memory
  <1>. SUFFICES ASSUME Init PROVE Memory
    OBVIOUS
  <1>1. name \in Strategy
    BY SessionAssumption DEF Init
  <1>2. PICK none : none = <<>>
    OBVIOUS
  <1>3. wire = none /\ ToSet(none) = {} /\ Chronological(none) /\ rows = {} /\ hand = NoBar /\ up = TRUE
    BY <1>2 DEF Init, Chronological, ToSet
  <1>4. MemoryIsTable
    <2>. SUFFICES ASSUME NEW x \in Watchlist
                  PROVE  /\ st[x] = Alone(name, x, Own(rows, x) \ {hand}).st[x]
                         /\ store[x] = Warm(InOrder(Own(rows, x)))[x]
      BY DEF MemoryIsTable
    <2>1. Own(rows, x) = {} /\ Own(rows, x) \ {hand} = {}
      BY <1>3 DEF Own
    <2>2. Alone(name, x, {}) = Morning(name, {x})
      BY <1>1, NothingInOrder, ReplayOfNothing DEF Alone
    <2>3. st = Morning(name, Watchlist).st /\ store[x] = <<>>
      BY DEF Init
    <2>4. st[x] = Morning(name, {x}).st[x]
      BY <2>3 DEF Morning
    <2>5. Warm(InOrder({}))[x] = <<>>
      BY NothingInOrder, WarmOfNothing
    <2>. QED  BY <2>1, <2>2, <2>3, <2>4, <2>5
  <1>. QED  BY <1>3, <1>4 DEF Memory, WireInOrder, WireIsNew, HandIsLatest

\* What a bar that comes off the wire leaves there.
LEMMA WireGives ==
    ASSUME Typed, WireInOrder, NEW i \in 1..Len(wire), NEW r \in Seq(Watched), Without(r, wire, i)
    PROVE  /\ Chronological(r) /\ ToSet(r) \subseteq ToSet(wire)
           /\ wire[i] \in ToSet(wire) /\ wire[i] \notin ToSet(r)
           /\ ToSet(wire) \subseteq ToSet(r) \union {wire[i]}
  <1>1. wire \in Seq(Watched)
    BY DEF Typed, TypeOK
  <1>2. \A b \in Watched : b.ts \in Nat
    BY Known
  <1>. QED  BY <1>1, <1>2, WithoutKeeps DEF WireInOrder

\* A bar in hand that is new and the latest of its symbol in the table.
LEMMA NewestStored ==
    ASSUME Typed, Memory, drift = {}, up, hand = NoBar,
           NEW bar \in Watched, bar \notin rows, ~Overtaken(bar), Receive(bar), Stored(bar, {}),
           UNCHANGED <<name, st, up>>
    PROVE  HandIsLatest' /\ MemoryIsTable' /\ rows' = rows \union {bar}
  <1>1. rows' = rows \union {bar} /\ hand' = bar
    <2>1. \A b \in rows : ~(b.symbol = bar.symbol /\ b.ts = bar.ts)
      BY Known DEF Reel, Keyed
    <2>. QED  BY <2>1 DEF Stored, Persisted, Receive
  <1>2. \A b \in rows : b.symbol = bar.symbol => b.ts <= bar.ts
    <2>1. \A b \in rows : b.ts \in Nat
      BY Known
    <2>2. bar.ts \in Nat
      BY Known
    <2>. QED  BY <2>1, <2>2 DEF Overtaken
  <1>3. bar.ts <= bar.ts
    <2>1. bar.ts \in Nat
      BY Known
    <2>. QED  BY <2>1
  <1>4. HandIsLatest'
    BY <1>1, <1>2, <1>3 DEF HandIsLatest
  <1>5. ASSUME NEW x \in Watchlist
        PROVE  /\ st[x] = Alone(name, x, Own(rows', x) \ {bar}).st[x]
               /\ store'[x] = Warm(InOrder(Own(rows', x)))[x]
    <2>1. /\ st[x] = Alone(name, x, Own(rows, x) \ {hand}).st[x]
          /\ store[x] = Warm(InOrder(Own(rows, x)))[x]
      BY DEF Memory, MemoryIsTable
    <2>2. Own(rows, x) \ {hand} = Own(rows, x) /\ Own(rows', x) \ {bar} = Own(rows, x)
      <3>1. hand \notin rows
        BY Known
      <3>. QED  BY <1>1, <3>1 DEF Own
    <2>3. store' = [store EXCEPT ![bar.symbol] = Appended(@, bar)] /\ DOMAIN store = Watchlist
      BY DEF Receive, Typed, TypeOK
    <2>4. CASE x # bar.symbol
      <3>1. Own(rows', x) = Own(rows, x)
        BY <1>1, <2>4 DEF Own
      <3>. QED  BY <2>1, <2>2, <2>3, <2>4, <3>1
    <2>5. CASE x = bar.symbol
      <3>1. PICK own, more : own = Own(rows, x) /\ more = Own(rows', x)
        OBVIOUS
      <3>2. IsNext(ToSet(market), x, own, bar, more)
        <4>1. own \subseteq Own(ToSet(market), x) /\ bar \in Own(ToSet(market), x)
          BY <2>5, <3>1, Known DEF Own
        <4>2. IsFiniteSet(own)
          <5>1. IsFiniteSet(ToSet(market)) /\ own \subseteq ToSet(market)
            BY <4>1, Known DEF Own
          <5>. QED  BY <5>1, FS_Subset
        <4>3. bar \notin own /\ (\A c \in own : c.ts <= bar.ts) /\ more = own \union {bar}
          BY <1>1, <1>2, <2>5, <3>1 DEF Own
        <4>. QED  BY <4>1, <4>2, <4>3 DEF IsNext
      <3>3. /\ Alone(name, x, own) \in Days(name, {x}, ToSet(market), {Today})
            /\ Alone(name, x, more) = Fed(name, Alone(name, x, own), bar)
            /\ x \in Watchlist => Warm(InOrder(more))[x] = Appended(Warm(InOrder(own))[x], bar)
        <4>1. name \in Strategy /\ Reel(ToSet(market), {Today})
          BY Known
        <4>. QED  BY <3>2, <4>1, AloneStep
      <3>4. store'[x] = Appended(store[x], bar)
        BY <2>3, <2>5
      <3>. QED  BY <2>1, <2>2, <3>1, <3>3, <3>4
    <2>. QED  BY <2>4, <2>5
  <1>6. MemoryIsTable'
    BY <1>1, <1>5 DEF MemoryIsTable
  <1>. QED  BY <1>1, <1>4, <1>6

\* Off the wire and into the table.
LEMMA TakenStored ==
    ASSUME Typed, Memory, NEW i \in 1..Len(wire), wire' \in Seq(Watched), Without(wire', wire, i),
           Receive(wire[i]), Stored(wire[i], {}) \/ Unstored,
           UNCHANGED <<name, st, up>>
    PROVE  Memory'
  <1>1. PICK bar \in Watched : bar = wire[i]
    BY DEF Typed, TypeOK
  <1>2. /\ Chronological(wire') /\ ToSet(wire') \subseteq ToSet(wire)
        /\ bar \in ToSet(wire) /\ bar \notin ToSet(wire')
    BY <1>1, WireGives DEF Memory
  <1>3. up /\ hand = NoBar
    BY DEF Receive
  <1>4. WireInOrder'
    BY <1>2, <1>3 DEF WireInOrder
  <1>5. CASE drift' # {}
    BY <1>4, <1>5 DEF Memory, WireIsNew, HandIsLatest, MemoryIsTable
  <1>6. CASE drift' = {}
    <2>1. Stored(bar, {}) /\ drift = {} /\ ~Overtaken(bar)
      BY <1>1, <1>6 DEF Stored, Unstored
    <2>2. bar \notin rows
      BY <1>2, <2>1 DEF Memory, WireIsNew
    <2>3. HandIsLatest' /\ MemoryIsTable' /\ rows' = rows \union {bar}
      BY <1>1, <1>3, <2>1, <2>2, NewestStored
    <2>4. WireIsNew'
      BY <1>2, <2>1, <2>3 DEF Memory, WireIsNew
    <2>. QED  BY <1>4, <2>3, <2>4 DEF Memory
  <1>. QED  BY <1>5, <1>6

\* What no handler does leaves the memory and the table as they are.
LEMMA AsideMemory ==
    ASSUME Memory, UNCHANGED <<name, up, st, store, hand, rows>>, drift' = drift,
           WireInOrder', ToSet(wire') \intersect rows \subseteq ToSet(wire) \intersect rows
    PROVE  Memory'
  <1>1. MemoryIsTable' /\ HandIsLatest'
    BY DEF Memory, MemoryIsTable, HandIsLatest
  <1>2. WireIsNew'
    BY DEF Memory, WireIsNew
  <1>. QED  BY <1>1, <1>2 DEF Memory

LEMMA BarClosesMemory ==
    ASSUME Typed, Memory, NEW x \in Traded, NEW t \in Minutes, NEW shape \in Shapes, BarCloses(x, t, shape)
    PROVE  Memory'
  <1>1. PICK bar : bar = [symbol |-> x, day |-> Today, ts |-> t, high |-> shape.high,
                          low |-> shape.low, close |-> shape.close, vol |-> shape.vol]
    OBVIOUS
  <1>2. bar.ts = t /\ bar.symbol = x /\ t \in Nat
    BY <1>1, SessionAssumption
  <1>3. wire' = IF up /\ x \in Watchlist THEN Append(wire, bar) ELSE wire
    BY <1>1 DEF BarCloses
  <1>4. UNCHANGED <<name, up, st, store, hand, rows, drift>>
    BY DEF BarCloses, runner
  <1>5. \A b \in ToSet(market) : b.ts < t \/ (b.ts = t /\ b.symbol # x)
    BY DEF BarCloses
  <1>6. wire \in Seq(Watched) /\ Watched \subseteq ToSet(market) /\ rows \subseteq ToSet(market)
    BY Known DEF Typed, TypeOK
  <1>7. CASE ~(up /\ x \in Watchlist)
    <2>1. wire' = wire
      BY <1>3, <1>7
    <2>. QED  BY <1>4, <2>1, AsideMemory DEF Memory, WireInOrder
  <1>8. CASE up /\ x \in Watchlist
    <2>1. PICK more : more = wire'
      OBVIOUS
    <2>2. PICK m \in Nat : m = Len(wire)
      BY <1>6
    <2>3. /\ DOMAIN wire = 1..m /\ DOMAIN more = 1..(m + 1) /\ more[m + 1] = bar
          /\ \A i \in 1..m : more[i] = wire[i] /\ wire[i] \in Watched
      BY <1>3, <1>6, <1>8, <2>1, <2>2
    <2>4. \A i \in 1..m : wire[i].symbol = x => wire[i].ts < t
      BY <1>5, <1>6, <2>3
    <2>5. Chronological(more)
      <3>. SUFFICES ASSUME NEW i \in 1..(m + 1), NEW j \in 1..(m + 1), i < j, more[i].symbol = more[j].symbol
                    PROVE  more[i].ts < more[j].ts
        BY <2>3 DEF Chronological
      <3>1. CASE j = m + 1
        BY <1>2, <2>3, <2>4, <3>1
      <3>2. CASE j # m + 1
        BY <2>3, <3>2 DEF Memory, WireInOrder, Chronological
      <3>. QED  BY <3>1, <3>2
    <2>6. ToSet(more) \subseteq ToSet(wire) \union {bar}
      BY <2>3 DEF ToSet
    <2>7. bar \notin rows
      <3>1. \A b \in rows : b.ts \in Nat
        BY Known
      <3>. QED  BY <1>2, <1>5, <1>6, <3>1
    <2>8. WireInOrder'
      BY <1>4, <1>8, <2>1, <2>5 DEF WireInOrder
    <2>. QED  BY <1>4, <2>1, <2>6, <2>7, <2>8, AsideMemory
  <1>. QED  BY <1>7, <1>8

LEMMA LostMemory == Typed /\ Memory /\ Lost => Memory'
  <1>. SUFFICES ASSUME Typed, Memory, Lost PROVE Memory'
    OBVIOUS
  <1>1. wire \in Seq(Watched) /\ wire # <<>> /\ wire' = Tail(wire)
    BY DEF Typed, TypeOK, Lost
  <1>2. 1 \in 1..Len(wire) /\ wire' \in Seq(Watched) /\ Without(wire', wire, 1)
    BY <1>1, TailIsWithout
  <1>3. Chronological(wire') /\ ToSet(wire') \subseteq ToSet(wire)
    BY <1>2, WireGives DEF Memory
  <1>4. UNCHANGED <<name, up, st, store, hand, rows, drift>>
    BY DEF Lost, runner
  <1>5. up
    BY <1>1 DEF Memory, WireInOrder
  <1>6. WireInOrder'
    BY <1>3, <1>4, <1>5 DEF WireInOrder
  <1>. QED  BY <1>3, <1>4, <1>6, AsideMemory

LEMMA ArrivalMemory == Typed /\ Memory /\ (Arrives \/ ArrivesEarly \/ ArrivesAgain) => Memory'
  <1>. SUFFICES ASSUME Typed, Memory, Arrives \/ ArrivesEarly \/ ArrivesAgain PROVE Memory'
    OBVIOUS
  <1>0. wire \in Seq(Watched)
    BY DEF Typed, TypeOK
  <1>1. CASE Arrives
    <2>1. 1 \in 1..Len(wire) /\ Head(wire) = wire[1] /\ wire' \in Seq(Watched) /\ Without(wire', wire, 1)
      BY <1>0, <1>1, TailIsWithout DEF Arrives
    <2>2. Receive(wire[1]) /\ (Stored(wire[1], {}) \/ Unstored) /\ UNCHANGED <<name, st, up>>
      BY <1>1, <2>1 DEF Arrives
    <2>. QED  BY <2>1, <2>2, TakenStored
  <1>2. CASE ArrivesEarly
    <2>1. 2 \in 1..Len(wire) /\ wire' \in Seq(Watched) /\ Without(wire', wire, 2)
      BY <1>0, <1>2, RemoveIsWithout DEF ArrivesEarly
    <2>2. Receive(wire[2]) /\ Stored(wire[2], {}) /\ UNCHANGED <<name, st, up>>
      BY <1>2 DEF ArrivesEarly
    <2>. QED  BY <2>1, <2>2, TakenStored
  <1>3. CASE ArrivesAgain
    <2>1. drift' # {} /\ wire' = wire /\ up' = up
      BY <1>3 DEF ArrivesAgain, Stored
    <2>. QED  BY <2>1 DEF Memory, WireInOrder, WireIsNew, HandIsLatest, MemoryIsTable
  <1>. QED  BY <1>1, <1>2, <1>3

\* The bar in hand, when it is the last row of its symbol, is one step more.
LEMMA HandIsNext ==
    ASSUME Typed, NEW x, x = hand.symbol, hand \in rows,
           \A b \in rows : b.symbol = hand.symbol => b.ts <= hand.ts,
           NEW one, one = Alone(name, x, Own(rows, x) \ {hand}),
           NEW r, r = OnBar(name, one.st[x], hand)
    PROVE  /\ Alone(name, x, Own(rows, x)).st[x] = r.st
           /\ ToSet(Alone(name, x, Own(rows, x)).signals) = ToSet(one.signals) \union ({r.signal} \ {None})
           /\ one.st[x] \in States(name, Own(ToSet(market), x)) /\ hand \in Own(ToSet(market), x)
  <1>1. PICK own, more : own = Own(rows, x) \ {hand} /\ more = Own(rows, x)
    OBVIOUS
  <1>2. IsNext(ToSet(market), x, own, hand, more)
    <2>1. own \subseteq Own(ToSet(market), x) /\ hand \in Own(ToSet(market), x)
      BY <1>1, Known DEF Own
    <2>2. IsFiniteSet(own)
      <3>1. IsFiniteSet(ToSet(market)) /\ own \subseteq ToSet(market)
        BY <2>1, Known DEF Own
      <3>. QED  BY <3>1, FS_Subset
    <2>3. hand \notin own /\ (\A c \in own : c.ts <= hand.ts) /\ more = own \union {hand}
      BY <1>1 DEF Own
    <2>. QED  BY <2>1, <2>2, <2>3 DEF IsNext
  <1>3. name \in Strategy /\ Reel(ToSet(market), {Today})
    BY Known
  <1>4. /\ Alone(name, x, own) \in Days(name, {x}, ToSet(market), {Today})
        /\ Alone(name, x, more) = Fed(name, Alone(name, x, own), hand)
    BY <1>2, <1>3, AloneStep
  <1>5. PICK after : after = Fed(name, one, hand)
    OBVIOUS
  <1>6. one \in Days(name, {x}, ToSet(market), {Today}) /\ Alone(name, x, more) = after
    BY <1>1, <1>4, <1>5
  <1>7. hand \in ToSet(market)
    BY Known
  <1>8. Moves({x}, {Today}, one, x, r, after)
    BY <1>3, <1>5, <1>6, <1>7, FedIs
  <1>9. DOMAIN one.st = {x} /\ one.st[x] \in States(name, Own(ToSet(market), x))
    BY <1>6 DEF Days
  <1>10. after.st[x] = r.st /\ ToSet(after.signals) = ToSet(one.signals) \union ({r.signal} \ {None})
    BY <1>8, <1>9 DEF Moves
  <1>. QED  BY <1>1, <1>2, <1>6, <1>9, <1>10 DEF IsNext

LEMMA ConsultMemory == Typed /\ Memory /\ Consult => Memory'
  <1>. SUFFICES ASSUME Typed, Memory, Consult PROVE Memory'
    OBVIOUS
  <1>1. UNCHANGED <<name, wire, up, store, rows, drift>> /\ hand' = NoBar /\ up /\ hand # NoBar
    BY DEF Consult, history
  <1>2. WireInOrder' /\ WireIsNew' /\ HandIsLatest'
    BY <1>1 DEF Memory, WireInOrder, WireIsNew, HandIsLatest
  <1>3. ASSUME drift = {}, NEW x \in Watchlist
        PROVE  /\ st'[x] = Alone(name, x, Own(rows, x) \ {hand'}).st[x]
               /\ store[x] = Warm(InOrder(Own(rows, x)))[x]
    <2>1. /\ st[x] = Alone(name, x, Own(rows, x) \ {hand}).st[x]
          /\ store[x] = Warm(InOrder(Own(rows, x)))[x]
      BY <1>1, <1>3 DEF Memory, MemoryIsTable
    <2>2. hand \in rows /\ \A b \in rows : b.symbol = hand.symbol => b.ts <= hand.ts
      BY <1>1, <1>3 DEF Memory, HandIsLatest
    <2>3. Own(rows, x) \ {hand'} = Own(rows, x)
      BY <1>1, Known DEF Own
    <2>4. PICK was, day : was = [st |-> st, signals |-> fired] /\ day = Fed(name, was, hand)
      OBVIOUS
    <2>5. was \in Days(name, Watchlist, ToSet(market), {Today}) /\ hand \in ToSet(market)
      BY <2>2, <2>4, RunnerIsDay, Known
    <2>6. st' = day.st /\ was.st = st
      BY <2>4 DEF Consult
    <2>7. PICK y, r : y = hand.symbol /\ r = OnBar(name, was.st[y], hand)
      OBVIOUS
    <2>8. Moves(Watchlist, {Today}, was, y, r, day)
      <3>1. name \in Strategy /\ Reel(ToSet(market), {Today})
        BY Known
      <3>. QED  BY <2>4, <2>5, <2>7, <3>1, FedIs
    <2>9. y \in Watchlist /\ DOMAIN st = Watchlist
      BY <1>1, <2>7, Known DEF Typed, TypeOK
    <2>10. st' = [st EXCEPT ![y] = r.st]
      BY <2>6, <2>8, <2>9 DEF Moves
    <2>11. CASE x # y
      <3>1. Own(rows, x) \ {hand} = Own(rows, x)
        BY <2>7, <2>11 DEF Own
      <3>. QED  BY <2>1, <2>3, <2>9, <2>10, <2>11, <3>1
    <2>12. CASE x = y
      <3>1. PICK one, q : one = Alone(name, x, Own(rows, x) \ {hand}) /\ q = OnBar(name, one.st[x], hand)
        OBVIOUS
      <3>2. Alone(name, x, Own(rows, x)).st[x] = q.st
        BY <2>2, <2>7, <2>12, <3>1, HandIsNext
      <3>3. q = r
        BY <2>1, <2>6, <2>7, <2>12, <3>1
      <3>4. st'[x] = r.st
        BY <2>9, <2>10, <2>12
      <3>. QED  BY <2>1, <2>3, <3>2, <3>3, <3>4
    <2>. QED  BY <2>11, <2>12
  <1>4. MemoryIsTable'
    BY <1>1, <1>3 DEF MemoryIsTable
  <1>. QED  BY <1>2, <1>4 DEF Memory

\* What the replay and the store make of the table is, symbol by symbol, what they make of
\* its bars.
LEMMA TableFollows ==
    ASSUME Typed, NEW x \in Watchlist
    PROVE  /\ Recovered[x] = Alone(name, x, Own(rows, x)).st[x]
           /\ Warm(DayBars)[x] = Warm(InOrder(Own(rows, x)))[x]
  <1>1. name \in Strategy /\ Reel(ToSet(market), {Today})
    BY Known
  <1>2. PICK q : q = DayBars
    OBVIOUS
  <1>3. q \in Seq(ToSet(market)) /\ ToSet(q) = rows /\ Chronological(q)
    BY <1>2, DayBarsKnown
  <1>4. Follows(name, Watchlist, q, x)
    BY <1>1, <1>3, SymbolFollows
  <1>. QED  BY <1>2, <1>3, <1>4 DEF Follows, Recovered

LEMMA RestartMemory == Typed /\ Memory /\ Restart => Memory'
  <1>. SUFFICES ASSUME Typed, Memory, Restart PROVE Memory'
    OBVIOUS
  <1>1. UNCHANGED <<name, wire, hand, rows>> /\ up' = TRUE /\ ~up
    BY DEF Restart
  <1>2. wire = <<>> /\ WireInOrder' /\ ToSet(wire) = {}
    BY <1>1 DEF Memory, WireInOrder, ToSet
  <1>3. hand = NoBar
    BY <1>1, Known DEF Typed, TypeOK
  <1>4. WireIsNew' /\ HandIsLatest'
    BY <1>1, <1>2, <1>3 DEF WireIsNew, HandIsLatest
  <1>5. CASE drift' # {}
    BY <1>2, <1>4, <1>5 DEF Memory, MemoryIsTable
  <1>6. CASE drift' = {}
    <2>1. st' = Recovered /\ store' = Warm(DayBars)
      BY <1>6 DEF Restart
    <2>2. ASSUME NEW x \in Watchlist
          PROVE  /\ st'[x] = Alone(name, x, Own(rows, x) \ {hand}).st[x]
                 /\ store'[x] = Warm(InOrder(Own(rows, x)))[x]
      <3>1. Own(rows, x) \ {hand} = Own(rows, x)
        BY <1>3, Known DEF Own
      <3>. QED  BY <2>1, <3>1, TableFollows
    <2>3. MemoryIsTable'
      BY <1>1, <2>2 DEF MemoryIsTable
    <2>. QED  BY <1>2, <1>4, <2>3 DEF Memory
  <1>. QED  BY <1>5, <1>6

LEMMA StepMemory == Typed /\ Memory /\ [Next]_vars => Memory'
  <1>. SUFFICES ASSUME Typed, Memory, [Next]_vars PROVE Memory'
    OBVIOUS
  <1>1. ASSUME \E x \in Traded, t \in Minutes, shape \in Shapes : BarCloses(x, t, shape) PROVE Memory'
    BY <1>1, BarClosesMemory
  <1>2. CASE ShadowStores
    BY <1>2 DEF ShadowStores, Memory, WireInOrder, WireIsNew, HandIsLatest, MemoryIsTable
  <1>3. CASE Crash
    <2>1. wire' = <<>> /\ up' = FALSE /\ hand' = NoBar
      BY <1>3 DEF Crash
    <2>2. ToSet(wire') = {} /\ Chronological(wire')
      BY <2>1 DEF ToSet, Chronological
    <2>. QED  BY <2>1, <2>2 DEF Memory, WireInOrder, WireIsNew, HandIsLatest, MemoryIsTable
  <1>4. CASE EveningRuns \/ UNCHANGED vars
    <2>1. UNCHANGED <<name, wire, up, st, store, hand, rows, drift>>
      BY <1>4 DEF EveningRuns, ReplayScript, BacktestScript, CompareScript, Evening, vars, runner, history
    <2>. QED  BY <2>1, AsideMemory DEF Memory, WireInOrder
  <1>. QED  BY <1>1, <1>2, <1>3, <1>4, LostMemory, ArrivalMemory, ConsultMemory, RestartMemory
            DEF Next, EveningRuns

LEMMA MemoryFaithful == Typed /\ Memory => RecoveryFaithful
  <1>. SUFFICES ASSUME Typed, Memory, up, hand = NoBar, drift = {}
                PROVE  st = Recovered /\ store = Warm(DayBars)
    BY DEF RecoveryFaithful
  <1>1. ASSUME NEW x \in Watchlist PROVE st[x] = Recovered[x] /\ store[x] = Warm(DayBars)[x]
    <2>1. Own(rows, x) \ {hand} = Own(rows, x)
      BY Known DEF Own
    <2>. QED  BY <2>1, TableFollows DEF Memory, MemoryIsTable
  <1>2. DOMAIN st = Watchlist /\ DOMAIN store = Watchlist
    BY DEF Typed, TypeOK
  <1>3. Recovered \in [Watchlist -> StrategyState(name, ToSet(market))]
    <2>1. PICK day : day = Replayed(name, Watchlist, DayBars)
      OBVIOUS
    <2>2. day \in Days(name, Watchlist, ToSet(market), {Today})
      BY <2>1, DayBarsKnown, Known, ReplayIsDay
    <2>. QED  BY <2>1, <2>2 DEF Days, Recovered
  <1>4. st = Recovered
    BY <1>1, <1>2, <1>3 DEF Typed, TypeOK
  <1>5. PICK kept : kept = Warm(DayBars)
    OBVIOUS
  <1>6. kept = [x \in Watchlist |-> kept[x]]
    BY <1>5, WarmIsFunction
  <1>7. store \in [Watchlist -> Seq(Bars)]
    BY DEF Typed, TypeOK
  <1>8. store = kept
    BY <1>1, <1>5, <1>6, <1>7
  <1>. QED  BY <1>4, <1>5, <1>8

\* Recovery (bars_backfill.py:89): whenever no handler runs, the strategy and the bar store
\* are what a restart would rebuild from the table, unless since they were built a bar was
\* not stored, came twice or out of order, was stored by the other runner, or not read back.
THEOREM RecoveryIsFaithful == Spec => []RecoveryFaithful
  <1>1. Init => Typed /\ Memory
    BY InitTyped, InitMemory
  <1>2. Typed /\ Memory /\ [Next]_vars => Typed' /\ Memory'
    BY StepTyped, StepMemory
  <1>3. Typed /\ Memory => RecoveryFaithful
    BY MemoryFaithful
  <1>. QED  BY <1>1, <1>2, <1>3, PTL DEF Spec

-----------------------------------------------------------------------------
(* A strategy signals once.                                                *)

Signalled(x) == \E i \in DOMAIN fired : fired[i].symbol = x
OncePerSymbol == \A i, j \in DOMAIN fired : i < j => fired[i].symbol # fired[j].symbol

Opening(own) == {b \in own : InRange(b)}
Breaks(b, levels) ==
    b.ts < LastEntry /\ b.close > levels.high /\ 2 * OrMinutes * b.vol >= 3 * levels.vol

\* What a bar does to the state of ORB.
OrbMove(s, bar, r) ==
    /\ s.entered => r.st.entered
    /\ s.skipped => r.st.skipped
    /\ r.signal # None =>
          /\ ~s.entered /\ ~s.skipped /\ r.st.entered /\ ~InRange(bar)
          /\ Complete(s.range) /\ Breaks(bar, Levels(s.range))
    /\ InRange(bar) => r.st.range = {b \in s.range : b.ts # bar.ts} \union {bar}
                       /\ r.st.levels = s.levels
    /\ ~InRange(bar) =>
          /\ r.st.range = s.range
          /\ \/ r.st.skipped
             \/ Complete(s.range) /\ (Breaks(bar, Levels(s.range)) => r.st.entered)

LEMMA OrbMoves ==
    ASSUME NEW x, NEW D, D \subseteq Nat, NEW bars \in SUBSET Tape({x}, D), Single(bars, x),
           NEW s \in OrbStates(bars), NEW bar \in bars
    PROVE  OrbMove(s, bar, OrbStep(s, bar))
  <1>. DEFINE full == [high : Nat, low : Nat, vol : Nat]
              r == OrbStep(s, bar)
  <1>1. /\ s \in [range : SUBSET bars, levels : {None} \union full,
                  entered : BOOLEAN, skipped : BOOLEAN]
        /\ Sound(s)
    BY DEF OrbStates, States, StrategyState
  <1>2. CASE InRange(bar)
    <2>. DEFINE range == {b \in s.range : b.ts # bar.ts} \union {bar}
    <2>1. OrbStep(s, bar) = Quiet([s EXCEPT !.range = range])
      BY <1>2, Zenon DEF OrbStep, Collected
    <2>. HIDE DEF range
    <2>2. /\ r.st.range = range /\ r.st.levels = s.levels /\ r.signal = None
          /\ r.st.entered = s.entered /\ r.st.skipped = s.skipped
      BY <1>1, <2>1 DEF Quiet
    <2>. HIDE DEF r
    <2>3. OrbMove(s, bar, r)
      BY <1>2, <2>2 DEF OrbMove, range
    <2>. QED  BY <2>3 DEF r
  <1>3. CASE ~InRange(bar)
    <2>. DEFINE f == Finalized(s)
    <2>0. DOMAIN s = {"range", "levels", "entered", "skipped"}
      BY <1>1
    <2>1. /\ DOMAIN f = DOMAIN s
          /\ f.range = s.range /\ f.entered = s.entered /\ (s.skipped => f.skipped)
          /\ f.entered \in BOOLEAN /\ f.skipped \in BOOLEAN
          /\ f.skipped \/ (Complete(s.range) /\ f.levels = Levels(s.range))
      <3>1. CASE s.levels # None \/ s.skipped
        <4>1. f = s
          BY <3>1 DEF Finalized
        <4>. HIDE DEF f
        <4>. QED  BY <1>1, <3>1, <4>1 DEF Sound
      <3>2. CASE ~(s.levels # None \/ s.skipped) /\ Cardinality(s.range) < OrMinutes
        <4>1. f = [s EXCEPT !.skipped = TRUE]
          BY <3>2 DEF Finalized
        <4>. HIDE DEF f
        <4>. QED  BY <1>1, <4>1
      <3>3. CASE ~(s.levels # None \/ s.skipped) /\ ~(Cardinality(s.range) < OrMinutes)
        <4>. DEFINE levels == Levels(s.range)
        <4>1. f = [s EXCEPT !.levels = levels]
          BY <3>3 DEF Finalized
        <4>2. Complete(s.range)
          <5>1. \A b \in bars : b.ts \in Nat
            BY DEF Tape
          <5>2. s.range \in SUBSET bars /\ IsFiniteSet(s.range) /\ \A b \in s.range : InRange(b)
            BY <1>1 DEF Sound
          <5>. QED  BY <3>3, <5>1, <5>2, FullRange
        <4>. HIDE DEF f, levels
        <4>3. /\ DOMAIN f = DOMAIN s
              /\ f.range = s.range /\ f.entered = s.entered /\ f.skipped = s.skipped /\ f.levels = levels
          BY <1>1, <4>1
        <4>. QED  BY <1>1, <4>2, <4>3 DEF levels
      <3>. QED  BY <3>1, <3>2, <3>3
    <2>2. Breakout(f, bar) = (~f.skipped /\ ~f.entered /\ Breaks(bar, f.levels))
      BY Zenon DEF Breakout, Breaks
    <2>3. CASE ~Breakout(f, bar)
      <3>1. r = Quiet(f)
        BY <1>3, <2>3 DEF OrbStep
      <3>. HIDE DEF f, r
      <3>2. r.st = f /\ r.signal = None
        BY <3>1 DEF Quiet
      <3>3. OrbMove(s, bar, r)
        BY <1>3, <2>1, <2>2, <2>3, <3>2 DEF OrbMove
      <3>. QED  BY <3>3 DEF r
    <2>4. CASE Breakout(f, bar)
      <3>. DEFINE signal == Signal("orb_5m", bar, "long", 1, f.levels.low, 2 * bar.close - f.levels.low)
      <3>1. r = [st |-> [f EXCEPT !.entered = TRUE], signal |-> signal]
        BY <1>3, <2>4, Zenon DEF OrbStep
      <3>. HIDE DEF f, r, signal
      <3>3. r.st.range = f.range /\ r.st.entered /\ r.st.skipped = f.skipped
        BY <2>0, <2>1, <3>1
      <3>4. OrbMove(s, bar, r)
        BY <1>3, <2>1, <2>2, <2>4, <3>3 DEF OrbMove
      <3>. QED  BY <3>4 DEF r
    <2>. QED  BY <2>3, <2>4
  <1>. QED  BY <1>2, <1>3

\* ORB after a replay: it has given up, or it has the range, and has entered on any bar that
\* broke out of it.
Told(own, s) ==
    \/ s.skipped
    \/ /\ s.range = Opening(own)
       /\ \A b \in own : ~InRange(b) =>
            /\ \A c \in own : c.ts >= OrStart
            /\ Complete(Opening(own))
            /\ Breaks(b, Levels(Opening(own))) => s.entered

LEMMA ToldGrows ==
    ASSUME NEW bars, NEW D, Reel(bars, D), NEW x, NEW S, NEW b, NEW more, IsNext(bars, x, S, b, more),
           NEW s, NEW r, OrbMove(s, b, r), Told(S, s)
    PROVE  Told(more, r.st)
  <1>1. /\ more = S \union {b} /\ more \subseteq Own(bars, x) /\ b \in more
        /\ \A c \in S : c \in more /\ c.ts <= b.ts
    BY DEF IsNext
  <1>2. \A c \in more : c \in bars /\ c.symbol = x /\ c.ts \in Nat
    <2>1. \A c \in bars : c.ts \in Nat
      BY DEF Reel, Tape
    <2>. QED  BY <1>1, <2>1 DEF Own
  <1>3. \A c \in S : c.ts # b.ts
    BY <1>1, <1>2 DEF IsNext, Reel, Keyed
  <1>4. OrStart \in Nat /\ OrEnd \in Nat /\ OrStart < OrEnd
    BY StrategiesAssumption
  <1>5. CASE s.skipped
    BY <1>5 DEF OrbMove, Told
  <1>6. CASE ~s.skipped /\ InRange(b)
    <2>1. ASSUME NEW c \in S PROVE InRange(c)
      <3>1. InRange(c) \/ c.ts >= OrStart
        BY <1>6 DEF Told
      <3>. QED  BY <1>1, <1>2, <1>4, <1>6, <3>1 DEF InRange
    <2>2. Opening(S) = S /\ Opening(more) = more
      BY <1>1, <1>6, <2>1 DEF Opening
    <2>3. s.range = S
      BY <1>6, <2>1, <2>2 DEF Told
    <2>4. {c \in s.range : c.ts # b.ts} = S
      BY <1>3, <2>3
    <2>5. r.st.range = more
      BY <1>1, <1>6, <2>4 DEF OrbMove
    <2>. QED  BY <1>1, <1>6, <2>1, <2>2, <2>5 DEF Told
  <1>7. CASE ~s.skipped /\ ~InRange(b) /\ ~r.st.skipped
    <2>1. Opening(more) = Opening(S)
      BY <1>1, <1>7 DEF Opening
    <2>2. s.range = Opening(S) /\ r.st.range = Opening(more)
      BY <1>7, <2>1 DEF Told, OrbMove
    <2>3. Complete(Opening(more)) /\ (Breaks(b, Levels(Opening(more))) => r.st.entered)
      BY <1>7, <2>1, <2>2 DEF OrbMove
    <2>4. PICK o \in S : InRange(o)
      <3>1. OrStart \in OrStart..(OrEnd - 1)
        BY <1>4
      <3>. QED  BY <2>1, <2>3, <3>1 DEF Complete, Opening
    <2>5. b.ts >= OrStart
      BY <1>1, <1>2, <1>4, <2>4 DEF InRange
    <2>6. \A c \in S : c.ts >= OrStart
      <3>. SUFFICES ASSUME NEW c \in S PROVE c.ts >= OrStart
        OBVIOUS
      <3>1. CASE InRange(c)
        BY <1>1, <1>2, <1>4, <3>1 DEF InRange
      <3>2. CASE ~InRange(c)
        BY <1>7, <3>2 DEF Told
      <3>. QED  BY <3>1, <3>2
    <2>7. ASSUME NEW c \in S, ~InRange(c), Breaks(c, Levels(Opening(more))) PROVE r.st.entered
      BY <1>7, <2>1, <2>7 DEF Told, OrbMove
    <2>. QED  BY <1>1, <2>2, <2>3, <2>5, <2>6, <2>7 DEF Told
  <1>. QED  BY <1>5, <1>6, <1>7 DEF Told

\* What bars alone tell ORB.
LEMMA ReplayTells ==
    ASSUME NEW bars, NEW D, Reel(bars, D), NEW x, NEW own, own \subseteq Own(bars, x), IsFiniteSet(own)
    PROVE  Told(own, Alone("orb_5m", x, own).st[x])
  <1>. DEFINE T == {S \in SUBSET own : Told(S, Alone("orb_5m", x, S).st[x])}
  <1>1. Timed(own)
    <2>1. own \in SUBSET bars
      BY DEF Own
    <2>. QED  BY <2>1, ReelIsTimed
  <1>2. {} \in T
    <2>1. Alone("orb_5m", x, {}) = Morning("orb_5m", {x})
      BY NothingInOrder, ReplayOfNothing DEF Alone, Strategy
    <2>2. Alone("orb_5m", x, {}).st[x] = OrbFresh
      BY <2>1 DEF Morning, Fresh
    <2>3. Told({}, OrbFresh)
      BY DEF Told, OrbFresh, Opening
    <2>. QED  BY <2>2, <2>3
  <1>3. ASSUME NEW more \in SUBSET own, more # {}, more \ {Latests(own)[more]} \in T
        PROVE  more \in T
    <2>1. PICK b, S : b = Latest(more) /\ S = more \ {b}
      OBVIOUS
    <2>2. S \in T
      BY <1>3, <2>1 DEF Latests
    <2>3. b \in more /\ \A c \in more : c.ts <= b.ts
      BY <1>1, <1>3, <2>1, TimedParts, LatestIsOne
    <2>4. IsNext(bars, x, S, b, more)
      <3>1. IsFiniteSet(S)
        BY <2>1, FS_Subset
      <3>. QED  BY <2>1, <2>3, <3>1 DEF IsNext
    <2>5. "orb_5m" \in Strategy
      BY DEF Strategy
    <2>6. /\ Alone("orb_5m", x, S) \in Days("orb_5m", {x}, bars, D)
          /\ Alone("orb_5m", x, more) = Fed("orb_5m", Alone("orb_5m", x, S), b)
      BY <2>4, <2>5, AloneStep
    <2>7. PICK was, day, r : /\ was = Alone("orb_5m", x, S) /\ day = Fed("orb_5m", was, b)
                             /\ r = OnBar("orb_5m", was.st[x], b)
      OBVIOUS
    <2>8. b \in bars /\ b.symbol = x /\ b \in Own(bars, x)
      BY <2>4 DEF IsNext, Own
    <2>9. Moves({x}, D, was, x, r, day)
      BY <2>5, <2>6, <2>7, <2>8, FedIs
    <2>10. day.st[x] = r.st
      BY <2>6, <2>7, <2>9 DEF Moves, Days
    <2>11. OrbMove(was.st[x], b, r)
      <3>1. D \subseteq Nat /\ Single(Own(bars, x), x) /\ Own(bars, x) \in SUBSET Tape({x}, D)
        BY OwnIsSingle DEF Reel
      <3>2. was.st[x] \in OrbStates(Own(bars, x))
        BY <2>6, <2>7 DEF Days, OrbStates
      <3>3. r = OrbStep(was.st[x], b)
        BY <2>7 DEF OnBar
      <3>. QED  BY <2>8, <3>1, <3>2, <3>3, OrbMoves
    <2>12. Told(more, day.st[x])
      BY <2>2, <2>4, <2>7, <2>10, <2>11, ToldGrows
    <2>. QED  BY <2>6, <2>7, <2>12
  <1>4. Picks(Latests(own), own)
    BY <1>1, LatestsPick
  <1>5. own \in T
    <2>. HIDE DEF T
    <2>. QED  BY <1>2, <1>3, <1>4, SubsetInduction
  <1>. QED  BY <1>5

LEMMA VwapMoves ==
    ASSUME NEW bars, NEW s \in VwapStates(bars), NEW bar
    PROVE  /\ s.entered => VwapStep(s, bar).st.entered /\ VwapStep(s, bar).signal = None
           /\ VwapStep(s, bar).signal # None => VwapStep(s, bar).st.entered
  <1>. DEFINE f == Accumulated(s, bar)
              r == VwapStep(s, bar)
              side == IF Below(f, bar) THEN "long" ELSE "short"
              enters == /\ MayEnter(f, bar)
                        /\ Below(f, bar) \/ Above(f, bar)
                        /\ side = "long" => Mirrored(f, bar) > 0
  <1>1. s \in [pv : Nat, v : Nat, entered : BOOLEAN]
    BY DEF VwapStates, States, StrategyState
  <1>2. DOMAIN f = {"pv", "v", "entered"} /\ f.entered = s.entered
    <2>. DEFINE pv == s.pv + (bar.high + bar.low + bar.close) * bar.vol
                v == s.v + bar.vol
    <2>1. f = [s EXCEPT !.pv = pv, !.v = v]
      BY Zenon DEF Accumulated
    <2>. HIDE DEF f, pv, v
    <2>2. f = [pv |-> pv, v |-> v, entered |-> s.entered]
      BY <1>1, <2>1
    <2>. QED  BY <2>2
  <1>3. CASE ~enters
    <2>1. r = Quiet(f)
      BY <1>3, Zenon DEF VwapStep
    <2>. HIDE DEF f, r, enters
    <2>2. r.st.entered = s.entered /\ r.signal = None
      BY <1>2, <2>1 DEF Quiet
    <2>. QED  BY <2>2 DEF r
  <1>4. CASE enters
    <2>. DEFINE signal == Signal("vwap_reversion", bar, side, 3 * f.v, Mirrored(f, bar), f.pv)
    <2>1. r = [st |-> [f EXCEPT !.entered = TRUE], signal |-> signal]
      BY <1>4, Zenon DEF VwapStep
    <2>2. ~s.entered
      BY <1>2, <1>4 DEF MayEnter
    <2>. HIDE DEF f, r, signal
    <2>3. r.st.entered
      BY <1>2, <2>1
    <2>. QED  BY <2>2, <2>3 DEF r
  <1>. QED  BY <1>3, <1>4

\* Entered is entered.
LEMMA OnBarEnters ==
    ASSUME NEW n \in Strategy, NEW x, NEW bars, NEW D, Reel(bars, D), NEW s \in States(n, Own(bars, x)),
           NEW bar \in Own(bars, x), NEW r, r = OnBar(n, s, bar)
    PROVE  /\ s.entered => r.st.entered /\ r.signal = None
           /\ r.signal # None => r.st.entered
           /\ n = "orb_5m" => OrbMove(s, bar, r)
  <1>1. CASE n = "orb_5m"
    <2>1. D \subseteq Nat /\ Single(Own(bars, x), x) /\ Own(bars, x) \in SUBSET Tape({x}, D)
      BY OwnIsSingle DEF Reel
    <2>2. OrbMove(s, bar, r)
      BY <1>1, <2>1, OrbMoves DEF OrbStates, OnBar
    <2>. QED  BY <2>2 DEF OrbMove
  <1>2. CASE n # "orb_5m"
    <2>1. s \in VwapStates(Own(bars, x)) /\ r = VwapStep(s, bar)
      BY <1>2 DEF VwapStates, OnBar, Strategy
    <2>. QED  BY <1>2, <2>1, VwapMoves
  <1>. QED  BY <1>1, <1>2

\* What the handler of a bar does.
Consulted(y, r) ==
    /\ y \in Watchlist /\ y = hand.symbol /\ hand \in Watched /\ up
    /\ r = OnBar(name, st[y], hand)
    /\ st' = [st EXCEPT ![y] = r.st]
    /\ r.signal = None => fired' = fired
    /\ r.signal # None => fired' = Append(fired, r.signal) /\ r.signal.symbol = y
    /\ hand' = NoBar
    /\ UNCHANGED <<name, market, wire, up, rows, drift, faults, crashes>>

LEMMA ConsultIs ==
    ASSUME Typed, Consult
    PROVE  \E y, r : Consulted(y, r)
  <1>1. PICK was, day : was = [st |-> st, signals |-> fired] /\ day = Fed(name, was, hand)
    OBVIOUS
  <1>2. /\ st' = day.st /\ fired' = day.signals /\ was.st = st /\ was.signals = fired
        /\ hand' = NoBar /\ up /\ hand # NoBar
        /\ UNCHANGED <<name, market, wire, up, rows, drift, faults, crashes>>
    BY <1>1 DEF Consult, history
  <1>3. hand \in Watched
    BY <1>2 DEF Typed, TypeOK
  <1>4. was \in Days(name, Watchlist, ToSet(market), {Today}) /\ hand \in ToSet(market)
    BY <1>1, <1>3, RunnerIsDay, Known
  <1>5. PICK y, r : y = hand.symbol /\ r = OnBar(name, was.st[y], hand)
    OBVIOUS
  <1>6. Moves(Watchlist, {Today}, was, y, r, day)
    <2>1. name \in Strategy /\ Reel(ToSet(market), {Today})
      BY Known
    <2>. QED  BY <1>1, <1>4, <1>5, <2>1, FedIs
  <1>7. y \in Watchlist
    BY <1>3, <1>5, Known
  <1>8. r.signal # None => r.signal.symbol = y
    BY <1>6, <1>7 DEF Moves, Signals
  <1>9. Consulted(y, r)
    BY <1>2, <1>3, <1>5, <1>6, <1>7, <1>8 DEF Consulted, Moves
  <1>. QED  BY <1>9

\* The strategy's step, as one on what it has seen.
LEMMA ConsultMoves ==
    ASSUME Typed, NEW y, NEW r, Consulted(y, r)
    PROVE  /\ st[y].entered => r.st.entered /\ r.signal = None
           /\ r.signal # None => r.st.entered
           /\ name = "orb_5m" => OrbMove(st[y], hand, r)
           /\ st'[y] = r.st /\ \A x \in Watchlist : x # y => st'[x] = st[x]
  <1>1. name \in Strategy /\ Reel(ToSet(market), {Today})
    BY Known
  <1>2. st[y] \in States(name, Own(ToSet(market), y))
    BY DEF Typed, StatesSeen, Consulted
  <1>3. hand \in Own(ToSet(market), y)
    BY Known DEF Consulted, Own
  <1>4. r = OnBar(name, st[y], hand)
    BY DEF Consulted
  <1>5. st' = [st EXCEPT ![y] = r.st] /\ y \in Watchlist /\ DOMAIN st = Watchlist
    BY DEF Consulted, Typed, TypeOK
  <1>. QED  BY <1>1, <1>2, <1>3, <1>4, <1>5, OnBarEnters

LEMMA SignalsAfter ==
    ASSUME Typed, NEW y, NEW r, Consulted(y, r)
    PROVE  /\ \A x : Signalled(x)' => Signalled(x) \/ (x = y /\ r.signal # None)
           /\ OncePerSymbol /\ (Signalled(y) => r.signal = None) => OncePerSymbol'
  <1>1. CASE r.signal = None
    <2>1. fired' = fired
      BY <1>1 DEF Consulted
    <2>. QED  BY <2>1 DEF Signalled, OncePerSymbol
  <1>2. CASE r.signal # None
    <2>1. fired' = Append(fired, r.signal) /\ r.signal.symbol = y /\ fired \in Seq(Signals(Watchlist, {Today}))
      BY <1>2 DEF Consulted, Typed, TypeOK
    <2>2. PICK signal, more : signal = r.signal /\ more = fired'
      OBVIOUS
    <2>3. /\ Len(fired) \in Nat /\ DOMAIN fired = 1..Len(fired) /\ DOMAIN more = 1..(Len(fired) + 1)
          /\ more[Len(fired) + 1] = signal /\ \A i \in 1..Len(fired) : more[i] = fired[i]
      BY <2>1, <2>2
    <2>4. \A i \in DOMAIN more : i \in DOMAIN fired \/ i = Len(fired) + 1
      BY <2>3
    <2>5. ASSUME NEW x, Signalled(x)' PROVE Signalled(x) \/ x = y
      <3>1. PICK i \in DOMAIN more : more[i].symbol = x
        BY <2>2, <2>5 DEF Signalled
      <3>. QED  BY <2>1, <2>2, <2>3, <2>4, <3>1 DEF Signalled
    <2>6. ASSUME OncePerSymbol, ~Signalled(y), NEW i \in DOMAIN more, NEW j \in DOMAIN more, i < j
          PROVE  more[i].symbol # more[j].symbol
      <3>1. CASE j = Len(fired) + 1
        <4>1. i \in DOMAIN fired
          BY <2>3, <2>4, <2>6, <3>1
        <4>2. fired[i].symbol # y
          BY <2>6, <4>1 DEF Signalled
        <4>. QED  BY <2>1, <2>2, <2>3, <3>1, <4>1, <4>2
      <3>2. CASE j # Len(fired) + 1
        <4>1. i \in DOMAIN fired /\ j \in DOMAIN fired
          BY <2>3, <2>4, <2>6, <3>2
        <4>2. fired[i].symbol # fired[j].symbol
          BY <2>6, <4>1 DEF OncePerSymbol
        <4>. QED  BY <2>3, <4>1, <4>2
      <3>. QED  BY <3>1, <3>2
    <2>. QED  BY <1>2, <2>2, <2>5, <2>6 DEF OncePerSymbol
  <1>. QED  BY <1>1, <1>2

\* Before the first crash a signal leaves its mark in memory.
FirstLife == crashes = 0 => up /\ \A x \in Watchlist : Signalled(x) => st[x].entered

\* Without a drift VWAP reversion has entered, after any restart, wherever it has signalled.
VwapSpent ==
    name = "vwap_reversion" /\ faults \intersect Drifts = {} =>
        /\ drift = {}
        /\ \A b \in rows, c \in ToSet(wire) : b.symbol = c.symbol => b.ts < c.ts
        /\ \A x \in Watchlist : Signalled(x) => Alone(name, x, Own(rows, x) \ {hand}).st[x].entered

\* Bars among which one broke out of a complete opening range.
BrokenOut(own) ==
    /\ Complete(Opening(own))
    /\ \E b \in own : ~InRange(b) /\ Breaks(b, Levels(Opening(own)))

\* Bars that the strategy has yet to see.
Ahead == ToSet(wire) \union ({hand} \ {NoBar})

Exhausted(s) ==
    s.entered \/ s.skipped \/ ("unread" \in faults /\ s.range = {} /\ s.levels = None)

\* ORB: what it has seen is stored, a breakout among it; unless bars come again, none of the
\* range is ahead of it.
Kneaded ==
    /\ hand \in rows \union {NoBar}
    /\ \A x \in Watchlist :
        /\ st[x].range \subseteq rows
        /\ Signalled(x) => BrokenOut(Own(rows, x))
        /\ ~up => st[x] = OrbFresh

RangeIsOver ==
    "repeated" \notin faults =>
        /\ hand \notin ToSet(wire)
        /\ \A x \in Watchlist :
            /\ st[x].range \intersect Ahead = {}
            /\ Signalled(x) => \A b \in Ahead : b.symbol = x => ~InRange(b)

RangeIsSpent ==
    ~({"unread", "repeated"} \subseteq faults) =>
        \A x \in Watchlist : Signalled(x) /\ up => Exhausted(st[x])

OrbSpent == name = "orb_5m" /\ "unstored" \notin faults => Kneaded /\ RangeIsOver /\ RangeIsSpent

Endangered == crashes > 0 /\ \E peril \in Perils : peril \subseteq faults

Spent == FirstLife /\ VwapSpent /\ OrbSpent

\* Nothing goes right again.
LEMMA FaultsGrow ==
    ASSUME Typed, [Next]_vars
    PROVE  /\ faults \subseteq faults' /\ crashes \in Nat /\ crashes' \in Nat /\ crashes <= crashes'
           /\ name' = name /\ Perils' = Perils
  <1>1. crashes \in Nat /\ crashes + 1 \in Nat /\ crashes <= crashes + 1
    BY SessionAssumption DEF Typed, TypeOK
  <1>2. faults \subseteq faults' /\ crashes' \in {crashes, crashes + 1} /\ name' = name
    BY DEF Next, BarCloses, Lost, ShadowStores, Arrives, ArrivesEarly, ArrivesAgain, Consult, Crash,
           Restart, ReplayScript, BacktestScript, CompareScript, Evening, Fault, Fine, history, vars
  <1>. QED  BY <1>1, <1>2 DEF Perils

\* Only the handler makes signals, and of the rest only a crash or a restart moves memory.
LEMMA OthersKeep ==
    ASSUME [Next]_vars, ~Consult
    PROVE  fired' = fired /\ (Crash \/ Restart \/ UNCHANGED <<up, st>>)
  <1>1. ASSUME NEW x \in Traded, NEW t \in Minutes, NEW shape \in Shapes, BarCloses(x, t, shape)
        PROVE  UNCHANGED <<fired, up, st>>
    BY <1>1 DEF BarCloses, runner
  <1>2. CASE Lost \/ ShadowStores
    BY <1>2 DEF Lost, ShadowStores, runner
  <1>3. CASE Arrives \/ ArrivesEarly \/ ArrivesAgain
    BY <1>3 DEF Arrives, ArrivesEarly, ArrivesAgain
  <1>4. CASE Crash \/ Restart
    BY <1>4 DEF Crash, Restart
  <1>5. CASE ReplayScript \/ BacktestScript \/ CompareScript
    BY <1>5 DEF ReplayScript, BacktestScript, CompareScript, Evening, runner
  <1>6. CASE UNCHANGED vars
    BY <1>6 DEF vars, runner
  <1>. QED  BY <1>1, <1>2, <1>3, <1>4, <1>5, <1>6 DEF Next

LEMMA EndangeredStays == Typed /\ [Next]_vars /\ Endangered => Endangered'
  BY FaultsGrow DEF Endangered

\* Which is why a symbol that was signalled is not signalled again.
LEMMA SpentIsQuiet ==
    ASSUME Typed, Memory, Spent, ~Endangered, NEW y, NEW r, Consulted(y, r), Signalled(y)
    PROVE  r.signal = None
  <1>1. crashes \in Nat /\ name \in Strategy /\ y \in Watchlist /\ up
    BY Known, SessionAssumption DEF Typed, TypeOK, Consulted
  <1>2. CASE crashes = 0
    BY <1>1, <1>2, ConsultMoves DEF Spent, FirstLife
  <1>3. CASE crashes # 0 /\ name = "vwap_reversion"
    <2>1. faults \intersect Drifts = {}
      <3>. SUFFICES ASSUME NEW d \in Drifts, d \in faults PROVE FALSE
        OBVIOUS
      <3>1. {d} \in Perils /\ {d} \subseteq faults
        BY <1>3 DEF Perils
      <3>. QED  BY <1>1, <1>3, <3>1 DEF Endangered
    <2>2. drift = {} /\ Alone(name, y, Own(rows, y) \ {hand}).st[y].entered
      BY <1>1, <1>3, <2>1 DEF Spent, VwapSpent
    <2>3. st[y] = Alone(name, y, Own(rows, y) \ {hand}).st[y]
      BY <1>1, <2>2 DEF Memory, MemoryIsTable
    <2>. QED  BY <2>2, <2>3, ConsultMoves
  <1>4. CASE crashes # 0 /\ name = "orb_5m"
    <2>1. "unstored" \notin faults /\ ~({"unread", "repeated"} \subseteq faults)
      BY <1>1, <1>4 DEF Endangered, Perils
    <2>2. Exhausted(st[y])
      BY <1>1, <1>4, <2>1 DEF Spent, OrbSpent, RangeIsSpent
    <2>3. OrbMove(st[y], hand, r)
      BY <1>4, ConsultMoves
    <2>4. ~Complete({})
      <3>1. OrStart \in OrStart..(OrEnd - 1)
        BY StrategiesAssumption
      <3>. QED  BY <3>1 DEF Complete
    <2>. QED  BY <2>2, <2>3, <2>4 DEF OrbMove, Exhausted
  <1>. QED  BY <1>1, <1>2, <1>3, <1>4 DEF Strategy

LEMMA StepOnce ==
    ASSUME Typed, Memory, Spent, OncePerSymbol \/ Endangered, [Next]_vars
    PROVE  (OncePerSymbol \/ Endangered)'
  <1>1. CASE Endangered
    BY <1>1, EndangeredStays
  <1>2. CASE ~Endangered /\ Consult
    <2>1. PICK y, r : Consulted(y, r)
      BY <1>2, ConsultIs
    <2>2. Signalled(y) => r.signal = None
      BY <1>2, <2>1, SpentIsQuiet
    <2>. QED  BY <1>2, <2>1, <2>2, SignalsAfter
  <1>3. CASE ~Endangered /\ ~Consult
    <2>1. fired' = fired
      BY <1>3, OthersKeep
    <2>. QED  BY <1>3, <2>1 DEF OncePerSymbol
  <1>. QED  BY <1>1, <1>2, <1>3

LEMMA StepFirstLife == Typed /\ FirstLife /\ [Next]_vars => FirstLife'
  <1>. SUFFICES ASSUME Typed, FirstLife, [Next]_vars, crashes' = 0
                PROVE  up' /\ \A x \in Watchlist : Signalled(x)' => st'[x].entered
    BY DEF FirstLife
  <1>1. crashes = 0 /\ up /\ \A x \in Watchlist : Signalled(x) => st[x].entered
    BY FaultsGrow DEF FirstLife
  <1>2. CASE Consult
    <2>1. PICK y, r : Consulted(y, r)
      BY <1>2, ConsultIs
    <2>2. \A x \in Watchlist : Signalled(x)' => st'[x].entered
      BY <1>1, <2>1, SignalsAfter, ConsultMoves
    <2>. QED  BY <1>1, <2>1, <2>2 DEF Consulted
  <1>3. CASE ~Consult
    <2>1. ~Crash /\ ~Restart
      BY <1>1, FaultsGrow DEF Crash, Restart
    <2>2. UNCHANGED <<up, st, fired>>
      BY <1>3, <2>1, OthersKeep
    <2>. QED  BY <1>1, <2>2 DEF Signalled
  <1>. QED  BY <1>2, <1>3

\* The range of a symbol, once it is complete, holds all its bars of those minutes.
LEMMA RangeIsOpening ==
    ASSUME NEW bars, NEW D, Reel(bars, D), NEW x, NEW range \in SUBSET Own(bars, x),
           Complete(range), \A b \in range : InRange(b)
    PROVE  Opening(Own(bars, x)) = range
  <1>1. ASSUME NEW b \in Own(bars, x), InRange(b) PROVE b \in range
    <2>1. b.ts \in Nat /\ b \in bars /\ OrStart \in Nat /\ OrEnd \in Nat
      BY StrategiesAssumption DEF Own, Reel, Tape
    <2>2. b.ts \in OrStart..(OrEnd - 1)
      BY <1>1, <2>1 DEF InRange
    <2>3. PICK c \in range : c.ts = b.ts
      BY <2>2 DEF Complete
    <2>4. c = b
      BY <2>1, <2>3 DEF Reel, Keyed, Own
    <2>. QED  BY <2>3, <2>4
  <1>. QED  BY <1>1 DEF Opening, Own

LEMMA BrokenStays ==
    ASSUME NEW bars, NEW D, Reel(bars, D), NEW x, NEW some \in SUBSET bars, BrokenOut(Own(some, x))
    PROVE  BrokenOut(Own(bars, x))
  <1>1. PICK range : range = Opening(Own(some, x))
    OBVIOUS
  <1>2. range \in SUBSET Own(bars, x) /\ (\A b \in range : InRange(b)) /\ Complete(range)
    BY <1>1 DEF Opening, Own, BrokenOut
  <1>3. Opening(Own(bars, x)) = range
    BY <1>2, RangeIsOpening
  <1>4. Own(some, x) \subseteq Own(bars, x)
    BY DEF Own
  <1>. QED  BY <1>1, <1>3, <1>4 DEF BrokenOut

\* What is known of the table after a step.
LEMMA KnownAfter ==
    ASSUME Typed'
    PROVE  Reel(rows', {Today}) /\ \A b \in rows' : b.ts \in Nat /\ b.symbol \in Watchlist
  <1>1. rows' \subseteq Watched' /\ Keyed(ToSet(market)') /\ market' \in Seq(Bars)
    BY DEF Typed, TypeOK
  <1>2. ToSet(market)' \subseteq Bars
    <2>1. PICK m : m = market'
      OBVIOUS
    <2>2. m \in Seq(Bars)
      BY <1>1, <2>1
    <2>3. ToSet(m) \subseteq Bars
      BY <2>2 DEF ToSet
    <2>. QED  BY <2>1, <2>3 DEF ToSet
  <1>3. rows' \subseteq ToSet(market)' /\ \A b \in rows' : b.symbol \in Watchlist
    BY <1>1 DEF Watched
  <1>4. Keyed(rows')
    BY <1>1, <1>3 DEF Keyed
  <1>5. \A b \in Bars : b \in Tape(Symbols, {Today}) /\ b.ts \in Nat
    BY DEF Bars, Tape, Symbols
  <1>. QED  BY <1>2, <1>3, <1>4, <1>5, SessionAssumption DEF Reel

\* A step that leaves the strategy alone.
LEMMA AsideOrb ==
    ASSUME Typed', OrbSpent, faults \subseteq faults', rows \subseteq rows',
           UNCHANGED <<name, up, st, fired>>,
           hand' \in rows' \union {NoBar} \/ "unstored" \in faults',
           RangeIsOver => RangeIsOver'
    PROVE  OrbSpent'
  <1>. SUFFICES ASSUME name = "orb_5m", "unstored" \notin faults'
                PROVE  Kneaded' /\ RangeIsOver' /\ RangeIsSpent'
    BY DEF OrbSpent
  <1>1. Kneaded /\ RangeIsOver /\ RangeIsSpent
    BY DEF OrbSpent
  <1>2. \A x : Signalled(x)' <=> Signalled(x)
    BY DEF Signalled
  <1>3. Kneaded'
    <2>1. ASSUME NEW x \in Watchlist, Signalled(x) PROVE BrokenOut(Own(rows, x))'
      <3>1. BrokenOut(Own(rows, x))
        BY <1>1, <2>1 DEF Kneaded
      <3>2. PICK some, more : some = rows /\ more = rows'
        OBVIOUS
      <3>3. BrokenOut(Own(more, x))
        BY <3>1, <3>2, KnownAfter, BrokenStays
      <3>. QED  BY <3>2, <3>3
    <2>. QED  BY <1>1, <1>2, <2>1 DEF Kneaded
  <1>4. RangeIsSpent'
    BY <1>1, <1>2 DEF RangeIsSpent, Exhausted
  <1>. QED  BY <1>1, <1>3, <1>4

\* What was ahead of the strategy still is, and no more.
LEMMA AheadShrinks ==
    ASSUME RangeIsOver, Ahead' \subseteq Ahead, hand' \notin ToSet(wire)', faults \subseteq faults',
           UNCHANGED <<st, fired>>
    PROVE  RangeIsOver'
  BY DEF RangeIsOver, Signalled

LEMMA LostOrb == Typed /\ Memory /\ Typed' /\ OrbSpent /\ Lost => OrbSpent'
  <1>. SUFFICES ASSUME Typed, Memory, Typed', OrbSpent, Lost PROVE OrbSpent'
    OBVIOUS
  <1>1. /\ UNCHANGED <<name, up, st, fired, rows, hand>> /\ faults \subseteq faults'
        /\ wire # <<>> /\ wire' = Tail(wire)
    BY DEF Lost, Fault, runner
  <1>2. ToSet(wire)' \subseteq ToSet(wire)
    <2>1. wire \in Seq(Watched) /\ WireInOrder
      BY DEF Typed, TypeOK, Memory
    <2>2. 1 \in 1..Len(wire) /\ Tail(wire) \in Seq(Watched) /\ Without(Tail(wire), wire, 1)
      BY <1>1, <2>1, TailIsWithout
    <2>. QED  BY <1>1, <2>1, <2>2, WireGives DEF ToSet
  <1>3. "repeated" \notin faults /\ RangeIsOver => hand \notin ToSet(wire)
    BY DEF RangeIsOver
  <1>4. RangeIsOver => RangeIsOver'
    BY <1>1, <1>2, <1>3 DEF RangeIsOver, Ahead, Signalled
  <1>. QED  BY <1>1, <1>4, AsideOrb DEF OrbSpent, Kneaded

LEMMA StoredIn ==
    ASSUME Typed, NEW bar \in Watched, NEW d, Stored(bar, d)
    PROVE  bar \in rows' /\ rows \subseteq rows' /\ rows' \subseteq rows \union {bar}
  <1>1. ASSUME NEW b \in rows, b.symbol = bar.symbol, b.ts = bar.ts PROVE b = bar
    BY <1>1, Known DEF Typed, TypeOK, Keyed
  <1>. QED  BY <1>1 DEF Stored, Persisted

\* A bar is taken from the wire.
Taken(i) ==
    /\ i \in 1..Len(wire) /\ wire' \in Seq(Watched) /\ Without(wire', wire, i)
    /\ Receive(wire[i])
    /\ Stored(wire[i], {}) \/ Unstored
    /\ UNCHANGED <<name, market, up, st, fired>>

LEMMA ArrivalTakes ==
    ASSUME Typed
    PROVE  /\ Arrives => Taken(1) /\ ((Unstored /\ Fault("unstored")) \/ (Stored(wire[1], {}) /\ Fine))
           /\ ArrivesEarly => Taken(2) /\ Stored(wire[2], {}) /\ Fault("late")
  <1>0. wire \in Seq(Watched)
    BY DEF Typed, TypeOK
  <1>1. ASSUME Arrives
        PROVE  Taken(1) /\ ((Unstored /\ Fault("unstored")) \/ (Stored(wire[1], {}) /\ Fine))
    <2>1. 1 \in 1..Len(wire) /\ Head(wire) = wire[1] /\ wire' \in Seq(Watched) /\ Without(wire', wire, 1)
      BY <1>0, <1>1, TailIsWithout DEF Arrives
    <2>. QED  BY <1>1, <2>1 DEF Arrives, Taken
  <1>2. ASSUME ArrivesEarly PROVE Taken(2) /\ Stored(wire[2], {}) /\ Fault("late")
    <2>1. 2 \in 1..Len(wire) /\ wire' \in Seq(Watched) /\ Without(wire', wire, 2)
      BY <1>0, <1>2, RemoveIsWithout DEF ArrivesEarly
    <2>. QED  BY <1>2, <2>1 DEF ArrivesEarly, Taken
  <1>. QED  BY <1>1, <1>2

LEMMA TakenOrb ==
    ASSUME Typed, Memory, Typed', OrbSpent, NEW i, Taken(i), faults \subseteq faults',
           Stored(wire[i], {}) \/ "unstored" \in faults'
    PROVE  OrbSpent'
  <1>1. PICK bar, rest : bar = wire[i] /\ rest = wire'
    OBVIOUS
  <1>2. hand = NoBar /\ hand' = bar /\ up
    BY <1>1 DEF Taken, Receive
  <1>3. ToSet(rest) \subseteq ToSet(wire) /\ bar \in ToSet(wire) /\ bar \notin ToSet(rest)
    BY <1>1, WireGives DEF Taken, Memory
  <1>4. bar \in Watched
    <2>1. wire \in Seq(Watched) /\ i \in 1..Len(wire)
      BY DEF Typed, TypeOK, Taken
    <2>. QED  BY <1>1, <2>1
  <1>5. ToSet(wire)' = ToSet(rest)
    BY <1>1 DEF ToSet
  <1>6. RangeIsOver => RangeIsOver'
    <2>1. Ahead' \subseteq Ahead /\ hand' \notin ToSet(wire)'
      BY <1>2, <1>3, <1>5 DEF Ahead
    <2>. QED  BY <2>1, AheadShrinks DEF Taken
  <1>7. rows \subseteq rows'
    BY PersistedIn DEF Taken, Stored, Unstored
  <1>8. bar \in rows' \/ "unstored" \in faults'
    BY <1>1, <1>4, StoredIn
  <1>. QED  BY <1>2, <1>6, <1>7, <1>8, AsideOrb DEF Taken

LEMMA ArrivalOrb ==
    ASSUME Typed, Memory, Typed', OrbSpent, Arrives \/ ArrivesEarly \/ ArrivesAgain
    PROVE  OrbSpent'
  <1>1. CASE Arrives
    <2>1. Taken(1) /\ faults \subseteq faults' /\ (Stored(wire[1], {}) \/ "unstored" \in faults')
      BY <1>1, ArrivalTakes DEF Fault, Fine
    <2>. QED  BY <2>1, TakenOrb
  <1>2. CASE ArrivesEarly
    <2>1. Taken(2) /\ faults \subseteq faults' /\ Stored(wire[2], {})
      BY <1>2, ArrivalTakes DEF Fault
    <2>. QED  BY <2>1, TakenOrb
  <1>3. CASE ArrivesAgain
    <2>1. PICK bar \in Watched : Receive(bar) /\ Stored(bar, {"repeated"})
      BY <1>3 DEF ArrivesAgain
    <2>2. hand' = bar /\ rows \subseteq rows' /\ bar \in rows'
      BY <2>1, StoredIn DEF Receive
    <2>3. "repeated" \in faults' /\ faults \subseteq faults' /\ UNCHANGED <<name, up, st, fired>>
      BY <1>3 DEF ArrivesAgain, Fault
    <2>4. RangeIsOver'
      BY <2>3 DEF RangeIsOver
    <2>. QED  BY <2>2, <2>3, <2>4, AsideOrb
  <1>. QED  BY <1>1, <1>2, <1>3

\* A bar that closes is the last of its symbol.
Closed(bar) ==
    /\ ToSet(wire)' \subseteq ToSet(wire) \union {bar}
    /\ \A b \in ToSet(market) : b.symbol = bar.symbol => b.ts < bar.ts
    /\ UNCHANGED <<name, up, st, store, hand, rows, fired, drift, crashes>> /\ faults \subseteq faults'
    /\ bar.ts \in Nat /\ bar # NoBar

LEMMA BarClosed ==
    ASSUME Typed, NEW x \in Traded, NEW t \in Minutes, NEW shape \in Shapes, BarCloses(x, t, shape)
    PROVE  \E bar : Closed(bar)
  <1>1. PICK bar : bar = [symbol |-> x, day |-> Today, ts |-> t, high |-> shape.high,
                          low |-> shape.low, close |-> shape.close, vol |-> shape.vol]
    OBVIOUS
  <1>2. bar.ts = t /\ bar.symbol = x /\ t \in Nat
    BY <1>1, SessionAssumption
  <1>3. \A b \in ToSet(market) : b.symbol = bar.symbol => b.ts < bar.ts
    BY <1>2 DEF BarCloses
  <1>4. wire' = IF up /\ x \in Watchlist THEN Append(wire, bar) ELSE wire
    BY <1>1 DEF BarCloses
  <1>5. UNCHANGED <<name, up, st, store, hand, rows, fired, drift, crashes>> /\ faults \subseteq faults'
    BY DEF BarCloses, runner
  <1>6. ToSet(wire)' \subseteq ToSet(wire) \union {bar}
    <2>1. wire \in Seq(Watched \union {bar})
      BY DEF Typed, TypeOK
    <2>2. PICK more : more = Append(wire, bar)
      OBVIOUS
    <2>3. ToSet(more) = ToSet(wire) \union {bar}
      BY <2>1, <2>2, SeqElements
    <2>4. wire' = more \/ wire' = wire
      BY <1>4, <2>2
    <2>. QED  BY <2>3, <2>4 DEF ToSet
  <1>7. bar # NoBar
    BY <1>1 DEF NoBar, None
  <1>. QED  BY <1>2, <1>3, <1>5, <1>6, <1>7 DEF Closed

LEMMA BarClosesOrb ==
    ASSUME Typed, Memory, Typed', OrbSpent, NEW bar, Closed(bar)
    PROVE  OrbSpent'
  <1>1. UNCHANGED <<name, up, st, hand, rows, fired>> /\ faults \subseteq faults'
    BY DEF Closed
  <1>2. \A b \in ToSet(market) : b # bar /\ (b.symbol = bar.symbol => b.ts # bar.ts)
    <2>1. \A b \in ToSet(market) : b.ts \in Nat
      BY Known
    <2>. QED  BY <2>1 DEF Closed
  <1>3. rows \subseteq ToSet(market) /\ hand \in ToSet(market) \union {NoBar}
    BY Known DEF Typed, TypeOK
  <1>4. CASE name # "orb_5m" \/ "unstored" \in faults'
    BY <1>1, <1>4 DEF OrbSpent
  <1>5. CASE name = "orb_5m" /\ "unstored" \notin faults'
    <2>1. Kneaded
      BY <1>1, <1>5 DEF OrbSpent
    <2>2. Ahead' \subseteq Ahead \union {bar}
      BY <1>1 DEF Ahead, Closed
    <2>3. ASSUME NEW x \in Watchlist PROVE bar \notin st[x].range
      BY <1>2, <1>3, <2>1 DEF Kneaded
    <2>4. ASSUME NEW x \in Watchlist, Signalled(x), bar.symbol = x PROVE ~InRange(bar)
      <3>. SUFFICES ASSUME InRange(bar) PROVE FALSE
        OBVIOUS
      <3>1. Complete(Opening(Own(rows, x)))
        BY <2>1, <2>4 DEF Kneaded, BrokenOut
      <3>2. bar.ts \in OrStart..(OrEnd - 1)
        BY StrategiesAssumption DEF InRange, Closed
      <3>3. PICK c \in Opening(Own(rows, x)) : c.ts = bar.ts
        BY <3>1, <3>2 DEF Complete
      <3>4. c \in ToSet(market) /\ c.symbol = bar.symbol
        BY <1>3, <2>4, <3>3 DEF Opening, Own
      <3>. QED  BY <1>2, <3>3, <3>4
    <2>5. RangeIsOver => RangeIsOver'
      <3>. SUFFICES ASSUME RangeIsOver, "repeated" \notin faults'
                    PROVE  /\ hand' \notin ToSet(wire)'
                           /\ \A x \in Watchlist :
                                /\ st'[x].range \intersect Ahead' = {}
                                /\ Signalled(x)' => \A b \in Ahead' : b.symbol = x => ~InRange(b)
        BY DEF RangeIsOver
      <3>1. /\ hand \notin ToSet(wire)
            /\ \A x \in Watchlist :
                /\ st[x].range \intersect Ahead = {}
                /\ Signalled(x) => \A b \in Ahead : b.symbol = x => ~InRange(b)
        BY <1>1 DEF RangeIsOver
      <3>2. \A x : Signalled(x)' <=> Signalled(x)
        BY <1>1 DEF Signalled
      <3>3. hand' \notin ToSet(wire)'
        <4>1. bar # NoBar
          BY DEF Closed
        <4>. QED  BY <1>1, <1>2, <1>3, <3>1, <4>1 DEF Closed
      <3>. QED  BY <1>1, <2>2, <2>3, <2>4, <3>1, <3>2, <3>3
    <2>6. hand' \in rows' \union {NoBar}
      BY <1>1, <2>1 DEF Kneaded
    <2>. QED  BY <1>1, <2>5, <2>6, AsideOrb
  <1>. QED  BY <1>4, <1>5

LEMMA ConsultOrb ==
    ASSUME Typed, Memory, Typed', OrbSpent, NEW y, NEW r, Consulted(y, r)
    PROVE  OrbSpent'
  <1>. SUFFICES ASSUME name = "orb_5m", "unstored" \notin faults
                PROVE  Kneaded' /\ RangeIsOver' /\ RangeIsSpent'
    BY DEF OrbSpent, Consulted
  <1>1. Kneaded /\ RangeIsOver /\ RangeIsSpent
    BY DEF OrbSpent
  <1>2. /\ y \in Watchlist /\ y = hand.symbol /\ hand \in Watched /\ up /\ hand' = NoBar /\ hand # NoBar
        /\ UNCHANGED <<name, wire, up, rows, faults>>
    BY Known DEF Consulted
  <1>3. OrbMove(st[y], hand, r) /\ st'[y] = r.st /\ \A x \in Watchlist : x # y => st'[x] = st[x]
    BY ConsultMoves
  <1>4. hand \in rows /\ hand \in Own(rows, y) /\ hand \in Ahead
    BY <1>1, <1>2 DEF Kneaded, Own, Ahead
  <1>5. \A x : Signalled(x)' => Signalled(x) \/ (x = y /\ r.signal # None)
    BY SignalsAfter
  <1>6. r.st.range \subseteq st[y].range \union {hand}
    BY <1>3 DEF OrbMove
  <1>7. \A x \in Watchlist : st'[x].range \subseteq st[x].range \union {hand}
    BY <1>3, <1>6
  <1>8. st[y] \in States("orb_5m", Own(ToSet(market), y))
    BY <1>2 DEF Typed, StatesSeen
  <1>9. st[y].range \subseteq Own(ToSet(market), y) /\ \A b \in st[y].range : InRange(b)
    BY <1>8 DEF States, StrategyState, Sound
  <1>10. ASSUME r.signal # None
         PROVE  /\ Complete(st[y].range) /\ ~InRange(hand) /\ Breaks(hand, Levels(st[y].range))
                /\ Opening(Own(ToSet(market), y)) = st[y].range /\ Opening(Own(rows, y)) = st[y].range
    <2>1. Complete(st[y].range) /\ ~InRange(hand) /\ Breaks(hand, Levels(st[y].range))
      BY <1>3, <1>10 DEF OrbMove
    <2>2. PICK range : range = st[y].range
      OBVIOUS
    <2>3. /\ range \in SUBSET Own(ToSet(market), y) /\ range \in SUBSET Own(rows, y)
          /\ Complete(range) /\ \A b \in range : InRange(b)
      BY <1>1, <1>2, <1>9, <2>1, <2>2 DEF Own, Kneaded
    <2>4. Reel(ToSet(market), {Today}) /\ Reel(rows, {Today})
      BY Known DEF Reel, Keyed
    <2>5. Opening(Own(ToSet(market), y)) = range /\ Opening(Own(rows, y)) = range
      BY <2>3, <2>4, RangeIsOpening
    <2>. QED  BY <2>1, <2>2, <2>5
  <1>11. Kneaded'
    <2>1. ASSUME r.signal # None PROVE BrokenOut(Own(rows, y))
      BY <1>4, <1>10, <2>1 DEF BrokenOut
    <2>2. \A x \in Watchlist : Signalled(x)' => BrokenOut(Own(rows, x))
      BY <1>1, <1>5, <2>1 DEF Kneaded
    <2>3. \A x \in Watchlist : st'[x].range \subseteq rows
      BY <1>1, <1>4, <1>7 DEF Kneaded
    <2>. QED  BY <1>2, <2>2, <2>3 DEF Kneaded
  <1>12. RangeIsOver'
    <2>. SUFFICES ASSUME "repeated" \notin faults
                  PROVE  /\ hand' \notin ToSet(wire)
                         /\ \A x \in Watchlist :
                              /\ st'[x].range \intersect ToSet(wire) = {}
                              /\ Signalled(x)' => \A b \in ToSet(wire) : b.symbol = x => ~InRange(b)
      <3>1. ToSet(wire)' = ToSet(wire) /\ Ahead' = ToSet(wire)
        BY <1>2 DEF Ahead, ToSet
      <3>. QED  BY <1>2, <3>1 DEF RangeIsOver
    <2>1. /\ hand \notin ToSet(wire)
          /\ \A x \in Watchlist :
              /\ st[x].range \intersect Ahead = {}
              /\ Signalled(x) => \A b \in Ahead : b.symbol = x => ~InRange(b)
      BY <1>1 DEF RangeIsOver
    <2>2. ToSet(wire) \subseteq Ahead /\ ToSet(wire) \subseteq Watched /\ hand' \notin ToSet(wire)
      <3>1. wire \in Seq(Watched)
        BY DEF Typed, TypeOK
      <3>. QED  BY <1>2, <3>1, Known, SeqElements DEF Ahead
    <2>3. ASSUME r.signal # None, NEW b \in ToSet(wire), b.symbol = y PROVE ~InRange(b)
      <3>. SUFFICES ASSUME InRange(b) PROVE FALSE
        OBVIOUS
      <3>1. b \in Opening(Own(ToSet(market), y))
        BY <2>2, <2>3, Known DEF Opening, Own
      <3>. QED  BY <1>2, <1>10, <2>1, <2>2, <2>3, <3>1
    <2>4. \A x \in Watchlist : st'[x].range \intersect ToSet(wire) = {}
      BY <1>7, <2>1, <2>2
    <2>. QED  BY <1>5, <2>1, <2>2, <2>3, <2>4
  <1>13. RangeIsSpent'
    <2>. SUFFICES ASSUME ~({"unread", "repeated"} \subseteq faults), NEW x \in Watchlist, Signalled(x)'
                  PROVE  Exhausted(st[x])'
      BY <1>2 DEF RangeIsSpent
    <2>1. CASE x # y
      BY <1>1, <1>2, <1>3, <1>5, <2>1 DEF RangeIsSpent, Exhausted
    <2>2. CASE x = y /\ r.signal # None
      BY <1>3, <2>2 DEF OrbMove, Exhausted
    <2>3. CASE x = y /\ r.signal = None
      <3>1. Signalled(y)
        BY <1>5, <2>3
      <3>2. Exhausted(st[y])
        BY <1>1, <1>2, <3>1 DEF RangeIsSpent
      <3>3. CASE st[y].entered \/ st[y].skipped
        BY <1>3, <2>3, <3>3 DEF OrbMove, Exhausted
      <3>4. CASE "unread" \in faults /\ st[y].range = {}
        <4>1. "repeated" \notin faults
          BY <3>4
        <4>2. ~InRange(hand)
          BY <1>1, <1>2, <1>4, <3>1, <4>1 DEF RangeIsOver
        <4>3. ~Complete({})
          <5>1. OrStart \in OrStart..(OrEnd - 1)
            BY StrategiesAssumption
          <5>. QED  BY <5>1 DEF Complete
        <4>4. r.st.skipped
          BY <1>3, <3>4, <4>2, <4>3 DEF OrbMove
        <4>. QED  BY <1>3, <2>3, <4>4 DEF Exhausted
      <3>. QED  BY <3>2, <3>3, <3>4 DEF Exhausted
    <2>. QED  BY <2>1, <2>2, <2>3
  <1>. QED  BY <1>11, <1>12, <1>13

LEMMA CrashOrb == Typed /\ OrbSpent /\ Crash => OrbSpent'
  <1>. SUFFICES ASSUME Typed, OrbSpent, Crash, name' = "orb_5m", "unstored" \notin faults'
                PROVE  Kneaded' /\ RangeIsOver' /\ RangeIsSpent'
    BY DEF OrbSpent
  <1>1. /\ up' = FALSE /\ hand' = NoBar /\ wire' = <<>> /\ st' = Morning(name, Watchlist).st
        /\ UNCHANGED <<name, rows, fired>> /\ faults \subseteq faults' /\ name = "orb_5m"
    BY DEF Crash
  <1>2. Kneaded
    BY <1>1 DEF OrbSpent
  <1>3. \A x \in Watchlist : st'[x] = OrbFresh
    BY <1>1 DEF Morning, Fresh
  <1>4. OrbFresh.range = {}
    BY DEF OrbFresh
  <1>5. \A x : Signalled(x)' <=> Signalled(x)
    BY <1>1 DEF Signalled
  <1>6. Kneaded'
    BY <1>1, <1>2, <1>3, <1>4, <1>5 DEF Kneaded
  <1>7. ToSet(wire)' = {} /\ Ahead' = {}
    BY <1>1 DEF ToSet, Ahead
  <1>8. RangeIsOver' /\ RangeIsSpent'
    BY <1>1, <1>7 DEF RangeIsOver, RangeIsSpent
  <1>. QED  BY <1>6, <1>8

LEMMA RestartOrb == Typed /\ Memory /\ OrbSpent /\ Restart => OrbSpent'
  <1>. SUFFICES ASSUME Typed, Memory, OrbSpent, Restart, name' = "orb_5m", "unstored" \notin faults'
                PROVE  Kneaded' /\ RangeIsOver' /\ RangeIsSpent'
    BY DEF OrbSpent
  <1>1. ~up /\ up' = TRUE /\ UNCHANGED <<name, wire, hand, rows, fired>> /\ faults \subseteq faults'
    BY DEF Restart, Fault, Fine
  <1>2. Kneaded /\ name = "orb_5m"
    BY <1>1 DEF OrbSpent
  <1>3. wire = <<>> /\ hand = NoBar /\ name \in Strategy /\ Reel(rows, {Today})
    BY <1>1, Known DEF Memory, WireInOrder, Typed, TypeOK, Reel, Keyed
  <1>4. \A x : Signalled(x)' <=> Signalled(x)
    BY <1>1 DEF Signalled
  <1>5. ASSUME NEW x \in Watchlist
        PROVE  /\ Recovered[x].range \subseteq rows
               /\ Signalled(x) => Recovered[x].entered \/ Recovered[x].skipped
    <2>1. PICK day : day = Replayed(name, Watchlist, DayBars)
      OBVIOUS
    <2>2. day \in Days(name, Watchlist, rows, {Today})
      BY <1>3, <2>1, DayBarsKnown, ReplayIsDay
    <2>3. Recovered[x] \in States("orb_5m", Own(rows, x))
      BY <1>2, <2>1, <2>2 DEF Days, Recovered
    <2>4. Recovered[x].range \subseteq rows
      BY <2>3 DEF States, StrategyState, Own
    <2>5. PICK own : own = Own(rows, x)
      OBVIOUS
    <2>6. Recovered[x] = Alone("orb_5m", x, own).st[x]
      BY <1>2, <2>5, TableFollows
    <2>7. Told(own, Recovered[x])
      <3>1. IsFiniteSet(own)
        BY <2>5, DayBarsKnown, FS_Subset DEF Timed, Own
      <3>. QED  BY <1>3, <2>5, <2>6, <3>1, ReplayTells
    <2>8. ASSUME Signalled(x) PROVE Recovered[x].entered \/ Recovered[x].skipped
      <3>1. BrokenOut(own)
        BY <1>2, <2>5, <2>8 DEF Kneaded
      <3>. QED  BY <2>7, <3>1 DEF Told, BrokenOut
    <2>. QED  BY <2>4, <2>8
  <1>6. ToSet(wire)' = {} /\ Ahead' = {}
    BY <1>1, <1>3 DEF ToSet, Ahead
  <1>7. RangeIsOver'
    BY <1>6 DEF RangeIsOver
  <1>8. CASE st' = Recovered
    <2>1. Kneaded'
      BY <1>1, <1>2, <1>4, <1>5, <1>8 DEF Kneaded
    <2>2. RangeIsSpent'
      BY <1>4, <1>5, <1>8 DEF RangeIsSpent, Exhausted
    <2>. QED  BY <1>7, <2>1, <2>2
  <1>9. CASE st' # Recovered
    <2>1. st' = st /\ "unread" \in faults'
      BY <1>9 DEF Restart, Fault
    <2>2. \A x \in Watchlist : st'[x] = OrbFresh
      BY <1>1, <1>2, <2>1 DEF Kneaded
    <2>3. OrbFresh.range = {} /\ OrbFresh.levels = None
      BY DEF OrbFresh
    <2>4. Kneaded'
      BY <1>1, <1>2, <1>4, <2>1 DEF Kneaded
    <2>5. RangeIsSpent'
      BY <2>1, <2>2, <2>3 DEF RangeIsSpent, Exhausted
    <2>. QED  BY <1>7, <2>4, <2>5
  <1>. QED  BY <1>8, <1>9

LEMMA StepOrb == Typed /\ Memory /\ OrbSpent /\ [Next]_vars => OrbSpent'
  <1>. SUFFICES ASSUME Typed, Memory, OrbSpent, [Next]_vars PROVE OrbSpent'
    OBVIOUS
  <1>1. Typed' /\ faults \subseteq faults' /\ name' = name
    BY StepTyped, FaultsGrow
  <1>2. ASSUME NEW x \in Traded, NEW t \in Minutes, NEW shape \in Shapes, BarCloses(x, t, shape)
        PROVE  OrbSpent'
    BY <1>1, <1>2, BarClosed, BarClosesOrb
  <1>3. CASE ShadowStores
    <2>1. UNCHANGED <<wire, up, st, hand, fired>> /\ rows \subseteq rows'
      BY <1>3 DEF ShadowStores
    <2>2. RangeIsOver => RangeIsOver'
      BY <1>1, <2>1 DEF RangeIsOver, Ahead, Signalled
    <2>3. CASE name # "orb_5m" \/ "unstored" \in faults'
      BY <1>1, <2>3 DEF OrbSpent
    <2>4. CASE name = "orb_5m" /\ "unstored" \notin faults'
      <3>1. hand' \in rows' \union {NoBar}
        BY <1>1, <2>1, <2>4 DEF OrbSpent, Kneaded
      <3>. QED  BY <1>1, <2>1, <2>2, <3>1, AsideOrb
    <2>. QED  BY <2>3, <2>4
  <1>4. CASE EveningRuns \/ UNCHANGED vars
    <2>1. UNCHANGED <<name, wire, up, st, hand, rows, fired, faults>>
      BY <1>4 DEF EveningRuns, ReplayScript, BacktestScript, CompareScript, Evening, vars, runner, history
    <2>. QED  BY <2>1 DEF OrbSpent, Kneaded, RangeIsOver, RangeIsSpent, Ahead, Signalled, Exhausted
  <1>5. CASE Consult
    BY <1>1, <1>5, ConsultIs, ConsultOrb
  <1>. QED  BY <1>1, <1>2, <1>3, <1>4, <1>5, LostOrb, ArrivalOrb, CrashOrb, RestartOrb DEF Next, EveningRuns

\* A bar that comes in its turn and is stored: the table grows by it, and the strategy is
\* still to see it.
LEMMA TakenInTurn ==
    ASSUME Typed, Memory, Taken(1), Stored(wire[1], {}), drift = {},
           \A b \in rows, c \in ToSet(wire) : b.symbol = c.symbol => b.ts < c.ts
    PROVE  /\ drift' = {} /\ UNCHANGED <<name, market, fired>>
           /\ \A b \in rows', c \in ToSet(wire)' : b.symbol = c.symbol => b.ts < c.ts
           /\ rows \subseteq rows' /\ ToSet(wire) \subseteq rows' \union ToSet(wire)'
           /\ \A x : Own(rows', x) \ {hand'} = Own(rows, x) \ {hand}
  <1>2. PICK bar, rest : bar = wire[1] /\ rest = wire'
    OBVIOUS
  <1>3. hand = NoBar /\ hand' = bar /\ UNCHANGED <<name, market, fired>>
    BY <1>2 DEF Taken, Receive
  <1>4. wire \in Seq(Watched) /\ Chronological(wire) /\ rest \in Seq(Watched) /\ Without(rest, wire, 1)
        /\ 1 \in 1..Len(wire)
    BY <1>2 DEF Typed, TypeOK, Memory, WireInOrder, Taken
  <1>5. /\ ToSet(rest) \subseteq ToSet(wire) /\ bar \in ToSet(wire) /\ bar \in Watched
        /\ ToSet(wire) \subseteq ToSet(rest) \union {bar}
    BY <1>2, <1>4, WireGives DEF Memory
  <1>6. \A c \in ToSet(rest) : c.symbol = bar.symbol => bar.ts < c.ts
    <2>. SUFFICES ASSUME NEW c \in ToSet(rest), c.symbol = bar.symbol PROVE bar.ts < c.ts
      OBVIOUS
    <2>1. PICK n \in Nat : n = Len(wire)
      BY <1>4
    <2>2. DOMAIN wire = 1..n /\ DOMAIN rest = 1..(n - 1)
      BY <1>4, <2>1 DEF Without
    <2>3. PICK k \in 1..(n - 1) : c = rest[k]
      BY <2>2 DEF ToSet
    <2>4. c = wire[k + 1]
      BY <1>4, <2>1, <2>3 DEF Without
    <2>5. 1 \in 1..n /\ k + 1 \in 1..n /\ 1 < k + 1
      BY <1>4, <2>1, <2>3
    <2>. QED  BY <1>2, <1>4, <2>2, <2>4, <2>5 DEF Chronological
  <1>7. rows' \subseteq rows \union {bar} /\ rows \subseteq rows' /\ bar \in rows'
    BY <1>2, <1>5, StoredIn
  <1>8. bar \notin rows /\ ~Overtaken(bar)
    <2>1. \A b \in rows : b.ts \in Nat
      BY Known
    <2>2. bar.ts \in Nat
      BY <1>5, Known
    <2>. QED  BY <1>5, <2>1, <2>2 DEF Overtaken
  <1>9. drift' = {}
    BY <1>2, <1>8 DEF Stored
  <1>10. \A b \in rows', c \in ToSet(rest) : b.symbol = c.symbol => b.ts < c.ts
    BY <1>5, <1>6, <1>7
  <1>11. ASSUME NEW x PROVE Own(rows', x) \ {hand'} = Own(rows, x) \ {hand}
    <2>1. NoBar \notin rows
      BY Known
    <2>. QED  BY <1>3, <1>7, <1>8, <2>1 DEF Own
  <1>. QED  BY <1>2, <1>3, <1>5, <1>7, <1>9, <1>10, <1>11 DEF ToSet

LEMMA TakenVwap ==
    ASSUME Typed, Memory, VwapSpent, Taken(1), name = "vwap_reversion", faults \intersect Drifts = {},
           Stored(wire[1], {})
    PROVE  /\ drift' = {}
           /\ \A b \in rows', c \in ToSet(wire)' : b.symbol = c.symbol => b.ts < c.ts
           /\ \A x \in Watchlist : Signalled(x)' => Alone(name, x, Own(rows', x) \ {hand'}).st[x].entered
  <1>1. /\ drift = {}
        /\ \A b \in rows, c \in ToSet(wire) : b.symbol = c.symbol => b.ts < c.ts
        /\ \A x \in Watchlist : Signalled(x) => Alone(name, x, Own(rows, x) \ {hand}).st[x].entered
    BY DEF VwapSpent
  <1>2. /\ drift' = {} /\ fired' = fired
        /\ \A b \in rows', c \in ToSet(wire)' : b.symbol = c.symbol => b.ts < c.ts
        /\ \A x : Own(rows', x) \ {hand'} = Own(rows, x) \ {hand}
    BY <1>1, TakenInTurn
  <1>. QED  BY <1>1, <1>2 DEF Signalled

LEMMA CrashVwap ==
    ASSUME Typed, Memory, VwapSpent, Crash, name = "vwap_reversion", faults \intersect Drifts = {},
           NEW x \in Watchlist, Signalled(x)
    PROVE  Alone(name, x, Own(rows, x) \ {NoBar}).st[x].entered
  <1>1. drift = {} /\ Alone(name, x, Own(rows, x) \ {hand}).st[x].entered /\ up
    BY DEF VwapSpent, Crash
  <1>2. Own(rows, x) \ {NoBar} = Own(rows, x)
    BY Known DEF Own
  <1>3. CASE hand = NoBar \/ hand.symbol # x
    <2>1. Own(rows, x) \ {hand} = Own(rows, x)
      BY <1>2, <1>3 DEF Own
    <2>. QED  BY <1>1, <1>2, <2>1
  <1>4. CASE hand # NoBar /\ hand.symbol = x
    <2>1. hand \in rows /\ \A b \in rows : b.symbol = hand.symbol => b.ts <= hand.ts
      BY <1>1, <1>4 DEF Memory, HandIsLatest
    <2>2. PICK one, r : one = Alone(name, x, Own(rows, x) \ {hand}) /\ r = OnBar(name, one.st[x], hand)
      OBVIOUS
    <2>3. /\ Alone(name, x, Own(rows, x)).st[x] = r.st
          /\ one.st[x] \in States(name, Own(ToSet(market), x)) /\ hand \in Own(ToSet(market), x)
      BY <1>4, <2>1, <2>2, HandIsNext
    <2>4. name \in Strategy /\ Reel(ToSet(market), {Today})
      BY Known
    <2>5. r.st.entered
      BY <1>1, <2>2, <2>3, <2>4, OnBarEnters
    <2>. QED  BY <1>2, <2>3, <2>5
  <1>. QED  BY <1>3, <1>4

LEMMA StepVwap == Typed /\ Memory /\ VwapSpent /\ [Next]_vars => VwapSpent'
  <1>. SUFFICES ASSUME Typed, Memory, VwapSpent, [Next]_vars, name = "vwap_reversion",
                       faults' \intersect Drifts = {}
                PROVE  /\ drift' = {}
                       /\ \A b \in rows', c \in ToSet(wire)' : b.symbol = c.symbol => b.ts < c.ts
                       /\ \A x \in Watchlist : Signalled(x)'
                            => Alone(name, x, Own(rows', x) \ {hand'}).st[x].entered
    BY FaultsGrow DEF VwapSpent
  <1>0. faults \intersect Drifts = {} /\ name' = name
    BY FaultsGrow
  <1>1. /\ drift = {}
        /\ \A b \in rows, c \in ToSet(wire) : b.symbol = c.symbol => b.ts < c.ts
        /\ \A x \in Watchlist : Signalled(x) => Alone(name, x, Own(rows, x) \ {hand}).st[x].entered
    BY <1>0 DEF VwapSpent
  <1>2. \A k \in Drifts : k \notin faults'
    OBVIOUS
  <1>3. ASSUME NEW x \in Traded, NEW t \in Minutes, NEW shape \in Shapes, BarCloses(x, t, shape)
        PROVE  /\ UNCHANGED <<rows, hand, fired, drift>>
               /\ \A b \in rows, c \in ToSet(wire)' : b.symbol = c.symbol => b.ts < c.ts
    <2>1. PICK bar : Closed(bar)
      BY <1>3, BarClosed
    <2>. QED  BY <1>1, <2>1, Known DEF Closed
  <1>4. CASE Lost
    <2>1. UNCHANGED <<rows, hand, fired, drift>> /\ wire # <<>> /\ wire' = Tail(wire)
      BY <1>4 DEF Lost, runner
    <2>2. ToSet(wire)' \subseteq ToSet(wire)
      <3>1. wire \in Seq(Watched) /\ WireInOrder
        BY DEF Typed, TypeOK, Memory
      <3>2. 1 \in 1..Len(wire) /\ Tail(wire) \in Seq(Watched) /\ Without(Tail(wire), wire, 1)
        BY <2>1, <3>1, TailIsWithout
      <3>. QED  BY <2>1, <3>1, <3>2, WireGives DEF ToSet
    <2>. QED  BY <1>1, <2>1, <2>2 DEF Signalled
  <1>5. CASE Arrives
    <2>1. "unstored" \notin faults'
      BY <1>2 DEF Drifts
    <2>2. Taken(1) /\ Stored(wire[1], {})
      BY <1>5, <2>1, ArrivalTakes DEF Fault
    <2>. QED  BY <1>0, <2>2, TakenVwap
  <1>6. ~ShadowStores /\ ~ArrivesEarly /\ ~ArrivesAgain
    <2>1. "foreign" \notin faults' /\ "late" \notin faults' /\ "repeated" \notin faults'
      BY <1>2 DEF Drifts
    <2>. QED  BY <2>1 DEF ShadowStores, ArrivesEarly, ArrivesAgain, Fault
  <1>7. CASE Consult
    <2>1. PICK y, r : Consulted(y, r)
      BY <1>7, ConsultIs
    <2>2. UNCHANGED <<wire, rows, drift, up>> /\ up /\ hand' = NoBar /\ y \in Watchlist
      BY <2>1 DEF Consulted
    <2>3. \A x \in Watchlist : st[x] = Alone(name, x, Own(rows, x) \ {hand}).st[x]
      BY <1>1, <2>2 DEF Memory, MemoryIsTable
    <2>4. ASSUME NEW x \in Watchlist, Signalled(x)' PROVE st'[x].entered
      <3>1. /\ st[y].entered => r.st.entered
            /\ r.signal # None => r.st.entered
            /\ st'[y] = r.st /\ \A z \in Watchlist : z # y => st'[z] = st[z]
        BY <2>1, ConsultMoves
      <3>2. Signalled(x) \/ (x = y /\ r.signal # None)
        BY <2>1, <2>4, SignalsAfter
      <3>3. Signalled(x) => st[x].entered
        BY <1>1, <2>3
      <3>. QED  BY <3>1, <3>2, <3>3
    <2>5. MemoryIsTable'
      BY <1>7, ConsultMemory DEF Memory
    <2>6. \A x \in Watchlist : st'[x] = Alone(name, x, Own(rows, x) \ {hand'}).st[x]
      BY <1>0, <1>1, <2>2, <2>5 DEF MemoryIsTable
    <2>. QED  BY <1>1, <2>2, <2>4, <2>6 DEF ToSet
  <1>8. CASE Crash
    <2>1. drift' = {} /\ wire' = <<>> /\ hand' = NoBar /\ UNCHANGED <<rows, fired>>
      BY <1>8 DEF Crash
    <2>2. ToSet(wire)' = {}
      BY <2>1 DEF ToSet
    <2>3. \A x \in Watchlist : Signalled(x)' => Signalled(x)
      BY <2>1 DEF Signalled
    <2>. QED  BY <1>0, <1>8, <2>1, <2>2, <2>3, CrashVwap
  <1>9. CASE Restart
    <2>1. "unread" \notin faults'
      BY <1>2 DEF Drifts
    <2>2. drift' = {} /\ UNCHANGED <<wire, hand, rows, fired>>
      BY <1>9, <2>1 DEF Restart, Fault
    <2>. QED  BY <1>1, <2>2 DEF ToSet, Signalled
  <1>10. CASE EveningRuns \/ UNCHANGED vars
    <2>1. UNCHANGED <<wire, hand, rows, fired, drift>>
      BY <1>10 DEF EveningRuns, ReplayScript, BacktestScript, CompareScript, Evening, vars, runner, history
    <2>. QED  BY <1>1, <2>1 DEF ToSet, Signalled
  <1>11. ASSUME NEW x \in Traded, NEW t \in Minutes, NEW shape \in Shapes, BarCloses(x, t, shape)
         PROVE  /\ drift' = {}
                /\ \A b \in rows', c \in ToSet(wire)' : b.symbol = c.symbol => b.ts < c.ts
                /\ \A z \in Watchlist : Signalled(z)'
                     => Alone(name, z, Own(rows', z) \ {hand'}).st[z].entered
    BY <1>1, <1>3, <1>11 DEF Signalled
  <1>. QED  BY <1>4, <1>5, <1>6, <1>7, <1>8, <1>9, <1>10, <1>11 DEF Next, EveningRuns

LEMMA InitSpent == Init => Spent /\ OncePerSymbol
  <1>. SUFFICES ASSUME Init PROVE Spent /\ OncePerSymbol
    OBVIOUS
  <1>1. fired = <<>> /\ wire = <<>> /\ rows = {} /\ hand = NoBar /\ up /\ drift = {} /\ faults = {}
        /\ st = Morning(name, Watchlist).st
    BY DEF Init
  <1>2. DOMAIN fired = {} /\ ToSet(wire) = {} /\ Ahead = {}
    BY <1>1 DEF ToSet, Ahead
  <1>3. (\A x : ~Signalled(x)) /\ OncePerSymbol
    BY <1>2 DEF Signalled, OncePerSymbol
  <1>4. name = "orb_5m" => \A x \in Watchlist : st[x].range = {}
    BY <1>1 DEF Morning, Fresh, OrbFresh
  <1>. QED  BY <1>1, <1>2, <1>3, <1>4
            DEF Spent, FirstLife, VwapSpent, OrbSpent, Kneaded, RangeIsOver, RangeIsSpent

LEMMA OnceIsOne == Typed /\ (OncePerSymbol \/ Endangered) => OneSignal
  BY DEF OncePerSymbol, Endangered, OneSignal

\* "At most one entry per symbol per day" (orb.py:8), whatever bars come and however often the
\* process dies: a second signal of a symbol takes a crash and, for ORB, a bar that was not
\* stored, or a restart without the table and bars that come again; for VWAP reversion one of
\* the faults that set memory apart from the table.
THEOREM SignalsOnce == Spec => []OneSignal
  <1>1. Init => Typed /\ Memory /\ Spent /\ (OncePerSymbol \/ Endangered)
    BY InitTyped, InitMemory, InitSpent
  <1>2. Typed /\ Memory /\ Spent /\ (OncePerSymbol \/ Endangered) /\ [Next]_vars
            => Typed' /\ Memory' /\ Spent' /\ (OncePerSymbol \/ Endangered)'
    BY StepTyped, StepMemory, StepFirstLife, StepVwap, StepOrb, StepOnce DEF Spent
  <1>3. Typed /\ (OncePerSymbol \/ Endangered) => OneSignal
    BY OnceIsOne
  <1>. QED  BY <1>1, <1>2, <1>3, PTL DEF Spec

-----------------------------------------------------------------------------
(* Trades.                                                                 *)

\* A fraction rounded to the nearest whole, halves up.
LEMMA NearestWhole ==
    ASSUME NEW n \in Int, NEW d \in Int, d > 0
    PROVE  /\ RoundCents(n, d) \in Int
           /\ (2 * d) * RoundCents(n, d) <= 2 * n + d
           /\ 2 * n < (2 * d) * RoundCents(n, d) + d
  <1>. DEFINE m == 2 * n + d
              e == 2 * d
  <1>1. m \in Int /\ e \in Int /\ e > 0 /\ RoundCents(n, d) = m \div e
    BY DEF RoundCents
  <1>. HIDE DEF m, e
  <1>2. m \div e \in Int /\ e * (m \div e) <= m /\ m < e * (m \div e) + e
    BY <1>1
  <1>3. PICK r, w : r = m \div e /\ w = e * r
    OBVIOUS
  <1>4. r \in Int /\ w \in Int /\ w <= m /\ m < w + e /\ RoundCents(n, d) = r
    BY <1>1, <1>2, <1>3
  <1>5. w = (2 * d) * r /\ m = 2 * n + d /\ e = 2 * d
    BY <1>3 DEF m, e
  <1>6. w <= 2 * n + d /\ 2 * n < w + d
    BY <1>4, <1>5
  <1>. QED  BY <1>4, <1>5, <1>6

\* What rounding may give back on a leg, doubled.
Slack(unit) == IF unit = 1 THEN 0 ELSE unit

\* Slippage is against the trader, but for the rounding.
LEMMA SlippageHurts ==
    ASSUME NEW price \in Nat, NEW unit \in Nat \ {0}, NEW side, NEW action, NEW costs, costs.bps \in Nat,
           NEW slipped, slipped = Slipped(price, unit, side, action, costs)
    PROVE  /\ slipped \in Int
           /\ IF IsBuy(side, action) THEN 2 * price <= 2 * slipped + Slack(unit)
                                     ELSE 2 * slipped <= 2 * price + Slack(unit)
  <1>1. CASE costs.bps = 0
    <2>1. slipped = price
      BY <1>1 DEF Slipped
    <2>. QED  BY <2>1 DEF Slack
  <1>2. CASE costs.bps # 0
    <2>1. PICK bps \in Int : /\ bps = IF IsBuy(side, action) THEN costs.bps ELSE -costs.bps
                             /\ slipped = unit * RoundCents(price * (Basis + bps), unit * Basis)
      BY <1>2 DEF Slipped
    <2>2. PICK n \in Int, d \in Int : n = price * (Basis + bps) /\ d = unit * Basis
      BY <2>1 DEF Basis
    <2>3. d > 0
      BY <2>2 DEF Basis
    <2>4. PICK r : r = RoundCents(n, d)
      OBVIOUS
    <2>5. r \in Int /\ (2 * d) * r <= 2 * n + d /\ 2 * n < (2 * d) * r + d
      BY <2>3, <2>4, NearestWhole
    <2>6. PICK w : w = unit * r
      OBVIOUS
    <2>7. w \in Int /\ slipped = w
      BY <2>1, <2>2, <2>4, <2>5, <2>6
    <2>8. (2 * d) * r = 20000 * w /\ d = 10000 * unit
      BY <2>2, <2>5, <2>6 DEF Basis
    <2>9. PICK k \in Int : k = price * bps
      BY <2>1
    <2>10. n = 10000 * price + k
      BY <2>1, <2>2, <2>9 DEF Basis
    <2>11. 20000 * w <= 20000 * price + 2 * k + 10000 * unit /\ 20000 * price + 2 * k < 20000 * w + 10000 * unit
      BY <2>5, <2>8, <2>10
    <2>12. unit = 1 => w = r
      BY <2>5, <2>6
    <2>13. CASE IsBuy(side, action)
      <3>1. k >= 0
        BY <2>1, <2>9, <2>13, TimesNat
      <3>2. 2 * price < 2 * w + unit
        BY <2>7, <2>11, <3>1
      <3>. QED  BY <2>7, <2>13, <3>2 DEF Slack
    <2>14. CASE ~IsBuy(side, action)
      <3>1. k <= 0
        <4>1. price * costs.bps \in Nat
          BY TimesNat
        <4>2. k = -(price * costs.bps)
          BY <2>1, <2>9, <2>14
        <4>. QED  BY <4>1, <4>2
      <3>2. 2 * w <= 2 * price + unit
        BY <2>7, <2>11, <3>1
      <3>. QED  BY <2>7, <2>14, <3>2 DEF Slack
    <2>. QED  BY <2>13, <2>14
  <1>. QED  BY <1>1, <1>2

\* What it takes to pass: the first check that fails names the reason, "ok" none.
LEMMA PassedChecks ==
    ASSUME NEW s, Passes(s, Equity)
    PROVE  LET a == Flat(Equity, s.unit)
           IN  /\ ~BadStop(s) /\ ~BadTarget(s)
               /\ ~(ByRisk(s, a, Limits) <= 0) /\ ~(Shares(s, a, Limits) <= 0)
  BY DEF Passes, Approves, Verdict

\* What is computed from a quotient that is rounded down.
LEMMA QuotientBelow ==
    ASSUME NEW n \in Int, NEW d \in Int, d > 0
    PROVE  n \div d \in Int /\ d * (n \div d) <= n
  OBVIOUS

\* A percentage of the equity pays for whole shares.
LEMMA AffordableType ==
    ASSUME NEW worth \in Int, NEW pct \in Int, NEW entry \in Int, entry > 0
    PROVE  Affordable(worth, pct, 0, entry) \in Int
  <1>. DEFINE n == worth * pct - 100 * 0
              d == 100 * entry
  <1>1. n \in Int /\ d \in Int /\ d > 0
    OBVIOUS
  <1>2. Affordable(worth, pct, 0, entry) = IF worth * pct <= 100 * 0 THEN 0 ELSE n \div d
    BY DEF Affordable
  <1>. HIDE DEF n, d
  <1>. QED  BY <1>1, <1>2, QuotientBelow

\* A signal that passes becomes shares, which lose at most the risk limit at the stop.
LEMMA PassedShares ==
    ASSUME NEW s, s.unit \in Nat \ {0}, s.entry \in Nat, s.stop \in Int, s.target \in Int,
           Passes(s, Equity), NEW q, q = Shares(s, Flat(Equity, s.unit), Limits)
    PROVE  /\ q \in Nat \ {0} /\ s.stop > 0
           /\ 100 * q * Distance(s.entry, s.stop) <= Equity * s.unit * Limits.risk
           /\ s.side = "long" => s.target > s.entry
  <1>. DEFINE a == Flat(Equity, s.unit)
  <1>1. PICK risk, notional, budget :
            risk = ByRisk(s, a, Limits) /\ notional = ByNotional(s, a, Limits)
            /\ budget = ByBudget(s, a, Limits)
    OBVIOUS
  <1>2. /\ a.equity = Equity * s.unit /\ a.deployed = 0 /\ a.equity \in Nat
        /\ Limits.risk \in Nat /\ Limits.notional \in Int /\ Limits.budget \in Int
    <2>1. Equity \in Nat /\ Limits.risk \in Nat /\ Limits.notional \in Int /\ Limits.budget \in Int
      BY SessionAssumption DEF NoCap
    <2>2. Equity * s.unit \in Nat
      BY <2>1, TimesNat
    <2>. QED  BY <2>1, <2>2 DEF Flat
  <1>3. ~(risk <= 0) /\ ~(q <= 0) /\ (s.side = "long" => s.target > s.entry)
    BY <1>1, PassedChecks DEF BadTarget
  <1>. HIDE DEF a
  <1>4. PICK d \in Int : d = Distance(s.entry, s.stop) /\ d >= 0
    BY DEF Distance
  <1>5. PICK n \in Int : n = a.equity * Limits.risk
    BY <1>2
  <1>6. risk = PositionSize(a.equity, Limits.risk, s.entry, s.stop)
    BY <1>1 DEF ByRisk
  <1>7. s.entry > 0 /\ s.stop > 0 /\ s.entry # s.stop /\ risk = n \div (100 * d)
    BY <1>2, <1>3, <1>4, <1>5, <1>6 DEF PositionSize
  <1>8. d > 0
    BY <1>4, <1>7 DEF Distance
  <1>9. risk \in Int /\ (100 * d) * risk <= n
    <2>1. PICK e \in Int : e = 100 * d /\ e > 0
      BY <1>8
    <2>2. n \div e \in Int /\ e * (n \div e) <= n
      BY <2>1, QuotientBelow
    <2>. QED  BY <1>7, <2>1, <2>2
  <1>10. \A pct \in Int : Affordable(a.equity, pct, 0, s.entry) \in Int
    <2>1. PICK worth \in Int, entry \in Int : worth = a.equity /\ entry = s.entry /\ entry > 0
      BY <1>2, <1>7
    <2>2. \A pct \in Int : Affordable(worth, pct, 0, entry) \in Int
      BY <2>1, AffordableType
    <2>. QED  BY <2>1, <2>2
  <1>11. notional \in Int
    <2>1. notional = Affordable(a.equity, Limits.notional, 0, s.entry)
      BY <1>1 DEF ByNotional
    <2>. QED  BY <1>2, <1>10, <2>1
  <1>12. budget \in Int
    <2>1. CASE Limits.budget = NoCap
      BY <1>1, <1>11, <2>1 DEF ByBudget
    <2>2. CASE Limits.budget # NoCap
      <3>1. budget = Affordable(a.equity, Limits.budget, 0, s.entry)
        BY <1>1, <1>2, <2>2 DEF ByBudget
      <3>. QED  BY <1>2, <1>10, <3>1
    <2>. QED  BY <2>1, <2>2
  <1>13. q = Smaller(risk, Smaller(notional, budget))
    BY <1>1 DEF Shares, a
  <1>14. q \in Int /\ q <= risk /\ q > 0
    BY <1>3, <1>9, <1>12, <1>13, <1>11 DEF Smaller
  <1>15. (100 * d) * q <= (100 * d) * risk
    <2>1. PICK e \in Nat : e = 100 * d
      BY <1>4
    <2>2. PICK more \in Nat : risk = q + more
      <3>1. risk - q \in Nat /\ risk = q + (risk - q)
        BY <1>9, <1>14
      <3>. QED  BY <3>1
    <2>3. e * more \in Nat
      BY TimesNat
    <2>4. e * risk = e * q + e * more
      BY <1>14, <2>2
    <2>. QED  BY <1>14, <2>1, <2>3, <2>4
  <1>16. PICK x \in Int, y \in Int : x = (100 * d) * q /\ y = (100 * d) * risk
    BY <1>9, <1>14
  <1>17. x <= n
    BY <1>9, <1>15, <1>16
  <1>18. 100 * q * d = x
    BY <1>14, <1>16
  <1>. QED  BY <1>2, <1>3, <1>4, <1>5, <1>7, <1>14, <1>17, <1>18

\* Where a trade ends: at the stop, at the target, or at the last close.
LEMMA ExitIs ==
    ASSUME NEW bars, NEW D, Reel(bars, D), NEW q \in Seq(bars), Chronological(q),
           NEW s, s.unit \in Nat \ {0}, Followups(s, q) # {}, NEW e, e = ExitOf(s, q)
    PROVE  \/ e.reason = "stop" /\ e.price = s.stop
           \/ e.reason = "eod" /\ e.price \in Nat
           \/ /\ e.reason = "target" /\ e.price = s.target
              /\ \A i \in Followups(s, q) : q[i].ts <= e.ts => ~HitsStop(s, q[i])
  <1>. DEFINE after == Followups(s, q)
              touching == {i \in after : HitsStop(s, q[i]) \/ HitsTarget(s, q[i])}
  <1>1. after \subseteq 1..Len(q) /\ Len(q) \in Nat
    BY DEF Followups
  <1>2. IsFiniteSet(after) /\ IsFiniteSet(touching) /\ after \subseteq Int /\ touching \subseteq Int
    <2>1. IsFiniteSet(1..Len(q)) /\ 1..Len(q) \subseteq Int
      BY <1>1, FS_Interval
    <2>2. touching \subseteq after
      OBVIOUS
    <2>. HIDE DEF after, touching
    <2>. QED  BY <1>1, <2>1, <2>2, FS_Subset
  <1>3. Max(after) \in after
    <2>. HIDE DEF after
    <2>. QED  BY <1>2, Largest DEF after
  <1>4. PICK last : last = q[Max(after)]
    OBVIOUS
  <1>5. last \in bars /\ last.close \in Nat
    <2>1. PICK k \in 1..Len(q) : k = Max(after)
      BY <1>1, <1>3
    <2>2. last \in bars
      BY <1>4, <2>1
    <2>. QED  BY <2>2 DEF Reel, Tape
  <1>6. CASE touching = {}
    <2>1. e = Exit("eod", s.unit * last.close, last.ts)
      BY <1>4, <1>6 DEF ExitOf
    <2>2. s.unit * last.close \in Nat
      BY <1>5, TimesNat
    <2>. QED  BY <2>1, <2>2 DEF Exit
  <1>7. CASE touching # {}
    <2>1. Min(touching) \in touching /\ \A i \in touching : Min(touching) <= i
      <3>. HIDE DEF touching
      <3>. QED  BY <1>2, <1>7, Smallest
    <2>2. PICK k : k = Min(touching)
      OBVIOUS
    <2>3. e = IF HitsStop(s, q[k]) THEN Exit("stop", s.stop, q[k].ts) ELSE Exit("target", s.target, q[k].ts)
      BY <1>7, <2>2 DEF ExitOf
    <2>4. CASE HitsStop(s, q[k])
      BY <2>3, <2>4 DEF Exit
    <2>5. CASE ~HitsStop(s, q[k])
      <3>1. e.reason = "target" /\ e.price = s.target /\ e.ts = q[k].ts
        BY <2>3, <2>5 DEF Exit
      <3>2. ASSUME NEW i \in after, q[i].ts <= q[k].ts, HitsStop(s, q[i]) PROVE FALSE
        <4>1. i \in touching /\ k \in after
          BY <2>1, <2>2, <3>2
        <4>2. k <= i /\ k # i /\ i \in 1..Len(q) /\ k \in 1..Len(q)
          BY <1>1, <2>1, <2>2, <2>5, <3>2, <4>1
        <4>3. q[i].symbol = s.symbol /\ q[k].symbol = s.symbol
          BY <4>1 DEF Followups
        <4>4. k < i
          BY <1>1, <4>2
        <4>5. q[k].ts < q[i].ts
          BY <4>2, <4>3, <4>4 DEF Chronological
        <4>6. q[k].ts \in Nat /\ q[i].ts \in Nat
          BY <4>2 DEF Reel, Tape
        <4>. QED  BY <3>2, <4>5, <4>6
      <3>. QED  BY <3>1, <3>2
    <2>. QED  BY <2>4, <2>5
  <1>. QED  BY <1>6, <1>7

\* A sale that is made higher, or a purchase made lower, by no more than the slack of both
\* legs gains no more than that; the fee takes no more than what is sold.
LEMMA NetBounded ==
    ASSUME NEW sell \in Int, NEW buy \in Int, NEW sell0 \in Nat, NEW buy0 \in Int, NEW slack \in Nat,
           NEW qty \in Nat, NEW sec \in 0..Basis, NEW rest \in Nat,
           2 * sell <= 2 * sell0 + slack, 2 * buy0 <= 2 * buy + slack
    PROVE  (sell - buy) * qty * Basis - (rest + sell * qty * sec)
                <= (sell0 - buy0) * qty * Basis + qty * slack * Basis
  <1>. DEFINE x == (sell0 - buy0 + slack) * Basis - (sell - buy) * Basis + sell * sec
  <1>0. sec \in Nat /\ Basis - sec \in Nat
    BY DEF Basis
  <1>1. 2 * x >= 0
    <2>1. PICK high \in Nat : 2 * sell + high = 2 * sell0 + slack
      <3>1. 2 * sell0 + slack - 2 * sell \in Nat
        OBVIOUS
      <3>. QED  BY <3>1
    <2>2. PICK low \in Nat : 2 * buy0 + low = 2 * buy + slack
      <3>1. 2 * buy + slack - 2 * buy0 \in Nat
        OBVIOUS
      <3>. QED  BY <3>1
    <2>3. PICK keep \in Nat : keep = Basis - sec
      BY <1>0
    <2>4. high * keep \in Nat /\ sell0 * sec \in Nat /\ slack * sec \in Nat
      BY <1>0, <2>3, TimesNat
    <2>5. PICK a \in Nat, b \in Nat, c \in Nat : a = high * keep /\ b = sell0 * sec /\ c = slack * sec
      BY <2>4
    <2>6. 2 * sell = 2 * sell0 + slack - high /\ sec \in Int /\ sec = Basis - keep
      BY <1>0, <2>1, <2>3 DEF Basis
    <2>7. 2 * (sell * sec) = 2 * b + c - high * sec
      <3>1. PICK l \in Int : l = 2 * sell
        OBVIOUS
      <3>2. l = 2 * sell0 + slack - high
        BY <2>6, <3>1
      <3>3. l * sec = 2 * (sell * sec)
        BY <2>6, <3>1
      <3>4. l * sec = 2 * (sell0 * sec) + slack * sec - high * sec
        BY <2>6, <3>2
      <3>. QED  BY <2>5, <3>3, <3>4
    <2>8. high * sec = 10000 * high - a
      BY <2>5, <2>6 DEF Basis
    <2>9. 2 * x = 10000 * (high + low) + 2 * (sell * sec)
      BY <2>1, <2>2, <2>6 DEF Basis
    <2>10. 2 * x = 10000 * low + 2 * b + c + a
      BY <2>5, <2>7, <2>8, <2>9
    <2>11. 10000 * low + 2 * b + c + a >= 0
      <3>1. low \in Nat /\ b \in Nat /\ c \in Nat /\ a \in Nat
        BY <2>2, <2>5
      <3>. QED  BY <3>1
    <2>. HIDE DEF x
    <2>. QED  BY <2>10, <2>11
  <1>2. x \in Int
    BY DEF Basis
  <1>3. qty * x \in Nat
    <2>. HIDE DEF x
    <2>1. x \in Nat
      BY <1>1, <1>2
    <2>. QED  BY <2>1, TimesNat
  <1>4. qty * x = ((sell0 - buy0) * qty * Basis + qty * slack * Basis)
                  - ((sell - buy) * qty * Basis - sell * qty * sec)
    BY DEF Basis
  <1>5. PICK m \in Int, k \in Int : m = (sell0 - buy0) * qty * Basis + qty * slack * Basis
                                    /\ k = (sell - buy) * qty * Basis - sell * qty * sec
    <2>1. (sell0 - buy0) * qty \in Int /\ qty * slack \in Int /\ (sell - buy) * qty \in Int
          /\ sell * qty * sec \in Int
      BY <1>0
    <2>2. /\ (sell0 - buy0) * qty * Basis + qty * slack * Basis \in Int
          /\ (sell - buy) * qty * Basis - sell * qty * sec \in Int
      BY <2>1 DEF Basis
    <2>. QED  BY <2>2
  <1>6. m - k >= 0
    <2>1. qty * x = m - k
      BY <1>4, <1>5
    <2>. HIDE DEF x
    <2>. QED  BY <1>3, <2>1
  <1>7. (sell - buy) * qty * Basis - (rest + sell * qty * sec) = k - rest
    BY <1>5 DEF Basis
  <1>. QED  BY <1>5, <1>6, <1>7

\* A cost model, if only that without costs.
Costs == [bps : Nat, share : Nat, floor : Nat, sec : 0..Basis, taf : Nat]

\* What a trade is made of.
LEMMA TradeIs ==
    ASSUME NEW s, NEW qty, NEW e, NEW costs, NEW t, t = Trade(s, qty, e, costs)
    PROVE  \E in, out, sold :
            /\ in = Slipped(s.entry, s.unit, s.side, "enter", costs)
            /\ out = IF e.reason = "target" THEN e.price ELSE Slipped(e.price, s.unit, s.side, "exit", costs)
            /\ sold = IF s.side = "long" THEN out ELSE in
            /\ t.net = Gain(s.side, in, out) * qty * Basis
                        - (2 * Commission(qty, costs) * s.unit * Basis
                           + Regulatory(sold * qty, s.unit, qty, costs))
            /\ t.signal = s /\ t.qty = qty /\ t.reason = e.reason /\ t.ts = e.ts
  BY DEF Trade

\* Costs are no gain, but for the rounding.
LEMMA CostsCost ==
    ASSUME NEW s, s.unit \in Nat \ {0}, s.entry \in Nat, s.side \in {"long", "short"},
           NEW e, e.price \in Int, e.reason # "target" \/ s.side = "long" => e.price \in Nat,
           NEW qty \in Nat, NEW costs \in Costs, NEW t, t = Trade(s, qty, e, costs)
    PROVE  t.net <= Trade(s, qty, e, ZeroCost).net + Rounding(t)
  <1>1. PICK in, out, sold :
            /\ in = Slipped(s.entry, s.unit, s.side, "enter", costs)
            /\ out = IF e.reason = "target" THEN e.price ELSE Slipped(e.price, s.unit, s.side, "exit", costs)
            /\ sold = IF s.side = "long" THEN out ELSE in
            /\ t.net = Gain(s.side, in, out) * qty * Basis
                        - (2 * Commission(qty, costs) * s.unit * Basis
                           + Regulatory(sold * qty, s.unit, qty, costs))
            /\ t.signal = s /\ t.qty = qty
    BY TradeIs
  <1>2. Trade(s, qty, e, ZeroCost).net = Gain(s.side, s.entry, e.price) * qty * Basis
    <2>1. PICK zero : zero = ZeroCost
      OBVIOUS
    <2>2. zero.bps = 0 /\ zero.share = 0 /\ zero.floor = 0 /\ zero.sec = 0 /\ zero.taf = 0
      BY <2>1 DEF ZeroCost
    <2>3. PICK i, o, v :
            /\ i = Slipped(s.entry, s.unit, s.side, "enter", zero)
            /\ o = IF e.reason = "target" THEN e.price ELSE Slipped(e.price, s.unit, s.side, "exit", zero)
            /\ v = IF s.side = "long" THEN o ELSE i
            /\ Trade(s, qty, e, zero).net = Gain(s.side, i, o) * qty * Basis
                        - (2 * Commission(qty, zero) * s.unit * Basis
                           + Regulatory(v * qty, s.unit, qty, zero))
      BY TradeIs
    <2>4. i = s.entry /\ o = e.price /\ v \in Int
      BY <2>2, <2>3 DEF Slipped
    <2>5. Commission(qty, zero) = 0
      BY <2>2 DEF Commission, Larger
    <2>6. Regulatory(v * qty, s.unit, qty, zero) = 0
      BY <2>2, <2>4 DEF Regulatory, Basis
    <2>7. Gain(s.side, i, o) \in Int
      BY <2>4 DEF Gain
    <2>. QED  BY <2>1, <2>3, <2>4, <2>5, <2>6, <2>7 DEF Basis
  <1>3. PICK slack \in Nat : slack = Slack(s.unit)
    BY DEF Slack
  <1>4. Rounding(t) = qty * slack * Basis
    BY <1>1, <1>3 DEF Rounding, Slack, Basis
  <1>5. costs.bps \in Nat /\ costs.share \in Nat /\ costs.floor \in Nat /\ costs.sec \in 0..Basis
        /\ costs.taf \in Nat
    BY DEF Costs
  <1>6. /\ in \in Int
        /\ IF s.side = "long" THEN 2 * s.entry <= 2 * in + slack ELSE 2 * in <= 2 * s.entry + slack
    <2>1. IsBuy(s.side, "enter") = (s.side = "long")
      BY DEF IsBuy
    <2>. QED  BY <1>1, <1>3, <1>5, <2>1, SlippageHurts
  <1>7. /\ out \in Int
        /\ IF s.side = "long" THEN 2 * out <= 2 * e.price + slack ELSE 2 * e.price <= 2 * out + slack
    <2>1. CASE e.reason = "target"
      BY <1>1, <1>3, <2>1
    <2>2. CASE e.reason # "target"
      <3>1. IsBuy(s.side, "exit") = (s.side # "long")
        BY DEF IsBuy
      <3>. QED  BY <1>1, <1>3, <1>5, <2>2, <3>1, SlippageHurts
    <2>. QED  BY <2>1, <2>2
  <1>8. PICK rest \in Nat : rest = 2 * Commission(qty, costs) * s.unit * Basis
                                   + costs.taf * qty * s.unit * Basis
    <2>1. Commission(qty, costs) \in Nat
      BY <1>5, TimesNat DEF Commission, Larger
    <2>2. (Commission(qty, costs) * s.unit) \in Nat /\ costs.taf * qty \in Nat
      BY <1>5, <2>1, TimesNat
    <2>3. (costs.taf * qty) * s.unit \in Nat
      BY <2>2, TimesNat
    <2>4. PICK a \in Nat, b \in Nat : a = Commission(qty, costs) * s.unit /\ b = (costs.taf * qty) * s.unit
      BY <2>2, <2>3
    <2>5. 2 * Commission(qty, costs) * s.unit * Basis + costs.taf * qty * s.unit * Basis
            = 20000 * a + 10000 * b
      BY <1>5, <2>1, <2>4 DEF Basis
    <2>6. 20000 * a + 10000 * b \in Nat
      BY <2>4
    <2>. QED  BY <2>5, <2>6
  <1>9. t.net = Gain(s.side, in, out) * qty * Basis - (rest + sold * qty * costs.sec)
    <2>1. Regulatory(sold * qty, s.unit, qty, costs)
            = (sold * qty) * costs.sec + costs.taf * qty * s.unit * Basis
      BY DEF Regulatory
    <2>2. PICK p, f, g : p = 2 * Commission(qty, costs) * s.unit * Basis
                         /\ f = costs.taf * qty * s.unit * Basis /\ g = (sold * qty) * costs.sec
      OBVIOUS
    <2>3. g \in Int /\ sold * qty * costs.sec = g
      BY <1>1, <1>5, <1>6, <1>7, <2>2
    <2>4. p \in Int /\ f \in Int
      <3>1. Commission(qty, costs) \in Int
        BY <1>5 DEF Commission, Larger
      <3>. QED  BY <1>5, <2>2, <3>1 DEF Basis
    <2>5. p + (g + f) = rest + g
      BY <1>8, <2>2, <2>3, <2>4
    <2>. QED  BY <1>1, <2>1, <2>2, <2>3, <2>5
  <1>10. CASE s.side = "long"
    <2>1. Gain(s.side, in, out) = out - in /\ Gain(s.side, s.entry, e.price) = e.price - s.entry
          /\ sold = out /\ e.price \in Nat
      BY <1>1, <1>10 DEF Gain
    <2>2. (out - in) * qty * Basis - (rest + out * qty * costs.sec)
            <= (e.price - s.entry) * qty * Basis + qty * slack * Basis
      <3>1. PICK sell0 \in Nat, buy0 \in Int : sell0 = e.price /\ buy0 = s.entry
        BY <2>1
      <3>2. 2 * out <= 2 * sell0 + slack /\ 2 * buy0 <= 2 * in + slack
        BY <1>6, <1>7, <1>10, <3>1
      <3>. QED  BY <1>5, <1>6, <1>7, <3>1, <3>2, NetBounded
    <2>. QED  BY <1>2, <1>4, <1>9, <2>1, <2>2
  <1>11. CASE s.side # "long"
    <2>1. Gain(s.side, in, out) = in - out /\ Gain(s.side, s.entry, e.price) = s.entry - e.price
          /\ sold = in
      BY <1>1, <1>11 DEF Gain
    <2>2. (in - out) * qty * Basis - (rest + in * qty * costs.sec)
            <= (s.entry - e.price) * qty * Basis + qty * slack * Basis
      <3>1. PICK sell0 \in Nat, buy0 \in Int : sell0 = s.entry /\ buy0 = e.price
        OBVIOUS
      <3>2. 2 * in <= 2 * sell0 + slack /\ 2 * buy0 <= 2 * out + slack
        BY <1>6, <1>7, <1>11, <3>1
      <3>. QED  BY <1>5, <1>6, <1>7, <3>1, <3>2, NetBounded
    <2>. QED  BY <1>2, <1>4, <1>9, <2>1, <2>2
  <1>. QED  BY <1>10, <1>11

\* What a trade promises, with the bars of its day.
FairTrade(t, bars) ==
    LET s     == t.signal
        ideal == Simulated(s, bars, Equity, ZeroCost)
    IN  /\ t.net <= ideal.net + Rounding(t)
        /\ 100 * t.qty * Distance(s.entry, s.stop) <= Equity * s.unit * Limits.risk
        /\ t.reason = "target" =>
            \A i \in Followups(s, bars) : bars[i].ts <= t.ts => ~HitsStop(s, bars[i])

\* Where the trades of a day come from.
LEMMA TradesOfDay ==
    ASSUME NEW n \in Strategy, NEW W, NEW bars, NEW D, Reel(bars, D), NEW q \in Seq(bars),
           NEW costs, NEW t \in RunDay(n, W, q, Equity, costs)
    PROVE  \E s \in ToSet(Replayed(n, W, q).signals) :
              /\ s \in Signals(W, D) /\ Passes(s, Equity) /\ Followups(s, q) # {}
              /\ t = Simulated(s, q, Equity, costs) /\ t.signal = s
  <1>1. PICK s \in ToSet(Replayed(n, W, q).signals) :
            Passes(s, Equity) /\ Followups(s, q) # {} /\ t = Simulated(s, q, Equity, costs)
    BY DEF RunDay
  <1>2. Replayed(n, W, q) \in Days(n, W, bars, D)
    BY ReplayIsDay
  <1>3. PICK signals : signals = Replayed(n, W, q).signals
    OBVIOUS
  <1>4. signals \in Seq(Signals(W, D))
    BY <1>2, <1>3 DEF Days
  <1>5. s \in Signals(W, D)
    BY <1>1, <1>3, <1>4 DEF ToSet
  <1>6. t.signal = s
    BY <1>1 DEF Simulated, Trade
  <1>. QED  BY <1>1, <1>5, <1>6

LEMMA DayIsFair ==
    ASSUME NEW n \in Strategy, NEW W, NEW bars, NEW D, Reel(bars, D), NEW q \in Seq(bars),
           Chronological(q), NEW costs \in Costs, NEW t \in RunDay(n, W, q, Equity, costs)
    PROVE  FairTrade(t, q)
  <1>1. PICK s \in Signals(W, D) : /\ Passes(s, Equity) /\ Followups(s, q) # {}
                                   /\ t = Simulated(s, q, Equity, costs) /\ t.signal = s
    BY TradesOfDay
  <1>2. s.unit \in Nat \ {0} /\ s.entry \in Nat /\ s.stop \in Int /\ s.target \in Int
        /\ s.side \in {"long", "short"}
    BY DEF Signals
  <1>3. PICK e, qty : e = ExitOf(s, q) /\ qty = Shares(s, Flat(Equity, s.unit), Limits)
    OBVIOUS
  <1>4. t = Trade(s, qty, e, costs) /\ Simulated(s, q, Equity, ZeroCost) = Trade(s, qty, e, ZeroCost)
    BY <1>1, <1>3 DEF Simulated
  <1>5. /\ qty \in Nat \ {0} /\ s.stop > 0
        /\ 100 * qty * Distance(s.entry, s.stop) <= Equity * s.unit * Limits.risk
        /\ s.side = "long" => s.target > s.entry
    BY <1>1, <1>2, <1>3, PassedShares
  <1>6. \/ e.reason = "stop" /\ e.price = s.stop
        \/ e.reason = "eod" /\ e.price \in Nat
        \/ /\ e.reason = "target" /\ e.price = s.target
           /\ \A i \in Followups(s, q) : q[i].ts <= e.ts => ~HitsStop(s, q[i])
    BY <1>1, <1>2, <1>3, ExitIs
  <1>7. e.price \in Int /\ (e.reason # "target" \/ s.side = "long" => e.price \in Nat)
    BY <1>2, <1>5, <1>6
  <1>8. t.net <= Trade(s, qty, e, ZeroCost).net + Rounding(t)
    BY <1>2, <1>4, <1>5, <1>7, CostsCost
  <1>9. t.qty = qty /\ t.reason = e.reason /\ t.ts = e.ts
    BY <1>4, TradeIs
  <1>. QED  BY <1>1, <1>4, <1>5, <1>6, <1>8, <1>9 DEF FairTrade

\* A tape of a day in order of time.
LEMMA TapeIsReel ==
    ASSUME NEW d \in Nat, NEW q \in Seq(Tape(Symbols, {d})), Chronological(q)
    PROVE  Reel(ToSet(q), {d}) /\ q \in Seq(ToSet(q))
  <1>1. DOMAIN q = 1..Len(q) /\ Len(q) \in Nat /\ \A i \in DOMAIN q : q[i] \in Tape(Symbols, {d})
    OBVIOUS
  <1>2. ToSet(q) \subseteq Tape(Symbols, {d}) /\ q \in Seq(ToSet(q))
    <2>1. CASE q = <<>>
      BY <2>1 DEF ToSet
    <2>2. CASE q # <<>>
      <3>1. q[1] \in Tape(Symbols, {d})
        BY <1>1, <2>2
      <3>. QED  BY <3>1, SeqElements
    <2>. QED  BY <2>1, <2>2
  <1>3. Keyed(ToSet(q))
    <2>. SUFFICES ASSUME NEW a \in ToSet(q), NEW b \in ToSet(q), a.symbol = b.symbol, a.ts = b.ts
                  PROVE  a = b
      BY DEF Keyed
    <2>1. PICK i \in DOMAIN q, j \in DOMAIN q : a = q[i] /\ b = q[j]
      BY DEF ToSet
    <2>2. ~(a.ts < b.ts) /\ ~(b.ts < a.ts)
      <3>1. a.ts \in Nat
        BY <1>2 DEF Tape
      <3>. QED  BY <3>1
    <2>3. ~(i < j) /\ ~(j < i)
      BY <2>1, <2>2 DEF Chronological
    <2>4. i = j
      BY <1>1, <2>3
    <2>. QED  BY <2>1, <2>4
  <1>. QED  BY <1>2, <1>3 DEF Reel

\* The day as the data service has it.
Chronicle == Chronological(market)

LEMMA DayOfBars ==
    ASSUME Typed, Chronicle, NEW d, BarsOf(d) # <<>>
    PROVE  /\ d \in Nat /\ Reel(ToSet(BarsOf(d)), {d})
           /\ BarsOf(d) \in Seq(ToSet(BarsOf(d))) /\ Chronological(BarsOf(d))
  <1>1. PICK q : q = BarsOf(d)
    OBVIOUS
  <1>2. d \in Nat /\ q \in Seq(Tape(Symbols, {d})) /\ Chronological(q)
    <2>1. CASE d = Today
      <3>1. Bars \subseteq Tape(Symbols, {Today})
        BY DEF Bars, Tape, Symbols
      <3>2. market \in Seq(Tape(Symbols, {Today})) /\ Today \in Nat
        <4>1. market \in Seq(Bars)
          BY DEF Typed, TypeOK
        <4>2. PICK T, S, r : T = Tape(Symbols, {Today}) /\ S = Bars /\ r = market
          OBVIOUS
        <4>3. r \in Seq(S) /\ S \subseteq T
          BY <3>1, <4>1, <4>2
        <4>4. r \in Seq(T)
          BY <4>3
        <4>. QED  BY <4>2, <4>4, SessionAssumption
      <3>. QED  BY <1>1, <2>1, <3>2 DEF BarsOf, Chronicle
    <2>2. CASE d # Today
      <3>1. d \in DOMAIN Archive /\ q = Archive[d]
        BY <1>1, <2>2 DEF BarsOf
      <3>2. d \in Nat
        BY <3>1, SessionAssumption
      <3>. QED  BY <3>1, <3>2, SessionAssumption
    <2>. QED  BY <2>1, <2>2
  <1>. QED  BY <1>1, <1>2, TapeIsReel

\* Where the trades of a run come from.
LEMMA TradesOfRun ==
    ASSUME Typed, Chronicle, NEW n \in Strategy, NEW W, NEW days, NEW costs,
           NEW t \in TradesOf(n, W, days, costs)
    PROVE  \E d \in ToSet(days) :
              /\ BarsOf(d) # <<>> /\ t \in RunDay(n, W, BarsOf(d), Equity, costs)
              /\ t.signal.day = d
  <1>1. PICK d \in ToSet(days) : t \in RunDay(n, W, BarsOf(d), Equity, costs)
    BY DEF TradesOf
  <1>2. PICK q : q = BarsOf(d)
    OBVIOUS
  <1>3. q # <<>>
    <2>1. \A s : q = <<>> => Followups(s, q) = {}
      BY DEF Followups
    <2>. QED  BY <1>1, <1>2, <2>1 DEF RunDay
  <1>4. Reel(ToSet(q), {d}) /\ q \in Seq(ToSet(q))
    BY <1>2, <1>3, DayOfBars
  <1>5. t.signal \in Signals(W, {d})
    BY <1>1, <1>2, <1>4, TradesOfDay
  <1>. QED  BY <1>1, <1>2, <1>3, <1>5 DEF Signals

HonestRun(run) == \A t \in run.trades : FairTrade(t, BarsOf(t.signal.day))

LEMMA RunIsHonest ==
    ASSUME Typed, Chronicle, NEW mode, NEW n \in Strategy, NEW W, NEW days, NEW costs \in Costs, NEW k
    PROVE  HonestRun(Run(mode, n, W, days, costs, k))
  <1>. SUFFICES ASSUME NEW t \in TradesOf(n, W, days, costs) PROVE FairTrade(t, BarsOf(t.signal.day))
    BY DEF HonestRun, Run
  <1>1. PICK d : /\ BarsOf(d) # <<>> /\ t \in RunDay(n, W, BarsOf(d), Equity, costs)
                 /\ t.signal.day = d
    BY TradesOfRun
  <1>2. PICK q : q = BarsOf(d)
    OBVIOUS
  <1>3. Reel(ToSet(q), {d}) /\ q \in Seq(ToSet(q)) /\ Chronological(q)
    BY <1>1, <1>2, DayOfBars
  <1>. QED  BY <1>1, <1>2, <1>3, DayIsFair

LEMMA MarketGoesOn ==
    ASSUME Typed, Chronicle, [Next]_vars
    PROVE  Chronicle' /\ (saved # {} => market' = market)
  <1>1. ASSUME NEW x \in Traded, NEW t \in Minutes, NEW shape \in Shapes, BarCloses(x, t, shape)
        PROVE  Chronicle' /\ saved = {}
    <2>1. PICK bar : bar = [symbol |-> x, day |-> Today, ts |-> t, high |-> shape.high,
                            low |-> shape.low, close |-> shape.close, vol |-> shape.vol]
      OBVIOUS
    <2>2. PICK more : more = market'
      OBVIOUS
    <2>3. more = Append(market, bar) /\ saved = {} /\ bar.symbol = x /\ bar.ts = t
          /\ \A b \in ToSet(market) : b.ts < t \/ (b.ts = t /\ b.symbol # x)
      BY <1>1, <2>1, <2>2 DEF BarCloses
    <2>4. PICK m \in Nat : m = Len(market)
      BY DEF Typed, TypeOK
    <2>5. /\ DOMAIN market = 1..m /\ DOMAIN more = 1..(m + 1) /\ more[m + 1] = bar
          /\ \A i \in 1..m : more[i] = market[i]
      BY <2>3, <2>4 DEF Typed, TypeOK
    <2>6. \A i \in 1..m : market[i].symbol = x => market[i].ts < t
      BY <2>3, <2>5 DEF ToSet
    <2>7. Chronological(more)
      <3>. SUFFICES ASSUME NEW i \in 1..(m + 1), NEW j \in 1..(m + 1), i < j, more[i].symbol = more[j].symbol
                    PROVE  more[i].ts < more[j].ts
        BY <2>5 DEF Chronological
      <3>1. CASE j = m + 1
        BY <2>3, <2>5, <2>6, <3>1
      <3>2. CASE j # m + 1
        BY <2>5, <3>2 DEF Chronicle, Chronological
      <3>. QED  BY <3>1, <3>2
    <2>. QED  BY <2>2, <2>3, <2>7 DEF Chronicle
  <1>2. ASSUME market' = market PROVE Chronicle'
    BY <1>2 DEF Chronicle
  <1>3. market' = market \/ \E x \in Traded, t \in Minutes, shape \in Shapes : BarCloses(x, t, shape)
    BY DEF Next, Lost, ShadowStores, Arrives, ArrivesEarly, ArrivesAgain, Consult, Crash, Restart,
           ReplayScript, BacktestScript, CompareScript, Evening, vars
  <1>. QED  BY <1>1, <1>2, <1>3

\* A run that a script saves.
Scripted(run) ==
    \E mode \in {"idealistic", "honest"}, n \in Strategy, W \in {Watchlist, Static}, days \in Spans,
       costs \in Costs : \E k \in (Nat \ {0}) \union {Len(days)} : run = Run(mode, n, W, days, costs, k)

LEMMA ScriptsSave ==
    ASSUME Typed, EveningRuns
    PROVE  /\ \A run \in saved' : Scripted(run) /\ run.trades # {}
           /\ saved = {} /\ wire = <<>> /\ hand = NoBar
           /\ UNCHANGED <<name, market, wire, runner, history>>
  <1>1. name \in Strategy
    BY Known
  <1>2. ZeroCost \in Costs /\ CostModels \subseteq Costs
    BY SessionAssumption DEF Costs, ZeroCost, Basis
  <1>3. ASSUME ReplayScript, NEW run \in saved' PROVE Scripted(run) /\ run.trades # {}
    <2>1. PICK days \in Spans : saved' = {r \in {Run("idealistic", name, Static, days, ZeroCost, Len(days))} :
                                             r.trades # {}}
      BY <1>3 DEF ReplayScript, Save
    <2>2. run = Run("idealistic", name, Static, days, ZeroCost, Len(days)) /\ run.trades # {}
      BY <2>1
    <2>3. Len(days) \in (Nat \ {0}) \union {Len(days)}
      OBVIOUS
    <2>. QED  BY <1>1, <1>2, <2>2, <2>3 DEF Scripted
  <1>4. ASSUME BacktestScript, NEW run \in saved' PROVE Scripted(run) /\ run.trades # {}
    <2>1. PICK days \in Spans, symbols \in {Watchlist, Static}, costs \in CostModels, n \in WindowSizes :
            saved' = {r \in {Run("honest", name, symbols, days, costs, n)} : r.trades # {}}
      BY <1>4 DEF BacktestScript, Save
    <2>2. run = Run("honest", name, symbols, days, costs, n) /\ run.trades # {}
      BY <2>1
    <2>3. n \in (Nat \ {0}) \union {Len(days)} /\ costs \in Costs
      BY <1>2, SessionAssumption
    <2>. QED  BY <1>1, <2>2, <2>3 DEF Scripted
  <1>5. ASSUME CompareScript, NEW run \in saved' PROVE Scripted(run) /\ run.trades # {}
    <2>1. PICK days \in Spans, costs \in CostModels, chosen \in SUBSET Strategy \ {{}} :
            saved' = {r \in {Run("honest", strategy, Static, days, costs, Len(days)) : strategy \in chosen} :
                        r.trades # {}}
      BY <1>5 DEF CompareScript, Save
    <2>2. PICK n \in Strategy : run = Run("honest", n, Static, days, costs, Len(days)) /\ run.trades # {}
      BY <2>1
    <2>3. Len(days) \in (Nat \ {0}) \union {Len(days)} /\ costs \in Costs
      BY <1>2
    <2>. QED  BY <2>2, <2>3 DEF Scripted
  <1>. QED  BY <1>3, <1>4, <1>5 DEF EveningRuns, ReplayScript, BacktestScript, CompareScript, Evening

\* Only a script saves.
LEMMA SavedStays ==
    ASSUME [Next]_vars, ~EveningRuns
    PROVE  saved' = saved
  BY DEF Next, BarCloses, Lost, ShadowStores, Arrives, ArrivesEarly, ArrivesAgain, Consult, Crash, Restart,
         EveningRuns, vars

LEMMA BarsStay ==
    ASSUME market' = market
    PROVE  \A d : BarsOf(d)' = BarsOf(d)
  BY DEF BarsOf

LEMMA HonestStep == Typed /\ Chronicle /\ TradesHonest /\ [Next]_vars => TradesHonest'
  <1>. SUFFICES ASSUME Typed, Chronicle, TradesHonest, [Next]_vars PROVE TradesHonest'
    OBVIOUS
  <1>1. TradesHonest <=> \A run \in saved : HonestRun(run)
    BY DEF TradesHonest, HonestRun, FairTrade
  <1>2. TradesHonest' <=> \A run \in saved' : HonestRun(run)'
    BY DEF TradesHonest, HonestRun, FairTrade
  <1>3. ASSUME market' = market, NEW run, HonestRun(run) PROVE HonestRun(run)'
    BY <1>3, BarsStay DEF HonestRun
  <1>4. CASE EveningRuns
    <2>1. market' = market /\ \A run \in saved' : Scripted(run)
      BY <1>4, ScriptsSave
    <2>2. \A run \in saved' : HonestRun(run)
      BY <2>1, RunIsHonest DEF Scripted
    <2>. QED  BY <1>2, <1>3, <2>1, <2>2
  <1>5. CASE ~EveningRuns
    <2>1. saved' = saved
      BY <1>5, SavedStays
    <2>2. CASE saved = {}
      BY <1>2, <2>1, <2>2
    <2>3. CASE saved # {}
      <3>1. market' = market
        BY <2>3, MarketGoesOn
      <3>. QED  BY <1>1, <1>2, <1>3, <2>1, <3>1
    <2>. QED  BY <2>2, <2>3
  <1>. QED  BY <1>4, <1>5

\* Costs never help a trade but for the rounding, no trade plans to lose more than the risk
\* limit, and a target is not booked past a stop: costs.py, sizing.py and simulator.py, for
\* any strategy, bars, cost models and limits.
THEOREM TradesAreHonest == Spec => []TradesHonest
  <1>1. Init => Typed /\ Chronicle /\ TradesHonest
    BY InitTyped DEF Init, Chronicle, Chronological, TradesHonest
  <1>2. Typed /\ Chronicle /\ TradesHonest /\ [Next]_vars => Typed' /\ Chronicle' /\ TradesHonest'
    BY StepTyped, MarketGoesOn, HonestStep
  <1>. QED  BY <1>1, <1>2, PTL DEF Spec

-----------------------------------------------------------------------------
(* The evening agrees with the day.                                        *)

\* The recursive function in TradingDaysBack.
IsBack(b, end, n) ==
    b = [d \in 0..end |->
            [k \in 0..n |-> IF k = 0 \/ (d = 0 /\ ~TradingDay(d)) THEN <<>>
                            ELSE IF ~TradingDay(d) THEN b[d - 1][k]
                            ELSE Append(IF d = 0 THEN <<>> ELSE b[d - 1][k - 1], d)]]
BackTable(end, n) == CHOOSE b : IsBack(b, end, n)

LEMMA BackIsTable ==
    ASSUME NEW end, NEW n PROVE TradingDaysBack(end, n) = BackTable(end, n)[end][n]
  BY Zenon DEF TradingDaysBack, BackTable, IsBack

\* There is such a function, for every date.
LEMMA BackExists ==
    ASSUME NEW end \in Nat, NEW n \in Nat PROVE IsBack(BackTable(end, n), end, n)
  <1>. DEFINE Row(b, d) == [k \in 0..n |-> IF k = 0 \/ (d = 0 /\ ~TradingDay(d)) THEN <<>>
                            ELSE IF ~TradingDay(d) THEN b[d - 1][k]
                            ELSE Append(IF d = 0 THEN <<>> ELSE b[d - 1][k - 1], d)]
              T == {m \in Nat : \E b : IsBack(b, m, n)}
  <1>1. \A b, m : IsBack(b, m, n) <=> b = [d \in 0..m |-> Row(b, d)]
    BY DEF IsBack
  <1>2. \A b, c, d : (d # 0 => b[d - 1] = c[d - 1]) => Row(b, d) = Row(c, d)
    OBVIOUS
  <1>. HIDE DEF Row
  <1>3. 0 \in T
    <2>. DEFINE b == [d \in 0..0 |-> Row(<<>>, d)]
    <2>1. \A d \in 0..0 : Row(b, d) = Row(<<>>, d)
      BY <1>2
    <2>2. b = [d \in 0..0 |-> Row(b, d)]
      BY <2>1
    <2>. HIDE DEF b
    <2>3. IsBack(b, 0, n)
      BY <1>1, <2>2
    <2>. QED  BY <2>3
  <1>4. ASSUME NEW m \in Nat, m \in T PROVE m + 1 \in T
    <2>1. PICK b : IsBack(b, m, n)
      BY <1>4
    <2>2. b = [d \in 0..m |-> Row(b, d)]
      BY <1>1, <2>1
    <2>. DEFINE c == [d \in 0..(m + 1) |-> IF d = m + 1 THEN Row(b, d) ELSE b[d]]
    <2>3. (\A d \in 0..m : c[d] = b[d]) /\ c[m + 1] = Row(b, m + 1) /\ DOMAIN c = 0..(m + 1)
      OBVIOUS
    <2>4. c = [d \in 0..(m + 1) |-> c[d]]
      OBVIOUS
    <2>. HIDE DEF c
    <2>5. ASSUME NEW d \in 0..(m + 1) PROVE c[d] = Row(c, d)
      <3>1. d # 0 => b[d - 1] = c[d - 1]
        BY <2>3
      <3>2. Row(b, d) = Row(c, d)
        BY <1>2, <3>1
      <3>3. CASE d = m + 1
        BY <2>3, <3>2, <3>3
      <3>4. CASE d # m + 1
        <4>1. d \in 0..m
          BY <3>4
        <4>2. b[d] = Row(b, d)
          BY <2>2, <4>1
        <4>. QED  BY <2>3, <3>2, <4>1, <4>2
      <3>. QED  BY <3>3, <3>4
    <2>6. c = [d \in 0..(m + 1) |-> Row(c, d)]
      BY <2>4, <2>5
    <2>7. IsBack(c, m + 1, n)
      BY <1>1, <2>6
    <2>. QED  BY <2>7
  <1>. HIDE DEF T
  <1>5. Nat \subseteq T
    BY <1>3, <1>4, NatSetInduction
  <1>6. \E b : IsBack(b, end, n)
    BY <1>5 DEF T
  <1>. QED  BY <1>6, Zenon DEF BackTable

\* Days up to one, oldest first.
Calendar(days, d) ==
    /\ days \in Seq(0..d)
    /\ \A i, j \in 1..Len(days) : i < j => days[i] < days[j]

LEMMA DayAdded ==
    ASSUME NEW d \in Nat, NEW days, NEW e, days = <<>> \/ (d # 0 /\ Calendar(days, d - 1)), e = Append(days, d)
    PROVE  Calendar(e, d)
  <1>1. days \in Seq(0..d) /\ d \in 0..d
    <2>1. CASE days = <<>>
      BY <2>1
    <2>2. CASE days # <<>>
      <3>1. days \in Seq(0..(d - 1)) /\ 0..(d - 1) \subseteq 0..d
        BY <2>2 DEF Calendar
      <3>. QED  BY <3>1
    <2>. QED  BY <2>1, <2>2
  <1>2. PICK n \in Nat : n = Len(days)
    BY <1>1
  <1>3. /\ e \in Seq(0..d) /\ Len(e) = n + 1 /\ e[n + 1] = d
        /\ \A i \in 1..n : e[i] = days[i] /\ days[i] \in 0..d
    BY <1>1, <1>2
  <1>4. \A i \in 1..n : days[i] < d
    <2>1. CASE days = <<>>
      BY <1>2, <2>1
    <2>2. CASE days # <<>>
      <3>1. \A i \in 1..n : days[i] \in 0..(d - 1)
        BY <1>2, <2>2 DEF Calendar
      <3>. QED  BY <3>1
    <2>. QED  BY <2>1, <2>2
  <1>5. \A i, j \in 1..n : i < j => days[i] < days[j]
    BY <1>2 DEF Calendar
  <1>6. ASSUME NEW i \in 1..(n + 1), NEW j \in 1..(n + 1), i < j PROVE e[i] < e[j]
    <2>1. i \in 1..n
      BY <1>6
    <2>2. CASE j = n + 1
      BY <1>3, <1>4, <2>1, <2>2
    <2>3. CASE j # n + 1
      <3>1. j \in 1..n
        BY <2>3
      <3>2. days[i] < days[j]
        BY <1>5, <1>6, <2>1, <3>1
      <3>. QED  BY <1>3, <2>1, <3>1, <3>2
    <2>. QED  BY <2>2, <2>3
  <1>. QED  BY <1>3, <1>6 DEF Calendar

LEMMA CalendarGrows ==
    ASSUME NEW d \in Nat, d # 0, NEW days, Calendar(days, d - 1) PROVE Calendar(days, d)
  <1>1. 0..(d - 1) \subseteq 0..d
    OBVIOUS
  <1>2. days \in Seq(0..d)
    BY <1>1 DEF Calendar
  <1>. QED  BY <1>2 DEF Calendar

\* trading_days_back gives days in their order, none twice.
LEMMA DaysAscend ==
    ASSUME NEW end \in Nat, NEW n \in Nat PROVE Calendar(TradingDaysBack(end, n), end)
  <1>1. PICK b : b = BackTable(end, n)
    OBVIOUS
  <1>2. \A d \in 0..end, k \in 0..n :
            b[d][k] = IF k = 0 \/ (d = 0 /\ ~TradingDay(d)) THEN <<>>
                      ELSE IF ~TradingDay(d) THEN b[d - 1][k]
                      ELSE Append(IF d = 0 THEN <<>> ELSE b[d - 1][k - 1], d)
    <2>1. IsBack(b, end, n)
      BY <1>1, BackExists
    <2>2. ASSUME NEW d \in 0..end
          PROVE  b[d] = [k \in 0..n |-> IF k = 0 \/ (d = 0 /\ ~TradingDay(d)) THEN <<>>
                            ELSE IF ~TradingDay(d) THEN b[d - 1][k]
                            ELSE Append(IF d = 0 THEN <<>> ELSE b[d - 1][k - 1], d)]
      BY <2>1, Zenon DEF IsBack
    <2>. QED  BY <2>2
  <1>. DEFINE T == {d \in Nat : d <= end => \A k \in 0..n : Calendar(b[d][k], d)}
  <1>3. \A d : Calendar(<<>>, d)
    BY DEF Calendar
  <1>4. 0 \in T
    <2>. SUFFICES ASSUME NEW k \in 0..n PROVE Calendar(b[0][k], 0)
      OBVIOUS
    <2>1. PICK z \in 0..end : z = 0
      OBVIOUS
    <2>2. b[z][k] = IF k = 0 \/ ~TradingDay(z) THEN <<>> ELSE Append(<<>>, z)
      BY <1>2, <2>1
    <2>. QED  BY <1>3, <2>1, <2>2, DayAdded
  <1>5. ASSUME NEW d \in Nat, d \in T PROVE d + 1 \in T
    <2>. SUFFICES ASSUME d + 1 <= end, NEW k \in 0..n PROVE Calendar(b[d + 1][k], d + 1)
      OBVIOUS
    <2>1. \A m \in 0..n : Calendar(b[d][m], d)
      BY <1>5
    <2>2. PICK e \in Nat : e = d + 1 /\ e # 0 /\ e - 1 = d /\ e \in 0..end
      OBVIOUS
    <2>3. b[e][k] = IF k = 0 THEN <<>> ELSE IF ~TradingDay(e) THEN b[d][k] ELSE Append(b[d][k - 1], e)
      BY <1>2, <2>2
    <2>4. CASE k = 0
      BY <1>3, <2>2, <2>3, <2>4
    <2>5. CASE k # 0 /\ ~TradingDay(e)
      BY <2>1, <2>2, <2>3, <2>5, CalendarGrows
    <2>6. CASE k # 0 /\ TradingDay(e)
      <3>1. k - 1 \in 0..n
        BY <2>6
      <3>. QED  BY <2>1, <2>2, <2>3, <2>6, <3>1, DayAdded
    <2>. QED  BY <2>4, <2>5, <2>6
  <1>. HIDE DEF T
  <1>6. Nat \subseteq T
    BY <1>4, <1>5, NatSetInduction
  <1>7. end \in T
    BY <1>6
  <1>. QED  BY <1>1, <1>7, BackIsTable DEF T

\* The trades of a run are finitely many.
LEMMA TradesFinite ==
    ASSUME Typed, Chronicle, NEW n \in Strategy, NEW W, NEW d, NEW days \in Seq(0..d), NEW costs
    PROVE  IsFiniteSet(TradesOf(n, W, days, costs))
  <1>1. ASSUME NEW e PROVE IsFiniteSet(RunDay(n, W, BarsOf(e), Equity, costs))
    <2>1. PICK q : q = BarsOf(e)
      OBVIOUS
    <2>2. CASE q = <<>>
      <3>1. \A s : Followups(s, q) = {}
        BY <2>2 DEF Followups
      <3>2. RunDay(n, W, q, Equity, costs) = {}
        BY <3>1 DEF RunDay
      <3>. QED  BY <2>1, <3>2, FS_EmptySet
    <2>3. CASE q # <<>>
      <3>1. Reel(ToSet(q), {e}) /\ q \in Seq(ToSet(q))
        BY <2>1, <2>3, DayOfBars
      <3>2. PICK signals : signals = Replayed(n, W, q).signals
        OBVIOUS
      <3>3. signals \in Seq(Signals(W, {e}))
        BY <3>1, <3>2, ReplayIsDay DEF Days
      <3>4. IsFiniteSet(ToSet(signals))
        <4>1. IsFiniteSet(1..Len(signals)) /\ DOMAIN signals = 1..Len(signals)
          BY <3>3, FS_Interval
        <4>2. ToSet(signals) = {signals[i] : i \in 1..Len(signals)}
          BY <4>1 DEF ToSet
        <4>. QED  BY <4>1, <4>2, ImageFinite
      <3>. DEFINE taken == {s \in ToSet(signals) : Passes(s, Equity) /\ Followups(s, q) # {}}
                  made == [s \in taken |-> Simulated(s, q, Equity, costs)]
      <3>5. IsFiniteSet(taken)
        BY <3>4, FS_Subset
      <3>6. RunDay(n, W, q, Equity, costs) = {made[s] : s \in taken}
        BY <3>2 DEF RunDay
      <3>. HIDE DEF made, taken
      <3>. QED  BY <2>1, <3>5, <3>6, ImageFinite
    <2>. QED  BY <2>2, <2>3
  <1>. DEFINE of == [e \in ToSet(days) |-> RunDay(n, W, BarsOf(e), Equity, costs)]
              sets == {of[e] : e \in ToSet(days)}
  <1>2. IsFiniteSet(ToSet(days))
    <2>1. IsFiniteSet(1..Len(days)) /\ DOMAIN days = 1..Len(days)
      BY FS_Interval
    <2>2. ToSet(days) = {days[i] : i \in 1..Len(days)}
      BY <2>1 DEF ToSet
    <2>. QED  BY <2>1, <2>2, ImageFinite
  <1>3. IsFiniteSet(sets)
    <2>. HIDE DEF of
    <2>. QED  BY <1>2, ImageFinite
  <1>4. \A T \in sets : IsFiniteSet(T)
    BY <1>1
  <1>5. TradesOf(n, W, days, costs) = UNION sets
    BY DEF TradesOf
  <1>. HIDE DEF sets
  <1>. QED  BY <1>3, <1>4, <1>5, FS_UNION

\* Things that each fall into one of some places: place by place they are all of them.
Fallen(T, p, K) == {t \in T : p[t] \in K}

LEMMA PlacesAddUp ==
    ASSUME NEW T, IsFiniteSet(T), NEW m \in Nat, NEW p, \A t \in T : p[t] \in 1..m,
           NEW f, \A i \in 1..m : f[i] = Cardinality(Fallen(T, p, {i}))
    PROVE  SumFunctionOnSet(f, 1..m) = Cardinality(T)
  <1>1. ASSUME NEW K PROVE IsFiniteSet(Fallen(T, p, K)) /\ Cardinality(Fallen(T, p, K)) \in Nat
    <2>1. IsFiniteSet(Fallen(T, p, K))
      BY FS_Subset DEF Fallen
    <2>. QED  BY <2>1, FS_CardinalityType
  <1>2. ASSUME NEW i \in 1..m PROVE f[i] \in Int
    <2>1. f[i] = Cardinality(Fallen(T, p, {i}))
      OBVIOUS
    <2>2. Cardinality(Fallen(T, p, {i})) \in Nat
      BY <1>1
    <2>. QED  BY <2>1, <2>2
  <1>. DEFINE U == {k \in Nat : k <= m => SumFunctionOnSet(f, 1..k) = Cardinality(Fallen(T, p, 1..k))}
  <1>3. 0 \in U
    <2>1. 1..0 = {} /\ Fallen(T, p, {}) = {} /\ Cardinality({}) = 0
      BY FS_EmptySet DEF Fallen
    <2>2. SumFunctionOnSet(f, {}) = 0
      BY SumEmpty
    <2>. QED  BY <2>1, <2>2
  <1>4. ASSUME NEW k \in Nat, k \in U PROVE k + 1 \in U
    <2>. SUFFICES ASSUME k + 1 <= m PROVE SumFunctionOnSet(f, 1..(k + 1)) = Cardinality(Fallen(T, p, 1..(k + 1)))
      OBVIOUS
    <2>1. PICK S, a : S = 1..k /\ a = k + 1
      OBVIOUS
    <2>2. S \union {a} = 1..(k + 1) /\ a \notin S /\ IsFiniteSet(S) /\ a \in 1..m /\ S \subseteq 1..m
      <3>1. IsFiniteSet(S)
        BY <2>1, FS_Interval
      <3>2. S \union {a} = 1..(k + 1) /\ a \notin S /\ a \in 1..m /\ S \subseteq 1..m
        BY <2>1
      <3>. QED  BY <3>1, <3>2
    <2>3. Whole(f, S \union {a})
      BY <1>2, <2>2 DEF Whole
    <2>4. SumFunctionOnSet(f, S \union {a}) = SumFunctionOnSet(f, S) + f[a]
      BY <2>2, <2>3, SumAdd
    <2>5. PICK A, B : A = Fallen(T, p, S) /\ B = Fallen(T, p, {a})
      OBVIOUS
    <2>6. Fallen(T, p, S \union {a}) = A \union B /\ A \intersect B = {}
      BY <2>2, <2>5 DEF Fallen
    <2>7. IsFiniteSet(A) /\ IsFiniteSet(B) /\ Cardinality(A) \in Nat /\ Cardinality(B) \in Nat
      BY <1>1, <2>5
    <2>8. Cardinality(A \union B) = Cardinality(A) + Cardinality(B) - Cardinality({})
      BY <2>6, <2>7, FS_Union
    <2>9. Cardinality(A \union B) = Cardinality(A) + Cardinality(B)
      BY <2>7, <2>8, FS_EmptySet
    <2>10. SumFunctionOnSet(f, S) = Cardinality(A) /\ f[a] = Cardinality(B)
      BY <1>4, <2>1, <2>2, <2>5
    <2>. QED  BY <2>2, <2>4, <2>5, <2>6, <2>9, <2>10
  <1>. HIDE DEF U
  <1>5. Nat \subseteq U
    BY <1>3, <1>4, NatSetInduction
  <1>6. m \in U
    BY <1>5
  <1>7. Fallen(T, p, 1..m) = T
    BY DEF Fallen
  <1>. QED  BY <1>6, <1>7 DEF U

\* Every day of a span falls into just one of its windows.
Place(j, i, n) == n * (i - 1) + 1 <= j /\ j <= n * i

LEMMA PlaceIsOne ==
    ASSUME NEW n \in Nat \ {0}, NEW len \in Nat, NEW m, m = (len + n - 1) \div n
    PROVE  /\ m \in Nat
           /\ \A i \in 1..m : n * (i - 1) + 1 <= len
           /\ \A j \in 1..len : \E i \in 1..m : Place(j, i, n)
           /\ \A i, k \in 1..m : \A j \in 1..len : Place(j, i, n) /\ Place(j, k, n) => i = k
  <1>1. PICK e \in Nat : e = len + n - 1
    OBVIOUS
  <1>2. m \in Nat /\ n * m <= e /\ e < n * m + n
    <2>1. m = e \div n
      BY <1>1
    <2>. QED  BY <1>1, <2>1
  <1>3. ASSUME NEW a \in Nat, NEW b \in Nat, a < b PROVE n * a + n <= n * b
    <2>1. PICK c \in Nat : b = a + 1 + c
      <3>1. b - a - 1 \in Nat /\ b = a + 1 + (b - a - 1)
        BY <1>3
      <3>. QED  BY <3>1
    <2>2. n * c \in Nat
      BY TimesNat
    <2>3. n * b = n * a + n + n * c
      BY <2>1
    <2>. QED  BY <2>2, <2>3
  <1>4. ASSUME NEW i \in 1..m PROVE n * (i - 1) + 1 <= len
    <2>1. i - 1 \in Nat /\ m \in Nat /\ i - 1 < m
      BY <1>2
    <2>2. n * (i - 1) + n <= n * m
      BY <1>3, <2>1
    <2>3. PICK x \in Int, y \in Int : x = n * (i - 1) /\ y = n * m
      BY <1>2
    <2>4. x + n <= y /\ y <= len + n - 1
      BY <1>1, <1>2, <2>2, <2>3
    <2>. QED  BY <2>3, <2>4
  <1>5. ASSUME NEW j \in 1..len PROVE \E i \in 1..m : Place(j, i, n)
    <2>1. PICK h \in Nat : h = j - 1
      OBVIOUS
    <2>2. PICK r \in Nat : r = h \div n /\ n * r <= h /\ h < n * r + n
      <3>1. h \div n \in Nat /\ n * (h \div n) <= h /\ h < n * (h \div n) + n
        BY <2>1
      <3>. QED  BY <3>1
    <2>3. r < m
      <3>. SUFFICES ASSUME ~(r < m) PROVE FALSE
        OBVIOUS
      <3>1. r = m \/ m < r
        BY <1>2, <2>2
      <3>2. n * m <= n * r
        <4>1. CASE r = m
          BY <1>2, <4>1
        <4>2. CASE m < r
          <5>1. n * m + n <= n * r
            BY <1>2, <1>3, <2>2, <4>2
          <5>. QED  BY <1>2, <2>2, <5>1
        <4>. QED  BY <3>1, <4>1, <4>2
      <3>3. PICK x \in Int, y \in Int : x = n * m /\ y = n * r
        BY <1>2, <2>2
      <3>4. x <= y /\ y <= h /\ len + n - 1 < x + n /\ h <= len - 1
        BY <1>1, <1>2, <2>1, <2>2, <3>2, <3>3
      <3>. QED  BY <3>3, <3>4
    <2>4. PICK i \in 1..m : i = r + 1
      BY <1>2, <2>2, <2>3
    <2>5. n * (i - 1) = n * r /\ n * i = n * r + n
      BY <2>2, <2>4
    <2>6. Place(j, i, n)
      <3>1. PICK y \in Int : y = n * r
        BY <2>2
      <3>. QED  BY <2>1, <2>2, <2>5, <3>1 DEF Place
    <2>. QED  BY <2>6
  <1>6. ASSUME NEW i \in 1..m, NEW k \in 1..m, NEW j \in 1..len, Place(j, i, n), Place(j, k, n), i < k
        PROVE  FALSE
    <2>1. i \in Nat /\ k - 1 \in Nat /\ i <= k - 1
      BY <1>2, <1>6
    <2>2. n * i <= n * (k - 1)
      <3>1. CASE i = k - 1
        BY <2>1, <3>1
      <3>2. CASE i < k - 1
        <4>1. n * i + n <= n * (k - 1)
          BY <1>3, <2>1, <3>2
        <4>. QED  BY <2>1, <4>1
      <3>. QED  BY <2>1, <3>1, <3>2
    <2>3. PICK x \in Int, y \in Int : x = n * i /\ y = n * (k - 1)
      BY <2>1
    <2>4. x <= y /\ y + 1 <= j /\ j <= x
      BY <1>6, <2>2, <2>3 DEF Place
    <2>. QED  BY <2>3, <2>4
  <1>7. ASSUME NEW i \in 1..m, NEW k \in 1..m, NEW j \in 1..len, Place(j, i, n), Place(j, k, n) PROVE i = k
    <2>1. i < k \/ k < i \/ i = k
      BY <1>2
    <2>. QED  BY <1>6, <1>7, <2>1
  <1>. QED  BY <1>2, <1>4, <1>5, <1>7

\* Windows of n days over the days of a run, and the days in one of them.
Chunk(days, n, i) == SubSeq(days, n * (i - 1) + 1, Smaller(n * i, Len(days)))

LEMMA ChunkDays ==
    ASSUME NEW e, NEW days \in Seq(0..e), NEW n \in Nat \ {0}, NEW i \in Nat \ {0},
           n * (i - 1) + 1 <= Len(days), NEW d
    PROVE  d \in ToSet(Chunk(days, n, i)) <=> \E j \in 1..Len(days) : Place(j, i, n) /\ days[j] = d
  <1>1. PICK len, S : len = Len(days) /\ S = 0..e /\ len \in Nat
    OBVIOUS
  <1>2. PICK x \in Nat, y \in Nat : x = n * (i - 1) /\ y = n * i /\ x <= y
    <2>1. PICK h \in Nat : h = i - 1
      OBVIOUS
    <2>2. n * h \in Nat /\ n * i \in Nat
      BY TimesNat
    <2>3. n * i = n * h + n
      BY <2>1
    <2>. QED  BY <2>1, <2>2, <2>3
  <1>3. PICK a \in Nat, z \in Nat : a = x + 1 /\ z = IF y < len THEN y ELSE len
    <2>1. (IF y < len THEN y ELSE len) \in Nat /\ x + 1 \in Nat
      BY <1>1, <1>2
    <2>. QED  BY <2>1
  <1>4. a <= len /\ a - 1 <= z /\ z <= len
    BY <1>1, <1>2, <1>3
  <1>5. PICK c : c = SubSeq(days, a, z)
    OBVIOUS
  <1>6. Chunk(days, n, i) = c
    BY <1>1, <1>2, <1>3, <1>5 DEF Chunk, Smaller
  <1>7. c \in Seq(S) /\ Len(c) = z - a + 1 /\ \A h \in 1..(z - a + 1) : c[h] = days[a + h - 1]
    <2>1. ASSUME NEW h \in a..z PROVE days[h] \in S
      <3>1. h \in 1..Len(days)
        BY <1>1, <1>2, <1>3, <1>4
      <3>2. days \in Seq(S)
        BY <1>1
      <3>. QED  BY <3>1, <3>2
    <2>2. a \in Int /\ z \in Int
      OBVIOUS
    <2>3. /\ c \in Seq(S) /\ Len(c) = (IF a <= z THEN z - a + 1 ELSE 0)
          /\ \A h \in 1..(z - a + 1) : c[h] = days[a + h - 1]
      BY <1>5, <2>1, <2>2, SubSeqProperties
    <2>. QED  BY <1>4, <2>2, <2>3
  <1>8. \A j \in 1..len : Place(j, i, n) <=> j \in a..z
    BY <1>1, <1>2, <1>3 DEF Place
  <1>9. d \in ToSet(c) <=> \E h \in 1..(z - a + 1) : days[a + h - 1] = d
    <2>1. DOMAIN c = 1..(z - a + 1)
      BY <1>7
    <2>. QED  BY <1>7, <2>1, Zenon DEF ToSet
  <1>10. ASSUME NEW h \in 1..(z - a + 1) PROVE a + h - 1 \in 1..len /\ a + h - 1 \in a..z
    BY <1>1, <1>2, <1>3, <1>4
  <1>11. ASSUME NEW j \in a..z PROVE j - a + 1 \in 1..(z - a + 1) /\ a + (j - a + 1) - 1 = j /\ j \in 1..len
    BY <1>1, <1>2, <1>3, <1>4
  <1>. HIDE DEF Place
  <1>12. ASSUME d \in ToSet(c) PROVE \E j \in 1..len : Place(j, i, n) /\ days[j] = d
    BY <1>8, <1>9, <1>10, <1>12
  <1>13. ASSUME NEW j \in 1..len, Place(j, i, n), days[j] = d PROVE d \in ToSet(c)
    <2>1. j \in a..z
      BY <1>8, <1>13
    <2>2. PICK h \in 1..(z - a + 1) : a + h - 1 = j
      BY <1>11, <2>1
    <2>. QED  BY <1>9, <1>13, <2>2
  <1>. QED  BY <1>1, <1>6, <1>12, <1>13

\* The windows of a run share out its trades, none lost and none twice.
LEMMA WindowsShare ==
    ASSUME Typed, Chronicle, NEW mode, NEW n \in Strategy, NEW W, NEW e \in Nat, NEW days, Calendar(days, e),
           NEW costs, NEW k \in Nat \ {0}, NEW run, run = Run(mode, n, W, days, costs, k)
    PROVE  SumFunctionOnSet(TradesOfWindows(run), DOMAIN run.windows) = run.summary.trades
  <1>1. PICK T, m, len : /\ T = TradesOf(n, W, days, costs) /\ m = Windows(days, k)
                         /\ len = Len(days) /\ len \in Nat
    BY DEF Calendar
  <1>2. days \in Seq(0..e) /\ \A i, j \in 1..len : i < j => days[i] < days[j]
    BY <1>1 DEF Calendar
  <1>3. IsFiniteSet(T)
    BY <1>1, <1>2, TradesFinite
  <1>4. /\ m \in Nat
        /\ \A i \in 1..m : k * (i - 1) + 1 <= len
        /\ \A j \in 1..len : \E i \in 1..m : Place(j, i, k)
        /\ \A i, h \in 1..m : \A j \in 1..len : Place(j, i, k) /\ Place(j, h, k) => i = h
    <2>1. m = (len + k - 1) \div k
      BY <1>1 DEF Windows
    <2>. QED  BY <1>1, <2>1, PlaceIsOne
  <1>5. ASSUME NEW i \in 1..m, NEW d
        PROVE  d \in ToSet(Chunk(days, k, i)) <=> \E j \in 1..len : Place(j, i, k) /\ days[j] = d
    <2>1. i \in Nat \ {0} /\ k * (i - 1) + 1 <= Len(days)
      BY <1>1, <1>4
    <2>. QED  BY <1>1, <1>2, <2>1, ChunkDays
  <1>6. ASSUME NEW d \in ToSet(days)
        PROVE  \E i \in 1..m : \A h \in 1..m : d \in ToSet(Chunk(days, k, h)) <=> h = i
    <2>1. PICK j \in 1..len : days[j] = d
      BY <1>1, <1>2 DEF ToSet
    <2>2. PICK i \in 1..m : Place(j, i, k)
      BY <1>4
    <2>3. ASSUME NEW h \in 1..m, d \in ToSet(Chunk(days, k, h)) PROVE h = i
      <3>1. PICK g \in 1..len : Place(g, h, k) /\ days[g] = d
        BY <1>5, <2>3
      <3>2. days[g] \in Int /\ days[j] \in Int
        BY <1>1, <1>2
      <3>3. ~(g < j) /\ ~(j < g)
        BY <1>2, <2>1, <3>1, <3>2
      <3>4. g = j
        BY <3>3
      <3>. QED  BY <1>4, <2>2, <3>1, <3>4
    <2>. QED  BY <1>5, <2>1, <2>2, <2>3
  <1>7. \A t \in T : t.signal.day \in ToSet(days)
    BY <1>1, TradesOfRun
  <1>. DEFINE p == [t \in T |-> CHOOSE i \in 1..m : \A h \in 1..m :
                                    t.signal.day \in ToSet(Chunk(days, k, h)) <=> h = i]
  <1>8. ASSUME NEW t \in T
        PROVE  p[t] \in 1..m /\ \A h \in 1..m : t.signal.day \in ToSet(Chunk(days, k, h)) <=> h = p[t]
    BY <1>6, <1>7
  <1>. HIDE DEF p
  <1>9. PICK f : f = TradesOfWindows(run)
    OBVIOUS
  <1>10. run.trades = T /\ run.windows = WalkForward(T, days, k) /\ run.summary.trades = Cardinality(T)
    BY <1>1 DEF Run, Summary
  <1>11. PICK w : w = WalkForward(T, days, k)
    OBVIOUS
  <1>12. /\ DOMAIN w = 1..m
         /\ \A i \in 1..m : w[i].summary.trades
                              = Cardinality({t \in T : t.signal.day \in ToSet(Chunk(days, k, i))})
    BY <1>1, <1>11 DEF WalkForward, Chunk, Summary
  <1>13. f = [i \in DOMAIN w |-> w[i].summary.trades]
    BY <1>9, <1>10, <1>11 DEF TradesOfWindows
  <1>14. ASSUME NEW i \in 1..m PROVE f[i] = Cardinality(Fallen(T, p, {i}))
    <2>1. Fallen(T, p, {i}) = {t \in T : t.signal.day \in ToSet(Chunk(days, k, i))}
      BY <1>8 DEF Fallen
    <2>. QED  BY <1>12, <1>13, <2>1
  <1>15. SumFunctionOnSet(f, 1..m) = Cardinality(T)
    <2>1. (\A t \in T : p[t] \in 1..m) /\ m \in Nat /\ \A i \in 1..m : f[i] = Cardinality(Fallen(T, p, {i}))
      BY <1>4, <1>8, <1>14
    <2>. QED  BY <1>3, <2>1, PlacesAddUp
  <1>. QED  BY <1>9, <1>10, <1>11, <1>12, <1>15

\* Signals of a symbol.
Said(x) == {s \in ToSet(fired) : s.symbol = x}

\* On a day without a fault the table and the wire have all of the market's bars, in their
\* turn, and the runner has signalled what the bars it has seen of a symbol say.
Heard ==
    faults = {} =>
        /\ drift = {} /\ Watched \subseteq rows \union ToSet(wire)
        /\ \A b \in rows, c \in ToSet(wire) : b.symbol = c.symbol => b.ts < c.ts
        /\ \A x \in Watchlist : Said(x) = ToSet(Alone(name, x, Own(rows, x) \ {hand}).signals)

LEMMA InitHeard == Init => Heard
  <1>. SUFFICES ASSUME Init PROVE Heard
    OBVIOUS
  <1>1. fired = <<>> /\ wire = <<>> /\ rows = {} /\ market = <<>> /\ drift = {} /\ name \in Strategy
    BY SessionAssumption DEF Init
  <1>2. ToSet(wire) = {} /\ ToSet(fired) = {} /\ ToSet(market) = {}
    BY <1>1 DEF ToSet
  <1>3. \A x : Own(rows, x) \ {hand} = {}
    BY <1>1 DEF Own
  <1>4. \A x : Alone(name, x, {}).signals = <<>>
    BY <1>1, NothingInOrder, ReplayOfNothing DEF Alone, Morning
  <1>5. ToSet(<<>>) = {}
    BY DEF ToSet
  <1>. QED  BY <1>1, <1>2, <1>3, <1>4, <1>5 DEF Heard, Watched, Said

LEMMA ConsultHeard ==
    ASSUME Typed, Memory, Heard, Consult, faults = {}, NEW x \in Watchlist
    PROVE  Said(x)' = ToSet(Alone(name, x, Own(rows, x) \ {NoBar}).signals)
  <1>1. PICK y, r : Consulted(y, r)
    BY ConsultIs
  <1>2. /\ y \in Watchlist /\ y = hand.symbol /\ hand \in Watched /\ up /\ hand # NoBar
        /\ r = OnBar(name, st[y], hand)
        /\ r.signal # None => r.signal.symbol = y
    BY <1>1, Known DEF Consulted
  <1>3. ToSet(fired)' = ToSet(fired) \union ({r.signal} \ {None})
    <2>1. PICK more : more = fired'
      OBVIOUS
    <2>2. ToSet(more) = ToSet(fired) \union ({r.signal} \ {None})
      <3>1. CASE r.signal = None
        BY <1>1, <2>1, <3>1 DEF Consulted
      <3>2. CASE r.signal # None
        <4>1. PICK s : s = r.signal
          OBVIOUS
        <4>2. fired \in Seq(Signals(Watchlist, {Today}) \union {s})
          <5>1. PICK T, S : T = Signals(Watchlist, {Today}) /\ S = T \union {s}
            OBVIOUS
          <5>2. fired \in Seq(T) /\ T \subseteq S
            BY <5>1 DEF Typed, TypeOK
          <5>3. fired \in Seq(S)
            BY <5>2
          <5>. QED  BY <5>1, <5>3
        <4>3. more = Append(fired, s)
          BY <1>1, <2>1, <3>2, <4>1 DEF Consulted
        <4>4. ToSet(more) = ToSet(fired) \union {s}
          BY <4>2, <4>3, SeqElements
        <4>. QED  BY <3>2, <4>1, <4>4
      <3>. QED  BY <3>1, <3>2
    <2>. QED  BY <2>1, <2>2 DEF ToSet
  <1>4. drift = {} /\ Said(x) = ToSet(Alone(name, x, Own(rows, x) \ {hand}).signals)
    BY DEF Heard
  <1>5. Own(rows, x) \ {NoBar} = Own(rows, x)
    BY Known DEF Own
  <1>6. CASE x # y
    <2>1. Own(rows, x) \ {hand} = Own(rows, x)
      BY <1>2, <1>6 DEF Own
    <2>2. Said(x)' = Said(x)
      BY <1>2, <1>3, <1>6 DEF Said
    <2>. QED  BY <1>4, <1>5, <2>1, <2>2
  <1>7. CASE x = y
    <2>1. hand \in rows /\ \A b \in rows : b.symbol = hand.symbol => b.ts <= hand.ts
      BY <1>2, <1>4 DEF Memory, HandIsLatest
    <2>2. PICK one : one = Alone(name, x, Own(rows, x) \ {hand})
      OBVIOUS
    <2>3. st[x] = one.st[x]
      BY <1>2, <1>4, <2>2 DEF Memory, MemoryIsTable
    <2>4. ToSet(Alone(name, x, Own(rows, x)).signals) = ToSet(one.signals) \union ({r.signal} \ {None})
      BY <1>2, <1>7, <2>1, <2>2, <2>3, HandIsNext
    <2>5. Said(x)' = Said(x) \union ({r.signal} \ {None})
      BY <1>2, <1>3, <1>7 DEF Said
    <2>. QED  BY <1>4, <1>5, <2>2, <2>4, <2>5
  <1>. QED  BY <1>6, <1>7

LEMMA ClosesHeard ==
    ASSUME Typed, Heard, NEW x \in Traded, NEW t \in Minutes, NEW shape \in Shapes, BarCloses(x, t, shape),
           faults' = {}
    PROVE  /\ Watched' \subseteq rows \union ToSet(wire)'
           /\ \A b \in rows, c \in ToSet(wire)' : b.symbol = c.symbol => b.ts < c.ts
           /\ UNCHANGED <<name, rows, hand, fired, drift>>
  <1>1. PICK bar : bar = [symbol |-> x, day |-> Today, ts |-> t, high |-> shape.high,
                          low |-> shape.low, close |-> shape.close, vol |-> shape.vol]
    OBVIOUS
  <1>2. PICK more, sent : more = market' /\ sent = wire'
    OBVIOUS
  <1>3. /\ bar.symbol = x /\ bar.ts = t
        /\ more = Append(market, bar)
        /\ sent = IF up /\ x \in Watchlist THEN Append(wire, bar) ELSE wire
        /\ \A b \in ToSet(market) : b.ts < t \/ (b.ts = t /\ b.symbol # x)
        /\ UNCHANGED <<name, rows, hand, fired, drift>>
    BY <1>1, <1>2 DEF BarCloses, runner
  <1>4. faults = {} /\ (up \/ x \notin Watchlist)
    <2>1. faults' = IF up \/ x \notin Watchlist THEN faults ELSE faults \union {"lost"}
      BY DEF BarCloses
    <2>. QED  BY <2>1
  <1>5. /\ Watched \subseteq rows \union ToSet(wire)
        /\ \A b \in rows, c \in ToSet(wire) : b.symbol = c.symbol => b.ts < c.ts
    BY <1>4 DEF Heard
  <1>6. market \in Seq(Bars \union {bar}) /\ wire \in Seq(Watched \union {bar})
    <2>1. PICK B, W, C, V : B = Bars /\ W = Watched /\ C = B \union {bar} /\ V = W \union {bar}
      OBVIOUS
    <2>2. market \in Seq(B) /\ wire \in Seq(W)
      BY <2>1 DEF Typed, TypeOK
    <2>3. market \in Seq(C) /\ wire \in Seq(V)
      BY <2>1, <2>2
    <2>. QED  BY <2>1, <2>3
  <1>7. ToSet(more) = ToSet(market) \union {bar}
    BY <1>3, <1>6, SeqElements
  <1>8. CASE x \in Watchlist
    <2>1. sent = Append(wire, bar)
      BY <1>3, <1>4, <1>8
    <2>2. ToSet(sent) = ToSet(wire) \union {bar}
      BY <1>6, <2>1, SeqElements
    <2>3. ToSet(market)' = ToSet(market) \union {bar} /\ ToSet(wire)' = ToSet(wire) \union {bar}
      BY <1>2, <1>7, <2>2 DEF ToSet
    <2>4. \A b \in rows : b.symbol = x => b.ts < t
      BY <1>3, Known
    <2>. QED  BY <1>3, <1>5, <2>3, <2>4 DEF Watched
  <1>9. CASE x \notin Watchlist
    <2>1. sent = wire
      BY <1>3, <1>9
    <2>2. ToSet(market)' = ToSet(market) \union {bar} /\ ToSet(wire)' = ToSet(wire)
      BY <1>2, <1>7, <2>1 DEF ToSet
    <2>. QED  BY <1>3, <1>5, <1>9, <2>2 DEF Watched
  <1>. QED  BY <1>8, <1>9

LEMMA StepHeard == Typed /\ Memory /\ Heard /\ [Next]_vars => Heard'
  <1>. SUFFICES ASSUME Typed, Memory, Heard, [Next]_vars, faults' = {}
                PROVE  /\ drift' = {} /\ Watched' \subseteq rows' \union ToSet(wire)'
                       /\ \A b \in rows', c \in ToSet(wire)' : b.symbol = c.symbol => b.ts < c.ts
                       /\ \A x \in Watchlist :
                            Said(x)' = ToSet(Alone(name, x, Own(rows', x) \ {hand'}).signals)
    BY FaultsGrow DEF Heard
  <1>1. faults = {}
    BY FaultsGrow
  <1>2. /\ drift = {} /\ Watched \subseteq rows \union ToSet(wire)
        /\ \A b \in rows, c \in ToSet(wire) : b.symbol = c.symbol => b.ts < c.ts
        /\ \A x \in Watchlist : Said(x) = ToSet(Alone(name, x, Own(rows, x) \ {hand}).signals)
    BY <1>1 DEF Heard
  <1>3. \A kind : ~Fault(kind)
    BY DEF Fault
  <1>4. ASSUME UNCHANGED <<rows, hand, fired, drift>>
        PROVE  /\ drift' = {}
               /\ \A x \in Watchlist :
                    Said(x)' = ToSet(Alone(name, x, Own(rows', x) \ {hand'}).signals)
    BY <1>2, <1>4 DEF Said
  <1>5. ASSUME UNCHANGED <<market, rows, wire>>
        PROVE  /\ Watched' \subseteq rows' \union ToSet(wire)'
               /\ \A b \in rows', c \in ToSet(wire)' : b.symbol = c.symbol => b.ts < c.ts
    BY <1>2, <1>5 DEF Watched, ToSet
  <1>6. ASSUME NEW x \in Traded, NEW t \in Minutes, NEW shape \in Shapes, BarCloses(x, t, shape)
        PROVE  /\ Watched' \subseteq rows' \union ToSet(wire)'
               /\ \A b \in rows', c \in ToSet(wire)' : b.symbol = c.symbol => b.ts < c.ts
               /\ UNCHANGED <<rows, hand, fired, drift>>
    BY <1>6, ClosesHeard
  <1>7. ~Lost /\ ~ShadowStores /\ ~ArrivesEarly /\ ~ArrivesAgain
    BY <1>3 DEF Lost, ShadowStores, ArrivesEarly, ArrivesAgain
  <1>8. CASE Arrives
    <2>1. Taken(1) /\ Stored(wire[1], {})
      BY <1>3, <1>8, ArrivalTakes
    <2>2. /\ drift' = {} /\ UNCHANGED <<name, market, fired>>
          /\ \A b \in rows', c \in ToSet(wire)' : b.symbol = c.symbol => b.ts < c.ts
          /\ rows \subseteq rows' /\ ToSet(wire) \subseteq rows' \union ToSet(wire)'
          /\ \A x : Own(rows', x) \ {hand'} = Own(rows, x) \ {hand}
      BY <1>2, <2>1, TakenInTurn
    <2>. QED  BY <1>2, <2>2 DEF Watched, Said
  <1>9. CASE Consult
    <2>1. UNCHANGED <<market, wire, rows, drift>> /\ hand' = NoBar
      BY <1>9 DEF Consult, history
    <2>2. \A x \in Watchlist : Said(x)' = ToSet(Alone(name, x, Own(rows, x) \ {NoBar}).signals)
      BY <1>1, <1>9, ConsultHeard
    <2>. QED  BY <1>2, <1>5, <2>1, <2>2
  <1>10. CASE Crash
    <2>1. hand = NoBar /\ wire = <<>>
      <3>1. faults' = faults \union (IF hand = NoBar THEN {} ELSE {"cut"})
                             \union (IF wire = <<>> THEN {} ELSE {"lost"})
        BY <1>10 DEF Crash
      <3>. QED  BY <3>1
    <2>2. UNCHANGED <<market, rows, wire, hand, fired, drift>>
      BY <1>2, <1>10, <2>1 DEF Crash
    <2>. QED  BY <1>4, <1>5, <2>2
  <1>11. CASE Restart
    <2>1. UNCHANGED <<market, rows, wire, hand, fired, drift>>
      BY <1>2, <1>3, <1>11 DEF Restart
    <2>. QED  BY <1>4, <1>5, <2>1
  <1>12. CASE EveningRuns \/ UNCHANGED vars
    <2>1. UNCHANGED <<market, rows, wire, hand, fired, drift>>
      BY <1>12 DEF EveningRuns, ReplayScript, BacktestScript, CompareScript, Evening, vars, runner, history
    <2>. QED  BY <1>4, <1>5, <2>1
  <1>13. ASSUME NEW x \in Traded, NEW t \in Minutes, NEW shape \in Shapes, BarCloses(x, t, shape)
         PROVE  /\ drift' = {} /\ Watched' \subseteq rows' \union ToSet(wire)'
                /\ \A b \in rows', c \in ToSet(wire)' : b.symbol = c.symbol => b.ts < c.ts
                /\ \A z \in Watchlist :
                     Said(z)' = ToSet(Alone(name, z, Own(rows', z) \ {hand'}).signals)
    BY <1>4, <1>6, <1>13
  <1>. QED  BY <1>7, <1>8, <1>9, <1>10, <1>11, <1>12, <1>13 DEF Next, EveningRuns

\* Once runs are saved nothing is under way.
Settled == saved # {} => wire = <<>> /\ (faults = {} => hand = NoBar)

LEMMA StepSettled == Typed /\ Settled /\ [Next]_vars => Settled'
  <1>. SUFFICES ASSUME Typed, Settled, [Next]_vars PROVE Settled'
    OBVIOUS
  <1>1. CASE EveningRuns
    BY <1>1, ScriptsSave DEF Settled, runner
  <1>2. CASE ~EveningRuns /\ saved = {}
    BY <1>2, SavedStays DEF Settled
  <1>3. CASE ~EveningRuns /\ saved # {}
    <2>1. wire = <<>> /\ (faults = {} => hand = NoBar) /\ saved' = saved
      BY <1>3, SavedStays DEF Settled
    <2>2. /\ \A x, t, shape : ~BarCloses(x, t, shape)
          /\ ~Lost /\ ~Arrives /\ ~ArrivesEarly
      BY <1>3, <2>1 DEF BarCloses, Lost, Arrives, ArrivesEarly
    <2>3. CASE ShadowStores \/ ArrivesAgain
      <3>1. faults' # {} /\ wire' = wire
        BY <2>3 DEF ShadowStores, ArrivesAgain, Fault
      <3>. QED  BY <2>1, <3>1 DEF Settled
    <2>4. CASE Consult \/ Crash \/ Restart \/ UNCHANGED vars
      <3>1. wire' = <<>> /\ (hand' = NoBar \/ hand' = hand) /\ faults \subseteq faults'
        BY <2>1, <2>4, FaultsGrow DEF Consult, Crash, Restart, vars, runner
      <3>. QED  BY <2>1, <3>1 DEF Settled
    <2>. QED  BY <1>3, <2>2, <2>3, <2>4 DEF Next, EveningRuns
  <1>. QED  BY <1>1, <1>2, <1>3

\* What is saved came of a script, over the bars as they still are.
Recorded == \A run \in saved : Scripted(run) /\ run.trades # {}

LEMMA RunStays ==
    ASSUME market' = market, NEW run, Scripted(run)
    PROVE  Scripted(run)'
  <1>1. \A d : BarsOf(d)' = BarsOf(d)
    BY BarsStay
  <1>2. \A mode, n, W, days, costs, k : Run(mode, n, W, days, costs, k)' = Run(mode, n, W, days, costs, k)
    <2>. TAKE mode, n, W, days, costs, k
    <2>1. ASSUME NEW t PROVE t \in TradesOf(n, W, days, costs)' <=> t \in TradesOf(n, W, days, costs)
      BY <1>1 DEF TradesOf
    <2>2. TradesOf(n, W, days, costs)' = TradesOf(n, W, days, costs)
      BY <2>1
    <2>. QED  BY <2>2 DEF Run
  <1>. QED  BY <1>2 DEF Scripted

LEMMA StepRecorded == Typed /\ Chronicle /\ Recorded /\ [Next]_vars => Recorded'
  <1>. SUFFICES ASSUME Typed, Chronicle, Recorded, [Next]_vars PROVE Recorded'
    OBVIOUS
  <1>1. CASE EveningRuns
    BY <1>1, ScriptsSave, RunStays DEF Recorded
  <1>2. CASE ~EveningRuns
    BY <1>2, SavedStays, MarketGoesOn, RunStays DEF Recorded
  <1>. QED  BY <1>1, <1>2

\* The days of a script.
LEMMA SpanIsCalendar ==
    ASSUME NEW days \in Spans
    PROVE  Today \in Nat /\ Calendar(days, Today)
  <1>1. Today \in Nat
    BY SessionAssumption
  <1>2. CASE days = <<Today>>
    <2>1. PICK d \in Nat : d = Today
      BY <1>1
    <2>2. <<d>> \in Seq(0..d) /\ Len(<<d>>) = 1
      OBVIOUS
    <2>. QED  BY <1>1, <1>2, <2>1, <2>2 DEF Calendar
  <1>3. CASE days # <<Today>>
    <2>1. PICK n \in DayCounts : days = TradingDaysBack(Today, n)
      BY <1>3 DEF Spans
    <2>2. n \in Nat
      BY SessionAssumption
    <2>. QED  BY <1>1, <2>1, <2>2, DaysAscend
  <1>. QED  BY <1>1, <1>2, <1>3

\* A run that was saved has days, and its windows share out its trades.
LEMMA RecordedShares ==
    ASSUME Typed, Chronicle, Recorded, NEW run \in saved
    PROVE  SumFunctionOnSet(TradesOfWindows(run), DOMAIN run.windows) = run.summary.trades
  <1>1. PICK mode, n, W, days, costs, k :
            /\ n \in Strategy /\ days \in Spans /\ costs \in Costs /\ k \in (Nat \ {0}) \union {Len(days)}
            /\ run = Run(mode, n, W, days, costs, k) /\ run.trades # {}
    BY DEF Recorded, Scripted
  <1>2. Today \in Nat /\ Calendar(days, Today)
    BY <1>1, SpanIsCalendar
  <1>3. k \in Nat \ {0}
    <2>1. ToSet(days) # {}
      BY <1>1 DEF Run, TradesOf
    <2>2. Len(days) \in Nat /\ DOMAIN days = 1..Len(days)
      BY <1>2 DEF Calendar
    <2>3. Len(days) # 0
      BY <2>1, <2>2 DEF ToSet
    <2>. QED  BY <1>1, <2>2, <2>3
  <1>. QED  BY <1>1, <1>2, <1>3, WindowsShare

\* A replay of the market gives a symbol the signals the runner gave it.
LEMMA ReplayedAsHeard ==
    ASSUME Typed, Chronicle, Heard, faults = {}, wire = <<>>, hand = NoBar,
           NEW W, NEW x \in W, x \in Watchlist
    PROVE  {s \in ToSet(Replayed(name, W, market).signals) : s.symbol = x} = Said(x)
  <1>1. name \in Strategy /\ Reel(ToSet(market), {Today}) /\ rows \subseteq ToSet(market) /\ NoBar \notin rows
    BY Known
  <1>2. market \in Seq(ToSet(market))
    <2>1. PICK m, T : m = market /\ T = Bars
      OBVIOUS
    <2>2. m \in Seq(T)
      BY <2>1 DEF Typed, TypeOK
    <2>3. m \in Seq(ToSet(m))
      <3>1. DOMAIN m = 1..Len(m) /\ \A i \in DOMAIN m : m[i] \in ToSet(m)
        BY <2>2 DEF ToSet
      <3>. QED  BY <2>2, <3>1
    <2>. QED  BY <2>1, <2>3
  <1>3. Follows(name, W, market, x)
    BY <1>1, <1>2, SymbolFollows DEF Chronicle
  <1>4. {s \in ToSet(Replayed(name, W, market).signals) : s.symbol = x}
            = ToSet(Alone(name, x, Own(ToSet(market), x)).signals)
    BY <1>3 DEF Follows
  <1>5. Watched \subseteq rows
    <2>1. ToSet(wire) = {}
      BY DEF ToSet
    <2>. QED  BY <2>1 DEF Heard
  <1>6. Own(ToSet(market), x) = Own(rows, x) \ {hand}
    BY <1>1, <1>5 DEF Own, Watched
  <1>7. Said(x) = ToSet(Alone(name, x, Own(rows, x) \ {hand}).signals)
    BY DEF Heard
  <1>. QED  BY <1>4, <1>6, <1>7

\* A run of the live strategy over a clean day trades the signals of the runner.
LEMMA RecordedAgrees ==
    ASSUME Typed, Chronicle, Heard, Settled, Recorded, NEW run \in saved,
           run.strategy = name, run.last = Today, faults = {}
    PROVE  {s \in {t.signal : t \in TradesToday(run)} : s.symbol \in Watchlist}
             = {s \in TakenLive : s.symbol \in run.symbols}
  <1>1. wire = <<>> /\ hand = NoBar /\ name \in Strategy
    BY Known DEF Settled
  <1>2. PICK mode, n, W, days, costs, k :
            days \in Spans /\ run = Run(mode, n, W, days, costs, k) /\ run.trades # {}
    BY DEF Recorded, Scripted
  <1>3. n = name /\ run.symbols = W /\ run.trades = TradesOf(name, W, days, costs) /\ Last(days) = Today
    BY <1>2 DEF Run
  <1>4. Today \in ToSet(days)
    <2>1. ToSet(days) # {}
      BY <1>2 DEF Run, TradesOf
    <2>2. Calendar(days, Today)
      BY <1>2, SpanIsCalendar
    <2>3. Len(days) \in Nat /\ DOMAIN days = 1..Len(days)
      BY <2>2 DEF Calendar
    <2>4. Len(days) \in DOMAIN days
      BY <2>1, <2>3 DEF ToSet
    <2>. QED  BY <1>3, <2>4 DEF Last, ToSet
  <1>5. PICK q, signals : q = market /\ signals = Replayed(name, W, q).signals
    OBVIOUS
  <1>6. BarsOf(Today) = q
    BY <1>5 DEF BarsOf
  <1>7. ASSUME NEW x \in W, x \in Watchlist PROVE {s \in ToSet(signals) : s.symbol = x} = Said(x)
    BY <1>1, <1>5, <1>7, ReplayedAsHeard
  <1>8. ASSUME NEW t \in TradesToday(run), t.signal.symbol \in Watchlist
        PROVE  t.signal \in TakenLive /\ t.signal.symbol \in W
    <2>1. t \in TradesOf(name, W, days, costs) /\ t.signal.day = Today
      BY <1>3, <1>8 DEF TradesToday
    <2>2. BarsOf(Today) # <<>> /\ t \in RunDay(name, W, BarsOf(Today), Equity, costs)
      BY <1>1, <2>1, TradesOfRun
    <2>3. Reel(ToSet(q), {Today}) /\ q \in Seq(ToSet(q))
      BY <1>6, <2>2, DayOfBars
    <2>4. PICK s \in ToSet(signals) : /\ s \in Signals(W, {Today}) /\ Passes(s, Equity) /\ Followups(s, q) # {}
                                      /\ t.signal = s
      BY <1>1, <1>5, <1>6, <2>2, <2>3, TradesOfDay
    <2>5. s.symbol \in W /\ s.symbol \in Watchlist
      BY <1>8, <2>4 DEF Signals
    <2>6. s \in Said(s.symbol)
      BY <1>7, <2>4, <2>5
    <2>. QED  BY <1>5, <2>4, <2>5, <2>6 DEF TakenLive, Said
  <1>9. ASSUME NEW s \in TakenLive, s.symbol \in W
        PROVE  s.symbol \in Watchlist /\ \E t \in TradesToday(run) : t.signal = s
    <2>1. s \in ToSet(fired) /\ Passes(s, Equity) /\ Followups(s, q) # {}
      BY <1>5 DEF TakenLive
    <2>2. s \in Signals(Watchlist, {Today})
      <3>1. PICK T, f : T = Signals(Watchlist, {Today}) /\ f = fired
        OBVIOUS
      <3>2. f \in Seq(T)
        BY <3>1 DEF Typed, TypeOK
      <3>3. ToSet(f) \subseteq T
        BY <3>2 DEF ToSet
      <3>. QED  BY <2>1, <3>1, <3>3
    <2>3. s.symbol \in Watchlist /\ s.day = Today
      BY <2>2 DEF Signals
    <2>4. s \in ToSet(signals)
      BY <1>7, <1>9, <2>1, <2>3 DEF Said
    <2>5. PICK t : t = Simulated(s, q, Equity, costs)
      OBVIOUS
    <2>6. t \in RunDay(name, W, q, Equity, costs)
      BY <1>5, <2>1, <2>4, <2>5 DEF RunDay
    <2>7. t \in TradesOf(name, W, days, costs)
      BY <1>4, <1>6, <2>6 DEF TradesOf
    <2>8. t.signal = s
      BY <2>5 DEF Simulated, Trade
    <2>. QED  BY <1>3, <2>3, <2>7, <2>8 DEF TradesToday
  <1>. QED  BY <1>3, <1>8, <1>9

\* The backtest of a day without a fault trades just what the runner signalled, and the
\* windows of the walk-forward lose no trade and count none twice: engine.py and
\* walk_forward.py, for either strategy, any bars, span of days and window.
THEOREM EveningFollowsDay == Spec => []EveningAgrees
  <1>. DEFINE I == Typed /\ Memory /\ Heard /\ Chronicle /\ Settled /\ Recorded
  <1>1. Init => I
    BY InitTyped, InitMemory, InitHeard DEF Init, Chronicle, Chronological, Settled, Recorded
  <1>2. I /\ [Next]_vars => I'
    BY StepTyped, StepMemory, StepHeard, MarketGoesOn, StepSettled, StepRecorded
  <1>3. I => EveningAgrees
    BY RecordedAgrees, RecordedShares DEF EveningAgrees
  <1>. QED  BY <1>1, <1>2, <1>3, PTL DEF Spec
=============================================================================
