----------------------------- MODULE DeskProofs -----------------------------
(***************************************************************************)
(* The jobs of the screener, for any market, any criteria, any answers of  *)
(* the services and any number of processes, presets and jobs.             *)
(*                                                                         *)
(* First the operators of the screener: the ranking is a sequence of what  *)
(* passed, in order; an average volume stays under a bound that each bar   *)
(* is under; FMP's loosened query leaves out no symbol the engine would    *)
(* keep; what is kept of a reply is short, allowed and without repeats.    *)
(*                                                                         *)
(* The invariant of the locks says of each, without counting, what the     *)
(* property says with a cardinality: whoever runs under it holds it, no    *)
(* two do, and one that is held has someone under it.                      *)
(*                                                                         *)
(* The invariant of the jobs says what each has in hand: a scan's result   *)
(* is honest before it is saved, and a job that picks is about a screen    *)
(* that is saved.  That only scripts save screens while a pre-market check *)
(* picks is the lock's doing: a second thread that came to save one would  *)
(* run under the same lock.                                                *)
(***************************************************************************)
EXTENDS Desk, SumTheorems, SequenceTheorems, FiniteSetTheorems, TLAPS

-----------------------------------------------------------------------------
(* The ranking.                                                            *)

\* Candidates that Before orders: one for each symbol.
Comparable(K) ==
    /\ IsFiniteSet(K)
    /\ \A x \in K : x.symbol \in Int /\ x.avg_volume \in Int
    /\ \A x, y \in K : x.symbol = y.symbol => x = y

Ahead(K, x) == {y \in K : Before(y, x)}
Rank(K, x) == Cardinality(Ahead(K, x))

\* Who is before another has fewer before.
LEMMA RankOrders ==
    ASSUME NEW K, Comparable(K), NEW x \in K, NEW y \in K
    PROVE  /\ Rank(K, x) \in 0..(Cardinality(K) - 1)
           /\ Before(x, y) => Rank(K, x) < Rank(K, y)
           /\ x = y \/ Before(x, y) \/ Before(y, x)
  <1>1. /\ \A z \in K : z.symbol \in Int /\ z.avg_volume \in Int
        /\ IsFiniteSet(K) /\ Cardinality(K) \in Nat
    BY FS_CardinalityType DEF Comparable
  <1>2. \A z \in K : ~Before(z, z)
    BY <1>1 DEF Before
  <1>3. /\ IsFiniteSet(Ahead(K, x)) /\ Rank(K, x) \in Nat /\ Rank(K, x) < Cardinality(K)
        /\ IsFiniteSet(Ahead(K, y)) /\ Rank(K, y) \in Nat
    <2>1. ASSUME NEW z \in K
          PROVE  /\ IsFiniteSet(Ahead(K, z)) /\ Rank(K, z) \in Nat
                 /\ Rank(K, z) < Cardinality(K)
      <3>1. Ahead(K, z) \in SUBSET K /\ z \notin Ahead(K, z)
        BY <1>2 DEF Ahead
      <3>2. /\ IsFiniteSet(Ahead(K, z)) /\ Rank(K, z) <= Cardinality(K)
            /\ Rank(K, z) # Cardinality(K)
        BY <1>1, <3>1, FS_Subset DEF Rank
      <3>3. Rank(K, z) \in Nat
        BY <3>2, FS_CardinalityType DEF Rank
      <3>. QED  BY <1>1, <3>2, <3>3
    <2>. QED  BY <2>1
  <1>4. ASSUME Before(x, y) PROVE Rank(K, x) < Rank(K, y)
    <2>1. Ahead(K, x) \subseteq Ahead(K, y)
      <3>. SUFFICES ASSUME NEW z \in K, Before(z, x) PROVE Before(z, y)
        BY DEF Ahead
      <3>. QED  BY <1>1, <1>4 DEF Before
    <2>2. x \in Ahead(K, y) /\ x \notin Ahead(K, x)
      BY <1>2, <1>4 DEF Ahead
    <2>3. Ahead(K, x) \in SUBSET Ahead(K, y) /\ Ahead(K, x) # Ahead(K, y)
      BY <2>1, <2>2
    <2>4. Rank(K, x) <= Rank(K, y) /\ Rank(K, x) # Rank(K, y)
      BY <1>3, <2>3, FS_Subset DEF Rank
    <2>. QED  BY <1>3, <2>4
  <1>5. x = y \/ Before(x, y) \/ Before(y, x)
    <2>1. x.symbol = y.symbol => x = y
      BY DEF Comparable
    <2>. QED  BY <1>1, <2>1 DEF Before
  <1>. QED  BY <1>1, <1>3, <1>4, <1>5

IsRanking(rows, K) ==
    rows = [i \in 1..Cardinality(K) |-> CHOOSE x \in K : Rank(K, x) = i - 1]

\* The places are taken by the candidates, each by one, and in their order.
LEMMA RankingOrders ==
    ASSUME NEW K, Comparable(K), NEW rows, IsRanking(rows, K)
    PROVE  /\ \A i \in DOMAIN rows : rows[i] \in K
           /\ \A x \in K : \E i \in DOMAIN rows : rows[i] = x
           /\ \A i \in DOMAIN rows : \A j \in 1..(i - 1) : Before(rows[j], rows[i])
  <1>. DEFINE n == Cardinality(K)
              place == [x \in K |-> Rank(K, x) + 1]
  <1>1. /\ IsFiniteSet(K) /\ n \in Nat
        /\ IsFiniteSet(1..n) /\ Cardinality(1..n) = n
    BY FS_CardinalityType, FS_Interval DEF Comparable
  <1>2. \A x, y \in K : Rank(K, x) \in 0..(n - 1) /\ (Rank(K, x) = Rank(K, y) => x = y)
    <2>. SUFFICES ASSUME NEW x \in K, NEW y \in K
                  PROVE  Rank(K, x) \in 0..(n - 1) /\ (Rank(K, x) = Rank(K, y) => x = y)
      OBVIOUS
    <2>1. /\ Rank(K, x) \in 0..(n - 1) /\ Rank(K, y) \in 0..(n - 1)
          /\ Before(x, y) => Rank(K, x) < Rank(K, y)
          /\ Before(y, x) => Rank(K, y) < Rank(K, x)
          /\ x = y \/ Before(x, y) \/ Before(y, x)
      BY RankOrders
    <2>. HIDE DEF n
    <2>. QED  BY <1>1, <2>1
  <1>3. place \in Injection(K, 1..n)
    <2>1. place \in [K -> 1..n]
      BY <1>1, <1>2
    <2>2. \A x, y \in K : place[x] = place[y] => x = y
      BY <1>1, <1>2
    <2>. HIDE DEF place, n
    <2>. QED  BY <2>1, <2>2 DEF Injection, IsInjective
  <1>4. place \in Surjection(K, 1..n)
    <2>. HIDE DEF place
    <2>. QED  BY <1>1, <1>3, FS_Injection
  <1>5. \A i \in 1..n : \E x \in K : Rank(K, x) = i - 1
    <2>. SUFFICES ASSUME NEW i \in 1..n PROVE \E x \in K : Rank(K, x) = i - 1
      OBVIOUS
    <2>1. PICK x \in K : place[x] = i
      BY <1>4 DEF Surjection
    <2>. QED  BY <1>1, <1>2, <2>1
  <1>6. DOMAIN rows = 1..n /\ \A i \in 1..n : rows[i] \in K /\ Rank(K, rows[i]) = i - 1
    BY <1>5 DEF IsRanking
  <1>. HIDE DEF n, place
  <1>7. ASSUME NEW x \in K PROVE \E i \in DOMAIN rows : rows[i] = x
    <2>1. Rank(K, x) + 1 \in 1..n
      BY <1>1, <1>2
    <2>2. PICK i \in 1..n : i = Rank(K, x) + 1
      BY <2>1
    <2>3. Rank(K, rows[i]) = Rank(K, x) /\ rows[i] \in K
      BY <1>1, <1>2, <1>6, <2>2
    <2>. QED  BY <1>2, <1>6, <2>3
  <1>8. ASSUME NEW i \in DOMAIN rows, NEW j \in 1..(i - 1) PROVE Before(rows[j], rows[i])
    <2>1. i \in 1..n /\ j \in 1..n /\ j < i
      <3>1. i \in 1..n /\ n \in Nat
        BY <1>1, <1>6
      <3>2. i \in Nat /\ i <= n
        BY <3>1
      <3>3. j \in Nat /\ 1 <= j /\ j <= i - 1
        BY <3>2
      <3>. QED  BY <3>1, <3>2, <3>3
    <2>2. /\ rows[i] \in K /\ rows[j] \in K
          /\ Rank(K, rows[i]) = i - 1 /\ Rank(K, rows[j]) = j - 1
      BY <1>6, <2>1
    <2>3. rows[i] = rows[j] \/ Before(rows[j], rows[i]) \/ Before(rows[i], rows[j])
      BY <2>2, RankOrders
    <2>4. ~Before(rows[i], rows[j])
      <3>1. Before(rows[i], rows[j]) => Rank(K, rows[i]) < Rank(K, rows[j])
        BY <2>2, RankOrders
      <3>. QED  BY <2>1, <2>2, <3>1
    <2>5. rows[i] # rows[j]
      BY <2>1, <2>2
    <2>. QED  BY <2>3, <2>4, <2>5
  <1>. QED  BY <1>6, <1>7, <1>8

-----------------------------------------------------------------------------
(* The facts of a symbol.                                                  *)

Bar == [close : Nat, volume : Nat]

VolumeOf(w) == FoldLeft(LAMBDA sum, b : sum + b.volume, 0, w)
Volumes(w) == [i \in DOMAIN w |-> w[i].volume]
Plus(w) == [x \in Nat \X DOMAIN w |-> x[1] + w[x[2]].volume]

IsTotal(g, w) ==
    g = [s \in SUBSET DOMAIN w |->
            IF s = {} THEN 0 ELSE g[s \ {Max(s)}] + w[Max(s)].volume]

\* The fold is the recursion that takes the last bar last.
LEMMA VolumeIsTable == ASSUME NEW w PROVE VolumeOf(w) = (CHOOSE g : IsTotal(g, w))[DOMAIN w]
  BY Zenon DEF VolumeOf, FoldLeft, MapThenFoldSet, IsTotal

\* The volume of some bars is a sum.
LEMMA VolumeIsSum ==
    ASSUME NEW w \in Seq(Bar)
    PROVE  VolumeOf(w) = SumFunctionOnSet(Volumes(w), DOMAIN w)
  <1>. DEFINE D == DOMAIN w
              pick == [s \in SUBSET D |-> Max(s)]
              V == Volumes(w)
              f == Plus(w)
  <1>1. IsFiniteSet(D) /\ D \subseteq Int /\ \A i \in D : w[i].volume \in Nat
    <2>1. D = 1..Len(w) /\ Len(w) \in Nat
      BY LenProperties
    <2>2. \A i \in D : w[i] \in Bar
      BY <2>1, ElementOfSeq
    <2>. HIDE DEF D
    <2>3. IsFiniteSet(D) /\ D \subseteq Int
      BY <2>1, FS_Interval
    <2>. QED  BY <2>2, <2>3 DEF Bar
  <1>2. /\ \A i \in D : V[i] = w[i].volume
        /\ \A s \in SUBSET D : Whole(V, s) /\ IsFiniteSet(s)
    <2>1. \A i \in D : V[i] = w[i].volume
      BY DEF Volumes
    <2>. HIDE DEF D, V
    <2>2. \A s \in SUBSET D : IsFiniteSet(s)
      BY <1>1, FS_Subset
    <2>3. \A s \in SUBSET D : Whole(V, s)
      BY <1>1, <2>1 DEF Whole
    <2>. QED  BY <2>1, <2>2, <2>3
  <1>3. Picks(pick, D)
    <2>. SUFFICES ASSUME NEW s \in SUBSET D, s # {} PROVE Max(s) \in s
      BY DEF Picks
    <2>. HIDE DEF D, V, f
    <2>1. IsFiniteSet(s) /\ s \subseteq Int
      BY <1>1, <1>2
    <2>. QED  BY <2>1, Largest
  <1>4. Operates(f, Nat, D)
    BY <1>1 DEF Operates, Plus
  <1>5. \E g : IsTotal(g, w)
    <2>. DEFINE none == 0
    <2>0. none \in Nat
      OBVIOUS
    <2>. HIDE DEF D, pick, f, V, none
    <2>1. PICK g : IsFold(g, f, none, pick, Nat, D)
      BY <1>1, <1>3, <1>4, <2>0, FoldTable
    <2>2. ASSUME NEW s \in SUBSET D, s # {}
          PROVE  g[s] = g[s \ {Max(s)}] + w[Max(s)].volume
      <3>. DEFINE r == s \ {Max(s)}
      <3>1. pick[s] = Max(s) /\ Max(s) \in D /\ r \in SUBSET D
        BY <1>3, <2>2 DEF Picks, pick
      <3>2. g[r] \in Nat
        BY <2>1, <3>1 DEF IsFold
      <3>3. g[s] = f[<<g[r], Max(s)>>]
        BY <2>1, <2>2, <3>1 DEF IsFold, Folded
      <3>. HIDE DEF r
      <3>4. f[<<g[r], Max(s)>>] = g[r] + w[Max(s)].volume
        BY <3>1, <3>2 DEF f, Plus, D
      <3>. QED  BY <3>3, <3>4 DEF r
    <2>3. \A s \in SUBSET D : s = {} => g[s] = 0
      BY <2>1 DEF IsFold, Folded, none
    <2>4. g = [s \in SUBSET D |-> IF s = {} THEN 0 ELSE g[s \ {Max(s)}] + w[Max(s)].volume]
      BY <2>1, <2>2, <2>3 DEF IsFold
    <2>. QED  BY <2>4, Zenon DEF IsTotal, D
  <1>. DEFINE g == CHOOSE g : IsTotal(g, w)
              T == {s \in SUBSET D : g[s] = SumFunctionOnSet(V, s)}
  <1>6. VolumeOf(w) = g[D] /\ IsTotal(g, w)
    BY <1>5, VolumeIsTable
  <1>. HIDE DEF g
  <1>7. \A s \in SUBSET D : g[s] = IF s = {} THEN 0 ELSE g[s \ {Max(s)}] + w[Max(s)].volume
    BY <1>6, Zenon DEF IsTotal
  <1>. HIDE DEF D, V, f
  <1>8. {} \in T
    BY <1>7, SumEmpty
  <1>9. ASSUME NEW s \in SUBSET D, s # {}, s \ {pick[s]} \in T PROVE s \in T
    <2>. DEFINE m == Max(s)
                r == s \ {m}
    <2>1. m \in s /\ m \in D /\ r \in SUBSET D
      BY <1>3, <1>9 DEF Picks
    <2>2. g[r] = SumFunctionOnSet(V, r) /\ g[s] = g[r] + w[m].volume
      BY <1>7, <1>9
    <2>. HIDE DEF m
    <2>3. SumFunctionOnSet(V, s) = V[m] + SumFunctionOnSet(V, r)
      BY <1>2, <2>1, SumRemove
    <2>4. SumFunctionOnSet(V, r) \in Int /\ V[m] = w[m].volume /\ w[m].volume \in Nat
      BY <1>1, <1>2, <2>1, SumType
    <2>. HIDE DEF r
    <2>. QED  BY <2>2, <2>3, <2>4
  <1>. HIDE DEF T, pick
  <1>10. D \in T
    BY <1>1, <1>3, <1>8, <1>9, SubsetInduction
  <1>. QED  BY <1>6, <1>10 DEF T, V, D

\* An average is a whole number, and under a bound that all are under.
LEMMA AverageBounded ==
    ASSUME NEW v \in Nat, NEW n \in Nat \ {0}, NEW m \in Int, v <= m * n
    PROVE  v \div n \in Int /\ v \div n <= m
  <1>1. PICK q \in Int : q = v \div n
    OBVIOUS
  <1>2. n * q <= v
    BY <1>1
  <1>3. ~(q >= m + 1)
    <2>. SUFFICES ASSUME q >= m + 1 PROVE FALSE
      OBVIOUS
    <2>1. PICK d \in Nat : q = m + 1 + d
      <3>1. q - m - 1 \in Nat
        BY <1>1
      <3>. QED  BY <3>1
    <2>2. n * q = n * m + n + n * d /\ n * d \in Nat /\ n * m = m * n /\ m * n \in Int
      BY <2>1
    <2>. QED  BY <1>2, <2>2
  <1>. QED  BY <1>1, <1>3

LEMMA AverageVolume ==
    ASSUME NEW w \in Seq(Bar), w # <<>>
    PROVE  /\ VolumeOf(w) \div Len(w) \in Int
           /\ \A m \in Int : (\A i \in DOMAIN w : w[i].volume <= m) => VolumeOf(w) \div Len(w) <= m
  <1>. DEFINE D == DOMAIN w
              V == Volumes(w)
              sum == SumFunctionOnSet(V, D)
  <1>1. /\ IsFiniteSet(D) /\ Len(w) \in Nat \ {0} /\ Cardinality(D) = Len(w)
        /\ \A i \in D : V[i] = w[i].volume /\ V[i] \in Nat
    <2>1. D = 1..Len(w) /\ Len(w) \in Nat \ {0}
      BY EmptySeq
    <2>2. IsFiniteSet(1..Len(w)) /\ Cardinality(1..Len(w)) = Len(w)
      BY <2>1, FS_Interval
    <2>3. \A i \in D : w[i] \in Bar
      BY <2>1, ElementOfSeq
    <2>. QED  BY <2>1, <2>2, <2>3 DEF Volumes, Bar
  <1>2. VolumeOf(w) = sum
    BY VolumeIsSum
  <1>. HIDE DEF D, V
  <1>3. sum \in Nat /\ Whole(V, D)
    BY <1>1, SumNatural DEF Whole
  <1>4. ASSUME NEW m \in Int, \A i \in D : w[i].volume <= m
        PROVE  sum <= m * Len(w)
    <2>1. \A i \in D : 1 * V[i] <= m
      BY <1>1, <1>4
    <2>. DEFINE one == 1
    <2>2. one \in Int /\ \A i \in D : one * V[i] <= m
      BY <2>1
    <2>. HIDE DEF one
    <2>3. one * sum <= m * Cardinality(D)
      BY <1>1, <1>3, <2>2, SumBounded
    <2>. QED  BY <1>1, <1>3, <2>3 DEF one
  <1>. HIDE DEF sum
  <1>5. sum \div Len(w) \in Int
    BY <1>1, <1>3
  <1>6. ASSUME NEW m \in Int, \A i \in D : w[i].volume <= m
        PROVE  sum \div Len(w) <= m
    <2>1. sum <= m * Len(w)
      BY <1>4, <1>6
    <2>. QED  BY <1>1, <1>3, <2>1, AverageBounded
  <1>. QED  BY <1>2, <1>5, <1>6 DEF D

\* A window ends with the last bar, and is made of the symbol's bars.
LEMMA WindowFacts ==
    ASSUME NEW s \in Stock, NEW days \in Nat, days >= 2, Usable(s, days)
    PROVE  /\ Window(s, days) \in Seq(Bar) /\ Window(s, days) # <<>>
           /\ Daily[s] \in Seq(Bar) /\ Daily[s] # <<>>
           /\ Last(Window(s, days)) = Last(Daily[s]) /\ Last(Daily[s]).close \in Nat
           /\ \A i \in DOMAIN Window(s, days) : \E k \in DOMAIN Daily[s] :
                Window(s, days)[i] = Daily[s][k]
  <1>. DEFINE all == Daily[s]
              n == Len(all)
              k == IF n > days THEN n - days + 1 ELSE 1
              w == Window(s, days)
  <1>1. all \in Seq(Bar) /\ n \in Nat /\ DOMAIN all = 1..n /\ \A i \in 1..n : all[i] \in Bar
    <2>1. all \in Seq(Bar)
      BY MarketAssumption DEF Bar
    <2>. HIDE DEF all
    <2>. QED  BY <2>1, LenProperties, ElementOfSeq
  <1>2. w = SubSeq(all, k, n) /\ w # <<>>
    BY Zenon DEF Window, Usable
  <1>. HIDE DEF w, all
  <1>3. k \in Nat /\ k >= 1 /\ (n >= 1 => k <= n)
    BY <1>1
  <1>. HIDE DEF k
  <1>4. \A i \in k..n : i \in 1..n /\ all[i] \in Bar
    BY <1>1, <1>3
  <1>5. /\ SubSeq(all, k, n) \in Seq(Bar)
        /\ Len(SubSeq(all, k, n)) = IF k <= n THEN n - k + 1 ELSE 0
        /\ \A i \in 1..(n - k + 1) : SubSeq(all, k, n)[i] = all[k + i - 1]
    <2>1. k \in Int /\ n \in Int /\ \A i \in k..n : all[i] \in Bar
      BY <1>1, <1>3, <1>4
    <2>. HIDE DEF n
    <2>. QED  BY <2>1, SubSeqProperties
  <1>6. w \in Seq(Bar) /\ Len(w) \in Nat \ {0} /\ DOMAIN w = 1..Len(w)
    <2>1. w \in Seq(Bar)
      BY <1>2, <1>5
    <2>. QED  BY <1>2, <2>1, EmptySeq, LenProperties
  <1>. HIDE DEF n
  <1>7. k <= n /\ Len(w) = n - k + 1
    BY <1>1, <1>2, <1>3, <1>5, <1>6
  <1>8. Last(w) = all[n]
    <2>1. w[Len(w)] = all[k + Len(w) - 1] /\ k + Len(w) - 1 = n
      <3>1. Len(w) \in 1..(n - k + 1)
        BY <1>6, <1>7
      <3>2. k + Len(w) - 1 = n
        BY <1>1, <1>3, <1>6, <1>7
      <3>. QED  BY <1>2, <1>5, <3>1, <3>2
    <2>. QED  BY <2>1 DEF Last
  <1>9. Last(all) = all[n] /\ all[n].close \in Nat /\ all # <<>>
    <2>1. n \in 1..n /\ n # 0
      BY <1>1, <1>3, <1>7
    <2>2. all[n] \in Bar
      BY <1>1, <2>1
    <2>3. all # <<>>
      BY <2>1, EmptySeq DEF n
    <2>. QED  BY <2>2, <2>3 DEF Last, Bar, n
  <1>10. ASSUME NEW i \in DOMAIN w PROVE \E j \in DOMAIN all : w[i] = all[j]
    <2>1. i \in 1..(n - k + 1)
      BY <1>6, <1>7
    <2>2. k + i - 1 \in 1..n /\ w[i] = all[k + i - 1]
      BY <1>1, <1>2, <1>3, <1>5, <2>1
    <2>. QED  BY <1>1, <2>2
  <1>. QED  BY <1>1, <1>2, <1>6, <1>8, <1>9, <1>10 DEF w, all

\* What is known of a candidate; its average volume is less than five times FMP's.
LEMMA CandidateFacts ==
    ASSUME NEW s \in Stock, NEW days \in Nat, days >= 2, Usable(s, days), NEW meta
    PROVE  LET x == Candidate(s, days, meta)
           IN  /\ x.symbol = s /\ x.price = Last(Daily[s]).close /\ x.price \in Nat
               /\ x.avg_volume \in Int /\ x.avg_volume <= 5 * Fmp[s].volume - 1
               /\ x.market_cap = IF meta THEN Fmp[s].market_cap ELSE None
               /\ x.sector = IF meta THEN Fmp[s].sector ELSE None
               /\ x.exchange = IF meta THEN Fmp[s].exchange ELSE None
  <1>. DEFINE x == Candidate(s, days, meta)
              w == Window(s, days)
  <1>1. /\ x.symbol = s /\ x.price = Last(w).close
        /\ x.avg_volume = VolumeOf(w) \div Len(w)
        /\ x.market_cap = IF meta THEN Fmp[s].market_cap ELSE None
        /\ x.sector = IF meta THEN Fmp[s].sector ELSE None
        /\ x.exchange = IF meta THEN Fmp[s].exchange ELSE None
    <2>1. x = [symbol |-> s, price |-> Last(w).close, avg_volume |-> VolumeOf(w) \div Len(w),
               change_pct |-> Rounded(10000 * (Last(w).close - w[1].close), w[1].close),
               market_cap |-> IF meta THEN Fmp[s].market_cap ELSE None,
               sector |-> IF meta THEN Fmp[s].sector ELSE None,
               exchange |-> IF meta THEN Fmp[s].exchange ELSE None]
      BY Zenon DEF Candidate, VolumeOf
    <2>. HIDE DEF w, x
    <2>. QED  BY <2>1
  <1>2. /\ w \in Seq(Bar) /\ w # <<>> /\ Daily[s] # <<>> /\ Last(w) = Last(Daily[s])
        /\ Last(Daily[s]).close \in Nat
        /\ \A i \in DOMAIN w : \E k \in DOMAIN Daily[s] : w[i] = Daily[s][k]
    BY WindowFacts
  <1>3. Fmp[s].volume \in Int /\ \A k \in DOMAIN Daily[s] : 5 * Fmp[s].volume > Daily[s][k].volume
    BY <1>2, MarketAssumption, FmpAssumption
  <1>4. \A i \in DOMAIN w : w[i].volume <= 5 * Fmp[s].volume - 1
    <2>. SUFFICES ASSUME NEW i \in DOMAIN w PROVE w[i].volume <= 5 * Fmp[s].volume - 1
      OBVIOUS
    <2>1. PICK k \in DOMAIN Daily[s] : w[i] = Daily[s][k]
      BY <1>2
    <2>2. w[i].volume \in Nat
      <3>1. w[i] \in Bar
        <4>. HIDE DEF w
        <4>. QED  BY <1>2, LenProperties, ElementOfSeq
      <3>. QED  BY <3>1 DEF Bar
    <2>3. 5 * Fmp[s].volume > w[i].volume
      BY <1>3, <2>1
    <2>. HIDE DEF w
    <2>. QED  BY <1>3, <2>2, <2>3
  <1>. HIDE DEF w, x
  <1>5. 5 * Fmp[s].volume - 1 \in Int
    BY <1>3
  <1>6. VolumeOf(w) \div Len(w) \in Int /\ VolumeOf(w) \div Len(w) <= 5 * Fmp[s].volume - 1
    BY <1>2, <1>4, <1>5, AverageVolume
  <1>. QED  BY <1>1, <1>2, <1>6 DEF x

\* The candidates are one for each symbol.
LEMMA CandidatesCompare ==
    ASSUME NEW S \in SUBSET Stock, NEW days \in Nat, days >= 2, NEW meta, NEW failed,
           NEW K, K \subseteq Candidates(S, days, meta, failed)
    PROVE  Comparable(K)
  <1>. DEFINE T == {t \in S \ UNION failed : Usable(t, days)}
              All == Candidates(S, days, meta, failed)
              f == [s \in T |-> Candidate(s, days, meta)]
  <1>1. /\ IsFiniteSet(T) /\ T \subseteq Stock
        /\ \A s \in Stock : s \in Int
    <2>1. T \in SUBSET Stock
      OBVIOUS
    <2>. HIDE DEF T
    <2>. QED  BY <2>1, MarketAssumption, FS_Subset
  <1>2. All = {Candidate(s, days, meta) : s \in T}
    BY Zenon DEF Candidates
  <1>3. \A s \in T : Usable(s, days)
    OBVIOUS
  <1>. HIDE DEF T, All
  <1>4. IsFiniteSet(All)
    <2>1. f \in Surjection(T, All)
      <3>1. f \in [T -> All]
        BY <1>2
      <3>2. \A x \in All : \E s \in T : f[s] = x
        BY <1>2
      <3>. HIDE DEF f
      <3>. QED  BY <3>1, <3>2 DEF Surjection
    <2>. HIDE DEF f
    <2>. QED  BY <1>1, <2>1, FS_Surjection
  <1>5. IsFiniteSet(K)
    BY <1>4, FS_Subset DEF All
  <1>6. ASSUME NEW x \in K
        PROVE  x.symbol \in T /\ x = Candidate(x.symbol, days, meta) /\ x.avg_volume \in Int
    <2>1. PICK s \in T : x = Candidate(s, days, meta)
      BY <1>2 DEF All
    <2>2. Candidate(s, days, meta).symbol = s /\ Candidate(s, days, meta).avg_volume \in Int
      BY <1>1, <1>3, CandidateFacts
    <2>. QED  BY <2>1, <2>2
  <1>7. \A x \in K : x.symbol \in Int /\ x.avg_volume \in Int
    BY <1>1, <1>6
  <1>8. \A x, y \in K : x.symbol = y.symbol => x = y
    <2>. SUFFICES ASSUME NEW x \in K, NEW y \in K, x.symbol = y.symbol PROVE x = y
      OBVIOUS
    <2>1. x = Candidate(x.symbol, days, meta) /\ y = Candidate(y.symbol, days, meta)
      BY <1>6
    <2>. QED  BY <2>1, Zenon
  <1>. QED  BY <1>5, <1>7, <1>8 DEF Comparable

-----------------------------------------------------------------------------
(* FMP's query.                                                            *)

\* Rounding to the nearest is off by half a unit at most.
LEMMA RoundedNear ==
    ASSUME NEW n \in Int
    PROVE  /\ Rounded(n, 100) \in Int
           /\ 100 * Rounded(n, 100) <= n + 50 /\ 100 * Rounded(n, 100) >= n - 50
  BY DEF Rounded

\* What is sent for each bound.
LEMMA ParamsFields ==
    ASSUME NEW c, Criteria(c)
    PROVE  LET q == Params(c)
           IN  /\ q.min_price = IF c.min_price = None THEN None ELSE Rounded(90 * c.min_price, 100)
               /\ q.max_price = IF c.max_price = None THEN None ELSE Rounded(110 * c.max_price, 100)
               /\ q.min_avg_volume = IF c.min_avg_volume = None THEN None
                                     ELSE c.min_avg_volume \div 5
               /\ q.min_market_cap = c.min_market_cap /\ q.max_market_cap = c.max_market_cap
               /\ q.sectors = One(c.sectors) /\ q.exchanges = One(c.exchanges)
  BY DEF Params, Criteria, Fields

\* A symbol the engine would keep is in FMP's answer, whether or not FMP takes its bounds
\* as inclusive, unless its market cap is at one.
LEMMA QueryLeavesNoneOut ==
    ASSUME NEW c, Criteria(c), NEW s \in Stock, NEW days \in Nat, days >= 2, Usable(s, days),
           Passes(Candidate(s, days, TRUE), c),
           Fmp[s].market_cap \notin {c.min_market_cap, c.max_market_cap},
           NEW strict \in BOOLEAN
    PROVE  s \in Answered(Params(c), strict)
  <1>. DEFINE x == Candidate(s, days, TRUE)
              q == Params(c)
              row == Fmp[s]
  <1>1. /\ c.min_price \in Int \union {None} /\ c.max_price \in Int \union {None}
        /\ c.min_avg_volume \in Int \union {None}
    BY DEF Criteria, Bound, Fields
  <1>2. /\ x.price = Last(Daily[s]).close /\ x.price \in Nat
        /\ x.avg_volume \in Int /\ x.avg_volume <= 5 * row.volume - 1
        /\ x.market_cap = row.market_cap /\ x.sector = row.sector /\ x.exchange = row.exchange
    BY CandidateFacts
  <1>3. /\ row.quote \in Int /\ row.volume \in Int
        /\ 10 * row.quote >= 9 * x.price + 10
        /\ 10 * row.quote + 10 <= 11 * x.price
    <2>1. Daily[s] # <<>>
      BY WindowFacts
    <2>. QED  BY <1>2, <2>1, MarketAssumption, FmpAssumption
  <1>4. /\ q.min_price = IF c.min_price = None THEN None ELSE Rounded(90 * c.min_price, 100)
        /\ q.max_price = IF c.max_price = None THEN None ELSE Rounded(110 * c.max_price, 100)
        /\ q.min_avg_volume = IF c.min_avg_volume = None THEN None ELSE c.min_avg_volume \div 5
        /\ q.min_market_cap = c.min_market_cap /\ q.max_market_cap = c.max_market_cap
        /\ q.sectors = One(c.sectors) /\ q.exchanges = One(c.exchanges)
    BY ParamsFields
  <1>5. /\ AtLeast(x.price, c.min_price) /\ AtMost(x.price, c.max_price)
        /\ AtLeast(x.avg_volume, c.min_avg_volume)
        /\ AtLeast(x.market_cap, c.min_market_cap) /\ AtMost(x.market_cap, c.max_market_cap)
        /\ Listed(x.sector, c.sectors) /\ Listed(x.exchange, c.exchanges)
    BY DEF Passes
  <1>. HIDE DEF x, q, row
  <1>6. q.min_price # None => row.quote # None /\ row.quote > q.min_price
    <2>. SUFFICES ASSUME q.min_price # None PROVE row.quote # None /\ row.quote > q.min_price
      OBVIOUS
    <2>. DEFINE m == c.min_price
                b == Rounded(90 * m, 100)
    <2>1. m # None /\ m \in Int /\ q.min_price = b /\ x.price >= m
      BY <1>1, <1>4, <1>5 DEF AtLeast
    <2>2. b \in Int /\ 100 * b <= 90 * m + 50
      BY <2>1, RoundedNear
    <2>. HIDE DEF b, m
    <2>3. row.quote > b
      BY <1>2, <1>3, <2>1, <2>2
    <2>. QED  BY <1>3, <2>1, <2>3, MarketAssumption
  <1>7. q.max_price # None => row.quote # None /\ row.quote < q.max_price
    <2>. SUFFICES ASSUME q.max_price # None PROVE row.quote # None /\ row.quote < q.max_price
      OBVIOUS
    <2>. DEFINE m == c.max_price
                b == Rounded(110 * m, 100)
    <2>1. m # None /\ m \in Int /\ q.max_price = b /\ x.price <= m
      BY <1>1, <1>4, <1>5 DEF AtMost
    <2>2. b \in Int /\ 100 * b >= 110 * m - 50
      BY <2>1, RoundedNear
    <2>. HIDE DEF b, m
    <2>3. row.quote < b
      BY <1>2, <1>3, <2>1, <2>2
    <2>. QED  BY <1>3, <2>1, <2>3, MarketAssumption
  <1>8. q.min_avg_volume # None => row.volume # None /\ row.volume > q.min_avg_volume
    <2>. SUFFICES ASSUME q.min_avg_volume # None
                  PROVE  row.volume # None /\ row.volume > q.min_avg_volume
      OBVIOUS
    <2>. DEFINE m == c.min_avg_volume
    <2>1. m # None /\ m \in Int /\ q.min_avg_volume = m \div 5 /\ x.avg_volume >= m
      BY <1>1, <1>4, <1>5 DEF AtLeast
    <2>. HIDE DEF m
    <2>2. row.volume > m \div 5
      BY <1>2, <1>3, <2>1
    <2>. QED  BY <1>3, <2>1, <2>2, MarketAssumption
  <1>9. /\ q.min_price \in Int \union {None} /\ q.max_price \in Int \union {None}
        /\ q.min_avg_volume \in Int \union {None}
    <2>1. \A m \in Int : /\ Rounded(90 * m, 100) \in Int /\ Rounded(110 * m, 100) \in Int
                         /\ m \div 5 \in Int
      BY RoundedNear
    <2>. QED  BY <1>1, <1>4, <2>1
  <1>10. /\ AtLeast(row.quote, q.min_price) /\ AtMost(row.quote, q.max_price)
         /\ AtLeast(row.volume, q.min_avg_volume)
         /\ q.min_price # None => row.quote # q.min_price
         /\ q.max_price # None => row.quote # q.max_price
         /\ q.min_avg_volume # None => row.volume # q.min_avg_volume
    BY <1>3, <1>6, <1>7, <1>8, <1>9 DEF AtLeast, AtMost
  <1>11. /\ AtLeast(row.market_cap, q.min_market_cap) /\ AtMost(row.market_cap, q.max_market_cap)
         /\ row.market_cap # q.min_market_cap /\ row.market_cap # q.max_market_cap
    BY <1>2, <1>4, <1>5 DEF row
  <1>12. Listed(row.sector, q.sectors) /\ Listed(row.exchange, q.exchanges)
    BY <1>2, <1>4, <1>5 DEF Listed, One
  <1>. QED  BY <1>10, <1>11, <1>12, Zenon DEF Answered, q, row

\* A scan that nothing cut short, and none of whose batches failed, saw every symbol that
\* its criteria would keep.
LEMMA ScanSeesAll ==
    ASSUME NEW want, Want(want), NEW u \in Universes(want.criteria), u.whole,
           NEW s \in Plain, u.meta \/ s \in Tradable, Usable(s, want.lookback),
           Passes(Candidate(s, want.lookback, u.meta), Applied(want, u)),
           u.meta => Fmp[s].market_cap \notin {Applied(want, u).min_market_cap,
                                               Applied(want, u).max_market_cap}
    PROVE  s \in u.symbols
  <1>1. /\ Criteria(want.criteria) /\ want.lookback \in Nat /\ want.lookback >= 2
        /\ s \in Stock
    BY MarketAssumption DEF Want
  <1>2. CASE u \in Fetched(want.criteria)
    <2>1. PICK strict, got :
            /\ strict \in BOOLEAN
            /\ u = [symbols |-> got \intersect Plain, meta |-> TRUE,
                    whole |-> got = Answered(Params(want.criteria), strict)]
      BY <1>2 DEF Fetched
    <2>2. u.symbols = got \intersect Plain /\ u.meta = TRUE
      BY <2>1
    <2>3. got = Answered(Params(want.criteria), strict)
      BY <2>1
    <2>4. Applied(want, u) = want.criteria
      BY <2>2 DEF Applied
    <2>5. s \in Answered(Params(want.criteria), strict)
      BY <1>1, <2>1, <2>2, <2>4, QueryLeavesNoneOut
    <2>. QED  BY <2>2, <2>3, <2>5
  <1>3. CASE u \notin Fetched(want.criteria)
    <2>. DEFINE S == Tradable \intersect Plain
    <2>1. u = [symbols |-> First(Fallback, S), meta |-> FALSE,
               whole |-> Cardinality(S) <= Fallback]
      BY <1>3 DEF Universes
    <2>2. u.symbols = First(Fallback, S) /\ ~u.meta
      BY <2>1
    <2>3. Cardinality(S) <= Fallback
      BY <2>1
    <2>4. s \in S /\ IsFiniteSet(S) /\ S \subseteq Int
      <3>1. S \in SUBSET Stock
        BY MarketAssumption
      <3>. HIDE DEF S
      <3>2. IsFiniteSet(S) /\ S \subseteq Int
        BY <3>1, MarketAssumption, FS_Subset
      <3>. QED  BY <2>2, <3>2 DEF S
    <2>. HIDE DEF S
    <2>. DEFINE B == {t \in S : t < s}
    <2>5. B \in SUBSET S /\ s \notin B
      BY <2>4
    <2>6. Cardinality(B) \in Nat /\ Cardinality(S) \in Nat /\ Cardinality(B) < Cardinality(S)
      <3>. HIDE DEF B
      <3>1. IsFiniteSet(B) /\ Cardinality(B) <= Cardinality(S) /\ Cardinality(B) # Cardinality(S)
        BY <2>4, <2>5, FS_Subset
      <3>. QED  BY <2>4, <3>1, FS_CardinalityType
    <2>7. Cardinality(B) < Fallback
      <3>. HIDE DEF B
      <3>. QED  BY <2>3, <2>6, MarketAssumption
    <2>. QED  BY <2>2, <2>4, <2>7 DEF First
  <1>. QED  BY <1>2, <1>3

\* What a scan leaves to be saved is what its criteria say of the market.
LEMMA ScanIsHonest ==
    ASSUME NEW want, Want(want), NEW by, NEW u \in Universes(want.criteria),
           NEW failed \in SUBSET Batches(u.symbols)
    PROVE  Honest(Scanned(want, by, u, failed)) /\ Scanned(want, by, u, failed).by = by
  <1>. DEFINE run == Scanned(want, by, u, failed)
              c == Applied(want, u)
              days == want.lookback
              all == Candidates(u.symbols, days, u.meta, failed)
              K == {x \in all : Passes(x, c)}
              rows == Screen(all, c)
  <1>1. /\ run.criteria = c /\ run.lookback = days /\ run.by = by /\ run.rows = rows
        /\ run.meta = u.meta
    BY Zenon DEF Scanned
  <1>2. run.whole => u.whole /\ failed = {}
    BY DEF Scanned
  <1>3. /\ Criteria(want.criteria) /\ days \in Nat /\ days >= 2
        /\ u.symbols \in SUBSET Stock /\ u.meta \in BOOLEAN
    <2>1. u.symbols \subseteq Plain /\ u.meta \in BOOLEAN
      <3>1. CASE u \in Fetched(want.criteria)
        <4>1. PICK got, whole : u = [symbols |-> got \intersect Plain, meta |-> TRUE,
                                     whole |-> whole]
          BY <3>1 DEF Fetched
        <4>. QED  BY <4>1
      <3>2. CASE u \notin Fetched(want.criteria)
        <4>1. u = [symbols |-> First(Fallback, Tradable \intersect Plain), meta |-> FALSE,
                   whole |-> Cardinality(Tradable \intersect Plain) <= Fallback]
          BY <3>2 DEF Universes
        <4>. QED  BY <4>1 DEF First
      <3>. QED  BY <3>1, <3>2
    <2>. QED  BY <2>1, MarketAssumption DEF Want
  <1>4. IsRanking(rows, K)
    BY Zenon DEF Screen, IsRanking, Rank, Ahead
  <1>. HIDE DEF run, rows
  <1>5. Comparable(K)
    <2>1. K \subseteq all
      OBVIOUS
    <2>. HIDE DEF K
    <2>. QED  BY <1>3, <2>1, CandidatesCompare
  <1>6. /\ \A i \in DOMAIN rows : rows[i] \in K
        /\ \A x \in K : \E i \in DOMAIN rows : rows[i] = x
        /\ \A i \in DOMAIN rows : \A j \in 1..(i - 1) : Before(rows[j], rows[i])
    <2>. HIDE DEF K
    <2>. QED  BY <1>4, <1>5, RankingOrders
  <1>7. ASSUME NEW x \in K
        PROVE  x = Candidate(x.symbol, days, u.meta) /\ Passes(x, c)
    <2>1. PICK s \in u.symbols : Usable(s, days) /\ x = Candidate(s, days, u.meta)
      BY <1>7 DEF Candidates
    <2>2. Candidate(s, days, u.meta).symbol = s
      BY <1>3, <2>1, CandidateFacts
    <2>. QED  BY <2>1, <2>2
  <1>8. ASSUME run.whole, NEW s \in Kept(run) PROVE s \in SymbolsOf(rows)
    <2>. DEFINE x == Candidate(s, days, u.meta)
    <2>1. /\ s \in Plain /\ (u.meta \/ s \in Tradable)
          /\ Usable(s, days) /\ Passes(x, c)
          /\ u.meta => Fmp[s].market_cap \notin {c.min_market_cap, c.max_market_cap}
      BY <1>1, <1>3, <1>8 DEF Kept
    <2>2. u.whole /\ failed = {}
      BY <1>2, <1>8
    <2>3. s \in u.symbols
      BY <2>1, <2>2, ScanSeesAll
    <2>4. x \in all
      BY <2>1, <2>2, <2>3 DEF Candidates
    <2>5. x.symbol = s
      BY <1>3, <2>1, <2>3, CandidateFacts
    <2>6. x \in K
      BY <2>1, <2>4
    <2>. HIDE DEF x, K
    <2>7. PICK i \in DOMAIN rows : rows[i] = x
      BY <1>6, <2>6
    <2>. QED  BY <2>5, <2>7 DEF SymbolsOf
  <1>9. u.meta \/ c = Stripped(c)
    <2>. SUFFICES ASSUME ~u.meta PROVE c = Stripped(c)
      OBVIOUS
    <2>1. c = Stripped(want.criteria)
      BY DEF Applied
    <2>. HIDE DEF c
    <2>2. \A f \in Fields : c[f] = IF f \in FmpFields THEN NoBounds[f] ELSE want.criteria[f]
      BY <2>1 DEF Stripped
    <2>. QED  BY <2>1, <2>2, Zenon DEF Stripped
  <1>. HIDE DEF K, c, days
  <1>10. \A i \in DOMAIN rows :
            /\ rows[i] = Candidate(rows[i].symbol, days, u.meta) /\ Passes(rows[i], c)
            /\ \A j \in 1..(i - 1) : Before(rows[j], rows[i])
    BY <1>6, <1>7
  <1>11. \A i \in DOMAIN run.rows :
            /\ run.rows[i] = Candidate(run.rows[i].symbol, run.lookback, run.meta)
            /\ Passes(run.rows[i], run.criteria)
            /\ \A j \in 1..(i - 1) : Before(run.rows[j], run.rows[i])
    BY <1>1, <1>10
  <1>12. /\ run.whole => Kept(run) \subseteq SymbolsOf(run.rows)
         /\ run.meta \/ run.criteria = Stripped(run.criteria)
    BY <1>1, <1>8, <1>9
  <1>13. Honest(run)
    BY <1>11, <1>12, Zenon DEF Honest
  <1>. QED  BY <1>1, <1>13 DEF run

-----------------------------------------------------------------------------
(* The reply.                                                              *)

\* What may be kept of a reply: some of what is allowed, none twice, up to the cap.
Shortlists(allowed, cap) == {out \in Seq(allowed) : IsInjective(out) /\ Len(out) <= cap}

Take(out, s, allowed, cap) ==
    IF Len(out) < cap /\ s \in allowed /\ ~Contains(out, s) THEN Append(out, s) ELSE out

IsParse(g, reply, allowed, cap) ==
    g = [s \in SUBSET DOMAIN reply |->
            IF s = {} THEN <<>>
            ELSE Take(g[s \ {Max(s)}], reply[Max(s)], allowed, cap)]

\* The parser is the recursion that takes the last item last.
LEMMA ParsedIsTable ==
    ASSUME NEW reply, NEW allowed, NEW cap
    PROVE  Parsed(reply, allowed, cap)
             = (CHOOSE g : IsParse(g, reply, allowed, cap))[DOMAIN reply]
  BY Zenon DEF Parsed, FoldLeft, MapThenFoldSet, IsParse, Take

\* One more item leaves a list that may be kept.
LEMMA TakeKeeps ==
    ASSUME NEW allowed, NEW cap \in Nat, NEW out \in Shortlists(allowed, cap), NEW s
    PROVE  Take(out, s, allowed, cap) \in Shortlists(allowed, cap)
  <1>1. out \in Seq(allowed) /\ IsInjective(out) /\ Len(out) <= cap
    BY DEF Shortlists
  <1>2. CASE Len(out) < cap /\ s \in allowed /\ ~Contains(out, s)
    <2>. DEFINE more == Append(out, s)
    <2>1. /\ more \in Seq(allowed) /\ Len(out) \in Nat /\ Len(more) = Len(out) + 1
          /\ DOMAIN out = 1..Len(out) /\ DOMAIN more = 1..(Len(out) + 1)
          /\ more[Len(out) + 1] = s
          /\ \A i \in 1..Len(out) : more[i] = out[i] /\ out[i] # s
      BY <1>1, <1>2 DEF Contains
    <2>. HIDE DEF more
    <2>2. IsInjective(more)
      <3>. SUFFICES ASSUME NEW a \in DOMAIN more, NEW b \in DOMAIN more, more[a] = more[b]
                    PROVE  a = b
        BY DEF IsInjective
      <3>1. CASE a \in 1..Len(out) /\ b \in 1..Len(out)
        BY <1>1, <2>1, <3>1 DEF IsInjective
      <3>2. CASE a = Len(out) + 1 \/ b = Len(out) + 1
        BY <2>1, <3>2
      <3>. QED  BY <2>1, <3>1, <3>2
    <2>3. Len(more) <= cap
      BY <1>2, <2>1
    <2>. QED  BY <1>2, <2>1, <2>2, <2>3 DEF Take, Shortlists, more
  <1>3. CASE ~(Len(out) < cap /\ s \in allowed /\ ~Contains(out, s))
    BY <1>3 DEF Take
  <1>. QED  BY <1>2, <1>3

\* What is kept of any reply may be kept.
LEMMA ParsedKeeps ==
    ASSUME NEW reply \in Seq(Int), NEW allowed, NEW cap \in Nat
    PROVE  Parsed(reply, allowed, cap) \in Shortlists(allowed, cap)
  <1>. DEFINE D == DOMAIN reply
              V == Shortlists(allowed, cap)
              pick == [s \in SUBSET D |-> Max(s)]
              f == [x \in V \X D |-> Take(x[1], reply[x[2]], allowed, cap)]
  <1>1. IsFiniteSet(D) /\ D \subseteq Int
    BY FS_Interval
  <1>2. Picks(pick, D)
    <2>. SUFFICES ASSUME NEW s \in SUBSET D, s # {} PROVE Max(s) \in s
      BY DEF Picks
    <2>. HIDE DEF D
    <2>1. IsFiniteSet(s) /\ s \subseteq Int
      BY <1>1, FS_Subset
    <2>. QED  BY <2>1, Largest
  <1>3. <<>> \in V
    BY DEF Shortlists, IsInjective
  <1>4. Operates(f, V, D)
    <2>1. \A x \in V \X D : Take(x[1], reply[x[2]], allowed, cap) \in V
      BY TakeKeeps
    <2>. HIDE DEF V, D
    <2>. QED  BY <2>1 DEF Operates
  <1>5. \E g : IsParse(g, reply, allowed, cap)
    <2>. HIDE DEF D, V, pick, f
    <2>. DEFINE none == <<>>
    <2>0. none \in V
      BY <1>3
    <2>. HIDE DEF none
    <2>1. PICK g : IsFold(g, f, none, pick, V, D)
      BY <1>1, <1>2, <2>0, <1>4, FoldTable
    <2>2. ASSUME NEW s \in SUBSET D, s # {}
          PROVE  g[s] = Take(g[s \ {Max(s)}], reply[Max(s)], allowed, cap)
      <3>. DEFINE r == s \ {Max(s)}
      <3>1. pick[s] = Max(s) /\ Max(s) \in D /\ r \in SUBSET D
        BY <1>2, <2>2 DEF Picks, pick
      <3>2. g[r] \in V
        BY <2>1, <3>1 DEF IsFold
      <3>3. g[s] = f[<<g[r], Max(s)>>]
        BY <2>1, <2>2, <3>1 DEF IsFold, Folded
      <3>. HIDE DEF r
      <3>4. f[<<g[r], Max(s)>>] = Take(g[r], reply[Max(s)], allowed, cap)
        BY <3>1, <3>2 DEF f
      <3>. QED  BY <3>3, <3>4 DEF r
    <2>3. \A s \in SUBSET D : s = {} => g[s] = <<>>
      BY <2>1 DEF IsFold, Folded, none
    <2>4. g = [s \in SUBSET D |-> IF s = {} THEN <<>>
                                  ELSE Take(g[s \ {Max(s)}], reply[Max(s)], allowed, cap)]
      BY <2>1, <2>2, <2>3 DEF IsFold
    <2>. QED  BY <2>4, Zenon DEF IsParse, D
  <1>. DEFINE g == CHOOSE g : IsParse(g, reply, allowed, cap)
              T == {s \in SUBSET D : g[s] \in V}
  <1>6. /\ Parsed(reply, allowed, cap) = g[D]
        /\ IsParse(g, reply, allowed, cap)
    BY <1>5, ParsedIsTable
  <1>. HIDE DEF g
  <1>7. \A s \in SUBSET D : g[s] = IF s = {} THEN <<>>
                                   ELSE Take(g[s \ {Max(s)}], reply[Max(s)], allowed, cap)
    BY <1>6, Zenon DEF IsParse
  <1>. HIDE DEF D, V, f
  <1>8. {} \in T
    BY <1>3, <1>7
  <1>9. ASSUME NEW s \in SUBSET D, s # {}, s \ {pick[s]} \in T PROVE s \in T
    <2>. DEFINE r == s \ {Max(s)}
    <2>1. g[r] \in V /\ g[s] = Take(g[r], reply[Max(s)], allowed, cap)
      BY <1>7, <1>9
    <2>. HIDE DEF r
    <2>2. Take(g[r], reply[Max(s)], allowed, cap) \in V
      BY <2>1, TakeKeeps DEF V
    <2>. QED  BY <2>1, <2>2
  <1>. HIDE DEF T, pick
  <1>10. D \in T
    BY <1>1, <1>2, <1>8, <1>9, SubsetInduction
  <1>. QED  BY <1>6, <1>10 DEF T, V

-----------------------------------------------------------------------------
(* The locks.                                                              *)

Locks == {"screen", "backtest"}

Under(p, lock) == proc[p].at # "idle" /\ lock \in LockOf(proc[p].kind)

ShapeInv ==
    /\ proc = [p \in Proc |-> proc[p]]
    /\ \A p \in Proc : {"at", "kind"} \subseteq DOMAIN proc[p] /\ proc[p].kind \in Kinds

HolderInv ==
    \A lock \in Locks :
        /\ \A p \in Proc : Under(p, lock) => lock \in locks
        /\ \A p, q \in Proc : Under(p, lock) /\ Under(q, lock) => p = q
        /\ lock \in locks => \E p \in Proc : Under(p, lock)

LockInv == ShapeInv /\ HolderInv

-----------------------------------------------------------------------------
(* What keeps the locks.                                                   *)

\* What is known of Idle, and of a job made from it.
LEMMA IdleShape ==
    /\ {"at", "kind"} \subseteq DOMAIN Idle /\ Idle.at = "idle" /\ Idle.kind = "none"
    /\ LockOf("none") = {} /\ LockOf("web") = {}
    /\ LockOf("screen.py") = {} /\ LockOf("suggest.py") = {}
  BY DEF Idle, LockOf

\* A job that stays at work under its kind changes nothing about the locks.
LEMMA WorkKeeps ==
    ASSUME LockInv, NEW p \in Proc, NEW r, proc' = [proc EXCEPT ![p] = r], UNCHANGED locks,
           proc[p].at # "idle", r.at # "idle", r.kind = proc[p].kind,
           {"at", "kind"} \subseteq DOMAIN r
    PROVE  LockInv'
  <1>1. /\ proc = [q \in Proc |-> proc[q]]
        /\ \A q \in Proc : {"at", "kind"} \subseteq DOMAIN proc[q] /\ proc[q].kind \in Kinds
    BY DEF LockInv, ShapeInv
  <1>2. /\ proc'[p] = r
        /\ \A q \in Proc : q # p => proc'[q] = proc[q]
        /\ proc' = [q \in Proc |-> proc'[q]]
    BY <1>1
  <1>3. ShapeInv'
    BY <1>1, <1>2 DEF ShapeInv
  <1>4. \A q \in Proc, lock \in Locks : Under(q, lock)' = Under(q, lock)
    BY <1>2 DEF Under
  <1>5. HolderInv'
    BY <1>4 DEF LockInv, HolderInv
  <1>. QED  BY <1>3, <1>5 DEF LockInv

\* The last step of a job releases what it alone held.
LEMMA EndKeeps == ASSUME LockInv, NEW p \in Proc, At(p, "idle") => FALSE, End(p) PROVE LockInv'
  <1>1. /\ proc = [q \in Proc |-> proc[q]]
        /\ \A q \in Proc : {"at", "kind"} \subseteq DOMAIN proc[q] /\ proc[q].kind \in Kinds
    BY DEF LockInv, ShapeInv
  <1>2. /\ proc' = [proc EXCEPT ![p] = Idle] /\ locks' = locks \ LockOf(proc[p].kind)
        /\ proc[p].at # "idle"
    BY DEF End, At
  <1>3. /\ proc'[p] = Idle
        /\ \A q \in Proc : q # p => proc'[q] = proc[q]
        /\ proc' = [q \in Proc |-> proc'[q]]
    BY <1>1, <1>2
  <1>4. ShapeInv'
    BY <1>1, <1>3, IdleShape DEF ShapeInv, Kinds
  <1>5. \A lock \in Locks : /\ ~Under(p, lock)'
                            /\ \A q \in Proc : q # p => Under(q, lock)' = Under(q, lock)
    BY <1>3, IdleShape DEF Under
  <1>6. \A lock \in Locks : lock \in locks' <=> lock \in locks /\ ~Under(p, lock)
    BY <1>2 DEF Under
  <1>7. HolderInv'
    BY <1>5, <1>6 DEF LockInv, HolderInv
  <1>. QED  BY <1>4, <1>7 DEF LockInv

\* A job starts under a lock that was free, or under none.
LEMMA StartKeeps ==
    ASSUME LockInv, NEW p \in Proc, NEW job, Enter(p, job),
           {"at", "kind"} \subseteq DOMAIN job, job.kind \in Kinds, job.at # "idle",
           LockOf(job.kind) \intersect locks = {}, locks' = locks \union LockOf(job.kind)
    PROVE  LockInv'
  <1>1. /\ proc = [q \in Proc |-> proc[q]]
        /\ \A q \in Proc : {"at", "kind"} \subseteq DOMAIN proc[q] /\ proc[q].kind \in Kinds
    BY DEF LockInv, ShapeInv
  <1>2. proc' = [proc EXCEPT ![p] = job] /\ proc[p].at = "idle"
    BY DEF Enter, At
  <1>3. /\ proc'[p] = job
        /\ \A q \in Proc : q # p => proc'[q] = proc[q]
        /\ proc' = [q \in Proc |-> proc'[q]]
    BY <1>1, <1>2
  <1>4. ShapeInv'
    BY <1>1, <1>3 DEF ShapeInv
  <1>5. \A lock \in Locks : /\ ~Under(p, lock)
                            /\ Under(p, lock)' = (lock \in LockOf(job.kind))
                            /\ \A q \in Proc : q # p => Under(q, lock)' = Under(q, lock)
    BY <1>2, <1>3 DEF Under
  <1>6. HolderInv'
    BY <1>5 DEF LockInv, HolderInv
  <1>. QED  BY <1>4, <1>6 DEF LockInv

\* What moves no process and no lock.
LEMMA StillKeeps == ASSUME LockInv, UNCHANGED <<proc, locks>> PROVE LockInv'
  BY DEF LockInv, ShapeInv, HolderInv, Under

\* The dashboard's restart ends every thread and forgets every lock; scripts hold none.
LEMMA RestartKeeps == LockInv /\ RestartDashboard => LockInv'
  <1>. SUFFICES ASSUME LockInv, RestartDashboard PROVE LockInv'
    OBVIOUS
  <1>1. /\ \A q \in Proc : {"at", "kind"} \subseteq DOMAIN proc[q] /\ proc[q].kind \in Kinds
        /\ locks' = {}
        /\ proc' = [q \in Proc |-> IF proc[q].kind \in {"screen.py", "suggest.py"}
                                   THEN proc[q] ELSE Idle]
    BY DEF LockInv, ShapeInv, RestartDashboard
  <1>2. \A q \in Proc : \/ proc'[q] = Idle
                        \/ proc'[q] = proc[q] /\ proc[q].kind \in {"screen.py", "suggest.py"}
    BY <1>1
  <1>3. ShapeInv'
    BY <1>1, <1>2, IdleShape DEF ShapeInv, Kinds
  <1>4. \A q \in Proc, lock \in Locks : ~Under(q, lock)'
    BY <1>2, IdleShape DEF Under
  <1>5. HolderInv'
    BY <1>1, <1>4 DEF HolderInv
  <1>. QED  BY <1>3, <1>5 DEF LockInv

-----------------------------------------------------------------------------
(* The steps, and the locks.                                               *)

\* A request of the dashboard runs under no lock.
LEMMA RequestKeeps == ASSUME LockInv, NEW p \in Proc, Request(p) PROVE LockInv'
  <1>1. ASSUME NEW i, NEW job, job = [Idle EXCEPT !.at = "activate", !.kind = "web", !.id = i],
               Enter(p, job), UNCHANGED locks
        PROVE  LockInv'
    <2>1. {"at", "kind"} \subseteq DOMAIN job /\ job.kind = "web" /\ job.at = "activate"
      BY <1>1 DEF Idle
    <2>. QED  BY <1>1, <2>1, IdleShape, StartKeeps DEF Kinds
  <1>2. ASSUME NEW n, NEW w, NEW i, SavePreset(p, n, w, i) PROVE LockInv'
    BY <1>1, <1>2 DEF SavePreset
  <1>3. ASSUME NEW i, ActivatePreset(p, i) PROVE LockInv'
    BY <1>1, <1>3 DEF ActivatePreset
  <1>4. ASSUME NEW i, DeletePreset(p, i) PROVE LockInv'
    BY <1>4, StillKeeps DEF DeletePreset
  <1>. QED  BY <1>2, <1>3, <1>4 DEF Request

\* A thread starts when its lock is free; a script needs none.
LEMMA StartsKeep == ASSUME LockInv, NEW p \in Proc, Start(p) PROVE LockInv'
  <1>1. ASSUME NEW kind \in {"screen", "premarket", "backtest"}, StartThread(p, kind)
        PROVE  LockInv'
    <2>. DEFINE job == [Idle EXCEPT !.at = IF kind = "backtest" THEN "run" ELSE "consult",
                                    !.kind = kind]
    <2>1. {"at", "kind"} \subseteq DOMAIN job /\ job.kind = kind /\ job.at # "idle"
      BY DEF Idle
    <2>2. /\ Enter(p, job) /\ LockOf(kind) \intersect locks = {}
          /\ locks' = locks \union LockOf(kind)
      BY <1>1 DEF StartThread, StartJob
    <2>. HIDE DEF job
    <2>. QED  BY <2>1, <2>2, StartKeeps DEF Kinds
  <1>2. ASSUME NEW base, NEW o, NEW n, ScreenScript(p, base, o, n) PROVE LockInv'
    <2>. DEFINE job == [Idle EXCEPT !.at = IF n = None THEN "scan" ELSE "upsert",
                                    !.kind = "screen.py", !.name = n,
                                    !.want = Asked(base, o)]
    <2>1. {"at", "kind"} \subseteq DOMAIN job /\ job.kind = "screen.py" /\ job.at # "idle"
      BY DEF Idle
    <2>2. Enter(p, job) /\ UNCHANGED locks
      BY <1>2 DEF ScreenScript, StartJob
    <2>. HIDE DEF job
    <2>. QED  BY <2>1, <2>2, IdleShape, StartKeeps DEF Kinds
  <1>3. ASSUME NEW m, SuggestScript(p, m) PROVE LockInv'
    <2>. DEFINE job == [Idle EXCEPT !.at = "suggest", !.kind = "suggest.py",
                                    !.screen = LatestScreen, !.cap = m]
    <2>1. {"at", "kind"} \subseteq DOMAIN job /\ job.kind = "suggest.py" /\ job.at # "idle"
      BY DEF Idle
    <2>2. Enter(p, job) /\ UNCHANGED locks
      BY <1>3 DEF SuggestScript
    <2>. HIDE DEF job
    <2>. QED  BY <2>1, <2>2, IdleShape, StartKeeps DEF Kinds
  <1>. QED  BY <1>1, <1>2, <1>3 DEF Start

\* A step of a job keeps its kind, or ends it.
LEMMA StepKeeps == ASSUME LockInv, NEW p \in Proc, Step(p) PROVE LockInv'
  <1>. DEFINE r == proc[p]
  <1>1. proc = [q \in Proc |-> proc[q]] /\ {"at", "kind"} \subseteq DOMAIN r
    BY DEF LockInv, ShapeInv
  <1>2. ASSUME NEW job, proc' = [proc EXCEPT ![p] = job], UNCHANGED locks, r.at # "idle",
               {"at", "kind"} \subseteq DOMAIN job, job.at # "idle", job.kind = r.kind
        PROVE  LockInv'
    BY <1>2, WorkKeeps
  <1>3. ASSUME End(p), ~At(p, "idle") PROVE LockInv'
    BY <1>3, EndKeeps
  <1>4. CASE BeginActivate(p)
    <2>. DEFINE job == [r EXCEPT !.at = "switch", !.seen = active]
    <2>1. proc' = [proc EXCEPT ![p] = job] /\ UNCHANGED locks /\ r.at # "idle"
      BY <1>1, <1>4 DEF BeginActivate, At
    <2>2. {"at", "kind"} \subseteq DOMAIN job /\ job.at # "idle" /\ job.kind = r.kind
      BY <1>1
    <2>. HIDE DEF job, r
    <2>. QED  BY <1>2, <2>1, <2>2
  <1>5. CASE Switch(p)
    <2>. DEFINE job == [r EXCEPT !.at = "scan", !.seen = {}, !.id = 0]
    <2>1. r.at # "idle" /\ \/ End(p)
                           \/ proc' = [proc EXCEPT ![p] = job] /\ UNCHANGED locks
      BY <1>1, <1>5 DEF Switch, At
    <2>2. {"at", "kind"} \subseteq DOMAIN job /\ job.at # "idle" /\ job.kind = r.kind
      BY <1>1
    <2>3. ~At(p, "idle")
      BY <2>1 DEF At
    <2>. HIDE DEF job, r
    <2>. QED  BY <1>2, <1>3, <2>1, <2>2, <2>3
  <1>6. CASE Consult(p)
    <2>1. PICK w \in Resolved : proc' = [proc EXCEPT ![p].at = "scan", ![p].want = w]
      BY <1>6 DEF Consult
    <2>. DEFINE job == [r EXCEPT !.at = "scan", !.want = w]
    <2>2. proc' = [proc EXCEPT ![p] = job] /\ UNCHANGED locks /\ r.at # "idle"
      BY <1>1, <1>6, <2>1 DEF Consult, At
    <2>3. {"at", "kind"} \subseteq DOMAIN job /\ job.at # "idle" /\ job.kind = r.kind
      BY <1>1
    <2>. HIDE DEF job, r
    <2>. QED  BY <1>2, <2>2, <2>3
  <1>7. ASSUME NEW i, UpsertScript(p, i) PROVE LockInv'
    <2>. DEFINE job == [r EXCEPT !.at = "activate", !.id = i, !.name = None]
    <2>1. proc' = [proc EXCEPT ![p] = job] /\ UNCHANGED locks /\ r.at # "idle"
      BY <1>1, <1>7 DEF UpsertScript, At
    <2>2. {"at", "kind"} \subseteq DOMAIN job /\ job.at # "idle" /\ job.kind = r.kind
      BY <1>1
    <2>. HIDE DEF job, r
    <2>. QED  BY <1>2, <2>1, <2>2
  <1>8. ASSUME NEW u, NEW failed, Scan(p, u, failed) PROVE LockInv'
    <2>1. PICK run : proc' = [proc EXCEPT ![p].at = "store", ![p].want = Default, ![p].run = run]
      BY <1>8 DEF Scan
    <2>. DEFINE job == [r EXCEPT !.at = "store", !.want = Default, !.run = run]
    <2>2. proc' = [proc EXCEPT ![p] = job] /\ UNCHANGED locks /\ r.at # "idle"
      BY <1>1, <1>8, <2>1 DEF Scan, At
    <2>3. {"at", "kind"} \subseteq DOMAIN job /\ job.at # "idle" /\ job.kind = r.kind
      BY <1>1
    <2>. HIDE DEF job, r
    <2>. QED  BY <1>2, <2>2, <2>3
  <1>9. CASE StoreScreen(p)
    <2>1. ~At(p, "idle") /\ r.at # "idle"
      BY <1>9 DEF StoreScreen, At
    <2>2. CASE proc[p].kind = "premarket"
      <3>1. PICK m \in Cap : proc' = [proc EXCEPT ![p].at = "suggest", ![p].run = None,
                                                  ![p].screen = Len(screens'), ![p].cap = m]
        BY <1>9, <2>2 DEF StoreScreen
      <3>. DEFINE job == [r EXCEPT !.at = "suggest", !.run = None, !.screen = Len(screens'),
                                   !.cap = m]
      <3>2. proc' = [proc EXCEPT ![p] = job] /\ UNCHANGED locks
        BY <1>1, <1>9, <2>2, <3>1 DEF StoreScreen
      <3>3. {"at", "kind"} \subseteq DOMAIN job /\ job.at # "idle" /\ job.kind = r.kind
        BY <1>1
      <3>. HIDE DEF job, r
      <3>. QED  BY <1>2, <2>1, <3>2, <3>3
    <2>3. CASE proc[p].kind # "premarket"
      BY <1>3, <1>9, <2>1, <2>3 DEF StoreScreen
    <2>. QED  BY <2>2, <2>3
  <1>10. ASSUME NEW reply, Suggest(p, reply) PROVE LockInv'
    <2>. DEFINE symbols == Suggested(screens[proc[p].screen].rows, reply, proc[p].cap)
                job == [r EXCEPT !.at = "keep", !.symbols = symbols]
    <2>1. proc' = [proc EXCEPT ![p] = job] /\ UNCHANGED locks /\ r.at # "idle"
      BY <1>1, <1>10 DEF Suggest, At
    <2>2. {"at", "kind"} \subseteq DOMAIN job /\ job.at # "idle" /\ job.kind = r.kind
      BY <1>1
    <2>. HIDE DEF job, r, symbols
    <2>. QED  BY <1>2, <2>1, <2>2
  <1>11. CASE StorePicks(p)
    BY <1>3, <1>11 DEF StorePicks, At
  <1>12. CASE Stop(p)
    BY <1>3, <1>12 DEF Stop, At
  <1>. QED
    BY <1>4, <1>5, <1>6, <1>7, <1>8, <1>9, <1>10, <1>11, <1>12 DEF Step

-----------------------------------------------------------------------------
(* The invariant of the jobs.                                              *)

JobFields == {"at", "kind", "id", "name", "want", "seen", "run", "screen", "cap", "symbols"}

\* Who may be at a step.
Home(at, kind) ==
    /\ at = "consult" => kind \in {"screen", "premarket"}
    /\ at = "upsert" => kind = "screen.py"
    /\ at \in {"activate", "switch"} => kind \in {"web", "screen.py"}
    /\ at \in {"scan", "store"} => kind \in {"screen", "premarket", "screen.py"}
    /\ at \in {"suggest", "keep"} => kind \in {"premarket", "suggest.py"}

\* Only scripts have saved the screens after k, up to n.
Scripted(k, n) == \A j \in (k + 1)..n : screens[j].by = "screen.py"

Matches(k) == SymbolsOf(screens[k].rows)

\* What a job has in hand is in order, and about a screen that is saved.
Fit(r) ==
    /\ JobFields \subseteq DOMAIN r
    /\ r.at \in Steps /\ Home(r.at, r.kind)
    /\ Want(r.want)
    /\ r.at = "store" => r.run.by = r.kind /\ Honest(r.run)

Linked(r) ==
    /\ r.at \in {"suggest", "keep"} =>
        /\ r.screen \in DOMAIN screens /\ r.cap \in Nat
        /\ r.kind = "premarket" => Scripted(r.screen, Len(screens))
    /\ r.at = "keep" => r.symbols \in Shortlists(Matches(r.screen), r.cap)

JobsInv == \A p \in Proc : Fit(proc[p]) /\ Linked(proc[p])

PresetInv ==
    /\ DOMAIN presets \subseteq PresetId
    /\ active \subseteq DOMAIN presets
    /\ \A i, j \in DOMAIN presets : presets[i].name = presets[j].name => i = j
    /\ \A i \in DOMAIN presets : Want(presets[i].want)

Good(pick) ==
    /\ pick.screen \in DOMAIN screens /\ pick.seen \in 0..Len(screens)
    /\ pick.symbols \in Shortlists(Matches(pick.screen), pick.cap)
    /\ pick.ok = (pick.symbols # <<>>)
    /\ pick.by = "premarket" => Scripted(pick.screen, pick.seen)

IsSequence(s) == s \in Seq(ToSet(s))

SavedInv ==
    /\ IsSequence(screens) /\ IsSequence(picks)
    /\ \A k \in DOMAIN screens : Honest(screens[k])
    /\ \A k \in DOMAIN picks : Good(picks[k])

DeskInv == LockInv /\ JobsInv /\ PresetInv /\ SavedInv

-----------------------------------------------------------------------------
(* What keeps the invariant of the jobs.                                   *)

\* What is appended to a sequence comes last, and the rest stays in place.
LEMMA AppendLast ==
    ASSUME NEW s, IsSequence(s), NEW e
    PROVE  /\ IsSequence(Append(s, e))
           /\ Len(s) \in Nat /\ DOMAIN s = 1..Len(s)
           /\ Len(Append(s, e)) = Len(s) + 1
           /\ DOMAIN Append(s, e) = 1..(Len(s) + 1)
           /\ Append(s, e)[Len(s) + 1] = e
           /\ \A i \in 1..Len(s) : Append(s, e)[i] = s[i]
  <1>. DEFINE T == ToSet(s) \union {e}
              more == Append(s, e)
  <1>1. s \in Seq(T) /\ e \in T
    BY SeqMonotonic DEF IsSequence
  <1>. HIDE DEF T
  <1>2. /\ more \in Seq(T)
        /\ Len(s) \in Nat /\ DOMAIN s = 1..Len(s)
        /\ Len(more) = Len(s) + 1 /\ DOMAIN more = 1..Len(more)
        /\ more[Len(s) + 1] = e
        /\ \A i \in 1..Len(s) : more[i] = s[i]
    BY <1>1
  <1>. HIDE DEF more
  <1>3. more \in Seq(ToSet(more))
    <2>1. Len(more) \in Nat /\ more = [i \in 1..Len(more) |-> more[i]]
      BY <1>2, LenProperties
    <2>2. \A i \in 1..Len(more) : more[i] \in ToSet(more)
      BY <1>2 DEF ToSet
    <2>. HIDE DEF ToSet
    <2>3. more \in [1..Len(more) -> ToSet(more)]
      BY <2>1, <2>2
    <2>. QED  BY <2>1, <2>3, SeqDef
  <1>. QED  BY <1>2, <1>3 DEF more, IsSequence

\* The default is a preset's criteria and lookback, and so is what the flags make of one.
LEMMA DefaultIsWant == Want(Default)
  <1>1. /\ DOMAIN Default = {"criteria", "lookback"} /\ Default.lookback = 2
        /\ Default.criteria = Overlaid(NoBounds, [min_avg_volume |-> 5])
    BY DEF Default
  <1>2. Criteria(Overlaid(NoBounds, [min_avg_volume |-> 5]))
    BY DEF Criteria, Overlaid, NoBounds, Bound, Fields
  <1>. QED  BY <1>1, <1>2 DEF Want

LEMMA AskedIsWant == ASSUME NEW base, Want(base), NEW o \in Overrides PROVE Want(Asked(base, o))
  <1>1. /\ DOMAIN Asked(base, o) = {"criteria", "lookback"}
        /\ Asked(base, o).criteria = Overlaid(base.criteria, o)
        /\ Asked(base, o).lookback = IF "lookback" \in DOMAIN o THEN o.lookback ELSE base.lookback
    BY DEF Asked
  <1>2. Criteria(Overlaid(base.criteria, o))
    <2>1. Criteria(Overlaid(NoBounds, o)) /\ Criteria(base.criteria)
      BY DeskAssumption DEF Want
    <2>. QED  BY <2>1, Zenon DEF Criteria, Overlaid
  <1>3. Asked(base, o).lookback \in Nat /\ Asked(base, o).lookback >= 2
    BY <1>1, DeskAssumption DEF Want
  <1>. QED  BY <1>1, <1>2, <1>3 DEF Want

LEMMA WantsAreWant ==
    ASSUME PresetInv
    PROVE  /\ \A w \in Resolved : Want(w)
           /\ \A w \in {presets[i].want : i \in DOMAIN presets} : Want(w)
  BY DefaultIsWant, Zenon DEF PresetInv, Resolved, ActivePreset

\* No job in hand is in order.
LEMMA IdleIsFit == Fit(Idle) /\ Linked(Idle)
  <1>1. /\ DOMAIN Idle = JobFields /\ Idle.at = "idle" /\ Idle.want = Default
    BY DEF Idle, JobFields
  <1>. QED  BY <1>1, DefaultIsWant DEF Fit, Linked, Home, Steps

\* A job moves, and nothing is saved meanwhile.
LEMMA JobsMove ==
    ASSUME LockInv, JobsInv, NEW p \in Proc, NEW job, proc' = [proc EXCEPT ![p] = job],
           Fit(job), Linked(job), screens' = screens
    PROVE  JobsInv'
  <1>1. /\ proc'[p] = job
        /\ \A q \in Proc : q # p => proc'[q] = proc[q]
    BY DEF LockInv, ShapeInv
  <1>2. \A r : Linked(r) => /\ r.at \in {"suggest", "keep"} =>
                                /\ r.screen \in DOMAIN screens' /\ r.cap \in Nat
                                /\ r.kind = "premarket" => Scripted(r.screen, Len(screens))'
                            /\ r.at = "keep" => r.symbols \in Shortlists(Matches(r.screen)', r.cap)
    BY Zenon DEF Linked, Scripted, Matches
  <1>. QED  BY <1>1, <1>2 DEF JobsInv, Linked

LEMMA JobsEnd ==
    ASSUME LockInv, JobsInv, NEW p \in Proc, End(p), screens' = screens
    PROVE  JobsInv'
  BY IdleIsFit, JobsMove DEF End

LEMMA SavedStays == ASSUME SavedInv, UNCHANGED <<screens, picks>> PROVE SavedInv'
  BY Zenon DEF SavedInv, Good, Scripted, Matches

LEMMA PresetsStay == ASSUME PresetInv, UNCHANGED <<presets, active>> PROVE PresetInv'
  BY DEF PresetInv

\* An upsert changes the row of that name, or adds one.
LEMMA UpsertKeeps ==
    ASSUME PresetInv, NEW n, NEW want, Want(want), NEW i, Upsert(n, want, i), active' = active
    PROVE  PresetInv'
  <1>. DEFINE D == DOMAIN presets
  <1>1. /\ i \in PresetId
        /\ IF IdsOf(n) # {} THEN i \in IdsOf(n) ELSE \A j \in InUse : j < i
        /\ DOMAIN presets' = D \union {i}
        /\ presets'[i].name = n /\ presets'[i].want = want
        /\ \A j \in D \ {i} : presets'[j] = presets[j]
    BY DEF Upsert
  <1>2. D \subseteq Int /\ i \in Int
    BY <1>1 DEF PresetInv, PresetId
  <1>3. \A j \in D \ {i} : presets[j].name # n
    <2>1. CASE IdsOf(n) # {}
      BY <1>1, <2>1 DEF PresetInv, IdsOf
    <2>2. CASE IdsOf(n) = {}
      BY <2>2 DEF IdsOf
    <2>. QED  BY <2>1, <2>2
  <1>. QED  BY <1>1, <1>2, <1>3 DEF PresetInv

-----------------------------------------------------------------------------
(* The steps, and the jobs.                                                *)

Rest == JobsInv /\ PresetInv /\ SavedInv

\* A request starts with what the form, or the preset, says.
LEMMA RequestIsFit == ASSUME DeskInv, NEW p \in Proc, Request(p) PROVE Rest'
  <1>1. ASSUME NEW i, proc' = [proc EXCEPT ![p] = [Idle EXCEPT !.at = "activate", !.kind = "web",
                                                               !.id = i]],
               screens' = screens
        PROVE  JobsInv'
    <2>. DEFINE job == [Idle EXCEPT !.at = "activate", !.kind = "web", !.id = i]
    <2>1. /\ DOMAIN job = JobFields /\ job.at = "activate" /\ job.kind = "web"
          /\ job.want = Default
      BY DEF Idle, JobFields
    <2>. HIDE DEF job
    <2>2. Fit(job) /\ Linked(job)
      BY <2>1, DefaultIsWant DEF Fit, Linked, Home, Steps
    <2>3. proc' = [proc EXCEPT ![p] = job]
      BY <1>1 DEF job
    <2>. QED  BY <1>1, <2>2, <2>3, JobsMove DEF DeskInv
  <1>2. ASSUME NEW n \in Name, NEW w \in Wants, NEW i, SavePreset(p, n, w, i) PROVE Rest'
    <2>1. JobsInv'
      BY <1>1, <1>2 DEF SavePreset, Enter
    <2>2. PresetInv'
      <3>1. Want(w) /\ Upsert(n, w, i) /\ active' = active
        BY <1>2, DeskAssumption DEF SavePreset
      <3>. QED  BY <3>1, UpsertKeeps DEF DeskInv
    <2>. QED  BY <1>2, <2>1, <2>2, SavedStays DEF SavePreset, Rest, DeskInv
  <1>3. ASSUME NEW i, ActivatePreset(p, i) PROVE Rest'
    <2>1. JobsInv'
      BY <1>1, <1>3 DEF ActivatePreset, Enter
    <2>. QED  BY <1>3, <2>1, SavedStays, PresetsStay DEF ActivatePreset, Rest, DeskInv
  <1>4. ASSUME NEW i, DeletePreset(p, i) PROVE Rest'
    <2>1. JobsInv'
      BY <1>4, Zenon DEF DeletePreset, DeskInv, JobsInv, Linked, Scripted, Matches
    <2>2. PresetInv'
      <3>1. /\ DOMAIN presets' = DOMAIN presets \ {i} /\ active' = active \ {i}
            /\ \A j \in DOMAIN presets \ {i} : presets'[j] = presets[j]
        BY <1>4 DEF DeletePreset
      <3>. QED  BY <3>1 DEF DeskInv, PresetInv
    <2>. QED  BY <1>4, <2>1, <2>2, SavedStays DEF DeletePreset, Rest, DeskInv
  <1>. QED  BY <1>2, <1>3, <1>4 DEF Request

\* A thread and the scripts start with what is resolved, and with the latest screen.
LEMMA StartIsFit == ASSUME DeskInv, NEW p \in Proc, Start(p) PROVE Rest'
  <1>1. ASSUME NEW job, proc' = [proc EXCEPT ![p] = job], Fit(job), Linked(job),
               UNCHANGED <<presets, active, screens, picks>>
        PROVE  Rest'
    BY <1>1, JobsMove, SavedStays, PresetsStay DEF Rest, DeskInv
  <1>2. ASSUME NEW kind \in {"screen", "premarket", "backtest"}, StartThread(p, kind)
        PROVE  Rest'
    <2>. DEFINE job == [Idle EXCEPT !.at = IF kind = "backtest" THEN "run" ELSE "consult",
                                    !.kind = kind]
    <2>1. /\ DOMAIN job = JobFields /\ job.kind = kind /\ job.want = Default
          /\ job.at = IF kind = "backtest" THEN "run" ELSE "consult"
      BY DEF Idle, JobFields
    <2>2. /\ proc' = [proc EXCEPT ![p] = job]
          /\ UNCHANGED <<presets, active, screens, picks>>
      BY <1>2 DEF StartThread, StartJob, Enter
    <2>. HIDE DEF job
    <2>3. Fit(job) /\ Linked(job)
      BY <2>1, DefaultIsWant DEF Fit, Linked, Home, Steps
    <2>. QED  BY <1>1, <2>2, <2>3
  <1>3. ASSUME NEW base, NEW o \in Overrides, NEW n, ScreenScript(p, base, o, n) PROVE Rest'
    <2>. DEFINE job == [Idle EXCEPT !.at = IF n = None THEN "scan" ELSE "upsert",
                                    !.kind = "screen.py", !.name = n,
                                    !.want = Asked(base, o)]
    <2>1. /\ DOMAIN job = JobFields /\ job.kind = "screen.py" /\ job.want = Asked(base, o)
          /\ job.at = IF n = None THEN "scan" ELSE "upsert"
      BY DEF Idle, JobFields
    <2>2. /\ proc' = [proc EXCEPT ![p] = job]
          /\ UNCHANGED <<presets, active, screens, picks>>
          /\ base \in Resolved \union {presets[i].want : i \in DOMAIN presets}
      BY <1>3 DEF ScreenScript, StartJob, Enter
    <2>. HIDE DEF job
    <2>3. Want(job.want)
      BY <2>1, <2>2, WantsAreWant, AskedIsWant DEF DeskInv
    <2>4. Fit(job) /\ Linked(job)
      BY <2>1, <2>3 DEF Fit, Linked, Home, Steps
    <2>. QED  BY <1>1, <2>2, <2>4
  <1>4. ASSUME NEW m \in Cap, SuggestScript(p, m) PROVE Rest'
    <2>. DEFINE job == [Idle EXCEPT !.at = "suggest", !.kind = "suggest.py",
                                    !.screen = LatestScreen, !.cap = m]
    <2>1. /\ DOMAIN job = JobFields /\ job.at = "suggest" /\ job.kind = "suggest.py"
          /\ job.want = Default /\ job.screen = LatestScreen /\ job.cap = m
      BY DEF Idle, JobFields
    <2>2. /\ proc' = [proc EXCEPT ![p] = job]
          /\ UNCHANGED <<presets, active, screens, picks>>
      BY <1>4 DEF SuggestScript, Enter
    <2>. HIDE DEF job
    <2>3. LatestScreen \in DOMAIN screens
      <3>1. screens \in Seq(ToSet(screens)) /\ screens # <<>>
        BY <1>4 DEF SuggestScript, DeskInv, SavedInv, IsSequence
      <3>. HIDE DEF ToSet
      <3>. QED  BY <3>1, EmptySeq, LenProperties DEF LatestScreen
    <2>4. m \in Nat
      BY DeskAssumption
    <2>5. Fit(job) /\ Linked(job)
      BY <2>1, <2>3, <2>4, DefaultIsWant DEF Fit, Linked, Home, Steps
    <2>. QED  BY <1>1, <2>2, <2>5
  <1>. QED  BY <1>2, <1>3, <1>4 DEF Start

\* Steps that save neither a screen nor suggestions.
LEMMA WorkIsFit ==
    ASSUME DeskInv, NEW p \in Proc,
           \/ BeginActivate(p) \/ Switch(p) \/ Consult(p)
           \/ \E i \in PresetId : UpsertScript(p, i)
           \/ \E u \in Universes(proc[p].want.criteria) :
                \E failed \in SUBSET Batches(u.symbols) : Scan(p, u, failed)
           \/ \E reply \in Reply : Suggest(p, reply)
    PROVE  Rest'
  <1>. DEFINE r == proc[p]
  <1>1. JobFields \subseteq DOMAIN r /\ r.at \in Steps /\ Home(r.at, r.kind) /\ Want(r.want)
    BY DEF DeskInv, JobsInv, Fit
  <1>2. ASSUME NEW job, proc' = [proc EXCEPT ![p] = job], Fit(job), Linked(job),
               UNCHANGED <<screens, picks>>, PresetInv'
        PROVE  Rest'
    BY <1>2, JobsMove, SavedStays DEF Rest, DeskInv
  <1>3. UNCHANGED <<presets, active>> => PresetInv'
    BY PresetsStay DEF DeskInv
  <1>4. CASE BeginActivate(p)
    <2>. DEFINE job == [r EXCEPT !.at = "switch", !.seen = active]
    <2>1. /\ proc' = [proc EXCEPT ![p] = job] /\ r.at = "activate"
          /\ UNCHANGED <<presets, active, screens, picks>>
      BY <1>4 DEF BeginActivate, At
    <2>2. /\ DOMAIN job = DOMAIN r /\ job.at = "switch" /\ job.kind = r.kind
          /\ job.want = r.want
      BY <1>1 DEF JobFields
    <2>. HIDE DEF job, r
    <2>3. Fit(job) /\ Linked(job)
      BY <1>1, <2>1, <2>2 DEF Fit, Linked, Home, Steps
    <2>. QED  BY <1>2, <1>3, <2>1, <2>3
  <1>5. CASE Switch(p)
    <2>1. PresetInv'
      <3>1. /\ p \in Proc /\ proc[p].id \in DOMAIN presets /\ presets' = presets
            /\ active' = (active \ proc[p].seen) \union {proc[p].id}
        BY <1>5 DEF Switch
      <3>. QED  BY <3>1 DEF DeskInv, PresetInv
    <2>2. UNCHANGED <<screens, picks>>
      BY <1>5 DEF Switch
    <2>3. CASE r.kind = "web"
      <3>1. JobsInv'
        BY <1>5, <2>2, <2>3, JobsEnd DEF Switch, DeskInv
      <3>. QED  BY <2>1, <2>2, <3>1, SavedStays DEF Rest, DeskInv
    <2>4. CASE r.kind # "web"
      <3>. DEFINE job == [r EXCEPT !.at = "scan", !.seen = {}, !.id = 0]
      <3>1. proc' = [proc EXCEPT ![p] = job] /\ r.at = "switch"
        BY <1>5, <2>4 DEF Switch, At
      <3>2. /\ DOMAIN job = DOMAIN r /\ job.at = "scan" /\ job.kind = r.kind
            /\ job.want = r.want
        BY <1>1 DEF JobFields
      <3>. HIDE DEF job, r
      <3>3. Fit(job) /\ Linked(job)
        BY <1>1, <2>4, <3>1, <3>2 DEF Fit, Linked, Home, Steps
      <3>. QED  BY <1>2, <2>1, <2>2, <3>1, <3>3
    <2>. QED  BY <2>3, <2>4
  <1>6. CASE Consult(p)
    <2>1. PICK w \in Resolved : proc' = [proc EXCEPT ![p].at = "scan", ![p].want = w]
      BY <1>6 DEF Consult
    <2>. DEFINE job == [r EXCEPT !.at = "scan", !.want = w]
    <2>2. /\ proc' = [proc EXCEPT ![p] = job] /\ r.at = "consult"
          /\ UNCHANGED <<presets, active, screens, picks>>
      BY <1>6, <2>1 DEF Consult, At
    <2>3. DOMAIN job = DOMAIN r /\ job.at = "scan" /\ job.kind = r.kind /\ job.want = w
      BY <1>1 DEF JobFields
    <2>4. Want(w)
      BY WantsAreWant DEF DeskInv
    <2>. HIDE DEF job, r
    <2>5. Fit(job) /\ Linked(job)
      BY <1>1, <2>2, <2>3, <2>4 DEF Fit, Linked, Home, Steps
    <2>. QED  BY <1>2, <1>3, <2>2, <2>5
  <1>7. ASSUME NEW i, UpsertScript(p, i) PROVE Rest'
    <2>. DEFINE job == [r EXCEPT !.at = "activate", !.id = i, !.name = None]
    <2>1. /\ proc' = [proc EXCEPT ![p] = job] /\ r.at = "upsert"
          /\ UNCHANGED <<active, screens, picks>>
          /\ Upsert(r.name, r.want, i)
      BY <1>7 DEF UpsertScript, At
    <2>2. /\ DOMAIN job = DOMAIN r /\ job.at = "activate" /\ job.kind = r.kind
          /\ job.want = r.want
      BY <1>1 DEF JobFields
    <2>. HIDE DEF job, r
    <2>3. PresetInv'
      BY <1>1, <2>1, UpsertKeeps DEF DeskInv
    <2>4. Fit(job) /\ Linked(job)
      BY <1>1, <2>1, <2>2 DEF Fit, Linked, Home, Steps
    <2>. QED  BY <1>2, <2>1, <2>3, <2>4
  <1>8. ASSUME NEW u \in Universes(r.want.criteria), NEW failed \in SUBSET Batches(u.symbols),
               Scan(p, u, failed)
        PROVE  Rest'
    <2>. DEFINE run == Scanned(r.want, r.kind, u, failed)
                job == [r EXCEPT !.at = "store", !.want = Default, !.run = run]
    <2>1. /\ proc' = [proc EXCEPT ![p] = job] /\ r.at = "scan"
          /\ UNCHANGED <<presets, active, screens, picks>>
      BY <1>8 DEF Scan, At
    <2>2. /\ DOMAIN job = DOMAIN r /\ job.at = "store" /\ job.kind = r.kind
          /\ job.want = Default /\ job.run = run
      BY <1>1 DEF JobFields
    <2>. HIDE DEF r
    <2>3. Honest(run) /\ run.by = r.kind
      BY <1>1, ScanIsHonest
    <2>. HIDE DEF job, run
    <2>4. Fit(job) /\ Linked(job)
      BY <1>1, <2>1, <2>2, <2>3, DefaultIsWant DEF Fit, Linked, Home, Steps
    <2>. QED  BY <1>2, <1>3, <2>1, <2>4
  <1>9. ASSUME NEW reply \in Reply, Suggest(p, reply) PROVE Rest'
    <2>. DEFINE symbols == Suggested(screens[r.screen].rows, reply, r.cap)
                job == [r EXCEPT !.at = "keep", !.symbols = symbols]
    <2>1. /\ proc' = [proc EXCEPT ![p] = job] /\ r.at = "suggest"
          /\ UNCHANGED <<presets, active, screens, picks>>
      BY <1>9 DEF Suggest, At
    <2>2. /\ DOMAIN job = DOMAIN r /\ job.at = "keep" /\ job.kind = r.kind
          /\ job.want = r.want /\ job.screen = r.screen /\ job.cap = r.cap
          /\ job.symbols = symbols
      BY <1>1 DEF JobFields
    <2>3. /\ r.screen \in DOMAIN screens /\ r.cap \in Nat
          /\ r.kind = "premarket" => Scripted(r.screen, Len(screens))
      BY <2>1 DEF DeskInv, JobsInv, Linked
    <2>. HIDE DEF r
    <2>4. symbols \in Shortlists(Matches(r.screen), r.cap)
      BY <2>3, DeskAssumption, ParsedKeeps DEF Suggested, Matches
    <2>. HIDE DEF job, symbols
    <2>5. Fit(job) /\ Linked(job)
      BY <1>1, <2>1, <2>2, <2>3, <2>4 DEF Fit, Linked, Home, Steps
    <2>. QED  BY <1>2, <1>3, <2>1, <2>5
  <1>. QED  BY <1>4, <1>5, <1>6, <1>7, <1>8, <1>9

\* A screen is saved: what was picked stays about its own, and the screen is not one of
\* the dashboard's while a pre-market check is under way, which has the lock.
LEMMA StoreScreenIsFit == ASSUME DeskInv, NEW p \in Proc, StoreScreen(p) PROVE Rest'
  <1>. DEFINE r == proc[p]
              n == Len(screens)
  <1>1. /\ JobFields \subseteq DOMAIN r /\ Home("store", r.kind) /\ Want(r.want)
        /\ r.at = "store" /\ r.run.by = r.kind /\ Honest(r.run)
    BY DEF StoreScreen, At, DeskInv, JobsInv, Fit
  <1>2. /\ screens' = Append(screens, r.run) /\ UNCHANGED <<presets, active, picks>>
    BY DEF StoreScreen
  <1>3. /\ IsSequence(screens') /\ n \in Nat /\ DOMAIN screens = 1..n
        /\ Len(screens') = n + 1 /\ DOMAIN screens' = 1..(n + 1)
        /\ screens'[n + 1] = r.run
        /\ \A i \in 1..n : screens'[i] = screens[i]
    BY <1>2, AppendLast DEF DeskInv, SavedInv
  <1>. HIDE DEF n
  <1>4. \A k \in 1..n : Matches(k)' = Matches(k)
    BY <1>3 DEF Matches
  <1>5. \A k, m \in 0..n : Scripted(k, m) => Scripted(k, m)'
    BY <1>3 DEF Scripted
  <1>6. SavedInv'
    <2>1. \A k \in DOMAIN screens' : Honest(screens'[k])
      <3>1. \A k \in 1..n : Honest(screens[k])
        BY <1>3 DEF DeskInv, SavedInv
      <3>. QED  BY <1>1, <1>3, <3>1
    <2>2. ASSUME NEW k \in DOMAIN picks PROVE Good(picks[k])'
      <3>. PICK pick : pick = picks[k]
        OBVIOUS
      <3>1. Good(pick)
        BY DEF DeskInv, SavedInv
      <3>2. picks'[k] = pick
        BY <1>2
      <3>3. pick.screen \in 1..n /\ pick.seen \in 0..n
        BY <1>3, <3>1 DEF Good, n
      <3>4. /\ pick.screen \in DOMAIN screens' /\ pick.seen \in 0..Len(screens')
            /\ Matches(pick.screen)' = Matches(pick.screen)
            /\ Scripted(pick.screen, pick.seen) => Scripted(pick.screen, pick.seen)'
        BY <1>3, <1>4, <1>5, <3>3
      <3>5. /\ pick.symbols \in Shortlists(Matches(pick.screen)', pick.cap)
            /\ pick.ok = (pick.symbols # <<>>)
            /\ pick.by = "premarket" => Scripted(pick.screen, pick.seen)'
        BY <3>1, <3>4, Zenon DEF Good
      <3>. QED  BY <3>2, <3>4, <3>5, Zenon DEF Good
    <2>3. IsSequence(picks') /\ DOMAIN picks' = DOMAIN picks
      BY <1>2 DEF DeskInv, SavedInv
    <2>. QED  BY <1>3, <2>1, <2>2, <2>3, Zenon DEF SavedInv
  <1>7. ASSUME NEW q \in Proc, q # p, proc'[q] = proc[q]
        PROVE  Fit(proc[q])' /\ Linked(proc[q])'
    <2>. PICK s : s = proc[q]
      OBVIOUS
    <2>1. Fit(s) /\ Linked(s)
      BY DEF DeskInv, JobsInv
    <2>2. s.kind = "premarket" /\ s.at \in {"suggest", "keep"} => r.kind = "screen.py"
      <3>1. ~(Under(p, "screen") /\ Under(q, "screen"))
        BY <1>7 DEF DeskInv, LockInv, HolderInv, Locks
      <3>. QED  BY <1>1, <3>1 DEF Under, LockOf, Home
    <2>3. proc'[q] = s
      BY <1>7
    <2>. HIDE DEF r
    <2>4. s.at \in {"suggest", "keep"} =>
            /\ s.screen \in DOMAIN screens' /\ s.cap \in Nat
            /\ s.screen \in 1..n
      BY <1>3, <2>1 DEF Linked
    <2>5. ASSUME s.at \in {"suggest", "keep"}, s.kind = "premarket"
          PROVE  Scripted(s.screen, Len(screens))'
      <3>1. \A j \in (s.screen + 1)..n : screens[j].by = "screen.py"
        BY <2>1, <2>5 DEF Linked, Scripted, n
      <3>2. r.run.by = "screen.py"
        BY <1>1, <2>2, <2>5
      <3>. QED  BY <1>3, <2>4, <2>5, <3>1, <3>2 DEF Scripted
    <2>6. s.at = "keep" => s.symbols \in Shortlists(Matches(s.screen)', s.cap)
      BY <1>4, <2>1, <2>4, Zenon DEF Linked
    <2>7. Linked(proc[q])'
      BY <2>3, <2>4, <2>5, <2>6, Zenon DEF Linked
    <2>8. Fit(proc[q])'
      BY <2>1, <2>3, Zenon DEF Fit
    <2>. QED  BY <2>7, <2>8
  <1>8. JobsInv'
    <2>1. CASE r.kind = "premarket"
      <3>1. PICK m \in Cap : proc' = [proc EXCEPT ![p].at = "suggest", ![p].run = None,
                                                  ![p].screen = Len(screens'), ![p].cap = m]
        BY <2>1 DEF StoreScreen
      <3>. DEFINE job == [r EXCEPT !.at = "suggest", !.run = None, !.screen = Len(screens'),
                                   !.cap = m]
      <3>2. /\ proc' = [proc EXCEPT ![p] = job]
            /\ DOMAIN job = DOMAIN r /\ job.at = "suggest" /\ job.kind = r.kind
            /\ job.want = r.want /\ job.screen = Len(screens') /\ job.cap = m
        BY <1>1, <3>1 DEF JobFields
      <3>3. proc'[p] = job /\ \A q \in Proc : q # p => proc'[q] = proc[q]
        BY <3>2 DEF DeskInv, LockInv, ShapeInv
      <3>. HIDE DEF job, r
      <3>4. m \in Nat
        BY DeskAssumption
      <3>5. Fit(proc[p])'
        BY <1>1, <2>1, <3>2, <3>3 DEF Fit, Home, Steps
      <3>6. Scripted(proc[p].screen, Len(screens))'
        BY <1>3, <3>2, <3>3 DEF Scripted
      <3>7. Linked(proc[p])'
        BY <1>3, <3>2, <3>3, <3>4, <3>6 DEF Linked
      <3>. QED  BY <1>7, <3>3, <3>5, <3>7, Zenon DEF JobsInv
    <2>2. CASE r.kind # "premarket"
      <3>1. proc' = [proc EXCEPT ![p] = Idle]
        BY <2>2 DEF StoreScreen, End
      <3>2. proc'[p] = Idle /\ \A q \in Proc : q # p => proc'[q] = proc[q]
        BY <3>1 DEF DeskInv, LockInv, ShapeInv
      <3>3. Fit(proc[p])' /\ Linked(proc[p])'
        <4>1. Fit(Idle) /\ Idle.at = "idle"
          BY IdleIsFit DEF Idle
        <4>2. Linked(proc[p])'
          <5>1. proc'[p].at = "idle"
            BY <3>2, <4>1
          <5>. QED  BY <5>1 DEF Linked
        <4>. QED  BY <3>2, <4>1, <4>2
      <3>. QED  BY <1>7, <3>2, <3>3, Zenon DEF JobsInv
    <2>. QED  BY <2>1, <2>2
  <1>. QED  BY <1>2, <1>6, <1>8, PresetsStay DEF Rest, DeskInv

\* What is picked is saved with the screen it was picked from.
LEMMA StorePicksIsFit == ASSUME DeskInv, NEW p \in Proc, StorePicks(p) PROVE Rest'
  <1>. DEFINE r == proc[p]
              pick == [screen |-> r.screen, symbols |-> r.symbols, ok |-> r.symbols # <<>>,
                       cap |-> r.cap, by |-> r.kind, seen |-> Len(screens)]
  <1>1. /\ picks' = Append(picks, pick) /\ r.at = "keep" /\ Linked(r)
        /\ UNCHANGED <<presets, active, screens>> /\ End(p)
    BY Zenon DEF StorePicks, At, DeskInv, JobsInv
  <1>2. Good(pick)
    <2>1. /\ pick.screen = r.screen /\ pick.symbols = r.symbols /\ pick.cap = r.cap
          /\ pick.by = r.kind /\ pick.seen = Len(screens)
      OBVIOUS
    <2>2. pick.ok = (pick.symbols # <<>>)
      BY Zenon
    <2>3. Len(screens) \in 0..Len(screens)
      <3>1. screens \in Seq(ToSet(screens))
        BY DEF DeskInv, SavedInv, IsSequence
      <3>. HIDE DEF ToSet
      <3>. QED  BY <3>1, LenProperties
    <2>. HIDE DEF pick, r
    <2>. QED  BY <1>1, <2>1, <2>2, <2>3, Zenon DEF Good, Linked
  <1>3. /\ IsSequence(picks') /\ Len(picks) \in Nat /\ DOMAIN picks = 1..Len(picks)
        /\ DOMAIN picks' = 1..(Len(picks) + 1)
        /\ picks'[Len(picks) + 1] = pick
        /\ \A k \in 1..Len(picks) : picks'[k] = picks[k]
    <2>. HIDE DEF pick
    <2>. QED  BY <1>1, AppendLast DEF DeskInv, SavedInv
  <1>. HIDE DEF pick
  <1>4. \A k \in DOMAIN picks' : Good(picks'[k])
    <2>1. \A k \in DOMAIN picks : Good(picks[k])
      BY DEF DeskInv, SavedInv
    <2>. QED  BY <1>2, <1>3, <2>1
  <1>5. \A x : Good(x) => /\ x.screen \in DOMAIN screens' /\ x.seen \in 0..Len(screens')
                          /\ x.symbols \in Shortlists(Matches(x.screen)', x.cap)
                          /\ x.ok = (x.symbols # <<>>)
                          /\ x.by = "premarket" => Scripted(x.screen, x.seen)'
    BY <1>1, Zenon DEF Good, Scripted, Matches
  <1>6. \A k \in DOMAIN picks' : Good(picks[k])'
    BY <1>4, <1>5, Zenon DEF Good
  <1>7. SavedInv'
    BY <1>1, <1>3, <1>6, Zenon DEF SavedInv, DeskInv
  <1>8. JobsInv'
    BY <1>1, JobsEnd DEF DeskInv
  <1>. QED  BY <1>1, <1>7, <1>8, PresetsStay DEF Rest, DeskInv

LEMMA StepIsFit == ASSUME DeskInv, NEW p \in Proc, Step(p) PROVE Rest'
  <1>1. CASE Stop(p)
    BY <1>1, JobsEnd, SavedStays, PresetsStay DEF Stop, Rest, DeskInv
  <1>. QED  BY <1>1, WorkIsFit, StoreScreenIsFit, StorePicksIsFit DEF Step

\* The dashboard's restart ends its jobs and leaves the scripts alone.
LEMMA RestartIsFit == DeskInv /\ RestartDashboard => Rest'
  <1>. SUFFICES ASSUME DeskInv, RestartDashboard PROVE Rest'
    OBVIOUS
  <1>1. \A q \in Proc : proc'[q] = Idle \/ proc'[q] = proc[q]
    BY DEF RestartDashboard
  <1>2. UNCHANGED <<presets, active, screens, picks>>
    BY DEF RestartDashboard
  <1>3. \A r : Linked(r) => /\ r.at \in {"suggest", "keep"} =>
                                /\ r.screen \in DOMAIN screens' /\ r.cap \in Nat
                                /\ r.kind = "premarket" => Scripted(r.screen, Len(screens))'
                            /\ r.at = "keep" => r.symbols \in Shortlists(Matches(r.screen)', r.cap)
    BY <1>2, Zenon DEF Linked, Scripted, Matches
  <1>4. JobsInv'
    <2>1. \A q \in Proc : Fit(proc'[q]) /\ Linked(proc'[q])
      BY <1>1, IdleIsFit DEF DeskInv, JobsInv
    <2>. QED  BY <1>3, <2>1, Zenon DEF JobsInv, Linked
  <1>. QED  BY <1>2, <1>4, SavedStays, PresetsStay DEF Rest, DeskInv

LEMMA DeskStuttering == DeskInv /\ UNCHANGED vars => Rest'
  <1>. SUFFICES ASSUME DeskInv, UNCHANGED vars PROVE Rest'
    OBVIOUS
  <1>1. UNCHANGED <<presets, active, screens, picks>> /\ proc' = proc
    BY DEF vars
  <1>2. JobsInv'
    BY <1>1, Zenon DEF DeskInv, JobsInv, Linked, Scripted, Matches
  <1>. QED  BY <1>1, <1>2, SavedStays, PresetsStay DEF Rest, DeskInv

-----------------------------------------------------------------------------
(* The theorems.                                                           *)

LEMMA LockInvariant == Spec => []LockInv
  <1>1. Init => LockInv
    BY IdleShape DEF Init, LockInv, ShapeInv, HolderInv, Under, Kinds
  <1>2. LockInv /\ [Next]_vars => LockInv'
    BY RestartKeeps, RequestKeeps, StartsKeep, StepKeeps, StillKeeps DEF Next, vars
  <1>. QED  BY <1>1, <1>2, PTL DEF Spec

LEMMA DeskInvariant == Spec => []DeskInv
  <1>1. Init => Rest
    <2>. SUFFICES ASSUME Init PROVE Rest
      OBVIOUS
    <2>1. JobsInv
      <3>1. \A p \in Proc : proc[p] = Idle
        BY DEF Init
      <3>. QED  BY <3>1, IdleIsFit, Zenon DEF JobsInv
    <2>2. presets = <<>> /\ active = {} /\ screens = <<>> /\ picks = <<>>
      BY DEF Init
    <2>3. DOMAIN <<>> = {} /\ IsSequence(<<>>)
      BY DEF IsSequence
    <2>. QED  BY <2>1, <2>2, <2>3, Zenon DEF Rest, PresetInv, SavedInv
  <1>2. LockInv /\ Rest <=> DeskInv
    BY DEF Rest, DeskInv
  <1>3. DeskInv /\ [Next]_vars => Rest'
    BY RequestIsFit, StartIsFit, StepIsFit, RestartIsFit, DeskStuttering DEF Next
  <1>. QED  BY <1>1, <1>2, <1>3, LockInvariant, PTL DEF Spec

\* The rows of the presets, what is active, what each process is at, and the screen that
\* suggestions are linked to (persistence/screen_presets_store.py, dashboard/app.py,
\* scripts/screen.py): two presets never have one name, and an active one is never gone,
\* in whatever order requests and scripts upsert, switch and delete.
THEOREM DeskTypeCorrect == Spec => []TypeOK
  <1>1. DeskInv => TypeOK
    <2>. SUFFICES ASSUME DeskInv PROVE TypeOK
      OBVIOUS
    <2>1. \A p \in Proc : proc[p].at \in Steps /\ proc[p].kind \in Kinds
      BY DEF DeskInv, JobsInv, Fit, LockInv, ShapeInv
    <2>2. \A k \in DOMAIN picks : picks[k].screen \in DOMAIN screens
      BY DEF DeskInv, SavedInv, Good
    <2>. QED  BY <2>1, <2>2 DEF TypeOK, DeskInv, PresetInv, Want
  <1>. QED  BY <1>1, DeskInvariant, PTL

\* Every saved screen is what its criteria say of the market (screener/engine.py,
\* screener/fmp.py), for every market, criteria and answer of the services: its rows have
\* passed, the most liquid first, and what FMP was asked for has left nothing out.
THEOREM ScreensAreHonest == Spec => []ScreenIsHonest
  <1>1. DeskInv => ScreenIsHonest
    BY DEF DeskInv, SavedInv, ScreenIsHonest
  <1>. QED  BY <1>1, DeskInvariant, PTL

\* Suggestions are about the screen they are linked to (scripts/suggest.py,
\* dashboard/app.py, _run_premarket_background), for every reply of the model and any
\* number of jobs: some of its matches, none twice, up to the cap; and no screen of the
\* dashboard comes between a pre-market check's screen and its suggestions.
THEOREM PicksKeepTheirScreen == Spec => []PicksFromTheirScreen
  <1>1. ASSUME NEW pick, Good(pick)
        PROVE  /\ ToSet(pick.symbols) \subseteq SymbolsOf(screens[pick.screen].rows)
               /\ IsInjective(pick.symbols) /\ Len(pick.symbols) <= pick.cap
               /\ pick.ok = (pick.symbols # <<>>)
               /\ pick.by = "premarket" =>
                   \A j \in (pick.screen + 1)..pick.seen : screens[j].by = "screen.py"
    <2>1. /\ pick.symbols \in Seq(SymbolsOf(screens[pick.screen].rows))
          /\ IsInjective(pick.symbols) /\ Len(pick.symbols) <= pick.cap
      BY <1>1 DEF Good, Shortlists, Matches
    <2>2. ToSet(pick.symbols) \subseteq SymbolsOf(screens[pick.screen].rows)
      <3>. DEFINE S == SymbolsOf(screens[pick.screen].rows)
      <3>. HIDE DEF S
      <3>1. \A i \in DOMAIN pick.symbols : pick.symbols[i] \in S
        BY <2>1, ElementOfSeq, LenProperties DEF S
      <3>. QED  BY <3>1 DEF ToSet, S
    <2>. QED  BY <1>1, <2>1, <2>2, Zenon DEF Good, Scripted
  <1>2. DeskInv => PicksFromTheirScreen
    BY <1>1, Zenon DEF DeskInv, SavedInv, PicksFromTheirScreen
  <1>. QED  BY <1>2, DeskInvariant, PTL

\* A lock of the dashboard is held exactly while one thread runs under it
\* (dashboard/app.py, _start_screen_run and its like): no order of starts, failures, ends
\* and restarts leaves it held or lets a second thread in.
THEOREM LocksMatchJobs == Spec => []LockMatchesJob
  <1>1. LockInv => LockMatchesJob
    <2>. SUFFICES ASSUME LockInv, NEW lock \in Locks
                  PROVE  Cardinality({p \in Running(Kinds) : lock \in LockOf(proc[p].kind)})
                            = IF lock \in locks THEN 1 ELSE 0
      BY DEF LockMatchesJob, Locks
    <2>. DEFINE S == {p \in Running(Kinds) : lock \in LockOf(proc[p].kind)}
    <2>1. \A p : p \in S <=> p \in Proc /\ Under(p, lock)
      BY DEF LockInv, ShapeInv, Running, Under
    <2>. HIDE DEF S
    <2>2. CASE lock \in locks
      <3>1. PICK p \in Proc : Under(p, lock)
        BY <2>2 DEF LockInv, HolderInv
      <3>2. S = {p}
        BY <2>1, <3>1 DEF LockInv, HolderInv
      <3>. QED  BY <2>2, <3>2, FS_Singleton DEF S
    <2>3. CASE lock \notin locks
      <3>1. S = {}
        BY <2>1, <2>3 DEF LockInv, HolderInv
      <3>. QED  BY <2>3, <3>1, FS_EmptySet DEF S
    <2>. QED  BY <2>2, <2>3
  <1>. QED  BY <1>1, LockInvariant, PTL
=============================================================================
