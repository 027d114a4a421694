-------------------------- MODULE DailyPlanProofs ---------------------------
(***************************************************************************)
(* The gate and the day's plan, for every set of signals, limits and       *)
(* forms, any number of days, entries and restarts.                        *)
(*                                                                         *)
(* What an approval of the gate means is a fact about operators: each      *)
(* limit is respected by the number of shares that is approved, not only   *)
(* by the check that is named after it.                                    *)
(*                                                                         *)
(* The cap of concurrent positions is about positions, but positions       *)
(* appear when the account fills an entry, a step that no gate guards.     *)
(* The inductive invariant therefore counts the symbols the account is     *)
(* exposed to, by an open or by a working entry, and, while an approved    *)
(* signal has not been sent, the symbol that it adds.                      *)
(***************************************************************************)
EXTENDS DailyPlan, SumTheorems, TLAPS

-----------------------------------------------------------------------------
(* Arithmetic.                                                             *)

\* int() and ROUND_DOWN never round up.
LEMMA DivBelow ==
    ASSUME NEW n \in Int, NEW d \in Int, d > 0
    PROVE  n \div d \in Int /\ d * (n \div d) <= n
  OBVIOUS

\* Fewer shares cost no more.
LEMMA TimesMonotone ==
    ASSUME NEW d \in Int, NEW q \in Int, NEW b \in Int, d >= 0, q <= b
    PROVE  d * q <= d * b
  OBVIOUS

\* The distance of two prices is what an order risks, or may gain, per share.
LEMMA DistanceIsPositive ==
    ASSUME NEW a \in Int, NEW b \in Int, a # b
    PROVE  Distance(a, b) \in Int /\ Distance(a, b) > 0
  BY DEF Distance

\* The smaller of two numbers is one of them, and above neither.
LEMMA SmallerOfTwo ==
    ASSUME NEW a \in Int, NEW b \in Int
    PROVE  Smaller(a, b) \in Int /\ Smaller(a, b) <= a /\ Smaller(a, b) <= b
  BY DEF Smaller

-----------------------------------------------------------------------------
(* Sizing.                                                                 *)

\* A position of the size that is computed loses at most the risk at its stop.
LEMMA RiskOfSize ==
    ASSUME NEW worth \in Int, NEW pct \in Int, NEW entry \in Int, NEW stop \in Int,
           PositionSize(worth, pct, entry, stop) > 0
    PROVE  /\ PositionSize(worth, pct, entry, stop) \in Int
           /\ entry > 0 /\ entry # stop
           /\ (100 * Distance(entry, stop)) * PositionSize(worth, pct, entry, stop)
                <= worth * pct
  <1>. DEFINE d == 100 * Distance(entry, stop)
              n == worth * pct
  <1>1. /\ PositionSize(worth, pct, entry, stop) = n \div d
        /\ entry > 0 /\ entry # stop
    BY DEF PositionSize
  <1>2. n \in Int /\ d \in Int /\ d > 0
    <2>1. Distance(entry, stop) \in Int /\ Distance(entry, stop) > 0
      BY <1>1, DistanceIsPositive
    <2>. QED  BY <2>1
  <1>. HIDE DEF d, n
  <1>3. n \div d \in Int /\ d * (n \div d) <= n
    BY <1>2, DivBelow
  <1>. QED  BY <1>1, <1>3 DEF d, n

\* Shares that are affordable cost, with what is deployed, at most the percentage.
LEMMA CostOfAffordable ==
    ASSUME NEW worth \in Int, NEW pct \in Int, NEW deployed \in Int, NEW entry \in Int,
           entry > 0
    PROVE  /\ Affordable(worth, pct, deployed, entry) \in Int
           /\ Affordable(worth, pct, deployed, entry) > 0 =>
                (100 * entry) * Affordable(worth, pct, deployed, entry)
                    <= worth * pct - 100 * deployed
  <1>. DEFINE d == 100 * entry
              n == worth * pct - 100 * deployed
  <1>1. CASE worth * pct <= 100 * deployed
    BY <1>1 DEF Affordable
  <1>2. CASE ~(worth * pct <= 100 * deployed)
    <2>1. Affordable(worth, pct, deployed, entry) = n \div d
      BY <1>2 DEF Affordable
    <2>2. n \in Int /\ d \in Int /\ d > 0
      OBVIOUS
    <2>. HIDE DEF d, n
    <2>3. n \div d \in Int /\ d * (n \div d) <= n
      BY <2>2, DivBelow
    <2>. QED  BY <2>1, <2>3 DEF d, n
  <1>. QED  BY <1>1, <1>2

-----------------------------------------------------------------------------
(* The gate.                                                               *)

\* Verdict stops at the first check that fails; "ok" means that none did.
LEMMA ApprovedChecks ==
    ASSUME NEW s, NEW a, NEW m, NEW l, NEW t, Approves(s, a, m, l, t)
    PROVE  /\ ~m.killed /\ ~(t < l.before) /\ ~(t >= l.after)
           /\ s.side \in Side /\ s.symbol \notin a.positions
           /\ ~Full(a, l) /\ ~Halted(a, l)
           /\ ~(l.trades # NoCap /\ a.trades >= l.trades)
           /\ ~BadStop(s) /\ ~BadTarget(s)
           /\ ~(ByRisk(s, a, l) <= 0) /\ ~(Shares(s, a, l) <= 0)
           /\ FitsBuyingPower(Shares(s, a, l), s.entry, a.power)
  BY DEF Approves, Verdict

\* What evaluate() is given are numbers.
Numbers(s, a, l) ==
    /\ {s.entry, s.stop, s.target} \subseteq Int
    /\ {a.equity, a.deployed, a.power} \subseteq Int
    /\ {l.risk, l.notional, l.budget} \subseteq Int

\* A signal that the gate approves (gate.py:55-199) becomes an order of at least one share,
\* of a symbol that is not held, which can lose no more than the risk limit at its stop,
\* costs no more than the notional limit and the buying power, and fits the day's budget
\* together with what the gate is told is deployed already.
THEOREM ApprovalRespectsLimits ==
    ASSUME NEW s, NEW a, NEW m, NEW l, NEW t, Numbers(s, a, l), Approves(s, a, m, l, t)
    PROVE  LET q == Shares(s, a, l)
           IN  /\ q \in Nat \ {0}
               /\ s.symbol \notin a.positions
               /\ (100 * Distance(s.entry, s.stop)) * q <= a.equity * l.risk
               /\ (100 * s.entry) * q <= a.equity * l.notional
               /\ l.budget # NoCap =>
                    100 * a.deployed + (100 * s.entry) * q <= a.equity * l.budget
               /\ (105 * q) * s.entry <= 100 * a.power
  <1>. DEFINE q == Shares(s, a, l)
              risk == ByRisk(s, a, l)
              notional == ByNotional(s, a, l)
              budget == ByBudget(s, a, l)
              d == 100 * Distance(s.entry, s.stop)
              c == 100 * s.entry
  <1>1. /\ s.entry \in Int /\ s.stop \in Int /\ s.target \in Int
        /\ a.equity \in Int /\ a.deployed \in Int /\ a.power \in Int
        /\ l.risk \in Int /\ l.notional \in Int /\ l.budget \in Int
    BY DEF Numbers
  <1>2. /\ s.symbol \notin a.positions
        /\ ~(risk <= 0) /\ ~(q <= 0)
        /\ FitsBuyingPower(q, s.entry, a.power)
    BY ApprovedChecks
  <1>3. risk \in Int
    BY <1>1, DivBelow, DistanceIsPositive DEF ByRisk, PositionSize
  <1>4. s.entry > 0 /\ s.entry # s.stop /\ d * risk <= a.equity * l.risk
    BY <1>1, <1>2, <1>3, RiskOfSize DEF ByRisk
  <1>5. c \in Int /\ c >= 0 /\ d \in Int /\ d >= 0
    BY <1>1, <1>4, DistanceIsPositive
  <1>6. /\ notional \in Int
        /\ notional > 0 => c * notional <= a.equity * l.notional
    <2>1. notional = Affordable(a.equity, l.notional, 0, s.entry)
      BY DEF ByNotional
    <2>2. ASSUME NEW z \in Int
          PROVE  /\ Affordable(a.equity, l.notional, z, s.entry) \in Int
                 /\ Affordable(a.equity, l.notional, z, s.entry) > 0 =>
                      c * Affordable(a.equity, l.notional, z, s.entry)
                        <= a.equity * l.notional - 100 * z
      BY <1>1, <1>4, CostOfAffordable
    <2>. HIDE DEF notional, c
    <2>3. a.equity * l.notional \in Int
      BY <1>1
    <2>. QED  BY <2>1, <2>2, <2>3
  <1>7. /\ budget \in Int
        /\ budget > 0 /\ l.budget # NoCap =>
             c * budget <= a.equity * l.budget - 100 * a.deployed
    BY <1>1, <1>4, <1>6, CostOfAffordable DEF ByBudget
  <1>8. q \in Int /\ q <= risk /\ q <= notional /\ q <= budget
    <2>. DEFINE cheap == Smaller(notional, budget)
    <2>1. q = Smaller(risk, cheap)
      BY DEF Shares
    <2>. HIDE DEF q, risk, notional, budget
    <2>2. cheap \in Int /\ cheap <= notional /\ cheap <= budget
      BY <1>6, <1>7, SmallerOfTwo
    <2>. HIDE DEF cheap
    <2>3. Smaller(risk, cheap) \in Int /\ Smaller(risk, cheap) <= risk /\ Smaller(risk, cheap) <= cheap
      BY <1>3, <2>2, SmallerOfTwo
    <2>. QED  BY <1>3, <1>6, <1>7, <2>1, <2>2, <2>3
  <1>. HIDE DEF q, risk, notional, budget, d, c
  <1>9. q > 0 /\ notional > 0 /\ budget > 0
    BY <1>2, <1>6, <1>7, <1>8
  <1>10. d * q <= d * risk /\ c * q <= c * notional /\ c * q <= c * budget
    BY <1>3, <1>5, <1>6, <1>7, <1>8, TimesMonotone
  <1>11. /\ d * q \in Int /\ d * risk \in Int
         /\ c * q \in Int /\ c * notional \in Int /\ c * budget \in Int
         /\ a.equity * l.risk \in Int /\ a.equity * l.notional \in Int
         /\ a.equity * l.budget \in Int /\ 100 * a.deployed \in Int
    BY <1>1, <1>3, <1>5, <1>6, <1>7, <1>8
  <1>12. d * q <= a.equity * l.risk
    BY <1>4, <1>10, <1>11
  <1>13. c * q <= a.equity * l.notional
    BY <1>6, <1>9, <1>10, <1>11
  <1>14. l.budget # NoCap => 100 * a.deployed + c * q <= a.equity * l.budget
    BY <1>7, <1>9, <1>10, <1>11
  <1>15. (105 * q) * s.entry <= 100 * a.power
    BY <1>2 DEF FitsBuyingPower
  <1>. QED
    BY <1>2, <1>8, <1>9, <1>12, <1>13, <1>14, <1>15 DEF q, d, c
-----------------------------------------------------------------------------
(* The invariant.                                                          *)

States == {"working", "filled", "over", "canceled"}
EntriesOf(V) == [symbol : V, sig : V, shares : V, day : V, st : States]

Live(i) == Working(i) \/ Open(i)
Exposed == {entries[i].symbol : i \in {j \in DOMAIN entries : Live(j)}}

EntriesInv ==
    /\ \E V : entries \in Seq(EntriesOf(V))
    /\ IsFiniteSet(Exposed)

HandlerInv ==
    /\ handler.pc = "resolved" => {"pc", "positions"} \subseteq DOMAIN handler
    /\ handler.pc = "listed" => IsFiniteSet(handler.positions)

CountInv ==
    /\ crowded \in BOOLEAN
    /\ ~crowded => Cardinality(Exposed) <= Limits.positions
    /\ ~crowded /\ handler.pc = "approved" =>
          Cardinality(Exposed \union {handler.sig.symbol}) <= Limits.positions

CapInv == EntriesInv /\ HandlerInv /\ CountInv

-----------------------------------------------------------------------------
(* Lemmas.                                                                 *)

\* Where the gate approves, the positions it was shown were fewer than the cap.
LEMMA ApprovedNotFull ==
    ASSUME NEW s, NEW a, NEW m, NEW l, NEW t, Approves(s, a, m, l, t)
    PROVE  ~(Cardinality(a.positions) >= l.positions)
  BY DEF Approves, Verdict, Full

\* The limits are numbers.
LEMMA LimitsAreNumbers == Limits.positions \in Nat
  BY DailyPlanAssumption

\* A set of symbols that shrinks stays within a bound.
LEMMA SmallerWithin ==
    ASSUME NEW S, NEW T, IsFiniteSet(T), S \subseteq T, NEW n \in Nat, Cardinality(T) <= n
    PROVE  IsFiniteSet(S) /\ Cardinality(S) <= n
  <1>1. IsFiniteSet(S) /\ Cardinality(S) <= Cardinality(T)
    BY FS_Subset
  <1>2. Cardinality(S) \in Nat /\ Cardinality(T) \in Nat
    BY <1>1, FS_CardinalityType
  <1>. QED  BY <1>1, <1>2

\* A change of state leaves the rest of an entry.
LEMMA EntryChange ==
    ASSUME NEW V, NEW r \in EntriesOf(V), NEW st \in States
    PROVE  /\ [r EXCEPT !.st = st] \in EntriesOf(V)
           /\ [r EXCEPT !.st = st].symbol = r.symbol
  BY DEF EntriesOf

\* What changes the state of one entry, and not to "working" or from over to open, exposes
\* the account to nothing new.
LEMMA StateChange ==
    ASSUME EntriesInv, NEW i \in DOMAIN entries, Live(i), NEW st \in States,
           entries' = [entries EXCEPT ![i].st = st]
    PROVE  /\ \E V : entries' \in Seq(EntriesOf(V))
           /\ Exposed' \subseteq Exposed
  <1>1. PICK V : entries \in Seq(EntriesOf(V))
    BY DEF EntriesInv
  <1>2. \A j \in DOMAIN entries : entries[j] \in EntriesOf(V)
    BY <1>1
  <1>. DEFINE e == [entries[i] EXCEPT !.st = st]
  <1>3. e \in EntriesOf(V) /\ e.symbol = entries[i].symbol
    BY <1>2, EntryChange
  <1>4. entries' = [entries EXCEPT ![i] = e]
    OBVIOUS
  <1>. HIDE DEF e
  <1>5. entries' \in Seq(EntriesOf(V))
    BY <1>1, <1>3, <1>4
  <1>6. DOMAIN entries' = DOMAIN entries
    BY <1>4
  <1>7. \A j \in DOMAIN entries : entries'[j].symbol = entries[j].symbol
    BY <1>1, <1>3, <1>4
  <1>8. \A j \in DOMAIN entries : Live(j)' => Live(j)
    BY <1>1, <1>4 DEF Live, Working, Open
  <1>9. Exposed' \subseteq Exposed
    BY <1>6, <1>7, <1>8 DEF Exposed
  <1>. QED  BY <1>5, <1>9

\* An entry that is sent exposes the account to its symbol.
LEMMA Sent ==
    ASSUME EntriesInv, NEW e, e.st = "working", NEW W, e \in EntriesOf(W),
           entries' = Append(entries, e)
    PROVE  /\ \E V : entries' \in Seq(EntriesOf(V))
           /\ Exposed' \subseteq Exposed \union {e.symbol}
  <1>1. PICK V : entries \in Seq(EntriesOf(V))
    BY DEF EntriesInv
  <1>. DEFINE U == V \union W
  <1>2. EntriesOf(V) \subseteq EntriesOf(U) /\ EntriesOf(W) \subseteq EntriesOf(U)
    BY DEF EntriesOf
  <1>. HIDE DEF U
  <1>3. entries \in Seq(EntriesOf(U)) /\ e \in EntriesOf(U)
    BY <1>1, <1>2
  <1>4. entries' \in Seq(EntriesOf(U))
    BY <1>3
  <1>5. \A j \in DOMAIN entries' : \/ j \in DOMAIN entries /\ entries'[j] = entries[j]
                                   \/ entries'[j] = e
    BY <1>3
  <1>6. Exposed' \subseteq Exposed \union {e.symbol}
    BY <1>5 DEF Exposed, Live, Working, Open
  <1>. QED  BY <1>4, <1>6

-----------------------------------------------------------------------------
(* The cap.                                                                *)

\* Nothing is exposed at the beginning.
LEMMA CapInit == Init => CapInv
  <1>. SUFFICES ASSUME Init PROVE CapInv
    OBVIOUS
  <1>1. entries \in Seq(EntriesOf({})) /\ Exposed = {}
    BY DEF Init, Exposed
  <1>2. EntriesInv
    BY <1>1, FS_EmptySet DEF EntriesInv
  <1>3. HandlerInv
    BY DEF Init, Idle, HandlerInv
  <1>4. Cardinality(Exposed) = 0
    BY <1>1, FS_EmptySet
  <1>5. CountInv
    <2>1. handler.pc # "approved" /\ crowded = FALSE
      BY DEF Init, Idle
    <2>2. Cardinality(Exposed) <= Limits.positions
      BY <1>4, LimitsAreNumbers
    <2>. QED  BY <2>1, <2>2 DEF CountInv
  <1>. QED  BY <1>2, <1>3, <1>5 DEF CapInv

\* What leaves the handler alone and exposes the account to nothing new keeps the count.
LEMMA CountShrinks ==
    ASSUME CapInv, \E V : entries' \in Seq(EntriesOf(V)), Exposed' \subseteq Exposed,
           UNCHANGED <<handler, crowded>>
    PROVE  CapInv'
  <1>. DEFINE more == Exposed \union {handler.sig.symbol}
  <1>1. IsFiniteSet(Exposed) /\ IsFiniteSet(more)
    BY FS_AddElement DEF CapInv, EntriesInv
  <1>2. IsFiniteSet(Exposed')
    BY <1>1, FS_Subset
  <1>3. ~crowded => Cardinality(Exposed') <= Limits.positions
    BY <1>1, SmallerWithin, LimitsAreNumbers DEF CapInv, CountInv
  <1>4. ASSUME ~crowded, handler.pc = "approved"
        PROVE  Cardinality(Exposed' \union {handler.sig.symbol}) <= Limits.positions
    <2>1. Cardinality(more) <= Limits.positions
      BY <1>4 DEF CapInv, CountInv
    <2>2. Exposed' \union {handler.sig.symbol} \subseteq more
      OBVIOUS
    <2>. HIDE DEF more
    <2>. QED  BY <1>1, <2>1, <2>2, SmallerWithin, LimitsAreNumbers
  <1>5. EntriesInv'
    BY <1>2 DEF EntriesInv
  <1>6. HandlerInv'
    BY DEF CapInv, HandlerInv
  <1>7. CountInv'
    BY <1>3, <1>4 DEF CapInv, CountInv
  <1>. QED  BY <1>5, <1>6, <1>7 DEF CapInv

\* What leaves the account alone and puts the handler where it holds no approval keeps it too.
LEMMA CountStays ==
    ASSUME CapInv, UNCHANGED <<entries, crowded>>, HandlerInv', handler'.pc # "approved"
    PROVE  CapInv'
  <1>1. Exposed' = Exposed
    BY DEF Exposed, Live, Working, Open
  <1>. QED  BY <1>1 DEF CapInv, EntriesInv, CountInv

\* A decision that sees every other entry as a position leaves room for the one it approves.
LEMMA DecideKeepsCap ==
    ASSUME CapInv, NEW e, NEW t, NEW killed, Decide(e, t, killed)
    PROVE  CapInv'
  <1>. DEFINE lim == [Limits EXCEPT !.budget = handler.budget, !.trades = handler.trades]
              acct == [equity |-> e, start |-> starting, power |-> 2 * e,
                       positions |-> handler.positions,
                       deployed |-> handler.deployed, trades |-> handler.used]
              market == [bid |-> 0, ask |-> 0, volume |-> NoCap, killed |-> killed]
              ok == Approves(handler.sig, acct, market, lim, t)
              unseen == \E i \in DOMAIN entries :
                            Working(i) \/ (Open(i) /\ entries[i].symbol \notin handler.positions)
  <1>1. /\ handler.pc = "listed"
        /\ handler' = IF ok THEN [pc |-> "approved", sig |-> handler.sig, read |-> e,
                                  shares |-> Shares(handler.sig, acct, lim)]
                      ELSE Idle
        /\ crowded' = (crowded \/ (ok /\ unseen))
        /\ UNCHANGED entries
    BY Zenon DEF Decide, account
  <1>2. acct.positions = handler.positions /\ lim.positions = Limits.positions
    BY DailyPlanAssumption
  <1>3. ok => ~(Cardinality(handler.positions) >= Limits.positions)
    <2>1. ok => ~(Cardinality(acct.positions) >= lim.positions)
      BY ApprovedNotFull
    <2>. QED  BY <1>2, <2>1
  <1>. HIDE DEF ok, acct, lim, market
  <1>4. HandlerInv'
    BY <1>1 DEF HandlerInv, Idle
  <1>5. CASE ~ok
    <2>1. handler'.pc # "approved" /\ crowded' = crowded
      BY <1>1, <1>5 DEF Idle, CapInv, CountInv
    <2>. QED  BY <1>1, <1>4, <2>1, CountStays
  <1>6. CASE ok
    <2>1. Exposed' = Exposed
      BY <1>1 DEF Exposed, Live, Working, Open
    <2>2. crowded' = (crowded \/ unseen) /\ handler'.sig = handler.sig
      BY <1>1, <1>6
    <2>3. crowded' \in BOOLEAN
      BY <2>2
    <2>4. ~crowded' => ~crowded /\ ~unseen
      BY <2>2
    <2>5. IsFiniteSet(handler.positions)
      BY <1>1 DEF CapInv, HandlerInv
    <2>6. ASSUME ~unseen
          PROVE  Cardinality(Exposed \union {handler.sig.symbol}) <= Limits.positions
      <3>. DEFINE S == handler.positions
                  T == S \union {handler.sig.symbol}
      <3>1. Exposed \subseteq S
        BY <2>6 DEF Exposed, Live
      <3>2. IsFiniteSet(T) /\ (Cardinality(T) = Cardinality(S) \/ Cardinality(T) = Cardinality(S) + 1)
        BY <2>5, FS_AddElement
      <3>3. Cardinality(S) \in Nat /\ ~(Cardinality(S) >= Limits.positions)
        BY <1>3, <1>6, <2>5, FS_CardinalityType
      <3>4. Cardinality(T) <= Limits.positions
        BY <3>2, <3>3, LimitsAreNumbers
      <3>5. Exposed \union {handler.sig.symbol} \subseteq T
        BY <3>1
      <3>. HIDE DEF S, T
      <3>. QED  BY <3>2, <3>4, <3>5, SmallerWithin, LimitsAreNumbers
    <2>7. EntriesInv'
      BY <1>1, <2>1 DEF CapInv, EntriesInv
    <2>. HIDE DEF unseen
    <2>8. CountInv'
      BY <2>1, <2>2, <2>3, <2>4, <2>6 DEF CapInv, CountInv
    <2>. QED  BY <1>4, <2>7, <2>8 DEF CapInv
  <1>. QED  BY <1>5, <1>6

\* An approved entry is sent into the room that was left for it.
LEMMA SubmitKeepsCap == CapInv /\ Submit => CapInv'
  <1>. SUFFICES ASSUME CapInv, Submit PROVE CapInv'
    OBVIOUS
  <1>1. /\ handler.pc = "approved" /\ handler' = Idle /\ UNCHANGED crowded
    BY DEF Submit, history
  <1>2. HandlerInv' /\ handler'.pc # "approved"
    BY <1>1 DEF HandlerInv, Idle
  <1>. DEFINE e == [symbol |-> handler.sig.symbol, sig |-> handler.sig,
                    shares |-> handler.shares, day |-> day, st |-> "working"]
  <1>3. CASE entries' = entries
    BY <1>1, <1>2, <1>3, CountStays
  <1>4. CASE entries' = Append(entries, e)
    <2>. DEFINE W == {handler.sig.symbol, handler.sig, handler.shares, day}
                more == Exposed \union {handler.sig.symbol}
    <2>1. e \in EntriesOf(W) /\ e.st = "working" /\ e.symbol = handler.sig.symbol
      BY DEF EntriesOf, States
    <2>. HIDE DEF e, W
    <2>2. /\ \E V : entries' \in Seq(EntriesOf(V))
          /\ Exposed' \subseteq more
      BY <1>4, <2>1, Sent DEF CapInv
    <2>3. IsFiniteSet(more)
      BY FS_AddElement DEF CapInv, EntriesInv
    <2>4. IsFiniteSet(Exposed')
      BY <2>2, <2>3, FS_Subset
    <2>5. ~crowded => Cardinality(more) <= Limits.positions
      BY <1>1 DEF CapInv, CountInv
    <2>. HIDE DEF more
    <2>6. ~crowded => Cardinality(Exposed') <= Limits.positions
      BY <2>2, <2>3, <2>5, SmallerWithin, LimitsAreNumbers
    <2>7. EntriesInv'
      BY <2>2, <2>4 DEF EntriesInv
    <2>8. CountInv'
      BY <1>1, <1>2, <2>6 DEF CapInv, CountInv
    <2>. QED  BY <1>2, <2>7, <2>8 DEF CapInv
  <1>. QED  BY <1>3, <1>4 DEF Submit

\* Every step keeps the invariant.
LEMMA CapStep == CapInv /\ [Next]_vars => CapInv'
  <1>. SUFFICES ASSUME CapInv, [Next]_vars PROVE CapInv'
    OBVIOUS
  <1>1. ASSUME NEW i \in DOMAIN entries, EntryFills(i) \/ EntryCancelled(i) PROVE CapInv'
    <2>1. /\ \E st \in States : entries' = [entries EXCEPT ![i].st = st]
          /\ Live(i) /\ UNCHANGED <<handler, crowded>>
      BY <1>1 DEF EntryFills, EntryCancelled, States, Live, memory, history
    <2>. QED  BY <2>1, StateChange, CountShrinks DEF CapInv
  <1>2. ASSUME NEW i \in DOMAIN entries, Stopped(i) \/ TargetHit(i) PROVE CapInv'
    <2>1. /\ \E st \in States : entries' = [entries EXCEPT ![i].st = st]
          /\ Live(i) /\ UNCHANGED <<handler, crowded>>
      BY <1>2 DEF Stopped, TargetHit, EntryEnds, States, Live, memory, history
    <2>. QED  BY <2>1, StateChange, CountShrinks DEF CapInv
  <1>3. CASE DayPasses
    <2>1. UNCHANGED <<entries, crowded, handler>> /\ handler = Idle
      BY <1>3 DEF DayPasses
    <2>. QED  BY <2>1, CountStays DEF CapInv, HandlerInv, Idle
  <1>4. ASSUME UNCHANGED <<entries, crowded, handler>> PROVE CapInv'
    <2>1. Exposed' = Exposed
      BY <1>4 DEF Exposed, Live, Working, Open
    <2>. QED  BY <1>4, <2>1, CountShrinks DEF CapInv, EntriesInv
  <1>5. ASSUME NEW form \in Forms, SavePlan(form) PROVE CapInv'
    BY <1>4, <1>5 DEF SavePlan, account, memory, history
  <1>6. CASE SyncOrders
    BY <1>4, <1>6 DEF SyncOrders, account, memory, history
  <1>7. ASSUME NEW s \in Signals, Resolve(s) PROVE CapInv'
    <2>1. UNCHANGED <<entries, crowded>>
      BY <1>7 DEF Resolve, account, history
    <2>2. handler' = Idle \/ (handler'.pc = "resolved" /\ {"pc", "positions"} \subseteq DOMAIN handler')
      BY <1>7 DEF Resolve
    <2>3. HandlerInv' /\ handler'.pc # "approved"
      BY <2>2 DEF HandlerInv, Idle
    <2>. QED  BY <2>1, <2>3, CountStays
  <1>8. CASE ListPositions
    <2>1. UNCHANGED <<entries, crowded>>
      BY <1>8 DEF ListPositions, account, history
    <2>2. handler'.pc = "listed" /\ handler'.positions = Positions
      BY <1>8 DEF ListPositions, CapInv, HandlerInv
    <2>3. Positions \subseteq Exposed
      BY DEF Positions, Exposed, Live
    <2>4. IsFiniteSet(Positions)
      BY <2>3, FS_Subset DEF CapInv, EntriesInv
    <2>. QED  BY <2>1, <2>2, <2>4, CountStays DEF HandlerInv
  <1>9. ASSUME NEW e \in EquityReads, NEW t \in Times, NEW killed \in BOOLEAN, Decide(e, t, killed)
        PROVE  CapInv'
    BY <1>9, DecideKeepsCap
  <1>10. CASE Submit
    BY <1>10, SubmitKeepsCap
  <1>11. ASSUME NEW e \in EquityReads, Restart(e) PROVE CapInv'
    BY <1>11, CountStays DEF Restart, account, HandlerInv, Idle
  <1>12. CASE UNCHANGED vars
    BY <1>4, <1>12 DEF vars, account, memory, history
  <1>. QED
    BY <1>1, <1>2, <1>3, <1>5, <1>6, <1>7, <1>8, <1>9, <1>10, <1>11, <1>12 DEF Next

\* The account holds more positions than max_concurrent_positions (gate.py:76-83) only
\* after an approval that could not see a working entry (paper_run.py:182).
THEOREM CapHolds == Spec => []CapNeedsWorking
  <1>1. CapInv => CapNeedsWorking
    <2>. SUFFICES ASSUME CapInv, ~crowded PROVE ~(Cardinality(Positions) > Limits.positions)
      BY DEF CapNeedsWorking, CapInv, CountInv
    <2>1. Positions \subseteq Exposed
      BY DEF Positions, Exposed, Live
    <2>2. IsFiniteSet(Exposed) /\ Cardinality(Exposed) <= Limits.positions
      BY DEF CapInv, EntriesInv, CountInv
    <2>3. IsFiniteSet(Positions) /\ Cardinality(Positions) <= Limits.positions
      BY <2>1, <2>2, SmallerWithin, LimitsAreNumbers
    <2>. QED  BY <2>3, FS_CardinalityType, LimitsAreNumbers
  <1>. QED  BY CapInit, CapStep, <1>1, PTL DEF Spec

-----------------------------------------------------------------------------
(* Types.                                                                  *)

Entry == [symbol : Symbols, sig : Signals, shares : Nat \ {0}, day : Days, st : States]
Row == [state : States, submitted : {Unset}, price : Nat]
Budgets == {NoCap} \union 1..100
Counts == {NoCap} \union Nat
Reading == [pc : {"resolved", "listed"}, sig : Signals, budget : Budgets, trades : Counts,
            deployed : Nat, used : Nat, positions : SUBSET Symbols]
Approval == [pc : {"approved"}, sig : Signals, read : Int, shares : Nat \ {0}]

AccountType ==
    /\ equity \in Int /\ opening \in Int /\ peak \in Int /\ starting \in Int
    /\ entries \in Seq(Entry)
    /\ rows \in Seq(Row) /\ Len(rows) <= Len(entries)

RestType ==
    /\ day \in Days
    /\ plan \in [Days -> [budget : Budgets, trades : Counts]]
    /\ emitted \subseteq Symbols
    /\ edited \in BOOLEAN /\ crowded \in BOOLEAN /\ doubtful \in BOOLEAN
    /\ edits \in 0..MaxEdits /\ syncs \in 0..MaxSyncs /\ crashes \in 0..MaxCrashes

HandlerType == handler \in {Idle} \union Reading \union Approval

TypeInv == AccountType /\ RestType /\ HandlerType

\* What is known of a signal.
LEMMA SignalType ==
    ASSUME NEW s \in Signals
    PROVE  /\ s.symbol \in Symbols /\ s.side \in Side
           /\ s.entry \in Nat /\ s.stop \in Nat /\ s.target \in Nat
           /\ Distance(s.entry, s.stop) \in Nat /\ Distance(s.entry, s.target) \in Nat
           /\ Distance(s.entry, s.target) <= Reward * Distance(s.entry, s.stop)
  <1>1. s.entry \in Nat /\ s.stop \in Nat /\ s.target \in Nat
    BY DailyPlanAssumption
  <1>. QED  BY <1>1, DailyPlanAssumption DEF Symbols, Distance

\* The limits are numbers.
LEMMA LimitsType ==
    /\ Limits.risk \in Nat /\ Limits.loss \in Nat /\ Limits.positions \in Nat
    /\ Limits.notional \in Nat
    /\ \A b, n : LET lim == [Limits EXCEPT !.budget = b, !.trades = n]
                 IN  /\ lim.risk = Limits.risk /\ lim.loss = Limits.loss
                     /\ lim.positions = Limits.positions /\ lim.notional = Limits.notional
                     /\ lim.budget = b /\ lim.trades = n
  BY DailyPlanAssumption

\* The open entries are finitely many, and what each has at stake or in reach is a number.
LEMMA OpenEntries ==
    ASSUME AccountType
    PROVE  /\ \A i \in DOMAIN entries : entries[i] \in Entry
           /\ \A i \in DOMAIN entries : AtStake(i) \in Nat /\ InReach(i) \in Nat
           /\ IsFiniteSet(DOMAIN entries)
           /\ IsFiniteSet({i \in DOMAIN entries : Open(i)})
           /\ \A i \in DOMAIN rows : i \in DOMAIN entries /\ rows[i] \in Row
           /\ IsFiniteSet(DOMAIN rows)
  <1>1. entries \in Seq(Entry) /\ rows \in Seq(Row) /\ Len(rows) <= Len(entries)
    BY DEF AccountType
  <1>2. \A i \in DOMAIN entries : entries[i] \in Entry
    BY <1>1
  <1>3. ASSUME NEW i \in DOMAIN entries PROVE AtStake(i) \in Nat /\ InReach(i) \in Nat
    <2>1. entries[i].shares \in Nat /\ entries[i].sig \in Signals
      BY <1>2 DEF Entry
    <2>2. /\ Distance(entries[i].sig.entry, entries[i].sig.stop) \in Nat
          /\ Distance(entries[i].sig.entry, entries[i].sig.target) \in Nat
      BY <2>1, SignalType
    <2>. QED  BY <2>1, <2>2 DEF AtStake, InReach
  <1>4. IsFiniteSet(DOMAIN entries) /\ IsFiniteSet(DOMAIN rows)
    <2>1. DOMAIN entries = 1..Len(entries) /\ DOMAIN rows = 1..Len(rows)
          /\ Len(entries) \in Nat /\ Len(rows) \in Nat
      BY <1>1
    <2>2. IsFiniteSet(1..Len(entries)) /\ IsFiniteSet(1..Len(rows))
      BY <2>1, FS_Interval
    <2>. QED  BY <2>1, <2>2
  <1>5. IsFiniteSet({i \in DOMAIN entries : Open(i)})
    BY <1>4, FS_Subset
  <1>6. \A i \in DOMAIN rows : i \in DOMAIN entries /\ rows[i] \in Row
    BY <1>1
  <1>. QED  BY <1>2, <1>3, <1>4, <1>5, <1>6

Opened == {i \in DOMAIN entries : Open(i)}
Stakes == [i \in DOMAIN entries |-> AtStake(i)]
Reaches == [i \in DOMAIN entries |-> InReach(i)]

\* A reading of the equity is one of two numbers, or the fallback.
LEMMA MarksType ==
    ASSUME AccountType
    PROVE  /\ SumFunctionOnSet(Stakes, Opened) \in Nat
           /\ SumFunctionOnSet(Reaches, Opened) \in Nat
           /\ Marks = {equity - SumFunctionOnSet(Stakes, Opened),
                       equity + SumFunctionOnSet(Reaches, Opened)}
           /\ EquityReads \subseteq Int
  <1>1. IsFiniteSet(Opened)
    BY OpenEntries DEF Opened
  <1>2. \A i \in Opened : Stakes[i] \in Nat /\ Reaches[i] \in Nat
    BY OpenEntries DEF Opened, Stakes, Reaches
  <1>3. SumFunctionOnSet(Stakes, Opened) \in Nat /\ SumFunctionOnSet(Reaches, Opened) \in Nat
    BY <1>1, <1>2, SumNatural
  <1>4. Marks = {equity - SumFunctionOnSet(Stakes, Opened),
                 equity + SumFunctionOnSet(Reaches, Opened)}
    BY DEF Marks, Total, Opened, Stakes, Reaches
  <1>5. Marks \subseteq Int
    BY <1>3, <1>4 DEF AccountType
  <1>. QED  BY <1>3, <1>4, <1>5, DailyPlanAssumption DEF EquityReads

\* The facts of the caps are numbers.
LEMMA FactsType ==
    ASSUME AccountType, NEW d, NEW from
    PROVE  /\ IsFiniteSet(FilledSince(from, d))
           /\ NotionalDeployed(d) \in Nat
           /\ DayTradesInWindow(d) \in Nat
  <1>1. \A a : IsFiniteSet(FilledSince(a, d))
    BY OpenEntries, FS_Subset DEF FilledSince
  <1>. DEFINE cost == [i \in DOMAIN rows |-> rows[i].price * entries[i].shares]
  <1>2. \A i \in FilledSince(d, d) : cost[i] \in Nat
    <2>. SUFFICES ASSUME NEW i \in DOMAIN rows PROVE cost[i] \in Nat
      BY DEF FilledSince
    <2>1. rows[i] \in Row /\ entries[i] \in Entry
      BY OpenEntries
    <2>2. rows[i].price \in Nat /\ entries[i].shares \in Nat
      BY <2>1 DEF Row, Entry
    <2>. QED  BY <2>2
  <1>. HIDE DEF cost
  <1>3. SumFunctionOnSet(cost, FilledSince(d, d)) \in Nat
    BY <1>1, <1>2, SumNatural
  <1>4. DayTradesInWindow(d) \in Nat
    BY <1>1, FS_CardinalityType DEF DayTradesInWindow
  <1>. QED  BY <1>1, <1>3, <1>4 DEF NotionalDeployed, cost

-----------------------------------------------------------------------------
(* An approval.                                                            *)

GateLimits == [Limits EXCEPT !.budget = handler.budget, !.trades = handler.trades]
GateAccount(e) ==
    [equity |-> e, start |-> starting, power |-> 2 * e, positions |-> handler.positions,
     deployed |-> handler.deployed, trades |-> handler.used]
GateMarket(killed) == [bid |-> 0, ask |-> 0, volume |-> NoCap, killed |-> killed]
Ok(e, t, killed) == Approves(handler.sig, GateAccount(e), GateMarket(killed), GateLimits, t)
Size(e) == Shares(handler.sig, GateAccount(e), GateLimits)
Unseen ==
    \E i \in DOMAIN entries : Working(i) \/ (Open(i) /\ entries[i].symbol \notin handler.positions)

\* What a decision does.
LEMMA DecideDoes ==
    ASSUME NEW e, NEW t, NEW killed, Decide(e, t, killed)
    PROVE  /\ handler.pc = "listed"
           /\ handler' = IF Ok(e, t, killed)
                         THEN [pc |-> "approved", sig |-> handler.sig, read |-> e, shares |-> Size(e)]
                         ELSE Idle
           /\ crowded' = (crowded \/ (Ok(e, t, killed) /\ Unseen))
           /\ doubtful' = (doubtful \/ (Ok(e, t, killed) /\ e \notin Marks))
           /\ peak' = IF Ok(e, t, killed) /\ e > peak THEN e ELSE peak
           /\ UNCHANGED <<day, equity, entries, opening, plan, rows, emitted, starting, edited,
                          bounds>>
  BY Zenon DEF Decide, Ok, Size, Unseen, GateLimits, GateAccount, GateMarket

\* What holds when a signal is approved: the order has shares, its loss at the stop is
\* within the risk of the equity that was read, its cost fits the budget that was read,
\* and neither the cap of positions nor the daily loss was reached.
LEMMA ApprovalFacts ==
    ASSUME HandlerType, starting \in Int, handler.pc = "listed",
           NEW e \in Int, NEW t, NEW killed, Ok(e, t, killed)
    PROVE  /\ handler.sig \in Signals /\ Size(e) \in Nat \ {0}
           /\ handler.sig.symbol \notin handler.positions
           /\ 100 * (Size(e) * Distance(handler.sig.entry, handler.sig.stop)) <= Limits.risk * e
           /\ handler.trades # 0
           /\ handler.budget # NoCap =>
                100 * Size(e) * handler.sig.entry <= handler.budget * e
           /\ ~(Cardinality(handler.positions) >= Limits.positions)
           /\ ~(starting * Limits.loss <= 100 * (starting - e))
           /\ e > 0
  <1>. DEFINE s == handler.sig
              a == GateAccount(e)
              l == GateLimits
              m == GateMarket(killed)
              q == Size(e)
  <1>1. /\ handler \in Reading /\ s \in Signals /\ handler.budget \in Budgets
        /\ handler.trades \in Counts /\ handler.deployed \in Nat /\ handler.used \in Nat
    BY DEF HandlerType, Idle, Reading, Approval
  <1>2. /\ a.equity = e /\ a.start = starting /\ a.power = 2 * e
        /\ a.positions = handler.positions /\ a.deployed = handler.deployed
        /\ a.trades = handler.used
    BY DEF GateAccount
  <1>3. /\ l.risk = Limits.risk /\ l.loss = Limits.loss /\ l.positions = Limits.positions
        /\ l.notional = Limits.notional /\ l.budget = handler.budget /\ l.trades = handler.trades
        /\ l.risk \in Nat /\ l.loss \in Nat /\ l.notional \in Nat /\ l.positions \in Nat
    BY LimitsType DEF GateLimits
  <1>4. /\ s.entry \in Nat /\ s.stop \in Nat /\ s.target \in Nat
        /\ Distance(s.entry, s.stop) \in Nat
    BY <1>1, SignalType
  <1>5. Approves(s, a, m, l, t) /\ q = Shares(s, a, l)
    BY DEF Ok, Size
  <1>. HIDE DEF s, a, l, m, q
  <1>6. Numbers(s, a, l)
    BY <1>1, <1>2, <1>3, <1>4 DEF Numbers, Budgets, NoCap
  <1>7. /\ q \in Nat \ {0} /\ s.symbol \notin a.positions
        /\ (100 * Distance(s.entry, s.stop)) * q <= a.equity * l.risk
        /\ l.budget # NoCap =>
             100 * a.deployed + (100 * s.entry) * q <= a.equity * l.budget
    BY <1>5, <1>6, ApprovalRespectsLimits
  <1>8. /\ ~Full(a, l) /\ ~Halted(a, l)
        /\ ~(l.trades # NoCap /\ a.trades >= l.trades)
        /\ ~(ByRisk(s, a, l) <= 0)
    BY <1>5, ApprovedChecks
  <1>9. 100 * (q * Distance(s.entry, s.stop)) <= Limits.risk * e
    <2>. DEFINE d == Distance(s.entry, s.stop)
    <2>1. d \in Nat /\ q \in Nat /\ (100 * d) * q <= e * Limits.risk /\ Limits.risk \in Nat
      BY <1>2, <1>3, <1>4, <1>7
    <2>. HIDE DEF d
    <2>2. (100 * d) * q = 100 * (q * d) /\ e * Limits.risk = Limits.risk * e
      BY <2>1
    <2>3. 100 * (q * d) <= Limits.risk * e
      BY <2>1, <2>2
    <2>. QED  BY <2>3 DEF d
  <1>10. handler.trades # 0
    <2>. SUFFICES ASSUME handler.trades = 0 PROVE FALSE
      OBVIOUS
    <2>1. l.trades # NoCap /\ ~(a.trades >= l.trades)
      BY <1>3, <1>8 DEF NoCap
    <2>. QED  BY <1>1, <1>2, <1>3, <2>1
  <1>11. handler.budget # NoCap => 100 * q * s.entry <= handler.budget * e
    <2>. SUFFICES ASSUME handler.budget # NoCap PROVE 100 * q * s.entry <= handler.budget * e
      OBVIOUS
    <2>. DEFINE b == handler.budget
                c == s.entry
    <2>1. b \in Nat /\ c \in Nat /\ q \in Nat /\ handler.deployed \in Nat
          /\ 100 * handler.deployed + (100 * c) * q <= e * b
      BY <1>1, <1>2, <1>3, <1>4, <1>7 DEF Budgets
    <2>. HIDE DEF b, c
    <2>2. /\ (100 * c) * q = 100 * q * c /\ e * b = b * e
          /\ (100 * c) * q \in Int /\ e * b \in Int
      BY <2>1
    <2>3. 100 * q * c <= b * e
      BY <2>1, <2>2
    <2>. QED  BY <2>3 DEF b, c
  <1>12. ~(Cardinality(handler.positions) >= Limits.positions)
    BY <1>2, <1>3, <1>8 DEF Full
  <1>13. ~(starting * Limits.loss <= 100 * (starting - e))
    BY <1>2, <1>3, <1>8 DEF Halted, DailyLossTripped
  <1>14. e > 0
    BY <1>2, <1>8 DEF ByRisk, PositionSize
  <1>. QED
    BY <1>1, <1>2, <1>7, <1>9, <1>10, <1>11, <1>12, <1>13, <1>14 DEF s, q

-----------------------------------------------------------------------------
(* Type correctness.                                                       *)

LEMMA TypeInit == Init => TypeInv
  <1>. SUFFICES ASSUME Init PROVE TypeInv
    OBVIOUS
  <1>1. AccountType
    BY DailyPlanAssumption DEF Init, AccountType
  <1>2. FirstDay \in Days
    BY DailyPlanAssumption DEF Days
  <1>3. plan \in [Days -> [budget : Budgets, trades : Counts]]
    BY DEF Init, NoPlan, Budgets, Counts
  <1>4. RestType
    <2>1. MaxEdits \in Nat /\ MaxSyncs \in Nat /\ MaxCrashes \in Nat
      BY DailyPlanAssumption
    <2>2. 0 \in 0..MaxEdits /\ 0 \in 0..MaxSyncs /\ 0 \in 0..MaxCrashes
      BY <2>1
    <2>. QED  BY <1>2, <1>3, <2>2 DEF Init, RestType
  <1>. QED  BY <1>1, <1>4 DEF Init, TypeInv, HandlerType

\* The state of an entry changes.
LEMMA EntryStateType ==
    ASSUME AccountType, NEW i \in DOMAIN entries, NEW st \in States,
           entries' = [entries EXCEPT ![i].st = st]
    PROVE  entries' \in Seq(Entry) /\ Len(entries') = Len(entries)
  <1>1. entries \in Seq(Entry) /\ entries[i] \in Entry
    BY OpenEntries DEF AccountType
  <1>. DEFINE e == [entries[i] EXCEPT !.st = st]
  <1>2. e \in Entry
    BY <1>1 DEF Entry
  <1>3. entries' = [entries EXCEPT ![i] = e]
    OBVIOUS
  <1>. HIDE DEF e
  <1>. QED  BY <1>1, <1>2, <1>3

\* The account fills, closes or cancels an entry.
LEMMA AccountSteps ==
    ASSUME TypeInv, NEW i \in DOMAIN entries,
           EntryFills(i) \/ Stopped(i) \/ TargetHit(i) \/ EntryCancelled(i)
    PROVE  TypeInv'
  <1>1. PICK st \in States : entries' = [entries EXCEPT ![i].st = st]
    BY DEF EntryFills, Stopped, TargetHit, EntryEnds, EntryCancelled, States
  <1>2. entries' \in Seq(Entry) /\ Len(entries') = Len(entries)
    BY <1>1, EntryStateType DEF TypeInv
  <1>3. AtStake(i) \in Int /\ InReach(i) \in Int
    BY OpenEntries DEF TypeInv
  <1>4. equity' \in Int /\ peak' \in Int
    BY <1>3 DEF EntryFills, Stopped, TargetHit, EntryEnds, EntryCancelled, TypeInv, AccountType
  <1>5. UNCHANGED <<day, opening, plan, rows, memory, edited, history, bounds>>
    BY DEF EntryFills, Stopped, TargetHit, EntryEnds, EntryCancelled
  <1>6. AccountType'
    BY <1>2, <1>4, <1>5 DEF TypeInv, AccountType, memory
  <1>. QED
    BY <1>5, <1>6 DEF TypeInv, RestType, HandlerType, memory, history, bounds

LEMMA DayPassesType == TypeInv /\ DayPasses => TypeInv'
  <1>. SUFFICES ASSUME TypeInv, DayPasses PROVE TypeInv'
    OBVIOUS
  <1>1. day' \in Days
    BY DailyPlanAssumption DEF DayPasses, TypeInv, RestType, Days
  <1>. QED
    BY <1>1 DEF DayPasses, TypeInv, AccountType, RestType, HandlerType, bounds

LEMMA SavePlanType == ASSUME TypeInv, NEW form \in Forms, SavePlan(form) PROVE TypeInv'
  <1>1. form \in [budget : Budgets, trades : Counts]
    <2>1. form \in [budget : Int, trades : Int]
      BY DailyPlanAssumption
    <2>2. form.budget \in Budgets /\ form.trades \in Counts
      BY <2>1 DEF SavePlan, Acceptable, Budgets, Counts
    <2>. QED  BY <2>1, <2>2
  <1>2. plan' \in [Days -> [budget : Budgets, trades : Counts]]
    BY <1>1 DEF SavePlan, TypeInv, RestType
  <1>3. edits' \in 0..MaxEdits /\ edited' \in BOOLEAN
    BY DailyPlanAssumption DEF SavePlan, TypeInv, RestType
  <1>. QED
    BY <1>2, <1>3 DEF SavePlan, TypeInv, AccountType, RestType, HandlerType, account, memory, history

LEMMA SyncOrdersType == TypeInv /\ SyncOrders => TypeInv'
  <1>. SUFFICES ASSUME TypeInv, SyncOrders PROVE TypeInv'
    OBVIOUS
  <1>1. \A i \in DOMAIN entries : Synced(i) \in Row
    <2>. SUFFICES ASSUME NEW i \in DOMAIN entries PROVE Synced(i) \in Row
      OBVIOUS
    <2>1. entries[i].st \in States /\ entries[i].sig.entry \in Nat
      BY OpenEntries, SignalType DEF TypeInv, Entry
    <2>2. i \in DOMAIN rows => rows[i] \in Row
      BY OpenEntries DEF TypeInv
    <2>. DEFINE st == IF entries[i].st = "over" THEN "filled" ELSE entries[i].st
    <2>3. st \in States
      BY <2>1 DEF States
    <2>4. Synced(i) = IF i \notin DOMAIN rows
                      THEN [state |-> st, submitted |-> Unset, price |-> Unset]
                      ELSE IF rows[i].state # st
                      THEN [rows[i] EXCEPT !.state = st, !.price = IF st = "filled" THEN entries[i].sig.entry
                                                                   ELSE Unset]
                      ELSE rows[i]
      BY DEF Synced
    <2>. HIDE DEF st
    <2>5. CASE i \notin DOMAIN rows
      BY <2>3, <2>4, <2>5 DEF Row, Unset
    <2>6. CASE i \in DOMAIN rows
      <3>. DEFINE price == IF st = "filled" THEN entries[i].sig.entry ELSE Unset
      <3>1. price \in Nat
        BY <2>1 DEF Unset
      <3>2. Synced(i) = IF rows[i].state # st THEN [rows[i] EXCEPT !.state = st, !.price = price]
                        ELSE rows[i]
        BY <2>4, <2>6
      <3>. HIDE DEF price
      <3>. QED  BY <2>2, <2>3, <2>6, <3>1, <3>2 DEF Row
    <2>. QED  BY <2>5, <2>6
  <1>2. rows' = [i \in 1..Len(entries) |-> Synced(i)] /\ Len(entries) \in Nat
        /\ DOMAIN entries = 1..Len(entries)
    <2>1. Len(entries) \in Nat /\ DOMAIN entries = 1..Len(entries)
      BY DEF TypeInv, AccountType
    <2>2. rows' = [i \in DOMAIN entries |-> Synced(i)]
      BY Zenon DEF SyncOrders
    <2>. QED  BY <2>1, <2>2
  <1>3. rows' \in [1..Len(entries) -> Row]
    BY <1>1, <1>2
  <1>4. rows' \in Seq(Row) /\ Len(rows') = Len(entries)
    BY <1>2, <1>3
  <1>5. syncs' \in 0..MaxSyncs
    BY DailyPlanAssumption DEF SyncOrders, TypeInv, RestType
  <1>. QED
    BY <1>4, <1>5 DEF SyncOrders, TypeInv, AccountType, RestType, HandlerType, account, memory, history

LEMMA ResolveType == ASSUME TypeInv, NEW s \in Signals, Resolve(s) PROVE TypeInv'
  <1>1. plan[day].budget \in Budgets /\ plan[day].trades \in Counts
    BY DEF TypeInv, RestType
  <1>. DEFINE r == [pc |-> "resolved", sig |-> s, budget |-> plan[day].budget,
                    trades |-> plan[day].trades,
                    deployed |-> IF plan[day].budget = NoCap THEN 0 ELSE NotionalDeployed(day),
                    used |-> IF plan[day].trades = NoCap THEN 0 ELSE DayTradesInWindow(day),
                    positions |-> {}]
  <1>2. NotionalDeployed(day) \in Nat /\ DayTradesInWindow(day) \in Nat
    BY FactsType DEF TypeInv
  <1>3. r \in Reading
    BY <1>1, <1>2 DEF Reading
  <1>4. handler' \in {Idle, r}
    BY DEF Resolve, PlanOf
  <1>. HIDE DEF r
  <1>5. HandlerType'
    BY <1>3, <1>4 DEF HandlerType
  <1>6. s.symbol \in Symbols
    BY SignalType
  <1>. QED
    BY <1>5, <1>6 DEF Resolve, TypeInv, AccountType, RestType, account, history, bounds

LEMMA ListPositionsType == TypeInv /\ ListPositions => TypeInv'
  <1>. SUFFICES ASSUME TypeInv, ListPositions PROVE TypeInv'
    OBVIOUS
  <1>1. handler \in Reading
    BY DEF ListPositions, TypeInv, HandlerType, Idle, Approval
  <1>2. Positions \subseteq Symbols
    BY OpenEntries DEF Positions, TypeInv, Entry
  <1>3. handler' \in Reading
    BY <1>1, <1>2 DEF ListPositions, Reading
  <1>. QED
    BY <1>3 DEF ListPositions, TypeInv, HandlerType, AccountType, RestType, account, history, bounds

LEMMA DecideType ==
    ASSUME TypeInv, NEW e \in EquityReads, NEW t, NEW killed, Decide(e, t, killed) PROVE TypeInv'
  <1>1. e \in Int
    BY MarksType DEF TypeInv
  <1>2. /\ handler.pc = "listed"
        /\ handler' = IF Ok(e, t, killed)
                      THEN [pc |-> "approved", sig |-> handler.sig, read |-> e, shares |-> Size(e)]
                      ELSE Idle
        /\ crowded' \in BOOLEAN /\ doubtful' \in BOOLEAN
        /\ peak' = IF Ok(e, t, killed) /\ e > peak THEN e ELSE peak
        /\ UNCHANGED <<day, equity, entries, opening, plan, rows, emitted, starting, edited, bounds>>
    BY DecideDoes
  <1>3. Ok(e, t, killed) => handler.sig \in Signals /\ Size(e) \in Nat \ {0}
    BY <1>1, <1>2, ApprovalFacts DEF TypeInv, AccountType
  <1>4. HandlerType'
    BY <1>1, <1>2, <1>3 DEF HandlerType, Approval
  <1>5. peak' \in Int
    BY <1>1, <1>2 DEF TypeInv, AccountType
  <1>. QED  BY <1>2, <1>4, <1>5 DEF TypeInv, AccountType, RestType, bounds

LEMMA SubmitType == TypeInv /\ Submit => TypeInv'
  <1>. SUFFICES ASSUME TypeInv, Submit PROVE TypeInv'
    OBVIOUS
  <1>1. handler \in Approval
    BY DEF Submit, TypeInv, HandlerType, Idle, Reading
  <1>. DEFINE new == [symbol |-> handler.sig.symbol, sig |-> handler.sig,
                      shares |-> handler.shares, day |-> day, st |-> "working"]
  <1>2. new \in Entry
    BY <1>1, SignalType DEF Approval, Entry, States, TypeInv, RestType
  <1>3. entries' \in {entries, Append(entries, new)}
    BY DEF Submit
  <1>. HIDE DEF new
  <1>4. entries' \in Seq(Entry) /\ Len(entries') >= Len(entries)
    BY <1>2, <1>3 DEF TypeInv, AccountType
  <1>5. /\ Len(rows') <= Len(entries') /\ rows' \in Seq(Row)
    <2>1. Len(rows) \in Nat /\ Len(entries) \in Nat /\ Len(entries') \in Nat /\ rows' = rows
          /\ Len(rows) <= Len(entries) /\ rows \in Seq(Row)
      BY <1>4 DEF Submit, TypeInv, AccountType
    <2>. QED  BY <1>4, <2>1
  <1>. QED
    BY <1>4, <1>5 DEF Submit, TypeInv, AccountType, RestType, HandlerType, history, bounds

LEMMA RestartType == ASSUME TypeInv, NEW e \in EquityReads, Restart(e) PROVE TypeInv'
  <1>1. e \in Int
    BY MarksType DEF TypeInv
  <1>2. crashes' \in 0..MaxCrashes /\ doubtful' \in BOOLEAN
    BY DailyPlanAssumption DEF Restart, TypeInv, RestType
  <1>. QED
    BY <1>1, <1>2 DEF Restart, TypeInv, AccountType, RestType, HandlerType, account

LEMMA TypeStep == TypeInv /\ [Next]_vars => TypeInv'
  <1>. SUFFICES ASSUME TypeInv, [Next]_vars PROVE TypeInv'
    OBVIOUS
  <1>1. CASE UNCHANGED vars
    BY <1>1 DEF vars, TypeInv, AccountType, RestType, HandlerType, account, memory, history, bounds
  <1>. QED
    BY <1>1, AccountSteps, DayPassesType, SavePlanType, SyncOrdersType, ResolveType,
       ListPositionsType, DecideType, SubmitType, RestartType DEF Next

\* The variables keep their types: whatever is typed into the form, a plan holds a budget
\* between 1 and 100 percent and no negative cap (_save_daily_plan), an entry that is sent
\* has at least one share, and the equity stays a number.
THEOREM PlanTypeCorrect == Spec => []TypeOK
  <1>1. TypeInv => TypeOK
    <2>. SUFFICES ASSUME TypeInv PROVE TypeOK
      OBVIOUS
    <2>1. /\ handler.pc \in {"idle", "resolved", "listed", "approved"}
          /\ handler.pc # "idle" => handler.sig \in Signals
          /\ handler.pc = "approved" => handler.shares \in Nat \ {0}
      BY DEF TypeInv, HandlerType, Idle, Reading, Approval
    <2>2. entries \in Seq([symbol : Symbols, sig : Signals, shares : Nat \ {0}, day : Days,
                           st : {"working", "filled", "over", "canceled"}])
      BY DEF TypeInv, AccountType, Entry, States
    <2>3. plan \in [Days -> [budget : {NoCap} \union 1..100, trades : {NoCap} \union Nat]]
      BY DEF TypeInv, RestType, Budgets, Counts
    <2>4. {edited, crowded, doubtful} \subseteq BOOLEAN
      BY Zenon DEF TypeInv, RestType
    <2>5. /\ day \in Days /\ equity \in Int /\ opening \in Int /\ peak \in Int /\ starting \in Int
          /\ Len(rows) <= Len(entries) /\ emitted \subseteq Symbols
          /\ edits \in 0..MaxEdits /\ syncs \in 0..MaxSyncs /\ crashes \in 0..MaxCrashes
      BY DEF TypeInv, AccountType, RestType
    <2>. QED  BY <2>1, <2>2, <2>3, <2>4, <2>5 DEF TypeOK
  <1>. QED  BY TypeInit, TypeStep, <1>1, PTL DEF Spec

-----------------------------------------------------------------------------
(* The plan of the day.                                                    *)

\* What the handler has read, and the order it was sized for, are the plan's as it is,
\* unless the plan was written meanwhile.
Fits(sig, shares, read) ==
    /\ plan[day].trades # 0
    /\ plan[day].budget # NoCap => 100 * shares * sig.entry <= plan[day].budget * read

FitInv ==
    ~edited =>
        /\ handler.pc \in {"resolved", "listed"} =>
              handler.budget = plan[day].budget /\ handler.trades = plan[day].trades
        /\ handler.pc = "approved" => Fits(handler.sig, handler.shares, handler.read)

LEMMA FitInit == Init => FitInv
  BY DEF Init, Idle, FitInv

\* A step that leaves the plan and the handler alone, and the day.
LEMMA FitStays ==
    ASSUME FitInv, UNCHANGED <<day, plan, edited>>, handler' \in {handler, Idle}
    PROVE  FitInv'
  <1>1. CASE handler' = handler
    BY <1>1 DEF FitInv, Fits
  <1>2. CASE handler' = Idle
    BY <1>2 DEF FitInv, Idle
  <1>. QED  BY <1>1, <1>2

LEMMA FitStep == TypeInv /\ FitInv /\ [Next]_vars => FitInv'
  <1>. SUFFICES ASSUME TypeInv, FitInv, [Next]_vars PROVE FitInv'
    OBVIOUS
  <1>1. CASE \E i \in DOMAIN entries : EntryFills(i) \/ Stopped(i) \/ TargetHit(i) \/ EntryCancelled(i)
    BY <1>1, FitStays DEF EntryFills, Stopped, TargetHit, EntryEnds, EntryCancelled, memory
  <1>2. CASE DayPasses
    BY <1>2 DEF DayPasses, FitInv, Idle
  <1>3. CASE \E form \in Forms : SavePlan(form)
    <2>1. handler' = handler /\ edited' = (handler # Idle)
      BY <1>3 DEF SavePlan, memory
    <2>2. CASE handler = Idle
      BY <2>1, <2>2 DEF FitInv, Idle
    <2>3. CASE handler # Idle
      <3>1. edited'
        BY <2>1, <2>3
      <3>. QED  BY <3>1 DEF FitInv
    <2>. QED  BY <2>2, <2>3
  <1>4. CASE SyncOrders \/ UNCHANGED vars
    BY <1>4, FitStays DEF SyncOrders, vars, memory
  <1>5. ASSUME NEW s \in Signals, Resolve(s) PROVE FitInv'
    <2>1. UNCHANGED <<day, plan>>
      BY <1>5 DEF Resolve
    <2>2. \/ handler' = Idle
          \/ /\ handler'.pc = "resolved"
             /\ handler'.budget = plan[day].budget /\ handler'.trades = plan[day].trades
      BY <1>5 DEF Resolve, PlanOf
    <2>. QED  BY <2>1, <2>2 DEF FitInv, Idle
  <1>6. CASE ListPositions
    <2>1. handler \in Reading
      BY <1>6 DEF ListPositions, TypeInv, HandlerType, Idle, Approval
    <2>2. /\ handler'.pc = "listed" /\ handler'.budget = handler.budget
          /\ handler'.trades = handler.trades /\ UNCHANGED <<day, plan, edited>>
      BY <1>6, <2>1 DEF ListPositions, Reading
    <2>. QED  BY <1>6, <2>2 DEF ListPositions, FitInv
  <1>7. ASSUME NEW e \in EquityReads, NEW t \in Times, NEW killed \in BOOLEAN, Decide(e, t, killed)
        PROVE  FitInv'
    <2>1. /\ handler.pc = "listed"
          /\ handler' = IF Ok(e, t, killed)
                        THEN [pc |-> "approved", sig |-> handler.sig, read |-> e, shares |-> Size(e)]
                        ELSE Idle
          /\ UNCHANGED <<day, plan, edited>>
      BY <1>7, DecideDoes
    <2>2. CASE ~Ok(e, t, killed)
      BY <2>1, <2>2, FitStays
    <2>3. CASE Ok(e, t, killed)
      <3>1. e \in Int
        BY MarksType DEF TypeInv
      <3>2. /\ handler.trades # 0
            /\ handler.budget # NoCap =>
                 100 * Size(e) * handler.sig.entry <= handler.budget * e
        BY <2>1, <2>3, <3>1, ApprovalFacts DEF TypeInv, AccountType
      <3>3. ~edited => Fits(handler.sig, Size(e), e)
        BY <2>1, <3>2 DEF FitInv, Fits
      <3>4. handler'.pc = "approved" /\ handler'.sig = handler.sig /\ handler'.read = e
            /\ handler'.shares = Size(e)
        BY <2>1, <2>3
      <3>5. ~edited' => Fits(handler.sig, handler.shares, handler.read)'
        BY <2>1, <3>3, <3>4 DEF Fits
      <3>. QED  BY <3>4, <3>5 DEF FitInv
    <2>. QED  BY <2>2, <2>3
  <1>8. CASE Submit
    BY <1>8, FitStays DEF Submit
  <1>9. ASSUME NEW e \in EquityReads, Restart(e) PROVE FitInv'
    BY <1>9, FitStays DEF Restart
  <1>. QED
    BY <1>1, <1>2, <1>3, <1>4, <1>5, <1>6, <1>7, <1>8, <1>9 DEF Next

\* Entries appear only where an approved one is sent.
LEMMA EntriesAppear ==
    ASSUME TypeInv, [Next]_vars, NEW i \in DOMAIN entries' \ DOMAIN entries
    PROVE  /\ handler.pc = "approved"
           /\ entries'[i].shares = handler.shares /\ entries'[i].sig = handler.sig
  <1>1. ~(\E j \in DOMAIN entries : EntryFills(j) \/ Stopped(j) \/ TargetHit(j) \/ EntryCancelled(j))
    BY DEF EntryFills, Stopped, TargetHit, EntryEnds, EntryCancelled
  <1>2. entries' # entries
    OBVIOUS
  <1>3. Submit
    BY <1>1, <1>2 DEF Next, vars, account, DayPasses, SavePlan, SyncOrders, Resolve, ListPositions,
                      Decide, Restart
  <1>. DEFINE new == [symbol |-> handler.sig.symbol, sig |-> handler.sig,
                      shares |-> handler.shares, day |-> day, st |-> "working"]
  <1>4. entries' = Append(entries, new) /\ handler.pc = "approved"
    BY <1>2, <1>3 DEF Submit
  <1>5. new.shares = handler.shares /\ new.sig = handler.sig
    OBVIOUS
  <1>6. entries \in Seq(Entry)
    BY DEF TypeInv, AccountType
  <1>. HIDE DEF new
  <1>7. entries'[i] = new
    BY <1>4, <1>6
  <1>. QED  BY <1>4, <1>5, <1>7

\* Every entry that is sent fits the plan of the day as it then is: its cost is within the
\* budget's share of the equity that was read, and the day-trade cap is not 0
\* (daily_plan.py resolve_today, gate.py:96-106 and 159-171); the plan may only have
\* changed between the reading and the order.
THEOREM EntriesFit == Spec => EntriesFitThePlan
  <1>1. TypeInv /\ FitInv /\ [Next]_vars =>
          [\A i \in DOMAIN entries' \ DOMAIN entries :
             LET e == entries'[i]
             IN  edited \/ ( /\ plan[day].trades # 0
                             /\ plan[day].budget # NoCap =>
                                   100 * e.shares * e.sig.entry <= plan[day].budget * handler.read)]_vars
    <2>. SUFFICES ASSUME TypeInv, FitInv, [Next]_vars, ~edited,
                         NEW i \in DOMAIN entries' \ DOMAIN entries
                  PROVE  Fits(entries'[i].sig, entries'[i].shares, handler.read)
      BY DEF Fits
    <2>. QED  BY EntriesAppear DEF FitInv
  <1>. QED  BY TypeInit, TypeStep, FitInit, FitStep, <1>1, PTL DEF Spec, EntriesFitThePlan

-----------------------------------------------------------------------------
(* The loss of a day.                                                      *)

\* What the live entries, and an approved one that has not been sent, lose at their stops.
Lives == {i \in DOMAIN entries : Live(i)}
Risked == SumFunctionOnSet(Stakes, Lives)
Pending ==
    IF handler.pc = "approved"
    THEN handler.shares * Distance(handler.sig.entry, handler.sig.stop) ELSE 0

\* The loss of the day, should everything be stopped out.
Exposure == (opening - equity) + (Risked + Pending)

\* No entry risks more than the limit at the highest equity.
StakesInv ==
    /\ \A i \in Lives : 100 * AtStake(i) <= Limits.risk * peak
    /\ handler.pc = "approved" => 100 * Pending <= Limits.risk * peak

\* Unless two entries were in flight together, no symbol is live twice.
ApartInv ==
    ~crowded =>
        /\ \A i, j \in Lives : entries[i].symbol = entries[j].symbol => i = j
        /\ handler.pc = "approved" => \A i \in Lives : entries[i].symbol # handler.sig.symbol

\* The loss is bounded from the first approval of the day; until then there is none.
Quiet == Lives = {} /\ handler.pc # "approved" /\ equity >= opening
Bounded == Limits.positions >= 1 /\ peak >= 0 /\ 100 * Exposure <= WorstDay

LossInv ==
    /\ ~doubtful => starting = opening
    /\ StakesInv /\ ApartInv
    /\ ~crowded /\ ~doubtful => Quiet \/ Bounded

\* The sums are numbers, and nothing at stake is negative.
LEMMA RiskedType ==
    ASSUME AccountType, HandlerType
    PROVE  /\ IsFiniteSet(Lives) /\ Lives \subseteq DOMAIN entries
           /\ \A i \in Lives : Stakes[i] \in Nat /\ Stakes[i] = AtStake(i)
           /\ Whole(Stakes, Lives)
           /\ Risked \in Nat /\ Pending \in Nat
  <1>1. IsFiniteSet(Lives) /\ Lives \subseteq DOMAIN entries
    BY OpenEntries, FS_Subset DEF Lives
  <1>2. \A i \in Lives : Stakes[i] \in Nat /\ Stakes[i] = AtStake(i)
    BY OpenEntries DEF Lives, Stakes
  <1>3. Whole(Stakes, Lives)
    BY <1>2 DEF Whole
  <1>4. Risked \in Nat
    BY <1>1, <1>2, SumNatural DEF Risked
  <1>5. Pending \in Nat
    <2>1. CASE handler.pc = "approved"
      <3>1. handler.sig \in Signals /\ handler.shares \in Nat
        BY <2>1 DEF HandlerType, Idle, Reading, Approval
      <3>2. Distance(handler.sig.entry, handler.sig.stop) \in Nat
        BY <3>1, SignalType
      <3>. QED  BY <2>1, <3>1, <3>2 DEF Pending
    <2>2. CASE handler.pc # "approved"
      BY <2>2 DEF Pending
    <2>. QED  BY <2>1, <2>2
  <1>. QED  BY <1>1, <1>2, <1>3, <1>4, <1>5

\* A higher peak allows for no less.
LEMMA WorseWithPeak ==
    ASSUME AccountType, NEW p \in Int, p >= peak, Limits.positions >= 1
    PROVE  /\ Limits.risk * peak <= Limits.risk * p
           /\ opening * Limits.loss
                + ((Reward + 1) * (Limits.positions - 1) + 1) * (Limits.risk * p) >= WorstDay
           /\ WorstDay \in Int
  <1>. DEFINE c == (Reward + 1) * (Limits.positions - 1) + 1
              low == Limits.risk * peak
              high == Limits.risk * p
              o == opening * Limits.loss
  <1>1. /\ Limits.risk \in Nat /\ Limits.loss \in Nat /\ Limits.positions \in Nat
        /\ Reward \in Nat /\ peak \in Int /\ opening \in Int
    BY LimitsType, DailyPlanAssumption DEF AccountType
  <1>2. c \in Nat
    <2>1. Limits.positions - 1 \in Nat /\ Reward + 1 \in Nat
      BY <1>1
    <2>2. (Reward + 1) * (Limits.positions - 1) \in Nat
      BY <2>1
    <2>. QED  BY <2>2
  <1>3. low \in Int /\ high \in Int /\ low <= high /\ o \in Int
    BY <1>1, TimesMonotone
  <1>4. WorstDay = o + c * low
    BY DEF WorstDay
  <1>. HIDE DEF c, low, high, o
  <1>5. c * low <= c * high /\ c * low \in Int /\ c * high \in Int
    BY <1>2, <1>3, TimesMonotone
  <1>6. o + c * high >= WorstDay /\ WorstDay \in Int
    BY <1>3, <1>4, <1>5
  <1>. QED  BY <1>3, <1>6 DEF c, low, high, o

\* What moves the equity up, or the exposure down, by no more than the other.
LEMMA BoundKept ==
    ASSUME TypeInv, TypeInv', Bounded, UNCHANGED opening, peak' >= peak, Exposure' <= Exposure
    PROVE  Bounded'
  <1>1. /\ Risked \in Nat /\ Pending \in Nat /\ equity \in Int /\ opening \in Int /\ peak \in Int
        /\ Risked' \in Nat /\ Pending' \in Nat /\ equity' \in Int /\ peak' \in Int
    <2>1. Risked \in Nat /\ Pending \in Nat
      BY RiskedType DEF TypeInv
    <2>2. (AccountType /\ HandlerType => Risked \in Nat /\ Pending \in Nat)'
      BY RiskedType, PTL
    <2>. QED  BY <2>1, <2>2 DEF TypeInv, AccountType
  <1>2. Exposure \in Int /\ Exposure' \in Int
    BY <1>1 DEF Exposure
  <1>3. /\ opening * Limits.loss
             + ((Reward + 1) * (Limits.positions - 1) + 1) * (Limits.risk * peak') >= WorstDay
        /\ WorstDay \in Int
    BY <1>1, WorseWithPeak DEF TypeInv, Bounded
  <1>4. WorstDay' = opening * Limits.loss
             + ((Reward + 1) * (Limits.positions - 1) + 1) * (Limits.risk * peak')
    BY DEF WorstDay
  <1>5. WorstDay' \in Int
    <2>1. Limits.risk \in Nat /\ Limits.loss \in Nat /\ Limits.positions \in Nat /\ Reward \in Nat
      BY LimitsType, DailyPlanAssumption
    <2>2. Limits.risk * peak' \in Int /\ (Reward + 1) * (Limits.positions - 1) + 1 \in Int
          /\ opening * Limits.loss \in Int
      BY <1>1, <2>1
    <2>. QED  BY <1>4, <2>2
  <1>6. 100 * Exposure' <= WorstDay'
    BY <1>2, <1>3, <1>4, <1>5 DEF Bounded
  <1>. QED  BY <1>1, <1>6 DEF Bounded

\* The sums are numbers after a step, too.
LEMMA RiskedTypeNext ==
    ASSUME TypeInv'
    PROVE  Risked' \in Nat /\ Pending' \in Nat
  <1>1. (AccountType /\ HandlerType => Risked \in Nat /\ Pending \in Nat)'
    BY RiskedType, PTL
  <1>. QED  BY <1>1 DEF TypeInv

\* A change of state leaves what an entry has at stake, and its symbol.
LEMMA StakesStay ==
    ASSUME AccountType, NEW i \in DOMAIN entries, NEW st, entries' = [entries EXCEPT ![i].st = st]
    PROVE  /\ Stakes' = Stakes /\ DOMAIN entries' = DOMAIN entries
           /\ \A j \in DOMAIN entries : /\ entries'[j].symbol = entries[j].symbol
                                        /\ AtStake(j)' = AtStake(j)
                                        /\ entries'[j].st = IF j = i THEN st ELSE entries[j].st
  <1>. DEFINE e == [entries[i] EXCEPT !.st = st]
  <1>1. entries[i] \in Entry
    BY OpenEntries
  <1>2. /\ e.symbol = entries[i].symbol /\ e.sig = entries[i].sig
        /\ e.shares = entries[i].shares /\ e.st = st
    BY <1>1 DEF Entry
  <1>3. entries' = [entries EXCEPT ![i] = e]
    OBVIOUS
  <1>. HIDE DEF e
  <1>4. \A j \in DOMAIN entries : /\ entries'[j].symbol = entries[j].symbol
                                  /\ entries'[j].sig = entries[j].sig
                                  /\ entries'[j].shares = entries[j].shares
                                  /\ entries'[j].st = IF j = i THEN st ELSE entries[j].st
    BY <1>2, <1>3
  <1>5. DOMAIN entries' = DOMAIN entries
    BY <1>3
  <1>6. \A j \in DOMAIN entries : AtStake(j)' = AtStake(j)
    BY <1>4 DEF AtStake
  <1>. QED  BY <1>4, <1>5, <1>6 DEF Stakes

\* An entry that fills stays live.
LEMMA FillKeepsLoss ==
    ASSUME TypeInv, TypeInv', LossInv, NEW i \in DOMAIN entries, EntryFills(i)
    PROVE  LossInv'
  <1>1. /\ entries[i].st = "working" /\ entries' = [entries EXCEPT ![i].st = "filled"]
        /\ UNCHANGED <<equity, opening, peak, starting, handler, crowded, doubtful>>
    BY DEF EntryFills, Working, memory, history
  <1>2. /\ Stakes' = Stakes /\ DOMAIN entries' = DOMAIN entries
        /\ \A j \in DOMAIN entries : /\ entries'[j].symbol = entries[j].symbol
                                     /\ AtStake(j)' = AtStake(j)
                                     /\ entries'[j].st = IF j = i THEN "filled" ELSE entries[j].st
    BY <1>1, StakesStay DEF TypeInv
  <1>3. Lives' = Lives
    BY <1>1, <1>2 DEF Lives, Live, Working, Open
  <1>4. Exposure' = Exposure /\ Pending' = Pending
    BY <1>1, <1>2, <1>3 DEF Exposure, Risked, Pending
  <1>5. Bounded => Bounded'
    BY <1>1, <1>4 DEF Bounded, WorstDay
  <1>6. Quiet => Quiet'
    BY <1>1, <1>3 DEF Quiet
  <1>7. StakesInv' /\ ApartInv'
    BY <1>1, <1>2, <1>3, <1>4 DEF LossInv, StakesInv, ApartInv, Lives
  <1>. QED  BY <1>1, <1>5, <1>6, <1>7 DEF LossInv

\* An entry that is no longer live takes its stake out of the exposure, and its result,
\* which is no worse than that, into the equity.
LEMMA EndKeepsLoss ==
    ASSUME TypeInv, TypeInv', LossInv, NEW i \in Lives, NEW st \in {"over", "canceled"},
           entries' = [entries EXCEPT ![i].st = st],
           equity' >= equity - AtStake(i), peak' >= peak,
           UNCHANGED <<opening, starting, handler, crowded, doubtful>>
    PROVE  LossInv'
  <1>1. i \in DOMAIN entries
    BY DEF Lives
  <1>2. /\ Stakes' = Stakes /\ DOMAIN entries' = DOMAIN entries
        /\ \A j \in DOMAIN entries : /\ entries'[j].symbol = entries[j].symbol
                                     /\ AtStake(j)' = AtStake(j)
                                     /\ entries'[j].st = IF j = i THEN st ELSE entries[j].st
    BY <1>1, StakesStay DEF TypeInv
  <1>3. Lives' = Lives \ {i}
    BY <1>2 DEF Lives, Live, Working, Open
  <1>4. Pending' = Pending
    BY DEF Pending
  <1>5. Risked = AtStake(i) + Risked'
    <2>1. /\ IsFiniteSet(Lives) /\ Whole(Stakes, Lives) /\ Stakes[i] = AtStake(i)
      BY RiskedType DEF TypeInv
    <2>2. SumFunctionOnSet(Stakes, Lives) = Stakes[i] + SumFunctionOnSet(Stakes, Lives \ {i})
      BY <2>1, SumRemove
    <2>. QED  BY <1>2, <1>3, <2>1, <2>2, Zenon DEF Risked
  <1>6. /\ Risked' \in Nat /\ AtStake(i) \in Nat /\ Pending \in Nat /\ equity \in Int
        /\ equity' \in Int /\ opening \in Int /\ peak \in Int /\ peak' \in Int
    BY <1>1, RiskedTypeNext, RiskedType, OpenEntries DEF TypeInv, AccountType
  <1>7. Exposure' <= Exposure
    BY <1>4, <1>5, <1>6 DEF Exposure
  <1>8. ~Quiet
    BY DEF Quiet
  <1>9. Bounded => Bounded'
    BY <1>7, BoundKept
  <1>10. StakesInv'
    <2>1. Limits.risk * peak <= Limits.risk * peak'
          /\ Limits.risk * peak \in Int /\ Limits.risk * peak' \in Int
      BY <1>6, LimitsType, TimesMonotone
    <2>2. \A j \in Lives \ {i} : 100 * AtStake(j)' <= Limits.risk * peak'
      <3>. SUFFICES ASSUME NEW j \in Lives \ {i} PROVE 100 * AtStake(j)' <= Limits.risk * peak'
        OBVIOUS
      <3>1. AtStake(j)' = AtStake(j) /\ AtStake(j) \in Nat
        BY <1>2, OpenEntries DEF Lives, TypeInv
      <3>2. 100 * AtStake(j) <= Limits.risk * peak
        BY DEF LossInv, StakesInv
      <3>. QED  BY <2>1, <3>1, <3>2
    <2>3. handler.pc = "approved" => 100 * Pending <= Limits.risk * peak'
      BY <1>6, <2>1 DEF LossInv, StakesInv
    <2>. QED  BY <1>3, <1>4, <2>2, <2>3 DEF StakesInv
  <1>11. ApartInv'
    BY <1>2, <1>3 DEF LossInv, ApartInv, Lives
  <1>. QED  BY <1>8, <1>9, <1>10, <1>11 DEF LossInv

\* A handler that gives an approval up, or had none, puts nothing at stake.
LEMMA GivingUpKeepsLoss ==
    ASSUME TypeInv, TypeInv', LossInv, UNCHANGED <<equity, entries, opening, peak, crowded>>,
           handler'.pc # "approved",
           ~doubtful' => ~doubtful /\ starting' = opening
    PROVE  LossInv'
  <1>1. Lives' = Lives /\ Stakes' = Stakes
    BY DEF Lives, Live, Working, Open, Stakes, AtStake
  <1>2. Pending' = 0 /\ Risked' = Risked
    BY <1>1 DEF Pending, Risked
  <1>3. Risked \in Nat /\ Pending \in Nat /\ equity \in Int /\ opening \in Int /\ peak \in Int
    BY RiskedType DEF TypeInv, AccountType
  <1>4. Exposure' <= Exposure
    BY <1>2, <1>3 DEF Exposure
  <1>5. Bounded => Bounded'
    BY <1>3, <1>4, BoundKept
  <1>6. Quiet => Quiet'
    BY <1>1 DEF Quiet
  <1>7. StakesInv' /\ ApartInv'
    BY <1>1 DEF LossInv, StakesInv, ApartInv, AtStake
  <1>. QED  BY <1>5, <1>6, <1>7 DEF LossInv

LEMMA DayKeepsLoss ==
    ASSUME TypeInv, DayPasses PROVE LossInv'
  <1>1. /\ handler = Idle /\ handler' = Idle /\ entries' = entries
        /\ opening' = equity /\ peak' = equity /\ equity' = equity
        /\ \A i \in DOMAIN entries : ~Working(i) /\ ~Open(i)
        /\ doubtful' = (starting # equity) /\ starting' = starting
    BY DEF DayPasses
  <1>2. Lives' = {}
    BY <1>1 DEF Lives, Live, Working, Open
  <1>3. handler'.pc # "approved"
    BY <1>1 DEF Idle
  <1>4. Quiet'
    BY <1>1, <1>2, <1>3 DEF Quiet, TypeInv, AccountType
  <1>5. ~doubtful' => starting' = opening'
    BY <1>1
  <1>. QED  BY <1>2, <1>3, <1>4, <1>5 DEF LossInv, StakesInv, ApartInv

\* The stake of an entry that is sent moves from the handler to the account.
LEMMA SubmitKeepsLoss == ASSUME TypeInv, TypeInv', LossInv, Submit PROVE LossInv'
  <1>. DEFINE new == [symbol |-> handler.sig.symbol, sig |-> handler.sig,
                      shares |-> handler.shares, day |-> day, st |-> "working"]
  <1>1. /\ handler.pc = "approved" /\ handler'.pc # "approved"
        /\ entries' = entries \/ entries' = Append(entries, new)
        /\ UNCHANGED <<equity, opening, peak, starting, crowded, doubtful>>
    BY DEF Submit, Idle, history
  <1>2. CASE entries' = entries
    BY <1>1, <1>2, GivingUpKeepsLoss DEF LossInv
  <1>3. CASE entries' = Append(entries, new)
    <2>. DEFINE stake == handler.shares * Distance(handler.sig.entry, handler.sig.stop)
    <2>1. /\ new.symbol = handler.sig.symbol /\ new.st = "working"
          /\ new.shares * Distance(new.sig.entry, new.sig.stop) = stake
      OBVIOUS
    <2>. HIDE DEF new, stake
    <2>. PICK n \in Nat : n = Len(entries) + 1
      BY DEF TypeInv, AccountType
    <2>2. /\ n \notin DOMAIN entries /\ DOMAIN entries' = DOMAIN entries \union {n}
          /\ \A j \in DOMAIN entries : entries'[j] = entries[j]
          /\ entries'[n] = new
      BY <1>3 DEF TypeInv, AccountType
    <2>3. Lives' = Lives \union {n} /\ n \notin Lives
      BY <2>1, <2>2 DEF Lives, Live, Working, Open
    <2>4. /\ \A j \in Lives : Stakes'[j] = Stakes[j] /\ AtStake(j)' = AtStake(j)
          /\ Stakes'[n] = stake /\ AtStake(n)' = stake
      <3>1. AtStake(n)' = entries'[n].shares * Distance(entries'[n].sig.entry, entries'[n].sig.stop)
        BY DEF AtStake
      <3>2. AtStake(n)' = stake
        BY <2>1, <2>2, <3>1, Zenon
      <3>3. \A j \in DOMAIN entries : AtStake(j)' = AtStake(j)
        BY <2>2 DEF AtStake
      <3>4. Stakes' = [j \in DOMAIN entries' |-> AtStake(j)']
        BY DEF Stakes
      <3>5. n \in DOMAIN entries' /\ DOMAIN entries \subseteq DOMAIN entries'
        BY <2>2
      <3>6. Stakes'[n] = stake
        BY <3>2, <3>4, <3>5, Zenon
      <3>7. \A j \in DOMAIN entries : Stakes'[j] = AtStake(j)
        BY <3>3, <3>4, <3>5
      <3>8. \A j \in DOMAIN entries : Stakes[j] = AtStake(j)
        BY DEF Stakes
      <3>. QED  BY <3>2, <3>3, <3>6, <3>7, <3>8 DEF Lives
    <2>5. /\ IsFiniteSet(Lives) /\ Whole(Stakes, Lives) /\ Pending = stake /\ Pending \in Nat
          /\ Risked \in Nat /\ equity \in Int /\ opening \in Int /\ peak \in Int
      <3>1. Pending = stake
        BY <1>1 DEF Pending, stake
      <3>. QED  BY <3>1, RiskedType DEF TypeInv, AccountType
    <2>6. Whole(Stakes', Lives \union {n})
      BY <2>4, <2>5 DEF Whole
    <2>7. SumFunctionOnSet(Stakes', Lives \union {n}) = SumFunctionOnSet(Stakes', Lives) + stake
      <3>. DEFINE f == Stakes'
      <3>1. Whole(f, Lives \union {n}) /\ f[n] = stake
        BY <2>4, <2>6
      <3>. HIDE DEF f
      <3>2. SumFunctionOnSet(f, Lives \union {n}) = SumFunctionOnSet(f, Lives) + f[n]
        BY <2>3, <2>5, <3>1, SumAdd
      <3>. QED  BY <3>1, <3>2 DEF f
    <2>8. SumFunctionOnSet(Stakes', Lives) = SumFunctionOnSet(Stakes, Lives)
      <3>. DEFINE f == Stakes'
      <3>1. \A x \in Lives : Stakes[x] = f[x]
        BY <2>4
      <3>. HIDE DEF f
      <3>2. SumFunctionOnSet(Stakes, Lives) = SumFunctionOnSet(f, Lives)
        BY <2>5, <3>1, SumEqual
      <3>. QED  BY <3>2 DEF f
    <2>9. Risked' = Risked + stake
      BY <2>3, <2>7, <2>8, Zenon DEF Risked
    <2>10. Pending' = 0
      BY <1>1 DEF Pending
    <2>11. Exposure' <= Exposure
      BY <1>1, <2>5, <2>9, <2>10 DEF Exposure
    <2>12. Bounded => Bounded'
      BY <1>1, <2>5, <2>11, BoundKept
    <2>13. StakesInv'
      <3>1. \A j \in Lives : 100 * AtStake(j) <= Limits.risk * peak
        BY DEF LossInv, StakesInv
      <3>2. 100 * Pending <= Limits.risk * peak
        BY <1>1 DEF LossInv, StakesInv
      <3>3. \A j \in Lives : 100 * AtStake(j)' <= Limits.risk * peak'
        BY <1>1, <2>4, <3>1
      <3>4. 100 * AtStake(n)' <= Limits.risk * peak'
        BY <1>1, <2>4, <2>5, <3>2, Zenon
      <3>. QED  BY <1>1, <2>3, <3>3, <3>4 DEF StakesInv
    <2>14. ApartInv'
      BY <1>1, <2>1, <2>2, <2>3 DEF LossInv, ApartInv, Lives
    <2>. QED  BY <1>1, <2>12, <2>13, <2>14 DEF LossInv, Quiet
  <1>. QED  BY <1>1, <1>2, <1>3

\* What an entry has in reach is at most so many times what it has at stake.
LEMMA ReachIsBounded ==
    ASSUME AccountType, NEW i \in DOMAIN entries
    PROVE  InReach(i) <= Reward * AtStake(i)
  <1>. DEFINE n == entries[i].shares
              d == Distance(entries[i].sig.entry, entries[i].sig.stop)
              g == Distance(entries[i].sig.entry, entries[i].sig.target)
  <1>1. n \in Nat /\ entries[i].sig \in Signals
    BY OpenEntries DEF Entry
  <1>2. d \in Nat /\ g \in Nat /\ g <= Reward * d /\ Reward \in Nat
    BY <1>1, SignalType, DailyPlanAssumption
  <1>3. AtStake(i) = n * d /\ InReach(i) = n * g
    BY DEF AtStake, InReach
  <1>. HIDE DEF n, d, g
  <1>4. Reward * d \in Nat /\ n * g <= n * (Reward * d)
    BY <1>1, <1>2, TimesMonotone
  <1>5. n * (Reward * d) = Reward * (n * d)
    BY <1>1, <1>2
  <1>. QED  BY <1>3, <1>4, <1>5

\* What a day can lose, in numbers: `r` is the risk of an entry and `n` entries are open.
LEMMA WorstCase ==
    ASSUME NEW r \in Nat, NEW n \in Nat, NEW p \in Nat, n <= p - 1, NEW w \in Nat,
           NEW risked \in Nat, NEW gain \in Nat, NEW stake \in Nat, NEW o \in Int, NEW x \in Int,
           100 * risked <= r * n, 100 * gain <= (w * r) * n, 100 * stake <= r,
           100 * x <= o + 100 * gain
    PROVE  100 * (x + (risked + stake)) <= o + ((w + 1) * (p - 1) + 1) * r
  <1>. DEFINE k == p - 1
              wr == w * r
  <1>1. k \in Nat /\ n <= k /\ wr \in Nat
    OBVIOUS
  <1>2. ((w + 1) * k + 1) * r = (wr * k + r * k) + r
    <2>1. ((w + 1) * k + 1) * r = (w + 1) * k * r + r
      BY <1>1
    <2>2. (w + 1) * k = w * k + k /\ w * k \in Nat
      BY <1>1
    <2>3. (w * k + k) * r = (w * k) * r + k * r
      BY <1>1, <2>2
    <2>4. (w * k) * r = wr * k /\ k * r = r * k
      BY <1>1
    <2>. HIDE DEF wr, k
    <2>5. (w * k) * r \in Nat /\ k * r \in Nat /\ (w + 1) * k \in Nat
      BY <1>1, <2>2
    <2>. QED  BY <1>1, <2>1, <2>2, <2>3, <2>4, <2>5
  <1>. HIDE DEF wr, k
  <1>3. r * n <= r * k /\ wr * n <= wr * k
    BY <1>1, TimesMonotone
  <1>4. r * n \in Nat /\ r * k \in Nat /\ wr * n \in Nat /\ wr * k \in Nat
    BY <1>1
  <1>5. 100 * risked <= r * k /\ 100 * gain <= wr * k
    BY <1>3, <1>4 DEF wr
  <1>6. 100 * (x + (risked + stake)) <= o + ((wr * k + r * k) + r)
    <2>. DEFINE a == wr * k
                b == r * k
    <2>1. a \in Nat /\ b \in Nat /\ 100 * risked <= b /\ 100 * gain <= a
      BY <1>4, <1>5
    <2>. HIDE DEF a, b
    <2>2. 100 * (x + (risked + stake)) <= o + ((a + b) + r)
      BY <2>1
    <2>. QED  BY <2>2 DEF a, b
  <1>. QED  BY <1>2, <1>6 DEF k

\* An approval that sees every other entry as a position finds fewer of them than the cap.
LEMMA FewOpen ==
    ASSUME TypeInv, CapInv, LossInv, ~crowded, ~Unseen, handler.pc = "listed",
           ~(Cardinality(handler.positions) >= Limits.positions)
    PROVE  /\ Lives = Opened /\ IsFiniteSet(Opened)
           /\ Cardinality(Opened) \in Nat /\ Cardinality(Opened) <= Limits.positions - 1
  <1>1. Lives = Opened
    BY DEF Unseen, Lives, Opened, Live
  <1>2. IsFiniteSet(Opened) /\ Cardinality(Opened) \in Nat
    BY OpenEntries, FS_CardinalityType DEF TypeInv, Opened
  <1>3. IsFiniteSet(handler.positions) /\ Cardinality(handler.positions) \in Nat
    BY FS_CardinalityType DEF CapInv, HandlerInv
  <1>. DEFINE f == [i \in Opened |-> entries[i].symbol]
  <1>4. f \in Injection(Opened, handler.positions)
    <2>1. \A i \in Opened : entries[i].symbol \in handler.positions
      BY DEF Unseen, Opened
    <2>2. \A i, j \in Opened : entries[i].symbol = entries[j].symbol => i = j
      BY <1>1 DEF LossInv, ApartInv
    <2>3. f \in [Opened -> handler.positions] /\ \A i, j \in Opened : f[i] = f[j] => i = j
      BY <2>1, <2>2
    <2>. HIDE DEF f
    <2>. QED  BY <2>3 DEF Injection, IsInjective
  <1>5. Cardinality(Opened) <= Cardinality(handler.positions)
    BY <1>3, <1>4, FS_Injection
  <1>6. Limits.positions \in Nat
    BY LimitsType
  <1>. QED  BY <1>1, <1>2, <1>3, <1>5, <1>6

\* An entry that is approved stays within the bound.
LEMMA DecideKeepsLoss ==
    ASSUME TypeInv, TypeInv', CapInv, LossInv,
           NEW e \in EquityReads, NEW t, NEW killed, Decide(e, t, killed)
    PROVE  LossInv'
  <1>. DEFINE ok == Ok(e, t, killed)
              stake == Size(e) * Distance(handler.sig.entry, handler.sig.stop)
  <1>1. /\ handler.pc = "listed" /\ UNCHANGED <<equity, entries, opening, starting>>
        /\ e \in Int /\ starting \in Int /\ equity \in Int /\ opening \in Int /\ peak \in Int
    <2>1. handler.pc = "listed" /\ UNCHANGED <<equity, entries, opening, starting>>
      BY DecideDoes, Zenon
    <2>2. EquityReads \subseteq Int
      BY MarksType DEF TypeInv
    <2>. QED  BY <2>1, <2>2 DEF TypeInv, AccountType
  <1>2. CASE ~ok
    <2>1. handler' = Idle /\ crowded' = crowded /\ doubtful' = doubtful /\ peak' = peak
      <3>1. crowded \in BOOLEAN /\ doubtful \in BOOLEAN
        BY DEF TypeInv, RestType
      <3>2. /\ handler' = Idle /\ peak' = peak
            /\ crowded' = (crowded \/ FALSE) /\ doubtful' = (doubtful \/ FALSE)
        BY <1>2, DecideDoes, Zenon
      <3>. QED  BY <3>1, <3>2
    <2>2. handler'.pc # "approved"
      BY <2>1 DEF Idle
    <2>3. ~doubtful' => ~doubtful /\ starting' = opening
      BY <1>1, <2>1 DEF LossInv
    <2>. QED  BY <1>1, <2>1, <2>2, <2>3, GivingUpKeepsLoss
  <1>3. CASE ok
    <2>1. /\ handler.sig \in Signals /\ Size(e) \in Nat \ {0}
          /\ handler.sig.symbol \notin handler.positions
          /\ 100 * stake <= Limits.risk * e
          /\ ~(Cardinality(handler.positions) >= Limits.positions)
          /\ ~(starting * Limits.loss <= 100 * (starting - e))
          /\ e > 0
      BY <1>1, <1>3, ApprovalFacts DEF TypeInv
    <2>2. stake \in Nat
      BY <2>1, SignalType
    <2>3. /\ handler' = [pc |-> "approved", sig |-> handler.sig, read |-> e, shares |-> Size(e)]
          /\ ~crowded' => ~crowded /\ ~Unseen
          /\ ~doubtful' => ~doubtful /\ e \in Marks
          /\ peak' = IF e > peak THEN e ELSE peak
      BY <1>3, DecideDoes, Zenon
    <2>4. handler'.pc = "approved" /\ handler'.sig = handler.sig /\ handler'.shares = Size(e)
      BY <2>3
    <2>5. Pending' = stake
      BY <2>4 DEF Pending
    <2>6. Lives' = Lives /\ Stakes' = Stakes /\ Risked' = Risked
      BY <1>1 DEF Lives, Live, Working, Open, Stakes, AtStake, Risked
    <2>7. peak' \in Int /\ peak' >= e /\ peak' >= peak /\ peak' \in Nat
      BY <1>1, <2>1, <2>3
    <2>. DEFINE risk == Limits.risk * peak'
    <2>8. /\ Limits.risk \in Nat /\ Limits.positions \in Nat /\ Limits.loss \in Nat
          /\ Reward \in Nat
          /\ risk \in Nat /\ Limits.risk * e <= risk /\ Limits.risk * peak <= risk
          /\ Limits.risk * e \in Int /\ Limits.risk * peak \in Int
      BY <1>1, <2>7, LimitsType, DailyPlanAssumption, TimesMonotone
    <2>. HIDE DEF stake, risk
    <2>9. \A i \in Lives : AtStake(i) \in Nat /\ 100 * AtStake(i) <= risk
      <3>. SUFFICES ASSUME NEW i \in Lives PROVE AtStake(i) \in Nat /\ 100 * AtStake(i) <= risk
        OBVIOUS
      <3>1. AtStake(i) \in Nat /\ 100 * AtStake(i) <= Limits.risk * peak
        BY OpenEntries DEF Lives, TypeInv, LossInv, StakesInv
      <3>. QED  BY <2>8, <3>1
    <2>10. 100 * stake <= risk
      BY <2>1, <2>2, <2>8
    <2>11. StakesInv'
      <3>1. \A i \in Lives : AtStake(i)' = AtStake(i)
        BY <1>1 DEF AtStake
      <3>. QED  BY <2>5, <2>6, <2>9, <2>10, <3>1 DEF StakesInv, risk
    <2>12. ApartInv'
      <3>1. SUFFICES ASSUME ~crowded' PROVE ApartInv'
        BY DEF ApartInv
      <3>2. \A i, j \in Lives : entries[i].symbol = entries[j].symbol => i = j
        BY <2>3, <3>1 DEF LossInv, ApartInv
      <3>3. \A i \in Lives : entries[i].symbol # handler.sig.symbol
        BY <2>1, <2>3, <3>1 DEF Unseen, Lives, Live
      <3>. QED  BY <1>1, <2>4, <2>6, <3>2, <3>3 DEF ApartInv
    <2>13. ASSUME ~crowded', ~doubtful' PROVE Bounded'
      <3>. DEFINE n == Cardinality(Opened)
                  gain == SumFunctionOnSet(Reaches, Opened)
      <3>1. Lives = Opened /\ IsFiniteSet(Opened) /\ n \in Nat /\ n <= Limits.positions - 1
        BY <1>1, <2>1, <2>3, <2>13, FewOpen
      <3>2. /\ Risked = SumFunctionOnSet(Stakes, Opened) /\ Risked \in Nat /\ gain \in Nat
            /\ e \in {equity - Risked, equity + gain}
        <4>1. Risked = SumFunctionOnSet(Stakes, Opened)
          BY <3>1 DEF Risked
        <4>. QED  BY <2>3, <2>13, <4>1, MarksType DEF TypeInv
      <3>3. starting = opening
        BY <2>3, <2>13 DEF LossInv
      <3>4. 100 * Risked <= risk * n
        <4>1. Whole(Stakes, Opened) /\ \A i \in Opened : 100 * Stakes[i] <= risk
          BY <2>9, <3>1, RiskedType DEF TypeInv
        <4>2. 100 * SumFunctionOnSet(Stakes, Opened) <= risk * n
          BY <2>8, <3>1, <4>1, SumBounded
        <4>. QED  BY <3>2, <4>2
      <3>5. 100 * gain <= (Reward * risk) * n
        <4>1. ASSUME NEW i \in Opened
              PROVE  Reaches[i] \in Nat /\ 100 * Reaches[i] <= Reward * risk
          <5>1. i \in DOMAIN entries /\ Reaches[i] = InReach(i) /\ InReach(i) \in Nat
            BY OpenEntries DEF Opened, Reaches, TypeInv
          <5>2. InReach(i) <= Reward * AtStake(i)
            BY <5>1, ReachIsBounded DEF TypeInv
          <5>3. AtStake(i) \in Nat /\ 100 * AtStake(i) <= risk
            BY <2>9, <3>1
          <5>4. Reward * (100 * AtStake(i)) <= Reward * risk
            BY <2>8, <5>3, TimesMonotone
          <5>5. Reward * (100 * AtStake(i)) = 100 * (Reward * AtStake(i))
                /\ Reward * AtStake(i) \in Nat /\ Reward * risk \in Nat
            BY <2>8, <5>3
          <5>. QED  BY <5>1, <5>2, <5>4, <5>5
        <4>2. Whole(Reaches, Opened)
          BY <4>1 DEF Whole
        <4>. DEFINE b == Reward * risk
                    f == Reaches
        <4>3. b \in Int /\ Whole(f, Opened) /\ \A i \in Opened : 100 * f[i] <= b
          BY <2>8, <4>1, <4>2
        <4>. HIDE DEF b, f
        <4>4. 100 * SumFunctionOnSet(f, Opened) <= b * n
          <5>1. 100 \in Int
            OBVIOUS
          <5>. QED  BY <3>1, <4>3, <5>1, SumBounded, Zenon
        <4>. QED  BY <4>4 DEF b, f
      <3>. HIDE DEF n, gain
      <3>6. 100 * (opening - equity) <= opening * Limits.loss + 100 * gain
        <4>. DEFINE o == opening * Limits.loss
        <4>1. o \in Int /\ ~(o <= 100 * (opening - e))
          BY <1>1, <2>1, <2>8, <3>3
        <4>. HIDE DEF o
        <4>2. 100 * (opening - equity) <= o + 100 * gain
          BY <1>1, <3>2, <4>1
        <4>. QED  BY <4>2 DEF o
      <3>7. 100 * ((opening - equity) + (Risked + stake))
              <= opening * Limits.loss + ((Reward + 1) * (Limits.positions - 1) + 1) * risk
        <4>1. opening * Limits.loss \in Int /\ opening - equity \in Int
          BY <1>1, <2>8
        <4>. QED  BY <2>2, <2>8, <2>10, <3>1, <3>2, <3>4, <3>5, <3>6, <4>1, WorstCase
      <3>8. /\ Exposure' = (opening - equity) + (Risked + stake)
            /\ WorstDay' = opening * Limits.loss
                             + ((Reward + 1) * (Limits.positions - 1) + 1) * risk
        BY <1>1, <2>5, <2>6 DEF Exposure, WorstDay, risk
      <3>9. Limits.positions >= 1 /\ peak' >= 0
        BY <2>7, <2>8, <3>1
      <3>. QED  BY <3>7, <3>8, <3>9 DEF Bounded
    <2>14. ~doubtful' => starting' = opening'
      BY <1>1, <2>3 DEF LossInv
    <2>. QED  BY <2>11, <2>12, <2>13, <2>14 DEF LossInv
  <1>. QED  BY <1>2, <1>3

\* Nothing is at stake at the beginning.
LEMMA LossInit == Init => LossInv
  <1>. SUFFICES ASSUME Init PROVE LossInv
    OBVIOUS
  <1>1. /\ entries = <<>> /\ handler.pc # "approved" /\ equity = opening
        /\ Start \in Nat /\ equity = Start /\ opening = Start
        /\ ~doubtful => starting = opening
    BY DailyPlanAssumption DEF Init, Idle
  <1>2. Lives = {}
    BY <1>1 DEF Lives
  <1>. QED  BY <1>1, <1>2 DEF LossInv, StakesInv, ApartInv, Quiet

\* What changes neither the account nor what is approved.
LEMMA LossStays ==
    ASSUME LossInv, UNCHANGED <<account, history, handler, starting>>
    PROVE  LossInv'
  BY DEF LossInv, StakesInv, ApartInv, Quiet, Bounded, Lives, Live, Working, Open, AtStake,
         Stakes, Risked, Pending, Exposure, WorstDay, account, history

LEMMA LossStep == TypeInv /\ TypeInv' /\ CapInv /\ LossInv /\ [Next]_vars => LossInv'
  <1>. SUFFICES ASSUME TypeInv, TypeInv', CapInv, LossInv, [Next]_vars PROVE LossInv'
    OBVIOUS
  <1>1. ASSUME NEW i \in DOMAIN entries, EntryFills(i) PROVE LossInv'
    BY <1>1, FillKeepsLoss
  <1>2. ASSUME NEW i \in DOMAIN entries, NEW gain \in Int, gain >= -AtStake(i), EntryEnds(i, gain)
        PROVE  LossInv'
    <2>1. /\ i \in Lives /\ entries' = [entries EXCEPT ![i].st = "over"]
          /\ equity' = equity + gain /\ peak' = IF equity' > peak THEN equity' ELSE peak
          /\ UNCHANGED <<opening, starting, handler, crowded, doubtful>>
      BY <1>2 DEF EntryEnds, Lives, Live, memory, history
    <2>2. equity \in Int /\ peak \in Int /\ AtStake(i) \in Nat
      BY OpenEntries DEF TypeInv, AccountType
    <2>3. equity' >= equity - AtStake(i) /\ peak' >= peak
      BY <1>2, <2>1, <2>2
    <2>. QED  BY <2>1, <2>3, EndKeepsLoss
  <1>3. ASSUME NEW i \in DOMAIN entries, Stopped(i) PROVE LossInv'
    <2>1. AtStake(i) \in Nat
      BY OpenEntries DEF TypeInv
    <2>. QED  BY <1>2, <1>3, <2>1 DEF Stopped
  <1>4. ASSUME NEW i \in DOMAIN entries, TargetHit(i) PROVE LossInv'
    <2>1. AtStake(i) \in Nat /\ InReach(i) \in Nat
      BY OpenEntries DEF TypeInv
    <2>. QED  BY <1>2, <1>4, <2>1 DEF TargetHit
  <1>5. ASSUME NEW i \in DOMAIN entries, EntryCancelled(i) PROVE LossInv'
    <2>1. /\ i \in Lives /\ entries' = [entries EXCEPT ![i].st = "canceled"]
          /\ UNCHANGED <<equity, peak, opening, starting, handler, crowded, doubtful>>
      BY <1>5 DEF EntryCancelled, Lives, Live, memory, history
    <2>2. equity \in Int /\ peak \in Int /\ AtStake(i) \in Nat
      BY OpenEntries DEF TypeInv, AccountType
    <2>3. equity' >= equity - AtStake(i) /\ peak' >= peak
      BY <2>1, <2>2
    <2>. QED  BY <2>1, <2>3, EndKeepsLoss
  <1>6. CASE DayPasses
    BY <1>6, DayKeepsLoss
  <1>7. ASSUME NEW form \in Forms, SavePlan(form) PROVE LossInv'
    BY <1>7, LossStays DEF SavePlan, memory
  <1>8. CASE SyncOrders
    BY <1>8, LossStays DEF SyncOrders, memory
  <1>9. ASSUME NEW s \in Signals, Resolve(s) PROVE LossInv'
    <2>1. UNCHANGED <<account, history, starting>> /\ handler'.pc # "approved"
      BY <1>9 DEF Resolve, Idle
    <2>2. ~doubtful' => ~doubtful /\ starting' = opening
      BY <2>1 DEF history, LossInv
    <2>. QED  BY <2>1, <2>2, GivingUpKeepsLoss DEF account, history
  <1>10. CASE ListPositions
    <2>1. UNCHANGED <<account, history, starting>> /\ handler'.pc # "approved"
      <3>1. handler \in Reading
        BY <1>10 DEF ListPositions, TypeInv, HandlerType, Idle, Approval
      <3>. QED  BY <1>10, <3>1 DEF ListPositions, Reading
    <2>2. ~doubtful' => ~doubtful /\ starting' = opening
      BY <2>1 DEF history, LossInv
    <2>. QED  BY <2>1, <2>2, GivingUpKeepsLoss DEF account, history
  <1>11. ASSUME NEW e \in EquityReads, NEW t \in Times, NEW killed \in BOOLEAN, Decide(e, t, killed)
         PROVE  LossInv'
    BY <1>11, DecideKeepsLoss
  <1>12. CASE Submit
    BY <1>12, SubmitKeepsLoss
  <1>13. ASSUME NEW e \in EquityReads, Restart(e) PROVE LossInv'
    <2>1. UNCHANGED <<account, crowded>> /\ handler'.pc # "approved"
          /\ (~doubtful' => ~doubtful /\ starting' = opening)
      BY <1>13 DEF Restart, Idle
    <2>. QED  BY <2>1, GivingUpKeepsLoss DEF account
  <1>14. CASE UNCHANGED vars
    BY <1>14, LossStays DEF vars, memory
  <1>. QED
    BY <1>1, <1>3, <1>4, <1>5, <1>6, <1>7, <1>8, <1>9, <1>10, <1>11, <1>12, <1>13, <1>14 DEF Next

LEMMA LossFollows == TypeInv /\ LossInv => LossBounded
  <1>. SUFFICES ASSUME TypeInv, LossInv, ~crowded, ~doubtful, ~(equity >= opening)
                PROVE  100 * (opening - equity) <= WorstDay
    BY DEF LossBounded
  <1>1. 100 * Exposure <= WorstDay /\ Limits.positions >= 1
    BY DEF LossInv, Quiet, Bounded
  <1>2. Risked \in Nat /\ Pending \in Nat /\ equity \in Int /\ opening \in Int /\ peak \in Int
    BY RiskedType DEF TypeInv, AccountType
  <1>3. WorstDay \in Int
    BY <1>1, <1>2, WorseWithPeak DEF TypeInv
  <1>. QED  BY <1>1, <1>2, <1>3 DEF Exposure

\* A day loses no more than its limit allows, the risk of the entry that is approved last and
\* the risk and the unrealised gain of the others, as long as no entry is approved beside
\* one the gate does not see and the day's equity is the one the gate compares with
\* (risk/gate.py, scripts/paper_run.py).
THEOREM LossIsBounded == Spec => []LossBounded
  <1>1. Init => TypeInv /\ CapInv /\ LossInv
    BY TypeInit, CapInit, LossInit
  <1>2. (TypeInv /\ CapInv /\ LossInv) /\ [Next]_vars => (TypeInv /\ CapInv /\ LossInv)'
    BY TypeStep, CapStep, LossStep
  <1>3. TypeInv /\ LossInv => LossBounded
    BY LossFollows
  <1>. QED  BY <1>1, <1>2, <1>3, PTL DEF Spec

-----------------------------------------------------------------------------
(* The window of the day-trade cap (clock.py, nth_business_day_back).      *)

\* The recursive function in NthBusinessDayBack.
IsBack(b, d, n) ==
    b = [e \in 0..d |->
            [k \in 1..n |-> IF e = 0 \/ (TradingDay(e) /\ k = 1) THEN e
                           ELSE b[e - 1][IF TradingDay(e) THEN k - 1 ELSE k]]]
BackTable(d, n) == CHOOSE b : IsBack(b, d, n)

LEMMA BackIsTable ==
    ASSUME NEW d, NEW n PROVE NthBusinessDayBack(d, n) = BackTable(d, n)[d][n]
  BY Zenon DEF NthBusinessDayBack, BackTable, IsBack

\* There is such a function, for every date.
LEMMA BackExists ==
    ASSUME NEW d \in Nat, NEW n \in Nat PROVE IsBack(BackTable(d, n), d, n)
  <1>. DEFINE T == {m \in Nat : \E b : IsBack(b, m, n)}
  <1>1. 0 \in T
    <2>. DEFINE b == [e \in 0..0 |-> [k \in 1..n |-> e]]
    <2>1. IsBack(b, 0, n)
      BY DEF IsBack
    <2>. QED  BY <2>1
  <1>2. ASSUME NEW m \in Nat, m \in T PROVE m + 1 \in T
    <2>1. PICK b : IsBack(b, m, n)
      BY <1>2
    <2>. DEFINE last == [k \in 1..n |-> IF TradingDay(m + 1) /\ k = 1 THEN m + 1
                                      ELSE b[m][IF TradingDay(m + 1) THEN k - 1 ELSE k]]
                c == [e \in 0..(m + 1) |-> IF e = m + 1 THEN last ELSE b[e]]
    <2>2. \A e \in 0..m : c[e] = b[e]
      OBVIOUS
    <2>3. c[m + 1] = last
      OBVIOUS
    <2>4. \A e \in 0..(m + 1) :
             c[e] = [k \in 1..n |-> IF e = 0 \/ (TradingDay(e) /\ k = 1) THEN e
                                   ELSE c[e - 1][IF TradingDay(e) THEN k - 1 ELSE k]]
      <3>. SUFFICES ASSUME NEW e \in 0..(m + 1)
                    PROVE  c[e] = [k \in 1..n |-> IF e = 0 \/ (TradingDay(e) /\ k = 1) THEN e
                                         ELSE c[e - 1][IF TradingDay(e) THEN k - 1 ELSE k]]
        OBVIOUS
      <3>1. CASE e = m + 1
        <4>1. c[e - 1] = b[m] /\ e # 0
          BY <2>2, <3>1
        <4>. QED  BY <2>3, <3>1, <4>1
      <3>2. CASE e # m + 1
        <4>1. e \in 0..m /\ c[e] = b[e]
          BY <2>2, <3>2
        <4>2. b[e] = [k \in 1..n |-> IF e = 0 \/ (TradingDay(e) /\ k = 1) THEN e
                                    ELSE b[e - 1][IF TradingDay(e) THEN k - 1 ELSE k]]
          BY <2>1, <4>1 DEF IsBack
        <4>3. e # 0 => c[e - 1] = b[e - 1]
          BY <2>2, <4>1
        <4>. HIDE DEF c
        <4>. QED  BY <4>1, <4>2, <4>3
      <3>. QED  BY <3>1, <3>2
    <2>5. c = [e \in 0..(m + 1) |-> c[e]]
      OBVIOUS
    <2>. HIDE DEF c
    <2>6. IsBack(c, m + 1, n)
      BY <2>4, <2>5 DEF IsBack
    <2>. QED  BY <2>6
  <1>. HIDE DEF T
  <1>3. Nat \subseteq T
    BY <1>1, <1>2, NatSetInduction
  <1>4. \E b : IsBack(b, d, n)
    BY <1>3 DEF T
  <1>. QED  BY <1>4, Zenon DEF BackTable

\* The trading days from one date to another.
Held(from, to) == {x \in from..to : TradingDay(x)}

LEMMA HeldFinite ==
    ASSUME NEW a \in Nat, NEW b \in Nat
    PROVE  IsFiniteSet(Held(a, b)) /\ Cardinality(Held(a, b)) \in Nat
  <1>1. IsFiniteSet(a..b) /\ Held(a, b) \subseteq a..b
    BY FS_Interval DEF Held
  <1>. QED  BY <1>1, FS_Subset, FS_CardinalityType

LEMMA HeldNext ==
    ASSUME NEW a \in Nat, NEW b \in Nat, a <= b + 1
    PROVE  Cardinality(Held(a, b + 1)) =
             IF TradingDay(b + 1) THEN Cardinality(Held(a, b)) + 1 ELSE Cardinality(Held(a, b))
  <1>1. b + 1 \notin Held(a, b) /\ IsFiniteSet(Held(a, b))
    BY HeldFinite DEF Held
  <1>2. CASE TradingDay(b + 1)
    <2>1. Held(a, b + 1) = Held(a, b) \union {b + 1}
      BY <1>2 DEF Held
    <2>. QED  BY <1>1, <1>2, <2>1, FS_AddElement
  <1>3. CASE ~TradingDay(b + 1)
    <2>1. Held(a, b + 1) = Held(a, b)
      BY <1>3 DEF Held
    <2>. QED  BY <1>3, <2>1
  <1>. QED  BY <1>2, <1>3

\* The n-th trading day back begins a window of n, if there have been as many.
LEMMA BackIsExact ==
    ASSUME NEW d \in Nat, NEW n \in Nat, n > 0, Cardinality(Held(0, d)) >= n
    PROVE  LET first == NthBusinessDayBack(d, n)
           IN  first \in 0..d /\ TradingDay(first) /\ Cardinality(Held(first, d)) = n
  <1>. DEFINE b == BackTable(d, n)
              Exact(e, k) == /\ b[e][k] \in 0..e /\ TradingDay(b[e][k])
                             /\ Cardinality(Held(b[e][k], e)) = k
              T == {e \in Nat : e <= d =>
                       \A k \in 1..n : Cardinality(Held(0, e)) >= k => Exact(e, k)}
  <1>0. IsBack(b, d, n)
    BY BackExists
  <1>. HIDE DEF b
  <1>1. \A e \in 0..d, k \in 1..n :
           b[e][k] = IF e = 0 \/ (TradingDay(e) /\ k = 1) THEN e
                     ELSE b[e - 1][IF TradingDay(e) THEN k - 1 ELSE k]
    <2>. SUFFICES ASSUME NEW e \in 0..d
                  PROVE  \A k \in 1..n :
                            b[e][k] = IF e = 0 \/ (TradingDay(e) /\ k = 1) THEN e
                                      ELSE b[e - 1][IF TradingDay(e) THEN k - 1 ELSE k]
      OBVIOUS
    <2>1. b[e] = [k \in 1..n |-> IF e = 0 \/ (TradingDay(e) /\ k = 1) THEN e
                                 ELSE b[e - 1][IF TradingDay(e) THEN k - 1 ELSE k]]
      BY <1>0, Zenon DEF IsBack
    <2>. QED  BY <2>1, Zenon
  <1>2. 0 \in T
    <2>. SUFFICES ASSUME NEW k \in 1..n, Cardinality(Held(0, 0)) >= k PROVE Exact(0, k)
      OBVIOUS
    <2>1. b[0][k] = 0
      BY <1>1
    <2>2. CASE TradingDay(0)
      <3>1. Held(0, 0) = {0}
        BY <2>2 DEF Held
      <3>2. Cardinality(Held(0, 0)) = 1
        BY <3>1, FS_Singleton
      <3>3. k = 1
        BY <3>2
      <3>. QED  BY <2>1, <2>2, <3>2, <3>3
    <2>3. CASE ~TradingDay(0)
      <3>1. Held(0, 0) = {}
        BY <2>3 DEF Held
      <3>2. Cardinality(Held(0, 0)) = 0
        BY <3>1, FS_EmptySet
      <3>. QED  BY <3>2
    <2>. QED  BY <2>2, <2>3
  <1>3. ASSUME NEW e \in Nat, e \in T PROVE e + 1 \in T
    <2>. SUFFICES ASSUME e + 1 <= d, NEW k \in 1..n, Cardinality(Held(0, e + 1)) >= k
                  PROVE  Exact(e + 1, k)
      OBVIOUS
    <2>1. \A j \in 1..n : Cardinality(Held(0, e)) >= j => Exact(e, j)
      BY <1>3
    <2>2. b[e + 1][k] = IF TradingDay(e + 1) /\ k = 1 THEN e + 1
                        ELSE b[e][IF TradingDay(e + 1) THEN k - 1 ELSE k]
      <3>1. e + 1 \in 0..d /\ e + 1 # 0 /\ (e + 1) - 1 = e
        OBVIOUS
      <3>2. b[e + 1][k] = IF e + 1 = 0 \/ (TradingDay(e + 1) /\ k = 1) THEN e + 1
                          ELSE b[(e + 1) - 1][IF TradingDay(e + 1) THEN k - 1 ELSE k]
        BY <1>1, <3>1
      <3>. QED  BY <3>1, <3>2
    <2>3. Cardinality(Held(0, e)) \in Nat
      BY HeldFinite
    <2>4. CASE TradingDay(e + 1) /\ k = 1
      <3>1. Held(e + 1, e + 1) = {e + 1}
        BY <2>4 DEF Held
      <3>2. Cardinality(Held(e + 1, e + 1)) = 1
        BY <3>1, FS_Singleton
      <3>3. b[e + 1][k] = e + 1
        BY <2>2, <2>4
      <3>. QED  BY <2>4, <3>2, <3>3
    <2>5. CASE TradingDay(e + 1) /\ k # 1
      <3>1. k - 1 \in 1..n /\ b[e + 1][k] = b[e][k - 1]
        BY <2>2, <2>5
      <3>2. Cardinality(Held(0, e)) >= k - 1
        BY <2>3, <2>5, HeldNext
      <3>3. Exact(e, k - 1)
        BY <2>1, <3>1, <3>2
      <3>. DEFINE x == b[e][k - 1]
      <3>4. x \in Nat /\ x <= e /\ TradingDay(x) /\ Cardinality(Held(x, e)) = k - 1
        BY <3>3
      <3>5. b[e + 1][k] = x
        BY <3>1
      <3>. HIDE DEF x
      <3>6. Cardinality(Held(x, e + 1)) = k
        BY <2>5, <3>4, HeldNext
      <3>. QED  BY <3>4, <3>5, <3>6
    <2>6. CASE ~TradingDay(e + 1)
      <3>1. b[e + 1][k] = b[e][k]
        BY <2>2, <2>6
      <3>2. Cardinality(Held(0, e)) >= k
        BY <2>3, <2>6, HeldNext
      <3>3. Exact(e, k)
        BY <2>1, <3>2
      <3>. DEFINE x == b[e][k]
      <3>4. x \in Nat /\ x <= e /\ TradingDay(x) /\ Cardinality(Held(x, e)) = k
        BY <3>3
      <3>5. b[e + 1][k] = x
        BY <3>1
      <3>. HIDE DEF x
      <3>6. Cardinality(Held(x, e + 1)) = k
        BY <2>6, <3>4, HeldNext
      <3>. QED  BY <3>4, <3>5, <3>6
    <2>. QED  BY <2>4, <2>5, <2>6
  <1>. HIDE DEF T, Exact
  <1>4. Nat \subseteq T
    BY <1>2, <1>3, NatSetInduction
  <1>5. Exact(d, n)
    BY <1>4 DEF T
  <1>. QED  BY <1>5, BackIsTable DEF Exact, b

\* The window of the day-trade cap begins with a trading day and holds five of them,
\* whatever the holidays (clock.py, nth_business_day_back).
THEOREM WindowIsExact == Spec => []WindowExact
  <1>1. TypeInv => WindowExact
    <2>. SUFFICES ASSUME TypeInv PROVE WindowExact
      OBVIOUS
    <2>1. day \in Nat /\ FirstDay \in Nat /\ FirstDay <= day
      BY DailyPlanAssumption DEF TypeInv, RestType, Days
    <2>2. Cardinality(Held(0, day)) >= Window /\ Window \in Nat /\ Window > 0
      <3>1. Held(0, FirstDay) \subseteq Held(0, day)
        BY <2>1 DEF Held
      <3>2. Cardinality(Held(0, FirstDay)) <= Cardinality(Held(0, day))
        BY <2>1, <3>1, HeldFinite, FS_Subset
      <3>3. Cardinality(Held(0, FirstDay)) >= Window
        BY CalendarAssumption DEF Held
      <3>. QED  BY <2>1, <3>2, <3>3, HeldFinite DEF Window
    <2>. QED  BY <2>1, <2>2, BackIsExact DEF WindowExact, Held
  <1>2. Init => TypeInv
    BY TypeInit
  <1>3. TypeInv /\ [Next]_vars => TypeInv'
    BY TypeStep
  <1>. QED  BY <1>1, <1>2, <1>3, PTL DEF Spec
=============================================================================
