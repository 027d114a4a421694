--------------------------- MODULE AccountProofs ---------------------------
(***************************************************************************)
(* Proofs about the two processes that trade on the account: PaperRunner,  *)
(* for every watchlist, every set of signal ids and every bound, and       *)
(* Deadman, for every threshold and every set of orders.                   *)
(*                                                                         *)
(* The runner: RunnerInv is inductive; each conjunct has a theorem of its  *)
(* own, with one step per action, and the properties follow.               *)
(***************************************************************************)
EXTENDS PaperRunner, Deadman, TLAPS

\* What a flatten does to one order of a well-typed book: it keeps the symbol,
\* does not bring an order into being, and leaves nothing live behind.
LEMMA CloseAllOrders ==
    ASSUME order \in [SignalId -> OrderRecord]
    PROVE  /\ CloseAll(order) \in [SignalId -> OrderRecord]
           /\ \A i \in SignalId :
                 /\ CloseAll(order)[i].status = "none" <=> order[i].status = "none"
                 /\ CloseAll(order)[i].status \notin {"working", "filled", "naked"}
  BY DEF CloseAll, OrderRecord, OrderStatus

\* The same for the end of the session: nothing is working or protected by legs.
LEMMA ExpireOrders ==
    ASSUME order \in [SignalId -> OrderRecord]
    PROVE  /\ ExpireDayOrders(order) \in [SignalId -> OrderRecord]
           /\ \A i \in SignalId :
                 /\ ExpireDayOrders(order)[i].status = "none" <=> order[i].status = "none"
                 /\ ExpireDayOrders(order)[i].status # "closing" <=> order[i].status # "closing"
                 /\ ExpireDayOrders(order)[i].status \notin {"working", "filled"}
                 /\ order[i].status \notin {"working", "filled", "naked"}
                       => ExpireDayOrders(order)[i].status = order[i].status
  BY DEF ExpireDayOrders, OrderRecord, OrderStatus

\* A fill keeps the book well typed, brings no order into being and re-opens
\* nothing: only a working entry can become a position.
LEMMA FillOrders ==
    ASSUME order \in [SignalId -> OrderRecord], BrokerStep
    PROVE  /\ order' \in [SignalId -> OrderRecord]
           /\ \A i \in SignalId :
                 /\ order'[i].status = "none" <=> order[i].status = "none"
                 /\ order[i].status \notin {"working", "filled", "naked"}
                       => order'[i].status \notin {"working", "filled", "naked"}
  <1>1. PICK k \in SignalId : EntryFills(k) \/ LegFills(k) \/ CloseFills(k)
    BY DEF BrokerStep
  <1>2. PICK st \in OrderStatus :
            /\ order' = [order EXCEPT ![k].status = st]
            /\ st # "none" /\ order[k].status # "none"
            /\ order[k].status # "working" => st = "exited"
    BY <1>1 DEF EntryFills, LegFills, CloseFills, OrderStatus
  <1>. QED  BY <1>2 DEF OrderRecord, OrderStatus

\* Acceptance of a bracket concerns that one order only.
LEMMA AcceptOrder ==
    ASSUME order \in [SignalId -> OrderRecord],
           NEW i \in SignalId, NEW s \in Symbol, Accept(i, s)
    PROVE  /\ order' \in [SignalId -> OrderRecord]
           /\ order'[i].status = "working"
           /\ \A j \in SignalId \ {i} : order'[j] = order[j]
  BY DEF Accept, OrderRecord, OrderStatus

-----------------------------------------------------------------------------
\* Every reachable state of the runner is well typed (TypeOK).
THEOREM TypeCorrect == Spec => [](TypeOK /\ HandlerInv)
<1>1. Init => TypeOK /\ HandlerInv
  <2> SUFFICES ASSUME Init PROVE TypeOK /\ HandlerInv
    OBVIOUS
  <2>1. order \in [SignalId -> OrderRecord]
    BY DEF Init, BrokerInit, NoOrder, OrderRecord, OrderStatus
  <2>2. signal \in [SignalId -> SignalRow]
    BY RunnerAssumption DEF Init, NoRow, SignalRow
  <2>3. /\ day \in 1..Days /\ clock \in 0..Closed
        /\ failures \in 0..MaxFlattenFailures /\ crashes \in 0..MaxCrashes /\ leak \in Nat
    BY RunnerAssumption DEF Init, Closed
  <2>. QED  BY <2>1, <2>2, <2>3 DEF Init, TypeOK, HandlerInv
<1>2. TypeOK /\ HandlerInv /\ [Next]_vars => TypeOK' /\ HandlerInv'
  <2> SUFFICES ASSUME TypeOK, HandlerInv, [Next]_vars
               PROVE  TypeOK' /\ HandlerInv'
    OBVIOUS
  <2>. USE DEF TypeOK, HandlerInv
  <2>1. ASSUME NEW s \in Symbol, OnBar(s) PROVE TypeOK' /\ HandlerInv'
    <3>1. clock # Closed
      BY <2>1, RunnerAssumption DEF OnBar, StrategyWindow, Closed, Persisted
    <3>. QED  BY <2>1, <3>1 DEF OnBar, Persisted
  <2>2. CASE AlreadyEntered
    BY <2>2 DEF AlreadyEntered, HandlerReturns
  <2>3. CASE LookupFails
    BY <2>3 DEF LookupFails, MarkEntered, HandlerReturns
  <2>4. ASSUME NEW i \in SignalId, Evaluate(i) PROVE TypeOK' /\ HandlerInv'
    <3>1. signal'[i] \in SignalRow /\ signal' = [signal EXCEPT ![i] = signal'[i]]
      BY <2>4 DEF Evaluate, NewId, SignalRow, MarkEntered, HandlerReturns
    <3>. QED  BY <2>4, <3>1 DEF Evaluate, NewId, MarkEntered, HandlerReturns
  <2>5. CASE Submit
    <3>1. order' \in [SignalId -> OrderRecord]
      BY <2>5, AcceptOrder DEF Submit, HandlerReturns
    <3>. QED  BY <2>5, <3>1 DEF Submit, HandlerReturns
  <2>6. CASE RecordOpen
    BY <2>6 DEF RecordOpen, HandlerReturns
  <2>7. CASE EodPass
    <3>1. order' \in [SignalId -> OrderRecord]
      BY <2>7, CloseAllOrders DEF EodPass, FlattenFails
    <3>2. failures' \in 0..MaxFlattenFailures
      BY <2>7, RunnerAssumption DEF EodPass, FlattenFails
    <3>. QED  BY <2>7, <3>1, <3>2 DEF EodPass, FlattenFails
  <2>8. CASE Tick
    <3>1. order' \in [SignalId -> OrderRecord]
      BY <2>8, ExpireOrders DEF Tick
    <3>2. clock' \in 0..Closed /\ (clock' = Closed => pc = "idle")
      BY <2>8, RunnerAssumption DEF Tick, Closed
    <3>. QED  BY <2>8, <3>1, <3>2 DEF Tick
  <2>9. CASE NextDay
    <3>1. /\ day' \in 1..Days /\ clock' \in 0..Closed /\ clock' # Closed
          /\ failures' \in 0..MaxFlattenFailures
      BY <2>9, RunnerAssumption DEF NextDay, Closed
    <3>. QED  BY <2>9, <3>1 DEF NextDay
  <2>10. CASE Crash
    <3>1. crashes' \in 0..MaxCrashes
      BY <2>10, RunnerAssumption DEF Crash, MemoryLost, HandlerReturns
    <3>. QED  BY <2>10, <3>1 DEF Crash, MemoryLost, HandlerReturns
  <2>11. CASE Restart
    <3>1. signal' \in [SignalId -> SignalRow]
      BY <2>11 DEF Restart, SignalRow
    <3>2. entered' \in [Symbol -> BOOLEAN]
      BY <2>11 DEF Restart, Replayed
    <3>. QED  BY <2>11, <3>1, <3>2 DEF Restart
  <2>12. CASE ToggleKillSwitch
    BY <2>12 DEF ToggleKillSwitch
  <2>13. CASE DeadmanFlatten
    BY <2>13, CloseAllOrders DEF DeadmanFlatten, runnerVars
  <2>14. CASE MarketMoves
    BY <2>14, FillOrders DEF MarketMoves, runnerVars
  <2>15. CASE UNCHANGED vars
    BY <2>15 DEF vars, runnerVars
  <2>. QED
    BY <2>1, <2>2, <2>3, <2>4, <2>5, <2>6, <2>7, <2>8, <2>9, <2>10, <2>11,
       <2>12, <2>13, <2>14, <2>15 DEF Next
<1>. QED  BY <1>1, <1>2, PTL DEF Spec

\* While the kill switch is engaged, a handler that waits to submit has not leaked
\* yet (LeakInv): the gate reads the switch anew for every signal.
LEMMA LeakHolds == Spec => []LeakInv
<1>1. Init => LeakInv
  BY DEF Init, LeakInv
<1>2. TypeOK /\ HandlerInv /\ LeakInv /\ [Next]_vars => LeakInv'
  <2> SUFFICES ASSUME TypeOK, HandlerInv, LeakInv, [Next]_vars
               PROVE  LeakInv'
    OBVIOUS
  <2>. USE DEF LeakInv
  <2>1. ASSUME NEW i \in SignalId, Evaluate(i) PROVE LeakInv'
    BY <2>1 DEF Evaluate, NewId, GatePasses, MarkEntered, HandlerReturns
  <2>2. CASE Submit
    BY <2>2 DEF Submit, TypeOK, HandlerReturns
  <2>3. CASE ToggleKillSwitch
    BY <2>3 DEF ToggleKillSwitch
  <2>4. ASSUME NEW s \in Symbol, OnBar(s) PROVE LeakInv'
    BY <2>4 DEF OnBar, Persisted
  <2>5. CASE AlreadyEntered \/ LookupFails \/ RecordOpen
    BY <2>5 DEF AlreadyEntered, LookupFails, RecordOpen, HandlerReturns, MarkEntered
  <2>6. CASE EodPass \/ Tick \/ NextDay \/ Crash \/ Restart
    BY <2>6 DEF EodPass, Tick, NextDay, Crash, Restart, FlattenFails, MemoryLost, HandlerReturns
  <2>7. CASE DeadmanFlatten \/ MarketMoves \/ UNCHANGED vars
    BY <2>7 DEF DeadmanFlatten, MarketMoves, vars, runnerVars
  <2>. QED
    BY <2>1, <2>2, <2>3, <2>4, <2>5, <2>6, <2>7 DEF Next
<1>. QED  BY <1>1, <1>2, TypeCorrect, PTL DEF Spec

\* The kill switch lets at most one submission through after it is engaged
\* (KillSwitchLeak): the decision that was in flight.
THEOREM KillSwitch == Spec => []KillSwitchLeak
<1>1. LeakInv => KillSwitchLeak
  BY DEF LeakInv, KillSwitchLeak
<1>. QED  BY <1>1, LeakHolds, PTL

-----------------------------------------------------------------------------
\* No order comes into being except by Submit, for the signal in hand.
LEMMA OnlySubmitCreates ==
    ASSUME TypeOK, HandlerInv, [Next]_vars,
           NEW i \in SignalId, order[i].status = "none", order'[i].status # "none"
    PROVE  Submit /\ i = cur
  <1>1. \/ Submit
        \/ order' = CloseAll(order)
        \/ order' = ExpireDayOrders(order)
        \/ BrokerStep
        \/ order' = order
    BY DEF Next, OnBar, AlreadyEntered, LookupFails, Evaluate, NewId, RecordOpen, EodPass, Tick,
           NextDay, Crash, Restart, ToggleKillSwitch, DeadmanFlatten, MarketMoves, vars, Persisted,
           HandlerReturns, MarkEntered, FlattenFails, MemoryLost
  <1>2. Submit
    BY <1>1, CloseAllOrders, ExpireOrders, FillOrders DEF TypeOK
  <1>3. i = cur
    BY <1>2 DEF Submit, Accept, TypeOK, HandlerInv, HandlerReturns
  <1>. QED  BY <1>2, <1>3

\* A signal relabelled stale by a restart, or rejected, never becomes an order
\* (NeverResubmitted).
THEOREM StaleNotSubmitted == Spec => NeverResubmitted
<1> DEFINE Fresh ==
      \A i \in SignalId : (order[i].status = "none" /\ order'[i].status # "none")
                             => signal[i].gate = "approved"
<1>1. TypeOK /\ HandlerInv /\ [Next]_vars => [Fresh]_vars
  BY OnlySubmitCreates DEF Submit, HandlerInv, HandlerReturns
<1>. QED  BY <1>1, TypeCorrect, PTL DEF Spec, NeverResubmitted

-----------------------------------------------------------------------------
\* Every order has a signal row, whatever bars are lost (OrderHasRow).
LEMMA RowKept ==
    ASSUME TypeOK, HandlerInv, OrderHasRow, [Next]_vars
    PROVE  OrderHasRow'
  <1> SUFFICES ASSUME NEW i \in SignalId, order'[i].status # "none"
               PROVE  signal'[i].gate # "none"
    BY DEF OrderHasRow
  <1>1. signal[i].gate # "none"
    <2>1. CASE order[i].status # "none"
      BY <2>1 DEF OrderHasRow
    <2>2. CASE order[i].status = "none"
      BY <2>2, OnlySubmitCreates DEF HandlerInv, Submit, HandlerReturns
    <2>. QED  BY <2>1, <2>2
  <1>2. \/ signal' = signal
        \/ Restart
        \/ \E k \in SignalId : Evaluate(k)
    BY DEF Next, OnBar, AlreadyEntered, LookupFails, Submit, RecordOpen, EodPass, Tick,
           NextDay, Crash, ToggleKillSwitch, DeadmanFlatten, MarketMoves, vars, runnerVars,
           Persisted, HandlerReturns, MarkEntered, FlattenFails, MemoryLost
  <1>3. CASE Restart
    BY <1>1, <1>3 DEF Restart, TypeOK, SignalRow
  <1>4. ASSUME NEW k \in SignalId, Evaluate(k) PROVE signal'[i].gate # "none"
    BY <1>1, <1>4 DEF Evaluate, NewId, TypeOK, SignalRow, MarkEntered, HandlerReturns
  <1>. QED  BY <1>1, <1>2, <1>3, <1>4

\* The id in hand is new (InHandInv), and is dropped with the handler.
LEMMA InHandHolds == Spec => []InHandInv
<1>1. Init => InHandInv
  BY DEF Init, BrokerInit, NoOrder, InHandInv, OrderHasRow
<1>2. TypeOK /\ HandlerInv /\ InHandInv /\ [Next]_vars => InHandInv'
  <2> SUFFICES ASSUME TypeOK, HandlerInv, InHandInv, [Next]_vars,
                      pc' = "submit"
               PROVE  order'[cur'].status = "none"
    BY RowKept DEF InHandInv
  <2>1. ASSUME NEW i \in SignalId, Evaluate(i) PROVE order'[cur'].status = "none"
    <3>1. order[i].status = "none" /\ order' = order
      BY <2>1 DEF Evaluate, NewId, InHandInv, OrderHasRow
    <3>2. cur' = i
      BY <2>1 DEF Evaluate, HandlerReturns
    <3>. QED  BY <3>1, <3>2
  <2>2. ASSUME pc = "submit", cur' = cur, ~Submit PROVE order'[cur'].status = "none"
    <3>1. cur \in SignalId /\ order[cur].status = "none"
      BY <2>2 DEF HandlerInv, InHandInv
    <3>. QED  BY <2>2, <3>1, OnlySubmitCreates
  <2>3. \/ \E i \in SignalId : Evaluate(i)
        \/ pc = "submit" /\ cur' = cur /\ ~Submit
    BY DEF Next, OnBar, AlreadyEntered, LookupFails, Submit, RecordOpen, EodPass, Tick,
           NextDay, Crash, Restart, ToggleKillSwitch, DeadmanFlatten, MarketMoves, vars,
           runnerVars, HandlerReturns, MemoryLost
  <2>. QED  BY <2>1, <2>2, <2>3
<1>. QED  BY <1>1, <1>2, TypeCorrect, PTL DEF Spec

\* The runner only ever does to the account what module Broker allows; in
\* particular no client order id is submitted twice (README.md: retries can never
\* double-submit).
THEOREM ImplementsBroker == Spec => BrokerSpec
<1>1. Init => BrokerInit
  BY DEF Init
<1>2. TypeOK /\ HandlerInv /\ InHandInv /\ [Next]_vars => [BrokerNext]_order
  <2> SUFFICES ASSUME TypeOK, HandlerInv, InHandInv, [Next]_vars, order' # order
               PROVE  BrokerNext
    OBVIOUS
  <2>1. CASE Submit
    BY <2>1 DEF Submit, HandlerInv, InHandInv, BrokerNext
  <2>2. CASE ~Submit
    BY <2>2 DEF Next, OnBar, AlreadyEntered, LookupFails, Evaluate, RecordOpen, EodPass,
           FlattenFails, Tick, NextDay, Crash, Restart, ToggleKillSwitch, DeadmanFlatten,
           MarketMoves, vars, BrokerNext
  <2>. QED  BY <2>1, <2>2
<1>. QED  BY <1>1, <1>2, TypeCorrect, InHandHolds, PTL DEF Spec, BrokerSpec

\* A step that writes no signal row leaves the backing of the rows intact, unless it
\* takes a bar or an entered flag away within the day.
LEMMA RowsKept ==
    ASSUME TypeOK, signal' = signal, day' = day,
           OneRowPerDay, \A i \in SignalId : RowBacked(i),
           \A s \in Symbol : saved[s] => saved'[s],
           \A s \in Symbol : up' /\ (up => entered[s]) /\ saved[s] => entered'[s]
    PROVE  OneRowPerDay' /\ \A i \in SignalId : RowBacked(i)'
  <1>1. OneRowPerDay'
    BY DEF OneRowPerDay, SameEntry
  <1>2. ASSUME NEW i \in SignalId PROVE RowBacked(i)'
    BY <1>2 DEF RowBacked
  <1>. QED  BY <1>1, <1>2

\* When every bar is persisted, every signal row of today is backed by a stored bar,
\* and so by the entered flag of every later process (EntryInv).
LEMMA EntriesBacked == Spec => []EntryInv
<1> DEFINE Backed == BarStored /\ OneRowPerDay /\ \A i \in SignalId : RowBacked(i)
<1>1. Init => EntryInv
  BY DEF Init, BrokerInit, NoOrder, NoRow, OrderHasRow, BarStored, OneRowPerDay, SameEntry,
         RowBacked, InFlight, EntryInv
<1>2. TypeOK /\ HandlerInv /\ EntryInv /\ [Next]_vars => EntryInv'
  <2> SUFFICES ASSUME TypeOK, HandlerInv, OrderHasRow, Backed, [Next]_vars, ~BarsMayBeLost
               PROVE  Backed'
    BY RowKept DEF EntryInv
  <2>1. ASSUME NEW s \in Symbol, OnBar(s) PROVE Backed'
    <3>1. BarStored'
      BY <2>1 DEF OnBar, BarStored, TypeOK, Persisted
    <3>2. \A q \in Symbol : saved[q] => saved'[q]
      BY <2>1 DEF OnBar, TypeOK, Persisted
    <3>. QED  BY <2>1, <3>1, <3>2, RowsKept DEF OnBar, Persisted
  <2>2. CASE AlreadyEntered
    BY <2>2, RowsKept DEF AlreadyEntered, BarStored, InFlight, HandlerReturns
  <2>3. CASE LookupFails
    <3>1. \A q \in Symbol : entered[q] => entered'[q]
      BY <2>3 DEF LookupFails, TypeOK, MarkEntered, HandlerReturns
    <3>. QED  BY <2>3, <3>1, RowsKept
         DEF LookupFails, HandlerInv, BarStored, InFlight, MarkEntered, HandlerReturns
  <2>4. ASSUME NEW k \in SignalId, Evaluate(k) PROVE Backed'
    <3>1. /\ up /\ bar \in Symbol /\ saved[bar] /\ ~entered[bar]
          /\ saved' = saved /\ day' = day /\ up' = up
          /\ entered' = [entered EXCEPT ![bar] = TRUE]
      BY <2>4 DEF Evaluate, NewId, HandlerInv, BarStored, InFlight, MarkEntered, HandlerReturns
    <3>2. PICK g \in {"approved", "rejected"} :
             signal' = [signal EXCEPT ![k] = [sym |-> bar, day |-> day, gate |-> g]]
      BY <2>4 DEF Evaluate, NewId, MarkEntered, HandlerReturns
    <3>3. \A i \in SignalId : signal[i].gate # "none" =>
             ~(signal[i].sym = bar /\ signal[i].day = day)
      BY <3>1 DEF RowBacked
    <3>4. BarStored'
      BY <2>4, <3>1 DEF Evaluate, NewId, BarStored, InFlight, MarkEntered, HandlerReturns
    <3>5. ASSUME NEW i \in SignalId PROVE RowBacked(i)'
      <4>1. CASE i = k
        BY <3>1, <3>2, <4>1 DEF RowBacked, TypeOK
      <4>2. CASE i # k
        BY <3>1, <3>2, <4>2 DEF RowBacked, TypeOK
      <4>. QED  BY <4>1, <4>2
    <3>6. OneRowPerDay'
      BY <3>2, <3>3 DEF OneRowPerDay, SameEntry, TypeOK
    <3>. QED  BY <3>4, <3>5, <3>6
  <2>5. CASE Submit
    BY <2>5, RowsKept DEF Submit, BarStored, InFlight, HandlerReturns
  <2>6. CASE RecordOpen
    BY <2>6, RowsKept DEF RecordOpen, BarStored, InFlight, HandlerReturns
  <2>7. CASE EodPass \/ Tick \/ ToggleKillSwitch
    BY <2>7, RowsKept DEF EodPass, Tick, ToggleKillSwitch, BarStored, FlattenFails
  <2>8. CASE NextDay
    <3>1. signal' = signal /\ day' = day + 1 /\ day \in Nat
      BY <2>8, RunnerAssumption DEF NextDay, TypeOK
    <3>2. pc = "idle" /\ pc' = pc
      BY <2>8 DEF NextDay, HandlerInv
    <3>3. BarStored' /\ OneRowPerDay'
      BY <3>1, <3>2 DEF BarStored, OneRowPerDay, SameEntry, InFlight
    <3>4. ASSUME NEW i \in SignalId PROVE RowBacked(i)'
      <4>1. signal[i].day \in Nat
        BY RunnerAssumption DEF TypeOK, SignalRow
      <4>. QED  BY <3>1, <4>1 DEF RowBacked
    <3>. QED  BY <3>3, <3>4
  <2>9. CASE Crash
    BY <2>9, RowsKept DEF Crash, BarStored, InFlight, MemoryLost, HandlerReturns
  <2>10. CASE Restart
    <3>1. ASSUME NEW i \in SignalId
          PROVE  /\ signal'[i].gate # "none" <=> signal[i].gate # "none"
                 /\ signal'[i].sym = signal[i].sym /\ signal'[i].day = signal[i].day
      BY <2>10 DEF Restart, Stale, TypeOK, SignalRow
    <3>2. OneRowPerDay'
      BY <3>1 DEF OneRowPerDay, SameEntry
    <3>3. ASSUME NEW i \in SignalId PROVE RowBacked(i)'
      BY <2>10, <3>1 DEF Restart, Replayed, RowBacked
    <3>4. BarStored'
      BY <2>10 DEF Restart, HandlerInv, BarStored, InFlight
    <3>. QED  BY <3>2, <3>3, <3>4
  <2>11. CASE DeadmanFlatten \/ MarketMoves \/ UNCHANGED vars
    BY <2>11, RowsKept DEF DeadmanFlatten, MarketMoves, vars, runnerVars, BarStored
  <2>. QED
    BY <2>1, <2>2, <2>3, <2>4, <2>5, <2>6, <2>7, <2>8, <2>9, <2>10, <2>11 DEF Next
<1>. QED  BY <1>1, <1>2, TypeCorrect, PTL DEF Spec

\* Then a symbol is entered at most once a day, through any number of crashes
\* (NoDoubleEntry).
THEOREM EntryOnce == ~BarsMayBeLost => (Spec => []NoDoubleEntry)
<1> SUFFICES ASSUME ~BarsMayBeLost PROVE Spec => []NoDoubleEntry
  OBVIOUS
<1>1. EntryInv => NoDoubleEntry
  BY DEF EntryInv, OrderHasRow, OneRowPerDay, SameEntry, NoDoubleEntry, SubmittedTwice
<1>. QED  BY <1>1, EntriesBacked, PTL

-----------------------------------------------------------------------------
\* Flags that are kept go on backing the rows of a process that lives on (MemoryInv).
LEMMA MemoryKept ==
    ASSUME MemoryInv, signal' = signal, day' = day,
           crashes' = 0 => crashes = 0 /\ up' = up,
           \A s \in Symbol : entered[s] => (crashes' = 0 => entered'[s])
    PROVE  MemoryInv'
  <1>. SUFFICES ASSUME crashes' = 0
                PROVE  /\ up' /\ OneRowPerDay'
                       /\ \A i \in SignalId : signal'[i].gate # "none" =>
                             /\ signal'[i].sym \in Symbol /\ signal'[i].day <= day'
                             /\ signal'[i].day = day' => entered'[signal'[i].sym]
    BY DEF MemoryInv
  <1>1. OneRowPerDay'
    BY DEF MemoryInv, OneRowPerDay, SameEntry
  <1>. QED  BY <1>1 DEF MemoryInv

\* Until the first crash every signal row of today is backed by its flag, whether its bar
\* was stored or not.
LEMMA MemoryHolds == Spec => []MemoryInv
<1>1. Init => MemoryInv
  BY DEF Init, NoRow, OneRowPerDay, SameEntry, MemoryInv
<1>2. TypeOK /\ HandlerInv /\ MemoryInv /\ [Next]_vars => MemoryInv'
  <2> SUFFICES ASSUME TypeOK, HandlerInv, MemoryInv, [Next]_vars PROVE MemoryInv'
    OBVIOUS
  <2>1. CASE (\E s \in Symbol : OnBar(s)) \/ AlreadyEntered
    BY <2>1, MemoryKept DEF OnBar, Persisted, AlreadyEntered, HandlerReturns
  <2>2. CASE LookupFails
    <3>1. \A q \in Symbol : entered[q] => entered'[q]
      BY <2>2 DEF LookupFails, TypeOK, MarkEntered, HandlerReturns
    <3>. QED  BY <2>2, <3>1, MemoryKept DEF LookupFails, MarkEntered, HandlerReturns
  <2>3. ASSUME NEW k \in SignalId, Evaluate(k), crashes' = 0 PROVE MemoryInv'
    <3>1. /\ up /\ bar \in Symbol /\ ~entered[bar] /\ crashes = 0 /\ up' = up /\ day' = day
          /\ entered' = [entered EXCEPT ![bar] = TRUE]
      BY <2>3 DEF Evaluate, NewId, HandlerInv, MarkEntered, HandlerReturns
    <3>2. PICK g \in {"approved", "rejected"} :
             signal' = [signal EXCEPT ![k] = [sym |-> bar, day |-> day, gate |-> g]]
      BY <2>3 DEF Evaluate, NewId, MarkEntered, HandlerReturns
    <3>3. \A i \in SignalId : signal[i].gate # "none" =>
             ~(signal[i].sym = bar /\ signal[i].day = day)
      BY <3>1 DEF MemoryInv
    <3>4. ASSUME NEW i \in SignalId, signal'[i].gate # "none"
          PROVE  /\ signal'[i].sym \in Symbol /\ signal'[i].day <= day'
                 /\ signal'[i].day = day' => entered'[signal'[i].sym]
      <4>1. CASE i = k
        BY <3>1, <3>2, <4>1 DEF TypeOK
      <4>2. CASE i # k
        BY <3>1, <3>2, <3>4, <4>2 DEF MemoryInv, TypeOK
      <4>. QED  BY <4>1, <4>2
    <3>5. OneRowPerDay'
      BY <3>1, <3>2, <3>3 DEF MemoryInv, OneRowPerDay, SameEntry, TypeOK
    <3>. QED  BY <3>1, <3>4, <3>5 DEF MemoryInv
  <2>4. CASE Submit \/ RecordOpen
    BY <2>4, MemoryKept DEF Submit, RecordOpen, HandlerReturns
  <2>5. CASE EodPass \/ Tick \/ ToggleKillSwitch
    BY <2>5, MemoryKept DEF EodPass, Tick, ToggleKillSwitch, FlattenFails
  <2>6. CASE NextDay
    <3>1. /\ signal' = signal /\ day' = day + 1 /\ day \in Nat
          /\ crashes' = crashes /\ up' = up
      BY <2>6, RunnerAssumption DEF NextDay, TypeOK
    <3>2. \A i \in SignalId : signal[i].day \in Nat
      BY RunnerAssumption DEF TypeOK, SignalRow
    <3>3. crashes = 0 => OneRowPerDay'
      BY <3>1 DEF MemoryInv, OneRowPerDay, SameEntry
    <3>. QED  BY <3>1, <3>2, <3>3 DEF MemoryInv
  <2>7. CASE Crash
    <3>1. crashes' # 0
      BY <2>7, RunnerAssumption DEF Crash, TypeOK
    <3>. QED  BY <3>1 DEF MemoryInv
  <2>8. CASE Restart
    <3>1. crashes' # 0
      BY <2>8 DEF Restart, MemoryInv
    <3>. QED  BY <3>1 DEF MemoryInv
  <2>9. CASE DeadmanFlatten \/ MarketMoves \/ UNCHANGED vars
    BY <2>9, MemoryKept DEF DeadmanFlatten, MarketMoves, vars, runnerVars
  <2>10. ASSUME NEW k \in SignalId, Evaluate(k) PROVE MemoryInv'
    BY <2>3, <2>10 DEF MemoryInv
  <2>. QED
    BY <2>1, <2>2, <2>4, <2>5, <2>6, <2>7, <2>8, <2>9, <2>10 DEF Next
<1>. QED  BY <1>1, <1>2, TypeCorrect, PTL DEF Spec

\* Even when bars may fail to persist, a process that never died enters a symbol at most
\* once a day (DoubleEntryNeedsCrash).
THEOREM DoubleNeedsCrash == Spec => []DoubleEntryNeedsCrash
<1>1. InHandInv /\ MemoryInv => DoubleEntryNeedsCrash
  BY DEF InHandInv, MemoryInv, OrderHasRow, OneRowPerDay, SameEntry, NoDoubleEntry,
         SubmittedTwice, DoubleEntryNeedsCrash
<1>. QED  BY <1>1, InHandHolds, MemoryHolds, PTL

-----------------------------------------------------------------------------
\* On a full session a window survived without a flatten would need as many failing
\* flatten calls as it has passes (FlatInv): each failing pass is counted.
LEMMA FlatHolds == Spec => []FlatInv
<1>1. Init => FlatInv
  BY RunnerAssumption DEF Init, FlatInv, Closed
<1>2. TypeOK /\ HandlerInv /\ FlatInv /\ [Next]_vars => FlatInv'
  <2> SUFFICES ASSUME TypeOK, HandlerInv, FlatInv, [Next]_vars, ~EarlyClose, Days = 1
               PROVE  FlatInv'
    BY DEF FlatInv
  <2>. USE DEF FlatInv
  <2>1. ASSUME NEW s \in Symbol, OnBar(s) PROVE FlatInv'
    <3>1. clock = 0 /\ 0 # Closed
      BY <2>1, RunnerAssumption DEF OnBar, StrategyWindow, Closed, Persisted
    <3>. QED  BY <2>1, <3>1 DEF OnBar, Persisted
  <2>2. CASE AlreadyEntered \/ LookupFails
    BY <2>2 DEF AlreadyEntered, LookupFails, HandlerReturns, MarkEntered
  <2>3. ASSUME NEW k \in SignalId, Evaluate(k) PROVE FlatInv'
    BY <2>3 DEF Evaluate, NewId, GatePasses, GateWindow, MarkEntered, HandlerReturns
  <2>4. CASE Submit
    <3>1. clock # Closed /\ ~flattened
      BY <2>4 DEF Submit, HandlerInv, HandlerReturns
    <3>. QED  BY <2>4, <3>1 DEF Submit, HandlerReturns
  <2>5. CASE RecordOpen
    BY <2>5 DEF RecordOpen, HandlerReturns
  <2>6. CASE EodPass
    <3>1. clock \in 1..FlattenTicks /\ clock # Closed /\ clock > 0
      BY <2>6, RunnerAssumption DEF EodPass, Closed, FlattenFails
    <3>2. failures' = failures \/ failures' = failures + 1
      BY <2>6 DEF EodPass, FlattenFails
    <3>3. CASE flattened
      BY <2>6, <3>1, <3>3 DEF EodPass, FlattenFails
    <3>4. CASE ~flattened /\ order' = CloseAll(order) /\ flattened'
      BY <2>6, <3>1, <3>4, CloseAllOrders DEF EodPass, TypeOK, FlattenFails
    <3>5. CASE ~flattened /\ failures' = failures + 1 /\ flattened' = flattened
      BY <2>6, <3>1, <3>5 DEF EodPass, TypeOK, FlattenFails
    <3>. QED  BY <2>6, <3>3, <3>4, <3>5 DEF EodPass, FlattenFails
  <2>7. CASE Tick
    <3>1. clock \in Nat /\ FlattenTicks \in Nat \ {0} /\ clock' = clock + 1 /\ clock < Closed
      BY <2>7, RunnerAssumption DEF Tick, TypeOK, Closed
    <3>2. CASE clock' # Closed
      <4>1. clock' \in 1..FlattenTicks /\ clock' > 0
        BY <3>1, <3>2 DEF Closed
      <4>3. order' = order /\ eodDue'
        BY <2>7, <3>2, <4>1 DEF Tick
      <4>2. (watched' /\ ~flattened) => failures' + 1 >= clock'
        <5>1. failures \in Nat
          BY RunnerAssumption DEF TypeOK
        <5>2. failures' = failures /\ (watched' => clock = 0 \/ watched)
              /\ (clock > 0 /\ watched => ~eodDue)
          BY <2>7 DEF Tick
        <5>3. CASE clock = 0
          BY <3>1, <5>1, <5>2, <5>3
        <5>4. CASE clock > 0
          <6>1. clock \in 1..FlattenTicks /\ clock # 0
            BY <3>1, <5>4 DEF Closed
          <6>. QED  BY <3>1, <5>1, <5>2, <5>4, <6>1
        <5>. QED  BY <3>1, <5>3, <5>4
      <4>. QED  BY <2>7, <3>2, <4>1, <4>2, <4>3 DEF Tick
    <3>3. CASE clock' = Closed
      <4>1. /\ clock = FlattenTicks /\ clock \in 1..FlattenTicks /\ clock > 0
            /\ clock' \notin 1..FlattenTicks /\ clock' > 0
        BY <3>1, <3>3 DEF Closed
      <4>2. ~eodDue' /\ order' = ExpireDayOrders(order) /\ pc = "idle"
        BY <2>7, <3>3, <4>1 DEF Tick
      <4>3. watched' => flattened'
        <5>1. failures < clock
          BY <4>1, RunnerAssumption DEF TypeOK
        <5>2. failures \in Nat
          BY RunnerAssumption DEF TypeOK
        <5>3. (watched' => up /\ (clock = 0 \/ watched)) /\ flattened' = flattened
          BY <2>7 DEF Tick
        <5>4. clock # 0
          BY <3>1, <4>1
        <5>5. up => ~eodDue
          BY <2>7, <4>1 DEF Tick
        <5>. QED  BY <3>1, <4>1, <5>1, <5>2, <5>3, <5>4, <5>5
      <4>4. \A i \in SignalId : order'[i].status # "closing"
        BY <2>7, <3>3, ExpireOrders DEF Tick, TypeOK
      <4>5. flattened' => \A i \in SignalId :
                             order'[i].status \notin {"working", "filled", "naked"}
        BY <2>7, <4>2, ExpireOrders DEF Tick, TypeOK
      <4>. QED  BY <2>7, <3>3, <4>1, <4>2, <4>3, <4>4, <4>5 DEF Tick
    <3>. QED  BY <3>2, <3>3
  <2>8. CASE NextDay
    BY <2>8 DEF NextDay, TypeOK
  <2>9. CASE Crash
    BY <2>9 DEF Crash, MemoryLost, HandlerReturns
  <2>10. CASE Restart
    BY <2>10 DEF Restart
  <2>11. CASE ToggleKillSwitch \/ UNCHANGED vars
    BY <2>11 DEF ToggleKillSwitch, vars, runnerVars
  <2>12. CASE DeadmanFlatten
    BY <2>12, CloseAllOrders DEF DeadmanFlatten, runnerVars, TypeOK
  <2>13. CASE MarketMoves
    BY <2>13, FillOrders DEF MarketMoves, runnerVars, TypeOK
  <2>. QED
    BY <2>1, <2>2, <2>3, <2>4, <2>5, <2>6, <2>7, <2>8, <2>9, <2>10, <2>11, <2>12, <2>13 DEF Next
<1>. QED  BY <1>1, <1>2, TypeCorrect, PTL DEF Spec

\* On a full session a runner that is alive from the flatten point on holds
\* nothing when the market closes (FlatAtClose), provided the flatten call fails
\* less often than the loop can try it.
THEOREM FlatCorrect == (~EarlyClose /\ Days = 1) => (Spec => []FlatAtClose)
<1> SUFFICES ASSUME ~EarlyClose, Days = 1 PROVE Spec => []FlatAtClose
  OBVIOUS
<1>1. TypeOK /\ FlatInv => FlatAtClose
  BY DEF FlatInv, FlatAtClose, ExposedStatus, HoldingStatus
<1>. QED  BY <1>1, FlatHolds, TypeCorrect, PTL

-----------------------------------------------------------------------------
\* The invariant the run checks (RunnerInv) holds of every instance, whatever may be
\* lost and however the days are long: its parts carry their own conditions.
THEOREM InvariantHolds == Spec => []RunnerInv
  BY TypeCorrect, LeakHolds, InHandHolds, EntriesBacked, MemoryHolds, FlatHolds, PTL
     DEF RunnerInv

-----------------------------------------------------------------------------
(* The dead-man's switch.                                                  *)

\* Every reachable state of the dead-man's switch is well typed (DeadmanTypeOK), and it
\* looks at the account only while it is armed: a heartbeat it never saw fresh, such as
\* the row of another day, makes it cancel and close nothing (deadman.py:55, 88-90).
THEOREM DeadmanTypeCorrect == DeadmanSpec => []DeadmanTypeOK
<1>1. DeadmanInit => DeadmanTypeOK
  <2> SUFFICES ASSUME DeadmanInit PROVE DeadmanTypeOK
    OBVIOUS
  <2>1. order \in [SignalId -> OrderRecord]
    BY DEF DeadmanInit, NoOrder, OrderRecord, OrderStatus
  <2>2. age \in 0..Never
    BY DeadmanAssumption DEF DeadmanInit, StaleAge, Never
  <2>. QED  BY <2>1, <2>2 DEF DeadmanInit, DeadmanTypeOK, ArmedCheck, Checking
<1>2. DeadmanTypeOK /\ [DeadmanNext]_deadmanVars => DeadmanTypeOK'
  <2> SUFFICES ASSUME DeadmanTypeOK, [DeadmanNext]_deadmanVars PROVE DeadmanTypeOK'
    OBVIOUS
  <2>13. ArmedCheck'
    <3>1. ArmedCheck /\ armed \in BOOLEAN /\ found \in BOOLEAN
      BY DEF DeadmanTypeOK
    <3>2. CASE UNCHANGED <<wd, armed, found>>
      BY <3>1, <3>2 DEF ArmedCheck
    <3>3. CASE WatchdogStarts
      BY <3>1, <3>3 DEF WatchdogStarts, ArmedCheck, Checking
    <3>4. CASE WatchdogDies
      BY <3>4 DEF WatchdogDies, ArmedCheck, Checking
    <3>5. CASE Poll
      BY <3>1, <3>5 DEF Poll, HasStopped, ArmedCheck, Checking
    <3>6. CASE CheckFails \/ Trip
      BY <3>6 DEF CheckFails, Trip, Disarm, ArmedCheck, Checking
    <3>7. CASE ListPositions
      BY <3>1, <3>7 DEF ListPositions, ArmedCheck, Checking
    <3>8. CASE ListOpenOrders
      BY <3>1, <3>8 DEF ListOpenOrders, Disarm, ArmedCheck, Checking
    <3>. QED
      BY <3>2, <3>3, <3>4, <3>5, <3>6, <3>7, <3>8
      DEF DeadmanNext, RunnerStarts, SubmitBegins, RequestEnds, SubmitReturns, RunnerDies,
          ShadowToggles, AccountMoves, TimePasses, dmVars, deadmanVars
  <2>. USE <2>13 DEF DeadmanTypeOK, Checking
  <2>1. CASE RunnerStarts \/ SubmitReturns \/ RunnerDies \/ ShadowToggles
    BY <2>1 DEF RunnerStarts, SubmitReturns, RunnerDies, ShadowToggles
  <2>2. ASSUME NEW i \in SignalId, SubmitBegins(i) PROVE DeadmanTypeOK'
    BY <2>2 DEF SubmitBegins
  <2>3. CASE RequestEnds
    <3>1. request \in SignalId
      BY <2>3 DEF RequestEnds
    <3>2. order' \in [SignalId -> OrderRecord]
      BY <2>3, <3>1 DEF RequestEnds, Accept, OrderRecord, OrderStatus
    <3>. QED  BY <2>3, <3>2 DEF RequestEnds
  <2>4. CASE AccountMoves
    <3>1. PICK i \in SignalId : EntryFills(i) \/ LegFills(i) \/ CloseFills(i)
      BY <2>4 DEF AccountMoves, BrokerStep
    <3>2. order' \in [SignalId -> OrderRecord]
      BY <3>1 DEF EntryFills, LegFills, CloseFills, OrderRecord, OrderStatus
    <3>. QED  BY <2>4, <3>2 DEF AccountMoves, dmVars
  <2>5. CASE TimePasses
    <3>1. age' = 0 \/ age' = Older
      BY <2>5 DEF TimePasses
    <3>2. age' \in 0..Never
      BY <3>1, DeadmanAssumption DEF Older, StaleAge, Never
    <3>3. reactions' \in Nat
      BY <2>5 DEF TimePasses
    <3>4. failed' \in BOOLEAN
      BY <2>5 DEF TimePasses
    <3>. QED  BY <2>5, <3>2, <3>3, <3>4 DEF TimePasses
  <2>6. CASE WatchdogStarts \/ WatchdogDies
    BY <2>6 DEF WatchdogStarts, WatchdogDies
  <2>7. CASE Poll
    <3>1. wd' \in {"idle", "positions"} /\ reactions' \in Nat
      BY <2>7 DEF Poll
    <3>2. armed' \in BOOLEAN
      BY <2>7 DEF Poll
    <3>. QED  BY <2>7, <3>1, <3>2 DEF Poll
  <2>8. CASE CheckFails
    BY <2>8 DEF CheckFails, Disarm
  <2>9. CASE ListOpenOrders
    <3>1. wd' \in {"trip", "idle"}
      BY <2>9 DEF ListOpenOrders, Disarm
    <3>2. armed' \in BOOLEAN
      BY <2>9 DEF ListOpenOrders, Disarm
    <3>3. found' \in BOOLEAN
      BY <2>9 DEF ListOpenOrders, Disarm
    <3>. QED  BY <2>9, <3>1, <3>2, <3>3 DEF ListOpenOrders
  <2>10. CASE ListPositions
    <3>1. found' \in BOOLEAN
      BY <2>10 DEF ListPositions
    <3>. QED  BY <2>10, <3>1 DEF ListPositions
  <2>11. CASE Trip
    <3>1. order' \in [SignalId -> OrderRecord]
      BY <2>11 DEF Trip, CloseAll, OrderRecord, OrderStatus
    <3>2. failed' \in BOOLEAN
      BY <2>11 DEF Trip
    <3>3. wd' = "idle" /\ armed' = FALSE /\ found' = FALSE
      BY <2>11 DEF Trip, Disarm
    <3>. QED  BY <2>11, <3>1, <3>2, <3>3 DEF Trip
  <2>12. CASE UNCHANGED deadmanVars
    BY <2>12 DEF deadmanVars, dmVars
  <2>. QED
    BY <2>1, <2>2, <2>3, <2>4, <2>5, <2>6, <2>7, <2>8, <2>9, <2>10, <2>11, <2>12 DEF DeadmanNext
<1>. QED  BY <1>1, <1>2, PTL DEF DeadmanSpec

\* The switch acts at most once on a stale heartbeat (OneReaction): acting disarms
\* it, and only a heartbeat that is fresh again, hence not acted upon, arms it.
THEOREM ReactsOnce == DeadmanSpec => []OneReaction
<1>1. DeadmanInit => ArmedInv
  BY DeadmanAssumption DEF DeadmanInit, ArmedInv
<1>2. DeadmanTypeOK /\ ArmedInv /\ [DeadmanNext]_deadmanVars => ArmedInv'
  <2> SUFFICES ASSUME DeadmanTypeOK, ArmedInv, [DeadmanNext]_deadmanVars PROVE ArmedInv'
    OBVIOUS
  <2>. USE DEF ArmedInv
  <2>1. CASE RunnerStarts \/ SubmitReturns \/ RunnerDies \/ ShadowToggles \/ RequestEnds
    BY <2>1 DEF RunnerStarts, SubmitReturns, RunnerDies, ShadowToggles, RequestEnds
  <2>2. ASSUME NEW i \in SignalId, SubmitBegins(i) PROVE ArmedInv'
    BY <2>2 DEF SubmitBegins
  <2>3. CASE AccountMoves \/ UNCHANGED deadmanVars
    BY <2>3 DEF AccountMoves, deadmanVars, dmVars
  <2>4. CASE TimePasses
    <3>1. age \in Nat /\ reactions \in Nat
      BY DeadmanAssumption DEF DeadmanTypeOK, Never
    <3>2. age' < StaleAge => age' = 0 \/ (age < StaleAge /\ age' = age + 1)
      BY <2>4 DEF TimePasses, Older
    <3>3. wd' = wd /\ armed' = armed
      BY <2>4 DEF TimePasses
    <3>4. reactions' = 0 \/ (age' = Older /\ reactions' = reactions)
      BY <2>4 DEF TimePasses
    <3>. QED  BY <3>1, <3>2, <3>3, <3>4 DEF Older
  <2>5. CASE WatchdogStarts \/ WatchdogDies
    BY <2>5 DEF WatchdogStarts, WatchdogDies
  <2>6. CASE Poll
    <3>1. reactions \in Nat /\ age' = age
      BY <2>6 DEF Poll, DeadmanTypeOK
    <3>2. CASE wd' = "positions"
      BY <2>6, <3>1, <3>2, DeadmanAssumption DEF Poll, HasStopped, StaleAge
    <3>3. CASE wd' = "idle"
      BY <2>6, <3>1, <3>3 DEF Poll, HasStopped
    <3>. QED  BY <2>6, <3>2, <3>3 DEF Poll
  <2>7. CASE CheckFails \/ ListPositions \/ ListOpenOrders \/ Trip
    BY <2>7 DEF CheckFails, ListPositions, ListOpenOrders, Trip, Disarm
  <2>. QED
    BY <2>1, <2>2, <2>3, <2>4, <2>5, <2>6, <2>7 DEF DeadmanNext
<1>3. ArmedInv => OneReaction
  BY DEF ArmedInv, OneReaction
<1>. QED  BY <1>1, <1>2, <1>3, DeadmanTypeCorrect, PTL DEF DeadmanSpec

\* The check for something to flatten is exact although it reads the account twice
\* (CheckIsExact): shares that the second read does not see were there at the first.
THEOREM NothingEscapes == DeadmanSpec => CheckIsExact
<1> DEFINE Exact == (wd = "orders" /\ wd' = "idle" /\ ~failed' /\ ~landed) => ~Unattended
<1>1. DeadmanInit => CheckInv
  BY DEF DeadmanInit, CheckInv, NoOrder
<1>2. DeadmanTypeOK /\ CheckInv /\ [DeadmanNext]_deadmanVars => CheckInv'
  <2> SUFFICES ASSUME DeadmanTypeOK, CheckInv, [DeadmanNext]_deadmanVars PROVE CheckInv'
    OBVIOUS
  <2>. USE DEF CheckInv
  <2>1. CASE RunnerStarts \/ SubmitReturns \/ RunnerDies \/ ShadowToggles
    BY <2>1 DEF RunnerStarts, SubmitReturns, RunnerDies, ShadowToggles
  <2>2. ASSUME NEW i \in SignalId, SubmitBegins(i) PROVE CheckInv'
    BY <2>2 DEF SubmitBegins
  <2>3. CASE RequestEnds
    <3>1. request \in SignalId
      BY <2>3 DEF RequestEnds, DeadmanTypeOK
    <3>2. \A i \in SignalId : order'[i].status # "none" => order'[i].sym \in Symbol
      BY <2>3, <3>1 DEF RequestEnds, Accept, DeadmanTypeOK
    <3>. QED  BY <2>3, <3>2 DEF RequestEnds
  <2>4. CASE AccountMoves
    <3>1. PICK k \in SignalId : EntryFills(k) \/ LegFills(k) \/ CloseFills(k)
      BY <2>4 DEF AccountMoves, BrokerStep
    <3>2. \A i \in SignalId : order'[i].status = "naked" => order[i].status = "naked"
      BY <3>1 DEF EntryFills, LegFills, CloseFills, DeadmanTypeOK, OrderRecord
    <3>3. \A i \in SignalId : order'[i].status # "none" => order'[i].sym \in Symbol
      BY <3>1 DEF EntryFills, LegFills, CloseFills, DeadmanTypeOK, OrderRecord
    <3>. QED  BY <2>4, <3>2, <3>3 DEF AccountMoves, dmVars
  <2>5. CASE TimePasses \/ WatchdogStarts \/ WatchdogDies
    BY <2>5 DEF TimePasses, WatchdogStarts, WatchdogDies
  <2>6. CASE Poll
    BY <2>6 DEF Poll
  <2>7. CASE CheckFails
    BY <2>7 DEF CheckFails, Disarm
  <2>8. CASE Trip
    <3>1. \A i \in SignalId : order'[i].status # "none" => order'[i].sym \in Symbol
      BY <2>8 DEF Trip, CloseAll, DeadmanTypeOK, OrderRecord
    <3>. QED  BY <2>8, <3>1 DEF Trip, Disarm
  <2>9. CASE ListPositions
    BY <2>9 DEF ListPositions, HeldSymbols, HoldingStatus
  <2>10. CASE ListOpenOrders
    BY <2>10 DEF ListOpenOrders, Disarm
  <2>11. CASE UNCHANGED deadmanVars
    BY <2>11 DEF deadmanVars, dmVars
  <2>. QED
    BY <2>1, <2>2, <2>3, <2>4, <2>5, <2>6, <2>7, <2>8, <2>9, <2>10, <2>11 DEF DeadmanNext
<1>3. DeadmanTypeOK /\ CheckInv /\ [DeadmanNext]_deadmanVars => [Exact]_deadmanVars
  <2> SUFFICES ASSUME DeadmanTypeOK, CheckInv, DeadmanNext,
                      wd = "orders", wd' = "idle", ~failed', ~landed
               PROVE  ~Unattended
    OBVIOUS
  <2>1. ListOpenOrders
    BY DEF DeadmanNext, RunnerStarts, SubmitBegins, RequestEnds, SubmitReturns, RunnerDies,
           ShadowToggles, AccountMoves, dmVars, TimePasses, WatchdogStarts, WatchdogDies, Poll,
           CheckFails, ListPositions, Trip
  <2>2. ~found /\ OpenOrders = {}
    BY <2>1 DEF ListOpenOrders
  <2>. QED  BY <2>2 DEF CheckInv, OpenOrders, Unattended
<1>. QED  BY <1>1, <1>2, <1>3, DeadmanTypeCorrect, PTL DEF DeadmanSpec, CheckIsExact
=============================================================================
