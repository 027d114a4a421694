---------------------------- MODULE PaperRunner ----------------------------
(***************************************************************************)
(* The paper-trading runner (scripts/paper_run.py): one asyncio process    *)
(* that turns bars into signals, gates them, submits bracket orders and    *)
(* flattens the account before the close.  It can be killed at any point   *)
(* and started again; Postgres and the broker survive it.                  *)
(*                                                                         *)
(* The handlers run on one event loop and on_bar has no suspension point,  *)
(* so two handlers of the process never interleave; but fills, the kill    *)
(* switch of the dashboard, the dead-man process and a crash come between  *)
(* any two database or broker calls of a handler, so on_bar is cut there:  *)
(*                                                                         *)
(*   idle --OnBar--> strategy --Evaluate--> submit --Submit--> record      *)
(*                                                                         *)
(* The clock is cut down to what the flatten logic tells apart: 0 is the   *)
(* session up to the flatten point, 1..FlattenTicks are the minutes from   *)
(* there to the close, one pass of the EOD loop each, and Closed is the    *)
(* time after the close.                                                   *)
(***************************************************************************)
EXTENDS Broker

CONSTANTS
    MaxPositions,        \* limits.max_concurrent_positions
    FlattenTicks,        \* passes of the EOD loop between flatten point and close
    MaxFlattenFailures,  \* bound: failing flatten calls in one session
    MaxCrashes,          \* bound: crashes of the runner
    Days,                \* bound: sessions the run covers
    BarsMayBeLost,       \* TRUE: storing a bar or replaying the stored ones may fail
    EarlyClose           \* TRUE: half days, the session closes at 13:00

ASSUME RunnerAssumption ==
    /\ MaxPositions \in Nat \ {0}
    /\ FlattenTicks \in Nat \ {0}
    /\ MaxFlattenFailures \in Nat
    /\ MaxFlattenFailures < FlattenTicks
    /\ MaxCrashes \in Nat
    /\ Days \in Nat \ {0}
    /\ BarsMayBeLost \in BOOLEAN
    /\ EarlyClose \in BOOLEAN

VARIABLES
    up,         \* the runner process is alive
    pc,         \* where the running on_bar handler stands
    bar,        \* symbol of the bar that handler works on
    cur,        \* signal that handler has approved
    entered,    \* strategy memory: the symbol has signalled today
    saved,      \* bars table: today's bars hold one that triggers the symbol
    signal,     \* signals table
    managed,    \* managed_positions table: symbol -> signal that opened it
    killed,     \* system_state: kill switch engaged
    leak,       \* history: submissions since the kill switch was engaged
    day,        \* the trading day
    clock,      \* 0, the minutes of the flatten window, Closed
    eodDue,     \* the EOD loop has a pass to make at this tick
    flattened,  \* local variable of eod_flatten_loop
    failures,   \* flatten calls that failed this session
    watched,    \* history: alive during the whole flatten window so far
    crashes

runnerVars == <<up, pc, bar, cur, entered, saved, signal, managed, killed, leak,
                day, clock, eodDue, flattened, failures, watched, crashes>>
vars == <<order, runnerVars>>

Closed == FlattenTicks + 1

NoRow == [sym |-> NoSymbol, day |-> 0, gate |-> "none"]

SignalRow == [sym  : Symbol \union {NoSymbol},
              day  : 0..Days,
              gate : {"none", "approved", "rejected", "stale"}]

TypeOK ==
    /\ order \in [SignalId -> OrderRecord]
    /\ up \in BOOLEAN
    /\ pc \in {"idle", "strategy", "submit", "record"}
    /\ bar \in Symbol \union {NoSymbol}
    /\ cur \in SignalId \union {NoSignal}
    /\ entered \in [Symbol -> BOOLEAN]
    /\ saved \in [Symbol -> BOOLEAN]
    /\ signal \in [SignalId -> SignalRow]
    /\ managed \in [Symbol -> SignalId \union {NoSignal}]
    /\ killed \in BOOLEAN
    /\ leak \in Nat
    /\ day \in 1..Days
    /\ clock \in 0..Closed
    /\ eodDue \in BOOLEAN
    /\ flattened \in BOOLEAN
    /\ failures \in 0..MaxFlattenFailures
    /\ watched \in BOOLEAN
    /\ crashes \in 0..MaxCrashes

\* The process starts on the morning of day 1 with empty tables.
Init ==
    /\ BrokerInit
    /\ up = TRUE
    /\ pc = "idle" /\ bar = NoSymbol /\ cur = NoSignal
    /\ entered = [s \in Symbol |-> FALSE]
    /\ saved = [s \in Symbol |-> FALSE]
    /\ signal = [i \in SignalId |-> NoRow]
    /\ managed = [s \in Symbol |-> NoSignal]
    /\ killed = FALSE /\ leak = 0
    /\ day = 1 /\ clock = 0
    /\ eodDue = FALSE /\ flattened = FALSE /\ failures = 0
    /\ watched = FALSE
    /\ crashes = 0

\* on_bar returns: nothing is in hand.
HandlerReturns == pc' = "idle" /\ bar' = NoSymbol /\ cur' = NoSignal

-----------------------------------------------------------------------------
(* The entry path: on_bar.                                                 *)

\* A strategy looks for entries at this time of the session.  The windows end
\* at 11:00 (ORB) and 14:30 (VWAP) whatever time the session closes, so on a
\* half day they outlast it.
StrategyWindow == clock = 0 \/ (EarlyClose /\ clock < Closed)

\* The gate's no_entry_after is 15:55, the flatten point of a full day.
GateWindow == clock = 0 \/ EarlyClose

Mutant_Persisted(s) == {saved}   \* the bar is not stored before the strategy sees it

\* persist_bar; its errors are caught.
Persisted(s) ==
    {[saved EXCEPT ![s] = TRUE]} \union (IF BarsMayBeLost THEN {saved} ELSE {})

\* A bar that triggers the strategy arrives and is persisted, and the handler goes on.
OnBar(s) ==
    /\ up /\ pc = "idle" /\ StrategyWindow
    /\ saved' \in Persisted(s)
    /\ pc' = "strategy" /\ bar' = s
    /\ UNCHANGED <<order, up, cur, entered, signal, managed, killed, leak, day,
                   clock, eodDue, flattened, failures, watched, crashes>>

Mutant_GatePasses(s) ==    \* the kill switch is not consulted
    /\ GateWindow
    /\ s \notin HeldSymbols
    /\ Cardinality(HeldSymbols) < MaxPositions

\* The checks of gate.evaluate that read state other actors change.
GatePasses(s) ==
    /\ ~killed
    /\ GateWindow
    /\ s \notin HeldSymbols
    /\ Cardinality(HeldSymbols) < MaxPositions

Mutant_MarkEntered == entered' = entered   \* the entry is not remembered

\* The strategy remembers the symbol's entry of the day when it signals.
MarkEntered == entered' = [entered EXCEPT ![bar] = TRUE]

\* strategy.on_bar ignores the bar when the symbol has already signalled.
AlreadyEntered ==
    /\ pc = "strategy" /\ entered[bar]
    /\ HandlerReturns
    /\ UNCHANGED <<order, up, entered, saved, signal, managed, killed, leak,
                   day, clock, eodDue, flattened, failures, watched, crashes>>

\* The strategy signals, but the daily plan or the account cannot be read: the
\* signal is dropped, and the strategy remembers it as the day's entry.
LookupFails ==
    /\ pc = "strategy" /\ ~entered[bar]
    /\ MarkEntered /\ HandlerReturns
    /\ UNCHANGED <<order, up, saved, signal, managed, killed, leak, day,
                   clock, eodDue, flattened, failures, watched, crashes>>

Mutant_NewId(i) == TRUE    \* an id is used for more than one signal

\* The id of a new signal row, a fresh uuid, becomes the order's client id.
NewId(i) == signal[i].gate = "none"

\* The strategy signals, the gate decides and the signal row is committed.  The
\* gate's other checks (sizing, loss limit, budgets) may reject any signal.
Evaluate(i) ==
    /\ pc = "strategy" /\ ~entered[bar]
    /\ NewId(i)
    /\ MarkEntered
    /\ \/ /\ GatePasses(bar)
          /\ signal' = [signal EXCEPT ![i] = [sym |-> bar, day |-> day, gate |-> "approved"]]
          /\ pc' = "submit" /\ cur' = i /\ bar' = bar
       \/ /\ signal' = [signal EXCEPT ![i] = [sym |-> bar, day |-> day, gate |-> "rejected"]]
          /\ HandlerReturns
    /\ UNCHANGED <<order, up, saved, managed, killed, leak, day, clock, eodDue,
                   flattened, failures, watched, crashes>>

\* submit_bracket.  The call may fail before the account accepts the order, or
\* raise after it did (a lost answer): either way the handler logs and returns.
Submit ==
    /\ pc = "submit"
    /\ \/ /\ Accept(cur, bar)
          /\ leak' = IF killed THEN leak + 1 ELSE leak
          /\ \/ pc' = "record" /\ UNCHANGED <<bar, cur>>
             \/ HandlerReturns
       \/ UNCHANGED <<order, leak>> /\ HandlerReturns
    /\ UNCHANGED <<up, entered, saved, signal, managed, killed, day, clock,
                   eodDue, flattened, failures, watched, crashes>>

\* managed_position.record_open replaces the symbol's row; its errors are caught.
RecordOpen ==
    /\ pc = "record"
    /\ managed' \in {managed, [managed EXCEPT ![bar] = cur]}
    /\ HandlerReturns
    /\ UNCHANGED <<order, up, entered, saved, signal, killed, leak, day, clock,
                   eodDue, flattened, failures, watched, crashes>>

-----------------------------------------------------------------------------
(* The end of the day: eod_flatten_loop and the session clock.             *)

Mutant_FlattenFails ==    \* flattened is set although the call failed
    /\ failures < MaxFlattenFailures
    /\ failures' = failures + 1
    /\ order' = order /\ flattened' = TRUE

\* flatten_now raises, on its way to the broker or in its audit record afterwards.
FlattenFails ==
    /\ failures < MaxFlattenFailures
    /\ failures' = failures + 1
    /\ order' \in {order, CloseAll(order)} /\ flattened' = flattened

\* One pass of the loop in the flatten window.  `flattened` is only set when the call
\* returns, so a failing call is tried again a minute later; once set it stays set for
\* the life of the process.
EodPass ==
    /\ up /\ pc = "idle" /\ eodDue
    /\ \/ flattened /\ UNCHANGED <<order, flattened, failures>>
       \/ /\ ~flattened
          /\ order' = CloseAll(order)
          /\ flattened' = TRUE /\ failures' = failures
       \/ ~flattened /\ FlattenFails
    /\ eodDue' = FALSE
    /\ UNCHANGED <<up, pc, bar, cur, entered, saved, signal, managed, killed,
                   leak, day, clock, watched, crashes>>

\* Time passes.  The loop's timer fires at every tick, so a live runner makes
\* its pass before the next one, and a handler is done within the minute.  The
\* market orders of a flatten fill before the close.
Tick ==
    /\ clock < Closed
    /\ clock > 0 => pc = "idle" /\ ~(up /\ eodDue)
    /\ clock' = clock + 1
    /\ eodDue' = (clock' \in 1..FlattenTicks)
    /\ watched' = (up /\ (clock = 0 \/ watched))
    /\ \/ clock' # Closed /\ order' = order
       \/ /\ clock' = Closed
          /\ \A i \in SignalId : order[i].status # "closing"
          /\ order' = ExpireDayOrders(order)
    /\ UNCHANGED <<up, pc, bar, cur, entered, saved, signal, managed, killed,
                   leak, day, flattened, failures, crashes>>

\* The next session: strategy state and the bars of the day are keyed by date.
NextDay ==
    /\ clock = Closed /\ day < Days
    /\ day' = day + 1 /\ clock' = 0
    /\ entered' = [s \in Symbol |-> FALSE]
    /\ saved' = [s \in Symbol |-> FALSE]
    /\ failures' = 0 /\ watched' = FALSE
    /\ UNCHANGED <<order, up, pc, bar, cur, signal, managed, killed, leak,
                   eodDue, flattened, crashes>>

-----------------------------------------------------------------------------
(* Crash and restart, and the other processes.                             *)

Mutant_MemoryLost ==    \* the decision in hand survives the restart
    /\ UNCHANGED <<pc, bar, cur>>
    /\ entered' = [s \in Symbol |-> FALSE]
    /\ flattened' = FALSE /\ eodDue' = FALSE

\* What the process held in memory and in its running handler.
MemoryLost ==
    /\ HandlerReturns
    /\ entered' = [s \in Symbol |-> FALSE]
    /\ flattened' = FALSE /\ eodDue' = FALSE

\* The process dies between two calls.
Crash ==
    /\ up /\ crashes < MaxCrashes
    /\ crashes' = crashes + 1
    /\ up' = FALSE /\ watched' = FALSE
    /\ MemoryLost
    /\ UNCHANGED <<order, saved, signal, managed, killed, leak, day, clock, failures>>

\* Signals that some orders row names.  Neither insert of portfolio/tracking.py
\* sets signal_id, so there are none.
SignalsWithOrderRow == {}

\* mark_stale_unsubmitted_signals: today's approved signals without an order row.
Stale(i) ==
    /\ signal[i].gate = "approved" /\ signal[i].day = day
    /\ i \notin SignalsWithOrderRow

Mutant_Replayed ==    \* only symbols with a stored bar get a state
    {[s \in {t \in Symbol : saved[t]} |-> TRUE]}

\* What replaying today's bars sets: the entered flag of every symbol a stored bar
\* triggers, or of some of them when the replay fails on the way.
Replayed ==
    IF BarsMayBeLost
        THEN {e \in [Symbol -> BOOLEAN] : \A s \in Symbol : e[s] => saved[s]}
        ELSE {saved}

\* main() up to the loops: the replay, and the unsubmitted signals become stale.
\* The errors of both are caught, and the process runs on.
Restart ==
    /\ ~up
    /\ up' = TRUE
    /\ entered' \in Replayed
    /\ \/ signal' = [i \in SignalId |->
                        IF Stale(i) THEN [signal[i] EXCEPT !.gate = "stale"] ELSE signal[i]]
       \/ signal' = signal
    /\ eodDue' = (clock \in 1..FlattenTicks)
    /\ UNCHANGED <<order, pc, bar, cur, saved, managed, killed, leak, day, clock,
                   flattened, failures, watched, crashes>>

\* Dashboard or CLI: set_kill_switch.
ToggleKillSwitch ==
    /\ killed' = ~killed
    /\ leak' = 0
    /\ UNCHANGED <<order, up, pc, bar, cur, entered, saved, signal, managed, day,
                   clock, eodDue, flattened, failures, watched, crashes>>

\* The dead-man process flattens the account of a runner whose heartbeat is stale:
\* one that is gone, or one that was blocked and is back (module Deadman).
DeadmanFlatten ==
    /\ clock < Closed
    /\ \E i \in SignalId : order[i].status \in ExposedStatus
    /\ order' = CloseAll(order)
    /\ UNCHANGED runnerVars

\* Orders fill while the market is open.
MarketMoves ==
    /\ clock < Closed
    /\ BrokerStep
    /\ UNCHANGED runnerVars

Next ==
    \/ \E s \in Symbol : OnBar(s)
    \/ AlreadyEntered
    \/ LookupFails
    \/ \E i \in SignalId : Evaluate(i)
    \/ Submit
    \/ RecordOpen
    \/ EodPass
    \/ Tick
    \/ NextDay
    \/ Crash
    \/ Restart
    \/ ToggleKillSwitch
    \/ DeadmanFlatten
    \/ MarketMoves

Spec == Init /\ [][Next]_vars

-----------------------------------------------------------------------------
(* Properties.                                                             *)

SubmittedTwice(i, j) ==
    /\ i # j
    /\ order[i].status # "none" /\ order[j].status # "none"
    /\ signal[i].sym = signal[j].sym /\ signal[i].day = signal[j].day

\* At most one entry order per symbol and day reaches the broker, whatever
\* crashes and restarts come between: the bar is stored before the strategy
\* sees it, and the restart replays the stored bars into the entered flags.
NoDoubleEntry == \A i, j \in SignalId : ~SubmittedTwice(i, j)

\* Even when bars may fail to persist, a process that never died enters a
\* symbol once a day: only a crash can lose the entered flag.
DoubleEntryNeedsCrash == crashes = 0 => NoDoubleEntry

\* Once the kill switch is engaged at most one order is still submitted: that of
\* the signal whose gate decision was already made when the switch was read.
KillSwitchLeak == killed => leak <= 1

\* When the market closes on a runner that was alive since the flatten point,
\* no entry order is working and no shares are held, even though flatten calls
\* fail and an entry may be on its way when the flatten point is reached.
FlatAtClose ==
    (clock = Closed /\ watched) =>
        \A i \in SignalId : order[i].status \notin ExposedStatus

\* An order is only ever submitted for a signal whose row says "approved": a
\* signal that a restart has relabelled stale is not resubmitted.
NeverResubmitted ==
    [][\A i \in SignalId :
          (order[i].status = "none" /\ order'[i].status # "none")
              => signal[i].gate = "approved"]_vars

\* signal_recovery.py: a signal is relabelled stale when it was approved and then
\* lost before submission, so no order of a stale signal is at the broker.
StaleMeansUnsubmitted ==
    \A i \in SignalId : signal[i].gate = "stale" => order[i].status = "none"

-----------------------------------------------------------------------------
(* The inductive strengthening the proofs use (AccountProofs).             *)

InFlight == {"strategy", "submit", "record"}

\* A handler runs only in a live process, on a symbol of the watchlist; past the
\* gate it holds the signal it approved, whose row a restart cannot have touched.
\* After the close no handler runs.
HandlerInv ==
    /\ clock = Closed => pc = "idle"
    /\ pc # "idle" => up /\ bar \in Symbol
    /\ pc \in {"submit", "record"} =>
          /\ cur \in SignalId
          /\ signal[cur].gate = "approved" /\ signal[cur].sym = bar

\* Every order at the broker has a signal row.
OrderHasRow == \A i \in SignalId : order[i].status # "none" => signal[i].gate # "none"

\* The order of the signal in hand has not been submitted.
InHandInv == OrderHasRow /\ (pc = "submit" => order[cur].status = "none")

LeakInv ==
    /\ ~killed => leak = 0
    /\ killed => leak <= 1
    /\ pc = "submit" => leak = 0

\* The bar a handler works on is stored.
BarStored == pc \in InFlight => saved[bar]

\* The signal rows of today are backed by stored bars, hence by entered flags.
RowBacked(i) ==
    signal[i].gate # "none" =>
        /\ signal[i].sym \in Symbol /\ signal[i].day <= day
        /\ signal[i].day = day =>
              saved[signal[i].sym] /\ (up => entered[signal[i].sym])

SameEntry(i, j) ==
    /\ signal[i].gate # "none" /\ signal[j].gate # "none"
    /\ signal[i].sym = signal[j].sym /\ signal[i].day = signal[j].day

OneRowPerDay == \A i, j \in SignalId : SameEntry(i, j) => i = j

EntryInv ==
    /\ OrderHasRow
    /\ ~BarsMayBeLost => BarStored /\ OneRowPerDay /\ \A i \in SignalId : RowBacked(i)

\* In a process that never died the entered flags alone back the rows of today.
MemoryInv ==
    crashes = 0 =>
        /\ up /\ OneRowPerDay
        /\ \A i \in SignalId : signal[i].gate # "none" =>
              /\ signal[i].sym \in Symbol /\ signal[i].day <= day
              /\ signal[i].day = day => entered[signal[i].sym]

\* On a full day: after a flatten nothing can be entered again, and a watched
\* window without a flatten has one failure for each pass made.
FlatInv ==
    (~EarlyClose /\ Days = 1) =>
        /\ eodDue => clock \in 1..FlattenTicks
        /\ watched => up
        /\ flattened => clock > 0 /\ pc \in {"idle", "strategy"}
        /\ flattened => \A i \in SignalId :
                            order[i].status \notin {"working", "filled", "naked"}
        /\ (watched /\ ~flattened /\ clock \in 1..FlattenTicks) =>
              (IF eodDue THEN failures + 1 >= clock ELSE failures >= clock)
        /\ clock = Closed =>
              /\ watched => flattened
              /\ \A i \in SignalId : order[i].status # "closing"

\* The inductive invariant of the runner.
RunnerInv ==
    TypeOK /\ HandlerInv /\ InHandInv /\ LeakInv /\ EntryInv /\ MemoryInv /\ FlatInv

=============================================================================
