----------------------------- MODULE DailyPlan ------------------------------
(***************************************************************************)
(* The day's plan (persistence/daily_plan.py), the form of the dashboard   *)
(* that writes it, and the path of scripts/paper_run.py from a signal to   *)
(* an order, with what the gate is told about the account on the way:      *)
(*                                                                         *)
(*   idle --Resolve--> resolved --ListPositions--> listed --Decide-->      *)
(*   approved --Submit--> idle         (a rejection goes back to idle)     *)
(*                                                                         *)
(* Everything else moves between these calls: the account fills and closes *)
(* entries, another process writes the plan, the runner dies.  What the    *)
(* account does with a submission, and its order ids, are PaperRunner's.   *)
(*                                                                         *)
(* The equity is realised: an entry ends at its stop or at its target, and *)
(* a reading of the equity marks the open ones at either end.              *)
(***************************************************************************)
EXTENDS RiskGate, Clock, Sequences, SequencesExt

CONSTANTS
    Signals,        \* signals a strategy may emit, by symbol
    Times,          \* minutes of the day at which bars arrive
    Forms,          \* what is typed into the plan's form: budget and trades
    Limits,         \* RiskLimits, as main() builds them from the settings
    Start,          \* equity of the account at the beginning
    Override,       \* account_equity_override of the settings, 0 when it is not set
    Fallback,       \* equity that stands in when the account cannot be read
    Reward,         \* a target is at most so many times as far as the stop
    FirstDay, LastDay,
    MaxEntries,     \* bound: entries sent
    MaxEdits,       \* bound: submitted forms
    MaxSyncs,       \* bound: polls of the orders that changed a row
    MaxCrashes      \* bound: restarts of the runner

ASSUME DailyPlanAssumption ==
    /\ Reward \in Nat
    /\ \A s \in Signals :
          /\ s.side \in Side /\ {s.entry, s.stop, s.target} \subseteq Nat
          /\ Distance(s.entry, s.target) <= Reward * Distance(s.entry, s.stop)
    /\ Forms \subseteq [budget : Int, trades : Int]
    /\ Limits \in [risk : Nat, loss : Nat, positions : Nat, notional : Nat, before : Nat,
                   after : Nat, spread : Nat, volume : Nat, budget : {NoCap}, trades : {NoCap}]
    /\ Start \in Nat /\ Fallback \in Nat /\ Override \in Int
    /\ FirstDay \in Nat /\ LastDay \in Nat /\ FirstDay <= LastDay
    /\ MaxEntries \in Nat /\ MaxEdits \in Nat /\ MaxSyncs \in Nat /\ MaxCrashes \in Nat

VARIABLES
    day,        \* today's date
    equity,     \* realised equity of the account
    entries,    \* the account: entries sent, oldest first
    plan,       \* daily_plans: [date -> budget_pct and max_day_trades]
    rows,       \* orders: [entry -> state, submission date, fill price]
    emitted,    \* symbols whose signal of today was emitted
    starting,   \* starting_equity of the process
    handler,    \* on_bar: where it is, and what it has read
    \* history
    opening,    \* the equity with which the day began
    peak,       \* the highest equity of the day, realised or read for an entry
    edited,     \* the plan was written since the handler read it
    crowded,    \* an entry was approved while another one was working
    doubtful,   \* starting_equity is not the equity the day began with
    edits, syncs, crashes

memory == <<emitted, starting, handler>>
account == <<equity, entries, opening, peak>>
history == <<crowded, doubtful>>
bounds == <<edits, syncs, crashes>>
vars == <<day, account, plan, rows, memory, edited, history, bounds>>

Days == FirstDay..LastDay
NoPlan == [budget |-> NoCap, trades |-> NoCap]

Symbols == {s.symbol : s \in Signals}
Working(i) == entries[i].st = "working"
Open(i) == entries[i].st = "filled"
Positions == {entries[i].symbol : i \in {j \in DOMAIN entries : Open(j)}}

TypeOK ==
    /\ day \in Days
    /\ equity \in Int /\ opening \in Int /\ peak \in Int /\ starting \in Int
    /\ entries \in Seq([symbol : Symbols, sig : Signals, shares : Nat \ {0}, day : Days,
                        st : {"working", "filled", "over", "canceled"}])
    /\ plan \in [Days -> [budget : {NoCap} \union 1..100, trades : {NoCap} \union Nat]]
    /\ Len(rows) <= Len(entries)
    /\ emitted \subseteq Symbols
    /\ handler.pc \in {"idle", "resolved", "listed", "approved"}
    /\ handler.pc # "idle" => handler.sig \in Signals
    /\ handler.pc = "approved" => handler.shares \in Nat \ {0}
    /\ {edited, crowded, doubtful} \subseteq BOOLEAN
    /\ edits \in 0..MaxEdits /\ syncs \in 0..MaxSyncs /\ crashes \in 0..MaxCrashes

Idle == [pc |-> "idle"]

Init ==
    /\ day = FirstDay
    /\ equity = Start /\ opening = Start /\ peak = Start
    /\ entries = <<>> /\ rows = <<>>
    /\ plan = [d \in Days |-> NoPlan]
    /\ emitted = {} /\ handler = Idle
    /\ starting = (IF Override # 0 THEN Override ELSE Start)
    /\ edited = FALSE /\ crowded = FALSE /\ doubtful = (starting # Start)
    /\ edits = 0 /\ syncs = 0 /\ crashes = 0

-----------------------------------------------------------------------------
(* The account.                                                            *)

AtStake(i) == entries[i].shares * Distance(entries[i].sig.entry, entries[i].sig.stop)
InReach(i) == entries[i].shares * Distance(entries[i].sig.entry, entries[i].sig.target)

Total(amount) == SumFunctionOnSet(amount, {i \in DOMAIN entries : Open(i)})

\* The account marks its open positions between their stops and their targets: the
\* extremes are enough for what the gate's comparison can tell apart.
Marks == {equity - Total([i \in DOMAIN entries |-> AtStake(i)]),
          equity + Total([i \in DOMAIN entries |-> InReach(i)])}

EntryFills(i) ==
    /\ Working(i)
    /\ entries' = [entries EXCEPT ![i].st = "filled"]
    /\ UNCHANGED <<day, equity, opening, peak, plan, rows, memory, edited, history, bounds>>

EntryEnds(i, gain) ==
    /\ Open(i)
    /\ entries' = [entries EXCEPT ![i].st = "over"]
    /\ equity' = equity + gain
    /\ peak' = IF equity' > peak THEN equity' ELSE peak
    /\ UNCHANGED <<day, opening, plan, rows, memory, edited, history, bounds>>

Stopped(i) == EntryEnds(i, -AtStake(i))
TargetHit(i) == EntryEnds(i, InReach(i))

\* Overnight everything is closed; the date moves on whether or not the runner lives
\* through it, and its starting_equity stays the one it read.
DayPasses ==
    /\ day < LastDay /\ handler = Idle
    /\ \A i \in DOMAIN entries : ~Working(i) /\ ~Open(i)
    /\ day' = day + 1
    /\ opening' = equity /\ peak' = equity
    /\ emitted' = {}
    /\ doubtful' = (starting # equity)
    /\ UNCHANGED <<equity, entries, plan, rows, starting, handler, edited, crowded, bounds>>

-----------------------------------------------------------------------------
(* The plan.                                                               *)

Mutant_Acceptable(form) ==      \* nothing bounds the budget from above
    /\ form.budget = NoCap \/ 0 < form.budget
    /\ form.trades = NoCap \/ form.trades >= 0

\* _save_daily_plan: a form that does not parse or is out of range writes nothing.
Acceptable(form) ==
    /\ form.budget = NoCap \/ (0 < form.budget /\ form.budget <= 100)
    /\ form.trades = NoCap \/ form.trades >= 0

SavePlan(form) ==
    /\ edits < MaxEdits /\ Acceptable(form)
    /\ edits' = edits + 1
    /\ plan' = [plan EXCEPT ![day] = form]
    /\ edited' = (handler # Idle)
    /\ UNCHANGED <<day, account, rows, memory, history, syncs, crashes>>

\* sync_orders: a row is inserted with its state, and gets its fill price with the
\* first change of state after that.  No statement sets submitted_at.
Unset == 0

Synced(i) ==
    LET st == IF entries[i].st = "over" THEN "filled" ELSE entries[i].st
    IN  IF i \notin DOMAIN rows
        THEN [state |-> st, submitted |-> Unset, price |-> Unset]
        ELSE IF rows[i].state # st
        THEN [rows[i] EXCEPT !.state = st, !.price = IF st = "filled" THEN entries[i].sig.entry
                                                     ELSE Unset]
        ELSE rows[i]

\* order_poll_loop shares the event loop with on_bar, which does not suspend.
SyncOrders ==
    /\ handler = Idle /\ syncs < MaxSyncs
    /\ syncs' = syncs + 1
    /\ rows' = [i \in DOMAIN entries |-> Synced(i)]
    /\ rows' # rows
    /\ UNCHANGED <<day, account, plan, memory, edited, history, edits, crashes>>

\* The rows of filled orders that were submitted from one date to another.
FilledSince(from, to) ==
    {i \in DOMAIN rows : rows[i].state = "filled" /\ rows[i].submitted \in from..to}

NotionalDeployed(d) ==
    SumFunctionOnSet([i \in DOMAIN rows |-> rows[i].price * entries[i].shares], FilledSince(d, d))

Window == 5

\* The calendar reaches back a window from the first day.
ASSUME CalendarAssumption == Cardinality({d \in 0..FirstDay : TradingDay(d)}) >= Window

DayTradesInWindow(d) == Cardinality(FilledSince(NthBusinessDayBack(d, Window), d))

Mutant_PlanOf(d) == plan[FirstDay]      \* the plan of the day the runner started on

PlanOf(d) == plan[d]

-----------------------------------------------------------------------------
(* on_bar.                                                                 *)

\* A signal arrives and resolve_today reads the plan, and the facts of the caps it
\* sets; a database error gives the signal up.
Resolve(s) ==
    /\ TradingDay(day)
    /\ handler = Idle /\ s.symbol \notin emitted /\ Len(entries) < MaxEntries
    /\ emitted' = emitted \union {s.symbol}
    /\ edited' = FALSE
    /\ LET p == PlanOf(day)
       IN  handler' \in
             {Idle, [pc |-> "resolved", sig |-> s, budget |-> p.budget, trades |-> p.trades,
                     deployed |-> IF p.budget = NoCap THEN 0 ELSE NotionalDeployed(day),
                     used |-> IF p.trades = NoCap THEN 0 ELSE DayTradesInWindow(day),
                     positions |-> {}]}
    /\ UNCHANGED <<day, account, plan, rows, starting, history, bounds>>

\* The answer holds positions, not the entries that still work.
ListPositions ==
    /\ handler.pc = "resolved"
    /\ handler' = [handler EXCEPT !.pc = "listed", !.positions = Positions]
    /\ UNCHANGED <<day, account, plan, rows, emitted, starting, edited, history, bounds>>

\* _fetch_starting_equity: the setting stands in for the account where there is one, and
\* the fallback for an account that cannot be read.
EquityReads == IF Override # 0 THEN {Override} ELSE Marks \union {Fallback}

\* The gate's decision on what has been read, with twice the equity as buying power and
\* neither a quote nor a volume.
Decide(e, t, killed) ==
    /\ handler.pc = "listed"
    /\ LET lim == [Limits EXCEPT !.budget = handler.budget, !.trades = handler.trades]
           acct == [equity |-> e, start |-> starting, power |-> 2 * e,
                    positions |-> handler.positions,
                    deployed |-> handler.deployed, trades |-> handler.used]
           market == [bid |-> 0, ask |-> 0, volume |-> NoCap, killed |-> killed]
           ok == Approves(handler.sig, acct, market, lim, t)
       IN  /\ handler' = IF ok THEN [pc |-> "approved", sig |-> handler.sig, read |-> e,
                                     shares |-> Shares(handler.sig, acct, lim)]
                         ELSE Idle
           /\ crowded' = (crowded \/ (ok /\ \E i \in DOMAIN entries :
                                        Working(i) \/ (Open(i) /\ entries[i].symbol
                                                                  \notin handler.positions)))
           /\ doubtful' = (doubtful \/ (ok /\ e \notin Marks))
           /\ peak' = IF ok /\ e > peak THEN e ELSE peak
    /\ UNCHANGED <<day, equity, entries, opening, plan, rows, emitted, starting, edited, bounds>>

\* The bracket is sent; an error of the broker gives it up.
Submit ==
    /\ handler.pc = "approved"
    /\ entries' \in {entries,
                     Append(entries, [symbol |-> handler.sig.symbol, sig |-> handler.sig,
                                      shares |-> handler.shares, day |-> day,
                                      st |-> "working"])}
    /\ handler' = Idle
    /\ UNCHANGED <<day, equity, opening, peak, plan, rows, emitted, starting, edited, history,
                   bounds>>

\* A bracket that is flattened or expires before it fills.
EntryCancelled(i) ==
    /\ Working(i)
    /\ entries' = [entries EXCEPT ![i].st = "canceled"]
    /\ UNCHANGED <<day, equity, opening, peak, plan, rows, memory, edited, history, bounds>>

\* The process ends and is started again: main() reads the equity once more.
Restart(e) ==
    /\ crashes < MaxCrashes /\ crashes' = crashes + 1
    /\ handler' = Idle /\ starting' = e
    /\ doubtful' = (doubtful \/ e # opening)
    /\ UNCHANGED <<day, account, plan, rows, emitted, edited, crowded, edits, syncs>>

-----------------------------------------------------------------------------
Next ==
    \/ \E i \in DOMAIN entries : EntryFills(i) \/ Stopped(i) \/ TargetHit(i) \/ EntryCancelled(i)
    \/ DayPasses
    \/ \E form \in Forms : SavePlan(form)
    \/ SyncOrders
    \/ \E s \in Signals : Resolve(s)
    \/ ListPositions
    \/ \E e \in EquityReads, t \in Times, killed \in BOOLEAN : Decide(e, t, killed)
    \/ Submit
    \/ \E e \in EquityReads : Restart(e)

Spec == Init /\ [][Next]_vars

-----------------------------------------------------------------------------
(* Properties.                                                             *)

\* More positions than max_concurrent_positions are held only after the gate approved an
\* entry that it could not see another one beside, because that one was still working.
CapNeedsWorking == Cardinality(Positions) > Limits.positions => crowded

\* An entry that is sent fits the plan of the day as it is at that moment, unless the plan
\* was written while the handler was between reading it and sending the order.
EntriesFitThePlan ==
    [][\A i \in DOMAIN entries' \ DOMAIN entries :
          LET e == entries'[i]
          IN  edited \/ ( /\ plan[day].trades # 0
                          /\ plan[day].budget # NoCap =>
                                100 * e.shares * e.sig.entry <= plan[day].budget * handler.read)]_vars

\* What a day can lose: the daily loss limit, the risk of the last entry that is approved,
\* and, of every other position open by then, its risk and the unrealised gain that the
\* gate may have seen it with.
WorstDay ==
    opening * Limits.loss
        + ((Reward + 1) * (Limits.positions - 1) + 1) * (Limits.risk * peak)

LossBounded ==
    crowded \/ doubtful \/ equity >= opening \/ 100 * (opening - equity) <= WorstDay

\* The window of the day-trade cap holds five business days and begins with one.
WindowExact ==
    LET first == NthBusinessDayBack(day, Window)
    IN  /\ TradingDay(first)
        /\ Cardinality({d \in first..day : TradingDay(d)}) = Window

\* daily_plan.py:96-99 and 121-125: what the plan's caps are measured against is every
\* entry of the day that has been filled and synchronised.
FactsCountEntries ==
    handler.pc = "resolved" =>
        LET known == {i \in DOMAIN rows : rows[i].state = "filled" /\ entries[i].day = day}
        IN  handler.trades # NoCap => handler.used >= Cardinality(known)
=============================================================================
