------------------------------ MODULE Tracking ------------------------------
(***************************************************************************)
(* The runner's books of one symbol (portfolio/tracking.py): the orders,   *)
(* positions, managed_positions and live_trades tables, and the two loops  *)
(* of scripts/paper_run.py that bring them in line with the account.       *)
(* Rows of different symbols never meet, so one symbol is enough.          *)
(*                                                                         *)
(* Each loop reads the account and then writes the database; the account   *)
(* moves in between.  The loops share one event loop and never suspend, so *)
(* they do not interleave with each other:                                 *)
(*                                                                         *)
(*   idle --SyncFetch--> sync --SyncApply--> idle                          *)
(*   idle --ReconcileFetch--> reconcile --ReconcileApply--> trade          *)
(*        --RecordTrade--> idle                                            *)
(*                                                                         *)
(* A trip is one bracket: its entry, the leg that may end it, and the      *)
(* market order that closes it when it is flattened.  Time counts fills    *)
(* and opened rows.                                                        *)
(***************************************************************************)
EXTENDS Naturals, Sequences, FiniteSets

CONSTANTS
    Trips,          \* bound: brackets of the symbol, one after the other
    MaxTime,        \* bound: fills and opened position rows
    MaxCrashes,     \* bound: crashes of the runner
    LegsListed      \* how the account shows a leg: TRUE, without a client order
                    \* id and listed by its parent, as _record_legs expects;
                    \* FALSE, as an order with an id of its own

ASSUME TrackingAssumption ==
    /\ Trips \in Nat \ {0} /\ MaxTime \in Nat /\ MaxCrashes \in Nat
    /\ LegsListed \in BOOLEAN

VARIABLES
    book,       \* the account: [Order -> state and fill time]
    seen,       \* orders the broker lists as sent since session_start_iso
    now,        \* time
    up,         \* the runner process is alive
    loop,       \* the loop that is between two of its calls
    orders,     \* orders table: state and filled_at
    position,   \* positions table: when the row was opened, 0 without a row
    managed,    \* managed_positions table: the trip that wrote the row, or 0
    trades,     \* live_trades table
    snap,       \* answer of the order query (sync)
    held,       \* answer of the position query (reconcile)
    closed,     \* _CloseFacts: opened_at of the row just deleted
    crashes

acctVars == <<book, seen, now>>
loopVars == <<loop, snap, held, closed>>
vars == <<acctVars, loopVars, up, orders, position, managed, trades, crashes>>

Trip == 1..Trips
Kind == {"entry", "leg", "close"}
Order == Trip \X Kind
Exits == {o \in Order : o[2] # "entry"}     \* the opposite broker side

None == [st |-> "none", at |-> 0]
State == {"none", "open", "filled", "canceled"}
Record == [st : State, at : 0..MaxTime]

TypeOK ==
    /\ book \in [Order -> Record]
    /\ seen \in SUBSET Order
    /\ now \in 0..MaxTime
    /\ up \in BOOLEAN
    /\ loop \in {"idle", "sync", "reconcile", "trade"}
    /\ orders \in [Order -> Record]
    /\ position \in 0..MaxTime
    /\ managed \in 0..Trips
    /\ trades \in Seq([opened : 1..MaxTime, exit : Exits])
    /\ snap \in [Order -> Record]
    /\ held \in BOOLEAN
    /\ closed \in 0..MaxTime
    /\ crashes \in 0..MaxCrashes

NoSnap == [o \in Order |-> None]

Init ==
    /\ book = NoSnap /\ seen = {} /\ now = 0
    /\ up = TRUE /\ loop = "idle"
    /\ orders = NoSnap /\ position = 0 /\ managed = 0 /\ trades = <<>>
    /\ snap = NoSnap /\ held = FALSE /\ closed = 0
    /\ crashes = 0

-----------------------------------------------------------------------------
(* The account.                                                            *)

Is(o, st) == book[o].st = st

Exited(k) == \E o \in Exits : o[1] = k /\ Is(o, "filled")
Open(k) == Is(<<k, "entry">>, "filled") /\ ~Exited(k)
Over(k) == Is(<<k, "entry">>, "canceled") \/ Exited(k)

Held == \E k \in Trip : Open(k)

Fill(o) ==
    /\ now < MaxTime /\ now' = now + 1
    /\ Is(o, "open")
    /\ book' = [book EXCEPT ![o] = [st |-> "filled", at |-> now + 1]]
    /\ UNCHANGED <<seen, loopVars, up, orders, position, managed, trades, crashes>>

EntryFills(k) == Fill(<<k, "entry">>)
LegFills(k) == Is(<<k, "entry">>, "filled") /\ Fill(<<k, "leg">>)
CloseFills(k) == Fill(<<k, "close">>)

Cancelled(o, st) == IF Is(o, "open") THEN [book[o] EXCEPT !.st = st] ELSE book[o]

\* close_all_positions and close_position: the entry and the leg are cancelled, and
\* a market order closes what is held.  The EOD flatten and the dead-man leave the
\* managed row alone; the dashboard and a managing strategy remove it.
Flatten(k) ==
    /\ Is(<<k, "entry">>, "open") \/ Open(k)
    /\ ~Is(<<k, "close">>, "open")
    /\ book' = [o \in Order |->
                  IF o[1] # k THEN book[o]
                  ELSE IF o[2] = "close" /\ Open(k) THEN [st |-> "open", at |-> 0]
                  ELSE Cancelled(o, "canceled")]
    /\ seen' = IF up THEN seen \union {<<k, "close">>} ELSE seen
    /\ managed' \in {managed, 0}
    /\ UNCHANGED <<now, loopVars, up, orders, position, trades, crashes>>

\* The session ends: the DAY orders expire.
DayEnds ==
    /\ \E o \in Order : o[2] # "close" /\ Is(o, "open")
    /\ \A k \in Trip : ~Is(<<k, "close">>, "open")
    /\ book' = [o \in Order |-> Cancelled(o, "canceled")]
    /\ UNCHANGED <<seen, now, loopVars, up, orders, position, managed, trades, crashes>>

-----------------------------------------------------------------------------
(* The runner.                                                             *)

Idle == up /\ loop = "idle"

Mutant_Enter(k) ==    \* a cancelled entry is sent again under its client order id
    /\ Idle
    /\ book[<<k, "entry">>].st \in {"none", "canceled"} /\ \A j \in 1..(k - 1) : Over(j)
    /\ book' = [book EXCEPT ![<<k, "entry">>].st = "open", ![<<k, "leg">>].st = "open"]
    /\ seen' = seen \union {<<k, "entry">>, <<k, "leg">>}
    /\ managed' \in {managed, k}
    /\ UNCHANGED <<now, loopVars, up, orders, position, trades, crashes>>

\* on_bar: the bracket is submitted, then record_open replaces the managed row; an
\* error, or a crash, may keep it from being written.
Enter(k) ==
    /\ Idle
    /\ Is(<<k, "entry">>, "none") /\ \A j \in 1..(k - 1) : Over(j)
    /\ book' = [book EXCEPT ![<<k, "entry">>].st = "open", ![<<k, "leg">>].st = "open"]
    /\ seen' = seen \union {<<k, "entry">>, <<k, "leg">>}
    /\ managed' \in {managed, k}
    /\ UNCHANGED <<now, loopVars, up, orders, position, trades, crashes>>

\* order_poll_loop, sync_orders: the query for the orders since session_start_iso.
SyncFetch ==
    /\ Idle
    /\ loop' = "sync"
    /\ snap' = [o \in Order |-> IF o \in seen THEN book[o] ELSE None]
    /\ UNCHANGED <<acctVars, up, orders, position, managed, trades, held, closed, crashes>>

\* Orders that are rows of their own: those with a client order id.
Own == {o \in Order : snap[o].st # "none" /\ (LegsListed => o[2] # "leg")}

\* Legs that _record_legs writes: named by their parent and not written before.
NewLegs ==
    {o \in Order : /\ LegsListed /\ o[2] = "leg"
                   /\ snap[o].st # "none" /\ orders[o].st = "none"}

\* client_order_id is String(64).  Ours is "trident-" and a uuid; a leg gets its
\* parent's, "::leg::" and the broker's uuid.
OwnIdLength == 8 + 36
LegIdLength == OwnIdLength + 7 + 36
IdWidth == 64

\* A new row takes the state of the snapshot only; the fill comes with the first
\* change of state that is seen afterwards.
Mutant_Updated(o) ==    \* the fill is dated when it is seen
    IF orders[o].st = "none" THEN [st |-> snap[o].st, at |-> 0]
    ELSE IF orders[o].st # snap[o].st
         THEN [st |-> snap[o].st, at |-> IF snap[o].st = "filled" THEN now ELSE 0]
    ELSE orders[o]

Updated(o) ==
    IF orders[o].st = "none" THEN [st |-> snap[o].st, at |-> 0]
    ELSE IF orders[o].st # snap[o].st THEN snap[o]
    ELSE orders[o]

\* The transaction of sync_orders.  A row that does not fit raises and takes the
\* whole batch with it; the loop catches the error.
SyncApply ==
    /\ up /\ loop = "sync"
    /\ loop' = "idle" /\ snap' = NoSnap
    /\ orders' = IF NewLegs # {} /\ LegIdLength > IdWidth THEN orders
                 ELSE [o \in Order |-> CASE o \in Own     -> Updated(o)
                                         [] o \in NewLegs -> [st |-> snap[o].st, at |-> 0]
                                         [] OTHER         -> orders[o]]
    /\ UNCHANGED <<acctVars, up, position, managed, trades, held, closed, crashes>>

\* reconcile_loop, reconcile_positions: the query for the positions.
ReconcileFetch ==
    /\ Idle
    /\ loop' = "reconcile" /\ held' = Held
    /\ UNCHANGED <<acctVars, up, orders, position, managed, trades, snap, closed, crashes>>

Mutant_ManagedKept == managed   \* the managed row of a closed position is left behind

\* managed_symbols_to_drop: the managed row whose symbol is not in the snapshot goes.
ManagedKept == IF held THEN managed ELSE 0

\* The transaction of reconcile_positions: the positions row follows the snapshot,
\* and a managed row whose symbol is not in it is dropped.
ReconcileApply ==
    /\ up /\ loop = "reconcile"
    /\ \/ /\ held /\ position = 0 /\ now < MaxTime
          /\ now' = now + 1 /\ position' = now + 1
          /\ loop' = "idle" /\ closed' = closed
       \/ /\ ~held /\ position # 0
          /\ closed' = position /\ position' = 0
          /\ loop' = "trade" /\ now' = now
       \/ /\ held = (position # 0)
          /\ loop' = "idle" /\ UNCHANGED <<now, position, closed>>
    /\ managed' = ManagedKept
    /\ held' = FALSE
    /\ UNCHANGED <<book, seen, up, orders, trades, snap, crashes>>

Mutant_AnySide(opened) ==    \* orders of the same side are eligible
    {o \in Order : /\ orders[o].st = "filled" /\ orders[o].at # 0
                   /\ orders[o].at >= opened}

Mutant_Candidates(opened) ==    \* fills before the position opened are eligible
    {o \in Exits : orders[o].st = "filled" /\ orders[o].at # 0}

\* The rows pick_exit_order may choose from: exits with a fill since `opened`.
Candidates(opened) ==
    {o \in Exits : /\ orders[o].st = "filled" /\ orders[o].at # 0
                   /\ orders[o].at >= opened}

\* _record_live_trade_for_close: the latest fill is the exit; without one the close is
\* only audited.  The row is gone by now, so what an error loses here stays lost too.
RecordTrade ==
    /\ up /\ loop = "trade"
    /\ loop' = "idle" /\ closed' = 0
    /\ \/ \E o \in Candidates(closed) :
             /\ \A p \in Candidates(closed) : orders[p].at <= orders[o].at
             /\ trades' = Append(trades, [opened |-> closed, exit |-> o])
       \/ trades' = trades
    /\ UNCHANGED <<acctVars, up, orders, position, managed, snap, held, crashes>>

\* The process dies between two calls.
Crash ==
    /\ up /\ crashes < MaxCrashes
    /\ crashes' = crashes + 1
    /\ up' = FALSE /\ loop' = "idle" /\ snap' = NoSnap /\ held' = FALSE /\ closed' = 0
    /\ UNCHANGED <<acctVars, orders, position, managed, trades>>

\* main() takes a new session_start_iso: what was sent before is not listed any more.
Restart ==
    /\ ~up /\ up' = TRUE
    /\ seen' = {}
    /\ UNCHANGED <<book, now, loopVars, orders, position, managed, trades, crashes>>

-----------------------------------------------------------------------------
AccountStep ==
    \/ \E k \in Trip : EntryFills(k) \/ LegFills(k) \/ CloseFills(k) \/ Flatten(k)
    \/ DayEnds

Next ==
    \/ AccountStep
    \/ \E k \in Trip : Enter(k)
    \/ SyncFetch \/ SyncApply
    \/ ReconcileFetch \/ ReconcileApply \/ RecordTrade
    \/ Crash \/ Restart

\* Both loops wake up again and again whatever the other one does, and a call that was
\* made returns.  Nothing is assumed of the account, of crashes or of restarts.
Fairness ==
    /\ SF_vars(SyncFetch) /\ WF_vars(SyncApply)
    /\ SF_vars(ReconcileFetch) /\ WF_vars(ReconcileApply) /\ WF_vars(RecordTrade)

Spec == Init /\ [][Next]_vars /\ Fairness

-----------------------------------------------------------------------------
(* Properties.                                                             *)

\* The orders table never runs ahead of the account, and a fill time in it is the
\* account's: it may be missing but it is never another one.
RowsFaithful ==
    \A o \in Order :
        /\ orders[o].st = "filled" => Is(o, "filled")
        /\ orders[o].st # "none" => ~Is(o, "none")
        /\ orders[o].at # 0 => orders[o].at = book[o].at

\* One sale is the exit of one trade at most: no profit is booked twice, however
\* reconciliation, fills, crashes and re-entries interleave.
SoldOnce ==
    \A i, j \in 1..Len(trades) : trades[i].exit = trades[j].exit => i = j

\* A trade's exit belongs to a bracket that was entered before the sale, and the row it
\* closes was opened while a bracket up to that one was held.
TradeIsReal ==
    \A i \in 1..Len(trades) :
        LET t == trades[i]
        IN  /\ Is(t.exit, "filled") /\ book[t.exit].at > t.opened
            /\ \E k \in 1..t.exit[1] :
                /\ Is(<<k, "entry">>, "filled")
                /\ book[<<k, "entry">>].at < t.opened

\* The rows of the orders with a client order id agree with the listed account.
Synced ==
    \A o \in seen : (LegsListed => o[2] # "leg") => orders[o].st = book[o].st

\* A position row stands for held shares, and no managed row outlives them.
Mirrored == (position # 0) = Held /\ (managed # 0 => Held)

\* A runner that stays up brings its books in line once the account comes to rest,
\* whatever was missed while it was down.  (The account of a run comes to rest: its
\* steps are bounded.)
BooksConverge == <>[]up => <>[](Synced /\ Mirrored)

\* tracking.py: the exit of a closed position is the most recent sale since it opened,
\* and only a close without one goes unmatched.
UnmatchedHasNoSale ==
    (loop = "trade" /\ Candidates(closed) = {}) =>
        ~\E o \in Exits : Is(o, "filled") /\ book[o].at >= closed

-----------------------------------------------------------------------------
(* The account of this module is the account of module Broker.             *)

\* What a bracket looks like to Broker.
Bracket(k) ==
    [sym    |-> IF Is(<<k, "entry">>, "none") THEN "no_symbol" ELSE "symbol",
     status |-> CASE Is(<<k, "entry">>, "none")             -> "none"
                  [] Is(<<k, "entry">>, "open")             -> "working"
                  [] Is(<<k, "entry">>, "canceled")         -> "canceled"
                  [] Exited(k)                              -> "exited"
                  [] Is(<<k, "close">>, "open")             -> "closing"
                  [] Is(<<k, "entry">>, "filled") /\ Is(<<k, "leg">>, "open") -> "filled"
                  [] OTHER                                  -> "naked"]

Account == INSTANCE Broker WITH
    Symbol <- {"symbol"}, NoSymbol <- "no_symbol", SignalId <- Trip, NoSignal <- 0,
    order <- [k \in Trip |-> Bracket(k)]

\* Every step of the account here is one Broker allows: a bracket ends by its leg or by
\* the flatten but never by both, and nothing is accepted twice.
AccountIsBroker == Account!BrokerSpec

=============================================================================
