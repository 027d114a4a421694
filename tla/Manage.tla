------------------------------- MODULE Manage -------------------------------
(***************************************************************************)
(* A position of one symbol under management, and what is booked of it:    *)
(*   - the runner's pass over its managed row on every bar                 *)
(*     (scripts/paper_run.py _manage_open_positions, portfolio/manage.py), *)
(*   - the dashboard's manual stop and close (_do_manage_action),          *)
(*   - the reconciliation that opens and closes the positions row and      *)
(*     books a round trip (portfolio/tracking.py, accounting/).            *)
(*                                                                         *)
(* The dashboard is another process: its steps come between those of a     *)
(* pass, which reads the row, has the strategy choose actions, carries     *)
(* them out one by one and writes the outcome:                             *)
(*                                                                         *)
(*   idle --Consult--> acting --Act ...--> persist --Persist--> idle       *)
(*                                                                         *)
(* How queries and updates of the reconciliation come apart is Tracking's. *)
(* A market order fills as soon as it is taken.  Prices are whole numbers. *)
(***************************************************************************)
EXTENDS Integers, Sequences, FiniteSets, SequencesExt

CONSTANTS
    Bracket,        \* entry, stop, target and shares, by side
    Menus,          \* lists of actions a strategy may return
    ManualStops,    \* stops a user types into the dashboard
    MarketPrices,   \* prices at which a market order fills
    Gaps,           \* days that may pass while the symbol is flat
    Trips,          \* bound: brackets sent
    MaxPasses,      \* bound: passes with actions
    MaxManual,      \* bound: manual controls
    LastDay         \* bound

Sides == {"long", "short"}
Price == Nat \ {0}

\* strategies/management.py: what a strategy may ask for.
Actions == [do : {"trail"}, stop : Price] \union [do : {"out", "in"}, qty : Nat] \union [do : {"close"}]

ASSUME ManageAssumption ==
    /\ Bracket \in [Sides -> [qty : Nat \ {0}, entry : Price, stop : Price, target : Price]]
    /\ Menus \subseteq Seq(Actions) \ {<<>>}
    /\ ManualStops \subseteq Int /\ MarketPrices \subseteq Price /\ Gaps \subseteq Nat
    /\ {Trips, MaxPasses, MaxManual, LastDay} \subseteq Nat

VARIABLES
    day,
    trip,       \* the bracket: side, state, shares held, and whether its legs work
    cash,       \* realised result of the account
    exits,      \* filled orders that closed shares: side of the position, price and day
    managed,    \* managed_positions row of the symbol, or NoRow
    position,   \* positions row of the symbol, or NoRow
    trades,     \* live_trades
    pass,       \* the management pass of the runner
    manual,     \* the dashboard closed the position and has not removed the row yet
    \* history
    excuses,    \* what happened that a property allows for
    sent, passes, manuals

account == <<trip, cash, exits>>
books == <<position, trades>>
bounds == <<sent, passes, manuals>>
vars == <<day, account, managed, books, pass, manual, excuses, bounds>>

NoRow == [side |-> "none"]
Shares == Bracket[trip.side].qty
Direction(side) == IF side = "long" THEN 1 ELSE -1

\* Of the bracket: its row was not written, was dropped before the entry filled, or was
\* removed by a close of an earlier one; of the pass: the stop was set by hand meanwhile.
OfTrip == {"unrecorded", "early", "race", "touched"}
\* Of the books, for good: shares left one by one, or a change went unseen.
OfBooks == {"scaled", "unseen"}

TypeOK ==
    /\ day \in 0..LastDay
    /\ trip.st \in {"none", "working", "open", "over"} /\ trip.held \in 0..Shares
    /\ (trip.held > 0) = (trip.st = "open")
    /\ trip.legs \in BOOLEAN
    /\ cash \in Int
    /\ managed # NoRow => managed.qty = Bracket[managed.side].qty /\ managed.stop > 0
    /\ position # NoRow => position.qty \in 1..Bracket[position.side].qty
    /\ \A i \in DOMAIN trades : trades[i].qty > 0 /\ trades[i].wash \in BOOLEAN
    /\ pass.pc \in {"idle", "acting", "persist"}
    /\ pass.pc # "idle" => pass.left \in 0..pass.view.qty
    /\ manual \in BOOLEAN
    /\ excuses \subseteq OfTrip \union OfBooks
    /\ sent \in 0..Trips /\ passes \in 0..MaxPasses /\ manuals \in 0..MaxManual

Idle == [pc |-> "idle"]

Init ==
    /\ day = 0
    /\ trip = [side |-> "long", st |-> "none", held |-> 0, legs |-> FALSE]
    /\ cash = 0 /\ exits = <<>>
    /\ managed = NoRow /\ position = NoRow /\ trades = <<>>
    /\ pass = Idle /\ manual = FALSE
    /\ excuses = {} /\ sent = 0 /\ passes = 0 /\ manuals = 0

-----------------------------------------------------------------------------
(* The account.                                                            *)

\* q shares leave the account at a price.
Exited(q, price) ==
    /\ trip' = IF q = trip.held THEN [trip EXCEPT !.held = 0, !.st = "over", !.legs = FALSE]
                ELSE [trip EXCEPT !.held = @ - q]
    /\ cash' = cash + Direction(trip.side) * q * (price - Bracket[trip.side].entry)
    /\ exits' = Append(exits, [side |-> trip.side, price |-> price, day |-> day])
    /\ excuses' = excuses \union (IF q < trip.held THEN {"scaled"} ELSE {})
                          \union (IF position = NoRow THEN {"unseen"} ELSE {})

EntryFills ==
    /\ trip.st = "working"
    /\ trip' = [trip EXCEPT !.st = "open", !.held = Shares, !.legs = TRUE]
    /\ excuses' = excuses \union (IF position # NoRow THEN {"unseen"} ELSE {})
    /\ UNCHANGED <<day, cash, exits, managed, books, pass, manual, bounds>>

EntryEnds ==
    /\ trip.st = "working"
    /\ trip' = [trip EXCEPT !.st = "over"]
    /\ UNCHANGED <<day, cash, exits, managed, books, pass, manual, excuses, bounds>>

\* The legs keep the prices they were sent with.
LegFills ==
    /\ trip.st = "open" /\ trip.legs
    /\ \E price \in {Bracket[trip.side].stop, Bracket[trip.side].target} : Exited(trip.held, price)
    /\ UNCHANGED <<day, managed, books, pass, manual, bounds>>

\* close_position: an error when less is held; a market order otherwise.
Taken(q) == 0 < q /\ q <= trip.held /\ \E price \in MarketPrices : Exited(q, price)
Refused == UNCHANGED <<account, excuses>>

DaysPass(n) ==
    /\ trip.st = "over" /\ pass = Idle /\ ~manual
    /\ day + n <= LastDay /\ day' = day + n
    /\ UNCHANGED <<account, managed, books, pass, manual, excuses, bounds>>

-----------------------------------------------------------------------------
(* The runner.                                                             *)

\* on_bar sends a bracket, and record_open replaces whatever row the symbol has; an error
\* keeps it from that.
Enter(side) ==
    /\ pass = Idle /\ trip.st \in {"none", "over"}
    /\ sent < Trips /\ sent' = sent + 1
    /\ trip' = [side |-> side, st |-> "working", held |-> 0, legs |-> FALSE]
    /\ \/ /\ managed' = [side |-> side, qty |-> Bracket[side].qty, stop |-> Bracket[side].stop]
          /\ excuses' = excuses \intersect OfBooks
       \/ /\ managed' = managed
          /\ excuses' = (excuses \intersect OfBooks) \union {"unrecorded"}
    /\ UNCHANGED <<day, cash, exits, books, pass, manual, passes, manuals>>

Closing == [do |-> "close"]

\* list_open_for_strategy and manage: a ClosePosition makes the other actions moot.
Consult(menu) ==
    /\ pass = Idle /\ managed # NoRow
    /\ passes < MaxPasses /\ passes' = passes + 1
    /\ pass' = [pc |-> "acting", view |-> managed, left |-> managed.qty, stop |-> 0,
                full |-> FALSE,
                todo |-> IF \E i \in DOMAIN menu : menu[i] = Closing
                         THEN <<Closing>> ELSE menu]
    /\ excuses' = excuses \ {"touched"}
    /\ UNCHANGED <<day, account, managed, books, manual, sent, manuals>>

Mutant_Tightens(side, current, new) == new > current    \* shorts are forgotten

\* tightens_stop.
Tightens(side, current, new) == IF side = "long" THEN new > current ELSE new < current

\* The pass after an action: what it leaves to do, and what is found.
After(found) ==
    [found EXCEPT !.todo = Tail(@), !.pc = IF Len(found.todo) = 1 THEN "persist" ELSE @]

Acting(do) == pass.pc = "acting" /\ Head(pass.todo).do = do

\* A trail is judged by the stop that was read, not by an earlier trail of the pass.
Trail ==
    /\ Acting("trail")
    /\ LET new == Head(pass.todo).stop
       IN  pass' = After(IF Tightens(pass.view.side, pass.view.stop, new)
                         THEN [pass EXCEPT !.stop = new] ELSE pass)
    /\ UNCHANGED <<day, account, managed, books, manual, excuses, bounds>>

\* A call that raises, before or after it took effect, ends the pass without an outcome.
Close(q, found) ==
    /\ \/ Taken(q) /\ pass' \in {After(found), Idle}
       \/ Refused /\ pass' = Idle
    /\ UNCHANGED <<day, managed, books, manual, bounds>>

Part(asked) == IF asked < pass.left THEN asked ELSE pass.left

\* The shares are clamped by those of the row, which a scale-out leaves as they were.
ScaleOut ==
    /\ Acting("out")
    /\ LET q == Part(Head(pass.todo).qty)
       IN  IF q = 0
           THEN pass' = After(pass) /\ UNCHANGED <<day, account, managed, books, manual, excuses, bounds>>
           ELSE Close(q, [pass EXCEPT !.left = @ - q, !.full = (pass.left = q)])

\* Without a quantity the whole position goes; there is none while the entry works.
ClosePosition ==
    /\ Acting("close")
    /\ Close(trip.held, [pass EXCEPT !.left = 0, !.full = TRUE])

\* New exposure is not applied.
ScaleIn ==
    /\ Acting("in") /\ pass' = After(pass)
    /\ UNCHANGED <<day, account, managed, books, manual, excuses, bounds>>

Mutant_Outcome ==     \* any outcome removes the row
    IF pass.full \/ pass.stop # 0 THEN NoRow ELSE managed

\* What the outcome makes of the row there is by now.
Outcome ==
    IF pass.full THEN NoRow
    ELSE IF pass.stop # 0 /\ managed # NoRow THEN [managed EXCEPT !.stop = pass.stop]
    ELSE managed

Persist ==
    /\ pass.pc = "persist"
    /\ managed' \in {managed, Outcome}
    /\ pass' = Idle
    /\ UNCHANGED <<day, account, books, manual, excuses, bounds>>

-----------------------------------------------------------------------------
(* The dashboard.                                                          *)

Manual ==
    /\ manuals < MaxManual /\ manuals' = manuals + 1
    /\ UNCHANGED <<day, books, sent, passes>>

Mutant_Acceptable(p) == TRUE

Acceptable(p) == p > 0

\* A stop is written to the row, whatever it was.
SetStop(p) ==
    /\ Manual /\ Acceptable(p) /\ managed # NoRow
    /\ managed' = [managed EXCEPT !.stop = p]
    /\ excuses' = excuses \union {"touched"}
    /\ UNCHANGED <<account, pass, manual>>

ManualClose ==
    /\ Manual /\ ~manual
    /\ Taken(trip.held) /\ manual' \in BOOLEAN
    /\ UNCHANGED <<managed, pass>>

\* The row of the symbol is removed, whichever bracket wrote it.
ManualRemove ==
    /\ manual /\ manual' = FALSE
    /\ managed' = NoRow
    /\ excuses' = excuses \union {"race"}
    /\ UNCHANGED <<day, account, books, pass, bounds>>

\* One order is cancelled by its id: the entry, or a leg and the other one with it.
ManualCancel ==
    /\ Manual /\ (trip.st = "working" \/ trip.legs)
    /\ trip' = [trip EXCEPT !.st = IF @ = "working" THEN "over" ELSE @, !.legs = FALSE]
    /\ UNCHANGED <<cash, exits, managed, pass, manual, excuses>>

-----------------------------------------------------------------------------
(* Reconciliation.                                                         *)

WashWindow == 30

\* Entries within 30 days of a sale, before or after it.
Near(sale, opened) == sale - opened <= WashWindow /\ opened - sale <= WashWindow

\* is_wash_sale over wash_check_entries: a loss, and another trade that was recorded
\* already was opened within the window.
Wash(net, sale) == net < 0 /\ \E i \in DOMAIN trades : Near(sale, trades[i].opened)

Mutant_NetPnl(row, price) ==      \* the direction is forgotten
    row.qty * (price - row.entry)

\* compute_round_trip: the result of a row's shares, without fees.
NetPnl(row, price) == Direction(row.side) * row.qty * (price - row.entry)

\* pick_exit_order: the latest fill against the position since the row was opened.
ExitsSince(row) == {i \in row.seen + 1 .. Len(exits) : exits[i].side = row.side}
PickExit(row) == exits[Max(ExitsSince(row))]

Mutant_Booked(row) ==             \* dated when it is booked, not when it was sold
    LET net == NetPnl(row, PickExit(row).price)
    IN  [side |-> row.side, qty |-> row.qty, opened |-> row.opened,
         closed |-> PickExit(row).day, net |-> net, wash |-> Wash(net, day)]

\* The exit's fill is the time of the sale; the entry's is that of the row.
Booked(row) ==
    LET exit == PickExit(row)
        net == NetPnl(row, exit.price)
    IN  [side |-> row.side, qty |-> row.qty, opened |-> row.opened, closed |-> exit.day,
         net |-> net, wash |-> Wash(net, exit.day)]

\* A new position takes the stop of the managed row.
PositionOpened ==
    /\ trip.held > 0 /\ position = NoRow
    /\ position' = [side |-> trip.side, qty |-> trip.held, entry |-> Bracket[trip.side].entry,
                    stop |-> IF managed = NoRow THEN 0 ELSE managed.stop,
                    opened |-> day, seen |-> Len(exits)]
    /\ UNCHANGED <<trades, managed, excuses>>

\* A quantity that differs takes the entry price with it; the side is its sign.
PositionChanged ==
    /\ trip.held > 0 /\ position # NoRow
    /\ position' = IF position.qty = trip.held /\ position.side = trip.side THEN position
                   ELSE [position EXCEPT !.qty = trip.held, !.side = trip.side,
                                         !.entry = Bracket[trip.side].entry]
    /\ position' # position
    /\ UNCHANGED <<trades, managed, excuses>>

Early == IF trip.st = "working" THEN {"early"} ELSE {}

\* The row goes, and its round trip is booked if an exit is found and nothing fails.
PositionClosed ==
    /\ trip.held = 0 /\ position # NoRow
    /\ position' = NoRow
    /\ managed' = NoRow
    /\ \/ /\ ExitsSince(position) # {}
          /\ trades' = Append(trades, Booked(position)) /\ excuses' = excuses \union Early
       \/ /\ trades' = trades /\ excuses' = excuses \union Early \union {"unseen"}

\* The managed row of a symbol that is not held is dropped, even while its entry works.
ManagedDropped ==
    /\ trip.held = 0 /\ position = NoRow /\ managed # NoRow
    /\ managed' = NoRow
    /\ excuses' = excuses \union Early
    /\ UNCHANGED books

Reconcile ==
    /\ pass = Idle
    /\ PositionOpened \/ PositionChanged \/ PositionClosed \/ ManagedDropped
    /\ UNCHANGED <<day, account, pass, manual, bounds>>

-----------------------------------------------------------------------------
Next ==
    \/ EntryFills \/ EntryEnds \/ LegFills
    \/ \E n \in Gaps : DaysPass(n)
    \/ \E side \in DOMAIN Bracket : Enter(side)
    \/ \E menu \in Menus : Consult(menu)
    \/ Trail \/ ScaleOut \/ ClosePosition \/ ScaleIn \/ Persist
    \/ \E p \in ManualStops : SetStop(p)
    \/ ManualClose \/ ManualRemove \/ ManualCancel
    \/ Reconcile

Spec == Init /\ [][Next]_vars

-----------------------------------------------------------------------------
(* Properties.                                                             *)

\* A pass never loosens the stop of the row it changes, long or short and however many
\* trails it holds, unless the dashboard set the stop after the pass read it.
PassTightens ==
    [][pass # Idle /\ pass' = Idle /\ managed # NoRow /\ managed' # NoRow
        => Direction(managed.side) * (managed'.stop - managed.stop) >= 0
           \/ "touched" \in excuses]_vars

\* Shares of a bracket are held without a managed row only when the row was never written,
\* was dropped before the entry filled, or fell to a close of the dashboard.
HeldIsManaged ==
    trip.held > 0 /\ managed = NoRow => excuses \intersect {"unrecorded", "early", "race"} # {}

SumOf(ts) == SumFunctionOnSet([i \in DOMAIN ts |-> ts[i].net], DOMAIN ts)

\* Once reconciled, the booked round trips add up to the cash the account made, unless
\* shares left one by one or the reconciliation missed a change.
TradesAddUp ==
    trip.held = 0 /\ position = NoRow /\ excuses \intersect OfBooks = {} => SumOf(trades) = cash

\* The wash-sale mark, as far back as it looks: a trade carries it just if it is a loss and
\* another trade was opened within 30 days of its sale and either before that sale or, on
\* the day of the sale, booked before it.  However late a sale is booked, and whatever is
\* entered in between, no earlier entry is overlooked and none outside the window counts.
EarlierEntry(i) ==
    \E j \in DOMAIN trades \ {i} :
        /\ Near(trades[i].closed, trades[j].opened)
        /\ j < i \/ trades[j].opened < trades[i].closed
WashSales == \A i \in DOMAIN trades : trades[i].wash = (trades[i].net < 0 /\ EarlierEntry(i))

\* models.py:239-240: "a realized loss followed by a re-entry in the same symbol within 30
\* days" is flagged.  It is not: the mark is made once, before the re-entry is recorded.
ReentryIsFlagged ==
    \A i, j \in DOMAIN trades :
        /\ i < j /\ trades[i].net < 0
        /\ trades[j].opened \in trades[i].closed .. trades[i].closed + WashWindow
        => trades[i].wash

\* strategies/management.py:13: the stop of the managed row is the stop the account holds.
StopIsLive ==
    trip.st = "open" /\ trip.legs /\ managed # NoRow /\ pass = Idle
        => managed.stop = Bracket[trip.side].stop
=============================================================================
