------------------------------- MODULE Broker -------------------------------
(***************************************************************************)
(* The Alpaca paper account, as the code under src/ uses it: the part of   *)
(* the system that is external to the repository.                          *)
(*                                                                         *)
(* A bracket entry order is identified by the signal it was built from:    *)
(* client_order_id_for (execution/orders.py) is an injective function of   *)
(* the signal id.  The entry carries a take-profit and a stop-loss leg;    *)
(* one of the two legs filling ends the position.  An order goes through   *)
(*                                                                         *)
(*   none -> working -> filled  -> exited      a leg filled                *)
(*                  |         `-> closing -> exited   flattened at market  *)
(*                  |         `-> naked   -> closing  legs expired (DAY)   *)
(*                  `-> canceled                                           *)
(***************************************************************************)
EXTENDS Naturals, FiniteSets

CONSTANTS
    Symbol,     \* the symbols of the watchlist
    SignalId,   \* ids of signal rows; also the identity of the entry orders
    NoSymbol,   \* the symbol of an order that does not exist
    NoSignal    \* no signal id

ASSUME BrokerAssumption == NoSymbol \notin Symbol /\ NoSignal \notin SignalId

VARIABLE
    order       \* [SignalId -> the account's record of that entry order]

OrderStatus ==
    {"none", "working", "filled", "closing", "naked", "exited", "canceled"}

NoOrder == [sym |-> NoSymbol, status |-> "none"]

OrderRecord == [sym : Symbol \union {NoSymbol}, status : OrderStatus]

\* The account holds shares because of an order in one of these states.
HoldingStatus == {"filled", "closing", "naked"}

\* What a flatten has to get rid of: a live entry order or held shares.
ExposedStatus == {"working"} \union HoldingStatus

\* Broker.list_positions: only filled entries make a position.
HeldSymbols ==
    {s \in Symbol : \E i \in SignalId :
                       order[i].sym = s /\ order[i].status \in HoldingStatus}

\* close_all_positions(cancel_orders=True): live orders are cancelled, the legs
\* included, and every position gets a market order that closes it.
CloseAll(book) ==
    [i \in SignalId |->
        CASE book[i].status = "working"             -> [book[i] EXCEPT !.status = "canceled"]
          [] book[i].status \in {"filled", "naked"} -> [book[i] EXCEPT !.status = "closing"]
          [] OTHER                                  -> book[i]]

\* The session ends: entries and legs are DAY orders, so both expire, and
\* shares that are still held stay in the account without a stop.
ExpireDayOrders(book) ==
    [i \in SignalId |->
        CASE book[i].status = "working" -> [book[i] EXCEPT !.status = "canceled"]
          [] book[i].status = "filled"  -> [book[i] EXCEPT !.status = "naked"]
          [] OTHER                      -> book[i]]

BrokerInit == order = [i \in SignalId |-> NoOrder]

\* The account accepts the bracket of signal i.
Accept(i, s) == order' = [order EXCEPT ![i] = [sym |-> s, status |-> "working"]]

EntryFills(i) ==
    /\ order[i].status = "working"
    /\ order' = [order EXCEPT ![i].status = "filled"]

\* The take-profit or the stop-loss leg fills; Alpaca cancels the other one.
LegFills(i) ==
    /\ order[i].status = "filled"
    /\ order' = [order EXCEPT ![i].status = "exited"]

\* The market order of a flatten fills.
CloseFills(i) ==
    /\ order[i].status = "closing"
    /\ order' = [order EXCEPT ![i].status = "exited"]

BrokerStep ==
    \E i \in SignalId : EntryFills(i) \/ LegFills(i) \/ CloseFills(i)

\* All an account ever does: the specification the detailed modules are held to.
\* A client order id is accepted once.
BrokerNext ==
    \/ \E i \in SignalId, s \in Symbol : order[i].status = "none" /\ Accept(i, s)
    \/ BrokerStep
    \/ order' = CloseAll(order)
    \/ order' = ExpireDayOrders(order)

BrokerSpec == BrokerInit /\ [][BrokerNext]_order

=============================================================================
