------------------------------ MODULE Deadman ------------------------------
(***************************************************************************)
(* The dead-man's switch (scripts/deadman.py): a process of its own that   *)
(* watches the heartbeat row the runner writes (persistence/state.py) and  *)
(* flattens the account when the heartbeat goes stale.                     *)
(*                                                                         *)
(* The poll handler is cut at its calls, because the runner, the account   *)
(* and the network move between them:                                      *)
(*                                                                         *)
(*   idle --Poll--> positions --ListPositions--> orders                    *)
(*        --ListOpenOrders--> trip --Trip--> idle                          *)
(*                                                                         *)
(* TimePasses is the heartbeat and poll interval (both 5 seconds).  The    *)
(* runner is reduced to what the switch depends on: it writes heartbeats,  *)
(* and it blocks its event loop, the heartbeat included, while it submits. *)
(***************************************************************************)
EXTENDS Broker

CONSTANTS
    StaleAfter,     \* STALE_THRESHOLD in ticks
    CallsMayFail    \* TRUE: broker and database calls may raise

ASSUME DeadmanAssumption == StaleAfter \in Nat \ {0} /\ CallsMayFail \in BOOLEAN

VARIABLES
    runner,     \* the paper runner: "up", "blocked" in a submission, "down"
    request,    \* the bracket order on its way to the broker
    shadow,     \* a shadow runner is up and writes the same heartbeat key
    age,        \* age of the heartbeat in ticks
    wd,         \* where the switch's process stands
    due,        \* its poll interval has elapsed
    armed,      \* local variable of its main loop
    found,      \* the check has seen a position
    reactions,  \* history: stale heartbeats acted upon since the last beat
    landed,     \* history: an order reached the account during the check
    failed      \* history: a call of the switch failed since the last beat

dmVars == <<runner, request, shadow, age, wd, due, armed, found, reactions, landed, failed>>
deadmanVars == <<order, dmVars>>

StaleAge == StaleAfter + 1  \* every age above the threshold
Never == StaleAfter + 2     \* no heartbeat row

Checking == {"positions", "orders", "trip"}

\* Only an armed switch looks at the account: a stale row left over from another day,
\* before any fresh heartbeat, leads to no check.  What a check found ends with it.
ArmedCheck ==
    /\ wd \in Checking => armed
    /\ found => wd \in {"orders", "trip"}

DeadmanTypeOK ==
    /\ order \in [SignalId -> OrderRecord]
    /\ runner \in {"up", "blocked", "down"}
    /\ request \in SignalId \union {NoSignal}
    /\ shadow \in BOOLEAN
    /\ age \in 0..Never
    /\ wd \in {"down", "idle"} \union Checking
    /\ due \in BOOLEAN /\ armed \in BOOLEAN /\ found \in BOOLEAN
    /\ ArmedCheck
    /\ reactions \in Nat
    /\ landed \in BOOLEAN /\ failed \in BOOLEAN

\* Nothing runs; the heartbeat row is missing or left over from another day, and
\* so may shares be that were not sold then.
DeadmanInit ==
    /\ order \in [SignalId -> {NoOrder} \union [sym : Symbol, status : {"naked"}]]
    /\ runner = "down" /\ request = NoSignal /\ shadow = FALSE
    /\ age \in {StaleAge, Never}
    /\ wd = "down" /\ due = FALSE /\ armed = FALSE /\ found = FALSE
    /\ reactions = 0 /\ landed = FALSE /\ failed = FALSE

-----------------------------------------------------------------------------
(* The runner, the shadow runner, the account and time.                    *)

RunnerStarts ==
    /\ runner = "down" /\ runner' = "up"
    /\ UNCHANGED <<order, request, shadow, age, wd, due, armed, found, reactions,
                   landed, failed>>

\* on_bar calls the broker from the event loop: no heartbeat until it returns.
SubmitBegins(i) ==
    /\ runner = "up" /\ request = NoSignal /\ order[i].status = "none"
    /\ runner' = "blocked" /\ request' = i
    /\ UNCHANGED <<order, shadow, age, wd, due, armed, found, reactions, landed, failed>>

\* The request reaches the account, or is lost; its sender may be gone by then.
RequestEnds ==
    /\ request # NoSignal /\ request' = NoSignal
    /\ \/ \E s \in Symbol : Accept(request, s) /\ landed' = TRUE
       \/ UNCHANGED <<order, landed>>
    /\ UNCHANGED <<runner, shadow, age, wd, due, armed, found, reactions, failed>>

SubmitReturns ==
    /\ runner = "blocked" /\ request = NoSignal
    /\ runner' = "up"
    /\ UNCHANGED <<order, request, shadow, age, wd, due, armed, found, reactions,
                   landed, failed>>

RunnerDies ==
    /\ runner # "down" /\ runner' = "down"
    /\ UNCHANGED <<order, request, shadow, age, wd, due, armed, found, reactions,
                   landed, failed>>

ShadowToggles ==
    /\ shadow' = ~shadow
    /\ UNCHANGED <<order, runner, request, age, wd, due, armed, found, reactions,
                   landed, failed>>

AccountMoves == BrokerStep /\ UNCHANGED dmVars

\* scripts/shadow_run.py runs the same heartbeat loop on the same key.
Writing == runner = "up" \/ shadow

Older == IF age < StaleAge THEN age + 1 ELSE age

\* Five seconds pass: the loops that run write the heartbeat (a failing write is
\* caught), and an idle switch has polled before the next tick.
TimePasses ==
    /\ ~(wd = "idle" /\ due)
    /\ due' = TRUE
    /\ \/ Writing /\ age' = 0 /\ reactions' = 0 /\ failed' = FALSE
       \/ (~Writing \/ CallsMayFail) /\ age' = Older /\ UNCHANGED <<reactions, failed>>
    /\ UNCHANGED <<order, runner, request, shadow, wd, armed, found, landed>>

-----------------------------------------------------------------------------
(* The switch.                                                             *)

WatchdogStarts ==
    /\ wd = "down"
    /\ wd' = "idle" /\ due' = TRUE /\ armed' = FALSE
    /\ UNCHANGED <<order, runner, request, shadow, age, found, reactions, landed, failed>>

\* Stopped, killed, or ended by an exception that nothing catches: reading the
\* heartbeat and auditing the trip are outside the try blocks of the loop.
WatchdogDies ==
    /\ wd # "down"
    /\ wd' = "down" /\ armed' = FALSE /\ found' = FALSE /\ landed' = FALSE
    /\ UNCHANGED <<order, runner, request, shadow, age, due, reactions, failed>>

Mutant_HasStopped == age = StaleAge     \* whether or not it was ever seen fresh

\* The heartbeat used to be fresh and now is not.
HasStopped == age = StaleAge /\ armed

\* One pass of the loop up to the broker calls.
Poll ==
    /\ wd = "idle" /\ due /\ due' = FALSE
    /\ \/ age = Never /\ armed' = FALSE /\ UNCHANGED <<wd, reactions>>
       \/ age < StaleAge /\ armed' = TRUE /\ UNCHANGED <<wd, reactions>>
       \/ /\ HasStopped
          /\ wd' = "positions" /\ reactions' = reactions + 1 /\ armed' = armed
       \/ age = StaleAge /\ ~HasStopped /\ UNCHANGED <<armed, wd, reactions>>
    /\ found' = FALSE /\ landed' = FALSE
    /\ UNCHANGED <<order, runner, request, shadow, age, failed>>

Mutant_Disarm == wd' = "idle" /\ found' = FALSE /\ armed' = armed   \* stays armed

\* The end of a pass that acted on a stale heartbeat, whatever came of it.
Disarm == wd' = "idle" /\ armed' = FALSE /\ found' = FALSE

\* An error of either broker read is taken for an empty account.
CheckFails ==
    /\ CallsMayFail /\ wd \in {"positions", "orders"}
    /\ Disarm /\ failed' = TRUE
    /\ UNCHANGED <<order, runner, request, shadow, age, due, reactions, landed>>

ListPositions ==
    /\ wd = "positions" /\ wd' = "orders"
    /\ found' = (HeldSymbols # {})
    /\ UNCHANGED <<order, runner, request, shadow, age, due, armed, reactions, landed, failed>>

Mutant_OpenOrders == {i \in SignalId : order[i].status = "working"}  \* legs missed

\* Open orders: working entries, the legs of filled ones, and closing orders.
OpenOrders == {i \in SignalId : order[i].status \in {"working", "filled", "closing"}}

Mutant_ListOpenOrders ==    \* positions and open orders, for positions or open orders
    /\ wd = "orders"
    /\ \/ /\ found /\ OpenOrders # {}
          /\ wd' = "trip" /\ UNCHANGED <<armed, found>>
       \/ ~(found /\ OpenOrders # {}) /\ Disarm
    /\ UNCHANGED <<order, runner, request, shadow, age, due, reactions, landed, failed>>

ListOpenOrders ==
    /\ wd = "orders"
    /\ \/ /\ found \/ OpenOrders # {}
          /\ wd' = "trip" /\ UNCHANGED <<armed, found>>
       \/ ~found /\ OpenOrders = {} /\ Disarm
    /\ UNCHANGED <<order, runner, request, shadow, age, due, reactions, landed, failed>>

\* close_all_positions; its error is caught, and the switch disarms all the same.
Trip ==
    /\ wd = "trip" /\ Disarm
    /\ \/ order' = CloseAll(order) /\ failed' = failed
       \/ CallsMayFail /\ failed' = TRUE /\ order' = order
    /\ UNCHANGED <<runner, request, shadow, age, due, reactions, landed>>

-----------------------------------------------------------------------------
DeadmanNext ==
    \/ RunnerStarts
    \/ \E i \in SignalId : SubmitBegins(i)
    \/ RequestEnds
    \/ SubmitReturns
    \/ RunnerDies
    \/ ShadowToggles
    \/ AccountMoves
    \/ TimePasses
    \/ WatchdogStarts
    \/ WatchdogDies
    \/ Poll
    \/ CheckFails
    \/ ListPositions
    \/ ListOpenOrders
    \/ Trip

\* Time passes, and the switch's process is scheduled and its calls return.
Fairness ==
    /\ WF_deadmanVars(TimePasses)
    /\ WF_deadmanVars(Poll)
    /\ WF_deadmanVars(ListPositions \/ CheckFails)
    /\ WF_deadmanVars(ListOpenOrders \/ CheckFails)
    /\ WF_deadmanVars(Trip)

DeadmanSpec == DeadmanInit /\ [][DeadmanNext]_deadmanVars /\ Fairness

-----------------------------------------------------------------------------
(* Properties.                                                             *)

\* An account a dead runner must not be left with.
Unattended == \E i \in SignalId : order[i].status \in {"working", "filled", "naked"}

\* The switch acts at most once on a heartbeat that has gone stale: it disarms
\* until it has seen a fresh one, however its broker calls end and however often
\* it is restarted.
OneReaction == reactions <= 1

\* The switch concludes that the account is empty only when it is, or when an
\* order reached the account after the check had begun: nothing escapes between
\* the read of the positions and the read of the open orders.
CheckIsExact ==
    [][(wd = "orders" /\ wd' = "idle" /\ ~failed' /\ ~landed) => ~Unattended]_deadmanVars

Danger == wd # "down" /\ armed /\ ~Writing /\ Unattended

Over == ~Unattended \/ Writing \/ wd = "down"

\* README: when the heartbeat stops for more than the threshold while there are
\* positions or orders, everything is cancelled and closed.
SilenceIsFlattened == Danger ~> Over

\* The same as far as it goes: unless a broker call of the switch fails.
SilenceIsFlattenedOrCallFailed == Danger ~> (Over \/ failed)

-----------------------------------------------------------------------------
(* The inductive strengthening the proofs use (AccountProofs).             *)

\* A fresh heartbeat has not been acted upon, nor has the one that armed the switch.
ArmedInv ==
    /\ reactions <= 1
    /\ age < StaleAge => reactions = 0
    /\ wd = "idle" /\ armed => reactions = 0

\* Past a check that saw no position, nothing is held without open legs unless an
\* order landed; every order has a symbol of the watchlist.
CheckInv ==
    /\ wd = "orders" /\ ~found /\ ~landed =>
          \A i \in SignalId : order[i].status # "naked"
    /\ \A i \in SignalId : order[i].status # "none" => order[i].sym \in Symbol

=============================================================================
