---------------------------- MODULE MCDailyPlan -----------------------------
(* DailyPlan on small instances: signals that risk and aim for 2 a share,  *)
(* on a Monday and a Tuesday with a holiday in the week before them.       *)
EXTENDS DailyPlan, TLC

Long(x) == [symbol |-> x, side |-> "long", entry |-> 10, stop |-> 8, target |-> 12]
Short(x) == [symbol |-> x, side |-> "short", entry |-> 10, stop |-> 12, target |-> 8]

MCSignals == {Long("a"), Short("b"), Long("c")}
MCTimes == {569, 600}
Form(b, t) == [budget |-> b, trades |-> t]
MCForms == {Form(20, NoCap), Form(NoCap, 0), Form(150, 1)}
CapForms == {Form(NoCap, 1)}
MCLimits ==
    [risk |-> 5, loss |-> 2, positions |-> 1, notional |-> 50, before |-> 570, after |-> 955,
     spread |-> 20, volume |-> 1000, budget |-> NoCap, trades |-> NoCap]
MCHolidays == {8}
=============================================================================
