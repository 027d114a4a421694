----------------------------- MODULE MCSession ------------------------------
(* Session on small instances: an opening range of two minutes, 570 and    *)
(* 571, and one bar before it; prices near 100 cents; one symbol trades   *)
(* today, and another of the static list on a day before.                 *)
EXTENDS Session, TLC

Shape(h, l, c, v) == [high |-> h, low |-> l, close |-> c, vol |-> v]
Even == Shape(100, 100, 100, 1)
Up   == Shape(104, 100, 104, 2)
Down == Shape(100, 96, 96, 1)
Wide == Shape(110, 90, 100, 1)
MCShapes == {Even, Up}

Past(x, d, shapes) ==
    [i \in DOMAIN shapes |-> [symbol |-> x, day |-> d, ts |-> 569 + i, high |-> shapes[i].high,
        low |-> shapes[i].low, close |-> shapes[i].close, vol |-> shapes[i].vol]]

\* Wednesday 16 is a holiday; the runs go back to the days before it.
MCToday == 17
MCHolidays == {16}
MCArchive ==
    14 :> Past("b", 14, <<Even, Even, Even, Up, Wide>>)
    @@ 15 :> Past("a", 15, <<Even, Even, Down, Even, Up>>)

MCLimits ==
    [risk |-> 1, loss |-> 2, positions |-> 1, notional |-> 50, before |-> 571, after |-> 955,
     spread |-> 20, volume |-> 1000, budget |-> NoCap, trades |-> NoCap]
MCCosts == {[bps |-> 100, share |-> 0, floor |-> 1, sec |-> 1, taf |-> 0]}
=============================================================================
