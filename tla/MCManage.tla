------------------------------ MODULE MCManage ------------------------------
(* Manage on small instances: brackets of two shares on either side.       *)
EXTENDS Manage, TLC

MCBracket == "long"  :> [qty |-> 2, entry |-> 10, stop |-> 8, target |-> 12]
          @@ "short" :> [qty |-> 2, entry |-> 10, stop |-> 12, target |-> 8]

Trailing(p) == [do |-> "trail", stop |-> p]
Out(q) == [do |-> "out", qty |-> q]
In == [do |-> "in", qty |-> 1]

MCMenus == {<<Trailing(9), Trailing(13)>>, <<Out(1), Trailing(9)>>, <<Out(1), In, Out(3)>>,
            <<In, Closing>>}
TrailMenus == {<<Trailing(9)>>}
=============================================================================
