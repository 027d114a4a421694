---------------------------- MODULE ManageProofs ----------------------------
(***************************************************************************)
(* A managed position, for brackets of any size and price, any menus of    *)
(* actions, and any number of brackets, passes and manual controls.        *)
(*                                                                         *)
(* That a held position has its row is not inductive: the row is removed   *)
(* by a pass that believes it sold everything, on the strength of shares   *)
(* it counted down from what the row said when it was read.  The invariant *)
(* ties that count to the account: while the bracket lives and nothing     *)
(* excuses it, the row is its own, a running pass has at least as many     *)
(* shares left as are held, and it has not declared the position closed.   *)
(***************************************************************************)
EXTENDS Manage, SumTheorems, SequenceTheorems, TLAPS

-----------------------------------------------------------------------------
(* The invariant.                                                          *)

TripStates == {"none", "working", "open", "over"}
Rows == [side : Sides, qty : Nat, stop : Price]
Passes == [pc : {"acting", "persist"}, view : Rows, left : Nat, stop : Nat, full : BOOLEAN,
           todo : Seq(Actions)]

TripInv ==
    /\ trip \in [side : Sides, st : TripStates, held : Nat, legs : BOOLEAN]
    /\ trip.held <= Shares
    /\ (trip.held > 0) = (trip.st = "open")

RowInv == managed # NoRow => managed \in Rows /\ managed.qty = Bracket[managed.side].qty

\* What a pass has read is the row as it still is, unless the dashboard touched it.
PassInv ==
    pass # Idle =>
        /\ pass \in Passes
        /\ pass.left <= pass.view.qty
        /\ pass.pc = "acting" => pass.todo # <<>>
        /\ pass.stop # 0 => Tightens(pass.view.side, pass.view.stop, pass.stop)
        /\ managed # NoRow /\ "touched" \notin excuses => managed = pass.view

Excused == excuses \intersect {"unrecorded", "early", "race"} # {}
Living == trip.st \in {"working", "open"}

\* A bracket that lives has its row, and a pass knows of all its shares.
LiveInv ==
    ~Excused /\ Living =>
        /\ managed # NoRow /\ managed.side = trip.side
        /\ pass # Idle => /\ ~pass.full
                          /\ trip.held <= pass.left
                          /\ trip.st = "working" => pass.left = Shares

CountersInv ==
    /\ day \in 0..LastDay
    /\ cash \in Int
    /\ manual \in BOOLEAN
    /\ excuses \subseteq OfTrip \union OfBooks
    /\ sent \in 0..Trips /\ passes \in 0..MaxPasses /\ manuals \in 0..MaxManual

ManageInv == TripInv /\ RowInv /\ PassInv /\ LiveInv /\ CountersInv

-----------------------------------------------------------------------------
(* Lemmas.                                                                 *)

\* What is known of a bracket.
LEMMA BracketType ==
    ASSUME NEW side \in Sides
    PROVE  /\ Bracket[side].qty \in Nat \ {0}
           /\ Bracket[side].entry \in Int /\ Bracket[side].stop \in Price
           /\ Bracket[side].target \in Price
  BY ManageAssumption DEF Price

\* NoRow is no row of a side, and a pass is not Idle.
LEMMA RowsAndPasses ==
    /\ \A r : r.side \in Sides => r # NoRow
    /\ \A p \in Passes : p # Idle
  BY DEF Sides, NoRow, Passes, Idle

\* What is left of actions.
LEMMA RestOfActions ==
    ASSUME NEW todo \in Seq(Actions), todo # <<>>
    PROVE  /\ Head(todo) \in Actions
           /\ Tail(todo) \in Seq(Actions) /\ (Len(todo) # 1 => Tail(todo) # <<>>)
  <1>1. Head(todo) \in Actions /\ Tail(todo) \in Seq(Actions) /\ Len(Tail(todo)) = Len(todo) - 1
    BY HeadTailProperties
  <1>2. Len(todo) \in Nat /\ (Tail(todo) = <<>> => Len(Tail(todo)) = 0)
    BY <1>1, LenProperties, EmptySeq
  <1>. DEFINE rest == Tail(todo)
              n == Len(todo)
  <1>. HIDE DEF rest, n
  <1>3. n # 1 => rest # <<>>
    BY <1>1, <1>2 DEF rest, n
  <1>. QED  BY <1>1, <1>3 DEF rest, n

\* Products of numbers are numbers.
LEMMA Products == \A a, b, c \in Int : a * b * c \in Int
  OBVIOUS

\* A pass that has done an action keeps what it found, and its type.
LEMMA AfterKeeps ==
    ASSUME NEW found \in Passes, found.todo # <<>>
    PROVE  /\ After(found) \in Passes
           /\ After(found).view = found.view /\ After(found).left = found.left
           /\ After(found).stop = found.stop /\ After(found).full = found.full
           /\ After(found).pc = "acting" => After(found).todo # <<>>
  <1>1. found.todo \in Seq(Actions) /\ found.pc \in {"acting", "persist"}
    BY DEF Passes
  <1>2. Tail(found.todo) \in Seq(Actions) /\ (Len(found.todo) # 1 => Tail(found.todo) # <<>>)
    BY <1>1, RestOfActions
  <1>3. After(found) \in Passes
    BY <1>1, <1>2 DEF Passes, After
  <1>4. /\ After(found).view = found.view /\ After(found).left = found.left
        /\ After(found).stop = found.stop /\ After(found).full = found.full
        /\ After(found).todo = Tail(found.todo)
        /\ Len(found.todo) = 1 => After(found).pc = "persist"
    BY DEF Passes, After
  <1>. QED  BY <1>2, <1>3, <1>4

\* Shares that leave the account leave it with fewer, and end the bracket when none is left.
LEMMA ExitedKeeps ==
    ASSUME TripInv, CountersInv, NEW q \in Nat, 0 < q, q <= trip.held, NEW price \in Price,
           Exited(q, price)
    PROVE  /\ TripInv' /\ trip'.side = trip.side /\ trip'.held = trip.held - q
           /\ trip'.st \in {trip.st, "over"} /\ (q = trip.held => trip'.st = "over")
           /\ cash' \in Int
           /\ excuses \subseteq excuses' /\ excuses' \subseteq excuses \union OfBooks
  <1>1. /\ trip \in [side : Sides, st : TripStates, held : Nat, legs : BOOLEAN]
        /\ trip.held <= Shares /\ (trip.held > 0) = (trip.st = "open")
    BY DEF TripInv
  <1>2. Shares \in Nat \ {0} /\ Bracket[trip.side].entry \in Int
    BY <1>1, BracketType DEF Shares
  <1>3. /\ trip' \in [side : Sides, st : TripStates, held : Nat, legs : BOOLEAN]
        /\ trip'.side = trip.side /\ trip'.held = trip.held - q
        /\ trip'.st \in {trip.st, "over"} /\ (q = trip.held => trip'.st = "over")
        /\ q # trip.held => trip'.st = trip.st
    <2>1. CASE q = trip.held
      <3>1. trip' = [trip EXCEPT !.held = 0, !.st = "over", !.legs = FALSE]
        BY <2>1 DEF Exited
      <3>2. trip.held - q = 0
        BY <1>1, <2>1
      <3>. QED  BY <1>1, <2>1, <3>1, <3>2 DEF TripStates
    <2>2. CASE q # trip.held
      <3>1. trip' = [trip EXCEPT !.held = trip.held - q]
        BY <2>2 DEF Exited
      <3>2. trip.held - q \in Nat
        BY <1>1
      <3>. QED  BY <1>1, <2>2, <3>1, <3>2
    <2>. QED  BY <2>1, <2>2
  <1>4. Shares' = Shares
    BY <1>3 DEF Shares
  <1>5. TripInv'
    BY <1>1, <1>2, <1>3, <1>4 DEF TripInv
  <1>6. cash' \in Int
    <2>. DEFINE a == Direction(trip.side)
                b == price - Bracket[trip.side].entry
    <2>1. a \in Int /\ b \in Int /\ cash \in Int
      BY <1>2 DEF CountersInv, Direction, Price
    <2>2. cash' = cash + a * q * b
      BY DEF Exited
    <2>. HIDE DEF a, b
    <2>3. a * q * b \in Int
      BY <2>1, Products
    <2>. QED  BY <2>1, <2>2, <2>3
  <1>7. excuses \subseteq excuses' /\ excuses' \subseteq excuses \union OfBooks
    BY DEF Exited, OfBooks
  <1>. QED  BY <1>3, <1>5, <1>6, <1>7

-----------------------------------------------------------------------------
(* Steps of the account.                                                   *)

\* What the account does to a bracket: it ends, or its working entry becomes shares.
Onward ==
    /\ trip'.side = trip.side
    /\ Living' => /\ Living
                  /\ \/ trip'.held <= trip.held
                     \/ trip.st = "working" /\ trip'.held = Shares
                  /\ trip'.st = "working" => trip.st = "working"

\* While the bracket goes onward and the runner does nothing, the pass still covers it.
LEMMA AccountKeeps ==
    ASSUME ManageInv, TripInv', CountersInv', Onward, UNCHANGED <<managed, books, pass>>,
           excuses \subseteq excuses'
    PROVE  ManageInv'
  <1>1. RowInv'
    BY DEF ManageInv, RowInv, books
  <1>2. PassInv'
    BY DEF ManageInv, PassInv
  <1>3. ASSUME ~Excused', Living' PROVE LiveInv'
    <2>1. ~Excused /\ Living /\ trip'.side = trip.side /\ Shares' = Shares
      BY <1>3 DEF Excused, Onward, Shares
    <2>2. managed # NoRow /\ managed.side = trip.side
      BY <2>1 DEF ManageInv, LiveInv
    <2>3. CASE pass = Idle
      BY <2>1, <2>2, <2>3 DEF LiveInv
    <2>4. CASE pass # Idle
      <3>1. /\ ~pass.full /\ trip.held <= pass.left
            /\ trip.st = "working" => pass.left = Shares
        BY <2>1, <2>4 DEF ManageInv, LiveInv
      <3>2. trip'.held \in Nat /\ trip.held \in Nat /\ pass.left \in Nat
        BY <2>4 DEF ManageInv, TripInv, PassInv, Passes
      <3>3. trip'.held <= pass.left
        BY <1>3, <3>1, <3>2 DEF Onward
      <3>4. trip'.st = "working" => pass.left = Shares
        BY <1>3, <3>1 DEF Onward
      <3>. QED  BY <2>1, <2>2, <3>1, <3>3, <3>4 DEF LiveInv
    <2>. QED  BY <2>3, <2>4
  <1>4. LiveInv'
    BY <1>3 DEF LiveInv
  <1>. QED  BY <1>1, <1>2, <1>4 DEF ManageInv

\* An entry that fills becomes the shares of its bracket.
LEMMA FillKeeps == ManageInv /\ EntryFills => ManageInv'
  <1>. SUFFICES ASSUME ManageInv, EntryFills PROVE ManageInv'
    OBVIOUS
  <1>1. /\ trip \in [side : Sides, st : TripStates, held : Nat, legs : BOOLEAN]
        /\ trip.st = "working"
        /\ trip' = [trip EXCEPT !.st = "open", !.held = Shares, !.legs = TRUE]
    BY DEF ManageInv, TripInv, EntryFills
  <1>2. Shares \in Nat \ {0}
    BY <1>1, BracketType DEF Shares
  <1>3. /\ trip' \in [side : Sides, st : TripStates, held : Nat, legs : BOOLEAN]
        /\ trip'.side = trip.side /\ trip'.held = Shares /\ trip'.st = "open"
    BY <1>1, <1>2 DEF TripStates
  <1>4. TripInv'
    BY <1>2, <1>3 DEF TripInv, Shares
  <1>5. excuses \subseteq excuses' /\ CountersInv'
    BY DEF ManageInv, CountersInv, EntryFills, bounds, OfBooks
  <1>6. Onward
    BY <1>1, <1>3 DEF Onward, Living
  <1>. QED  BY <1>4, <1>5, <1>6, AccountKeeps DEF EntryFills

\* An entry that ends, and orders that are cancelled by hand, leave less to be held.
LEMMA CancelKeeps == ManageInv /\ (EntryEnds \/ ManualCancel) => ManageInv'
  <1>. SUFFICES ASSUME ManageInv, EntryEnds \/ ManualCancel PROVE ManageInv'
    OBVIOUS
  <1>1. trip \in [side : Sides, st : TripStates, held : Nat, legs : BOOLEAN]
    BY DEF ManageInv, TripInv
  <1>2. /\ trip' \in [side : Sides, st : TripStates, held : Nat, legs : BOOLEAN]
        /\ trip'.side = trip.side /\ trip'.held = trip.held
        /\ trip'.st = IF trip.st = "working" THEN "over" ELSE trip.st
    <2>1. CASE EntryEnds
      BY <1>1, <2>1 DEF EntryEnds, TripStates
    <2>2. CASE ManualCancel
      <3>1. trip' = [trip EXCEPT !.st = IF trip.st = "working" THEN "over" ELSE trip.st,
                                 !.legs = FALSE]
        BY <2>2 DEF ManualCancel
      <3>. QED  BY <1>1, <3>1 DEF TripStates
    <2>. QED  BY <2>1, <2>2
  <1>3. TripInv'
    BY <1>1, <1>2 DEF ManageInv, TripInv, Shares
  <1>4. Onward
    BY <1>1, <1>2 DEF Onward, Living
  <1>5. CountersInv' /\ UNCHANGED <<managed, books, pass, excuses>>
    BY ManageAssumption DEF ManageInv, CountersInv, EntryEnds, ManualCancel, Manual, bounds
  <1>. QED  BY <1>3, <1>4, <1>5, AccountKeeps

\* Shares that leave through a leg or a manual close leave nothing.
LEMMA ExitKeeps ==
    ASSUME ManageInv, NEW q \in Nat, 0 < q, q <= trip.held, NEW price \in Price,
           Exited(q, price), UNCHANGED <<managed, books, pass>>, CountersInv'
    PROVE  ManageInv'
  <1>1. /\ TripInv' /\ trip'.side = trip.side /\ trip'.held = trip.held - q
        /\ trip'.st \in {trip.st, "over"}
        /\ excuses \subseteq excuses'
    BY ExitedKeeps DEF ManageInv
  <1>2. trip.held \in Nat
    BY DEF ManageInv, TripInv
  <1>3. Onward
    BY <1>1, <1>2 DEF Onward, Living
  <1>. QED  BY <1>1, <1>3, AccountKeeps

\* A leg fills.
LEMMA LegKeeps == ManageInv /\ LegFills => ManageInv'
  <1>. SUFFICES ASSUME ManageInv, LegFills PROVE ManageInv'
    OBVIOUS
  <1>1. trip.held \in Nat /\ 0 < trip.held /\ trip.side \in Sides
    BY DEF ManageInv, TripInv, LegFills
  <1>2. PICK price \in {Bracket[trip.side].stop, Bracket[trip.side].target} :
            Exited(trip.held, price)
    BY DEF LegFills
  <1>3. price \in Price
    BY <1>1, BracketType
  <1>4. cash' \in Int /\ excuses' \subseteq excuses \union OfBooks
    BY <1>1, <1>2, <1>3, ExitedKeeps DEF ManageInv
  <1>5. CountersInv'
    BY <1>4 DEF ManageInv, CountersInv, LegFills, bounds
  <1>. QED  BY <1>1, <1>2, <1>3, <1>5, ExitKeeps DEF LegFills

\* The dashboard closes what is held.
LEMMA ManualCloseKeeps == ManageInv /\ ManualClose => ManageInv'
  <1>. SUFFICES ASSUME ManageInv, ManualClose PROVE ManageInv'
    OBVIOUS
  <1>1. trip.held \in Nat /\ 0 < trip.held
    BY DEF ManageInv, TripInv, ManualClose, Taken
  <1>2. PICK price \in MarketPrices : Exited(trip.held, price)
    BY DEF ManualClose, Taken
  <1>3. price \in Price
    BY ManageAssumption
  <1>4. cash' \in Int /\ excuses' \subseteq excuses \union OfBooks
    BY <1>1, <1>2, <1>3, ExitedKeeps DEF ManageInv
  <1>5. CountersInv' /\ UNCHANGED <<managed, books, pass>>
    BY <1>4, ManageAssumption DEF ManageInv, CountersInv, ManualClose, Manual
  <1>. QED  BY <1>1, <1>2, <1>3, <1>5, ExitKeeps

-----------------------------------------------------------------------------
(* Steps of a pass.                                                        *)

\* A pass that goes on with what it found, or ends without an outcome, keeps what is known
\* of passes.
LEMMA PassKeeps ==
    ASSUME ManageInv, pass # Idle, UNCHANGED managed, excuses \subseteq excuses',
           \/ pass' = Idle
           \/ /\ pass' \in Passes /\ pass'.view = pass.view /\ pass'.left <= pass.left
              /\ pass'.pc = "acting" => pass'.todo # <<>>
              /\ pass'.stop # 0 => Tightens(pass.view.side, pass.view.stop, pass'.stop)
    PROVE  PassInv'
  <1>1. CASE pass' = Idle
    BY <1>1 DEF PassInv
  <1>2. CASE pass' # Idle
    <2>1. /\ pass' \in Passes /\ pass'.view = pass.view /\ pass'.left <= pass.left
          /\ pass'.pc = "acting" => pass'.todo # <<>>
          /\ pass'.stop # 0 => Tightens(pass.view.side, pass.view.stop, pass'.stop)
      BY <1>2
    <2>2. /\ pass \in Passes /\ pass.left <= pass.view.qty
          /\ managed # NoRow /\ "touched" \notin excuses => managed = pass.view
      BY DEF ManageInv, PassInv
    <2>3. pass'.left \in Nat /\ pass.left \in Nat /\ pass.view.qty \in Nat
      BY <2>1, <2>2 DEF Passes, Rows
    <2>4. pass'.left <= pass'.view.qty
      BY <2>1, <2>2, <2>3
    <2>. QED  BY <2>1, <2>2, <2>4 DEF PassInv
  <1>. QED  BY <1>1, <1>2

\* What a pass is while it acts.
LEMMA ActingPass ==
    ASSUME ManageInv, NEW do, Acting(do)
    PROVE  /\ pass # Idle /\ pass \in Passes /\ pass.todo # <<>>
           /\ Head(pass.todo) \in Actions /\ Head(pass.todo).do = do
           /\ pass.stop # 0 => Tightens(pass.view.side, pass.view.stop, pass.stop)
  <1>1. pass # Idle
    BY DEF Acting, Idle
  <1>2. pass \in Passes /\ pass.todo # <<>> /\ pass.todo \in Seq(Actions)
    BY <1>1 DEF ManageInv, PassInv, Passes, Acting
  <1>. QED  BY <1>1, <1>2, RestOfActions DEF ManageInv, PassInv, Acting

\* A step of the pass that asks nothing of the broker, and finds no more than the stop.
LEMMA QuietKeeps ==
    ASSUME ManageInv, pass # Idle, pass \in Passes, pass.todo # <<>>,
           NEW found \in Passes, pass' = After(found),
           found.view = pass.view, found.left = pass.left, found.full = pass.full,
           found.todo = pass.todo,
           found.stop # 0 => Tightens(pass.view.side, pass.view.stop, found.stop),
           UNCHANGED <<day, account, managed, books, manual, excuses, bounds>>
    PROVE  ManageInv'
  <1>1. /\ pass' \in Passes /\ pass'.view = pass.view /\ pass'.left = pass.left
        /\ pass'.full = pass.full /\ pass'.stop = found.stop
        /\ pass'.pc = "acting" => pass'.todo # <<>>
    BY AfterKeeps
  <1>2. pass'.left <= pass.left
    BY <1>1 DEF Passes
  <1>3. PassInv'
    BY <1>1, <1>2, PassKeeps
  <1>4. TripInv' /\ RowInv' /\ CountersInv'
    BY DEF ManageInv, TripInv, RowInv, CountersInv, account, books, bounds, Shares
  <1>5. LiveInv'
    BY <1>1 DEF ManageInv, LiveInv, Excused, Living, Shares, account
  <1>. QED  BY <1>3, <1>4, <1>5 DEF ManageInv

\* A trail that tightens is kept, one that does not is forgotten.
LEMMA TrailKeeps == ManageInv /\ Trail => ManageInv'
  <1>. SUFFICES ASSUME ManageInv, Trail PROVE ManageInv'
    OBVIOUS
  <1>. DEFINE new == Head(pass.todo).stop
              found == IF Tightens(pass.view.side, pass.view.stop, new)
                       THEN [pass EXCEPT !.stop = new] ELSE pass
  <1>1. /\ pass # Idle /\ pass \in Passes /\ pass.todo # <<>>
        /\ Head(pass.todo) \in Actions /\ Head(pass.todo).do = "trail"
        /\ pass.stop # 0 => Tightens(pass.view.side, pass.view.stop, pass.stop)
    BY ActingPass DEF Trail
  <1>2. new \in Nat
    BY <1>1 DEF Actions, Price
  <1>3. pass' = After(found)
    BY DEF Trail
  <1>. HIDE DEF new
  <1>4. /\ found \in Passes /\ found.view = pass.view /\ found.left = pass.left
        /\ found.full = pass.full /\ found.todo = pass.todo
        /\ found.stop # 0 => Tightens(pass.view.side, pass.view.stop, found.stop)
    BY <1>1, <1>2 DEF Passes
  <1>5. UNCHANGED <<day, account, managed, books, manual, excuses, bounds>>
    BY DEF Trail
  <1>. HIDE DEF found
  <1>. QED  BY <1>1, <1>3, <1>4, <1>5, QuietKeeps

\* New exposure is passed over.
LEMMA ScaleInKeeps == ManageInv /\ ScaleIn => ManageInv'
  <1>. SUFFICES ASSUME ManageInv, ScaleIn PROVE ManageInv'
    OBVIOUS
  <1>1. /\ pass # Idle /\ pass \in Passes /\ pass.todo # <<>>
        /\ pass.stop # 0 => Tightens(pass.view.side, pass.view.stop, pass.stop)
    BY ActingPass DEF ScaleIn
  <1>. QED  BY <1>1, QuietKeeps DEF ScaleIn

\* A sale of the pass: q of the shares it has left are taken, or it ends.  It declares the
\* position closed only if everything that is held goes.
LEMMA CloseKeeps ==
    ASSUME ManageInv, pass # Idle, pass \in Passes, NEW q \in Nat, NEW found \in Passes,
           Close(q, found), found.todo # <<>>, found.view = pass.view, found.stop = pass.stop,
           found.left <= pass.left,
           ~Excused /\ trip.st = "open" => found.full = pass.full \/ q >= trip.held,
           ~Excused /\ trip.st = "open" => trip.held - q <= found.left
    PROVE  ManageInv'
  <1>1. /\ pass.stop # 0 => Tightens(pass.view.side, pass.view.stop, pass.stop)
        /\ trip.held \in Nat
    BY DEF ManageInv, PassInv, TripInv
  <1>2. RowInv'
    BY DEF ManageInv, RowInv, Close, books
  <1>3. /\ After(found) \in Passes /\ After(found).view = found.view
        /\ After(found).left = found.left /\ After(found).stop = found.stop
        /\ After(found).full = found.full
        /\ After(found).pc = "acting" => After(found).todo # <<>>
    BY AfterKeeps
  <1>4. pass' \in {After(found), Idle}
    BY DEF Close
  <1>. DEFINE after == After(found)
  <1>. HIDE DEF after
  <1>5. ASSUME excuses \subseteq excuses' PROVE PassInv'
    BY <1>1, <1>3, <1>4, <1>5, PassKeeps DEF Close
  <1>6. CASE Taken(q)
    <2>1. PICK price \in MarketPrices : Exited(q, price)
      BY <1>6 DEF Taken
    <2>2. 0 < q /\ q <= trip.held /\ price \in Price
      BY <1>6, ManageAssumption DEF Taken
    <2>3. /\ TripInv' /\ trip'.side = trip.side /\ trip'.held = trip.held - q
          /\ trip'.st \in {trip.st, "over"} /\ (q = trip.held => trip'.st = "over")
          /\ cash' \in Int
          /\ excuses \subseteq excuses' /\ excuses' \subseteq excuses \union OfBooks
      BY <2>1, <2>2, ExitedKeeps DEF ManageInv
    <2>4. CountersInv'
      BY <2>3 DEF ManageInv, CountersInv, Close, bounds
    <2>5. trip.st = "open"
      BY <1>1, <2>2 DEF ManageInv, TripInv
    <2>6. ASSUME ~Excused', Living' PROVE LiveInv'
      <3>1. ~Excused /\ trip'.st = "open" /\ q # trip.held
        BY <2>3, <2>5, <2>6 DEF Excused, Living
      <3>2. managed # NoRow /\ managed.side = trip.side /\ ~pass.full
        BY <2>5, <3>1 DEF ManageInv, LiveInv, Living
      <3>3. ~found.full /\ trip.held - q <= found.left
        BY <1>1, <2>2, <2>5, <3>1, <3>2
      <3>4. pass' # Idle => ~pass'.full /\ trip'.held <= pass'.left
        BY <1>3, <1>4, <2>3, <3>3
      <3>. QED  BY <2>3, <3>1, <3>2, <3>4 DEF LiveInv, Close
    <2>7. LiveInv'
      BY <2>6 DEF LiveInv
    <2>. QED  BY <1>2, <1>5, <2>3, <2>4, <2>7 DEF ManageInv
  <1>7. CASE Refused /\ pass' = Idle
    <2>1. TripInv' /\ CountersInv'
      BY <1>7 DEF ManageInv, TripInv, Shares, CountersInv, Close, Refused, account, bounds
    <2>2. LiveInv'
      BY <1>7 DEF ManageInv, LiveInv, Excused, Living, Refused, account, Close
    <2>. QED  BY <1>2, <1>5, <1>7, <2>1, <2>2 DEF ManageInv, Refused
  <1>. QED  BY <1>6, <1>7 DEF Close

\* A scale-out sells no more than the pass has left.
LEMMA ScaleOutKeeps == ManageInv /\ ScaleOut => ManageInv'
  <1>. SUFFICES ASSUME ManageInv, ScaleOut PROVE ManageInv'
    OBVIOUS
  <1>. DEFINE q == Part(Head(pass.todo).qty)
              found == [pass EXCEPT !.left = pass.left - q, !.full = (pass.left = q)]
  <1>1. /\ pass # Idle /\ pass \in Passes /\ pass.todo # <<>>
        /\ Head(pass.todo) \in Actions /\ Head(pass.todo).do = "out"
        /\ pass.stop # 0 => Tightens(pass.view.side, pass.view.stop, pass.stop)
    BY ActingPass DEF ScaleOut
  <1>2. Head(pass.todo).qty \in Nat /\ pass.left \in Nat
    BY <1>1 DEF Actions, Passes
  <1>3. q \in Nat /\ q <= pass.left
    BY <1>2 DEF Part
  <1>4. CASE q = 0
    <2>1. pass' = After(pass) /\ UNCHANGED <<day, account, managed, books, manual, excuses, bounds>>
      BY <1>4 DEF ScaleOut
    <2>. QED  BY <1>1, <2>1, QuietKeeps
  <1>5. CASE q # 0
    <2>1. Close(q, found)
      BY <1>5 DEF ScaleOut
    <2>. HIDE DEF q
    <2>2. pass.left - q \in Nat /\ (pass.left = q) \in BOOLEAN
      BY <1>2, <1>3
    <2>3. /\ found \in Passes /\ found.todo = pass.todo /\ found.view = pass.view
          /\ found.stop = pass.stop /\ found.left = pass.left - q
          /\ found.full = (pass.left = q)
      BY <1>1, <2>2 DEF Passes
    <2>. HIDE DEF found
    <2>4. trip.held \in Nat
      BY DEF ManageInv, TripInv
    <2>5. ~Excused /\ trip.st = "open" => ~pass.full /\ trip.held <= pass.left
      BY <1>1 DEF ManageInv, LiveInv, Living
    <2>6. ~Excused /\ trip.st = "open" => found.full = pass.full \/ q >= trip.held
      <3>1. CASE pass.left = q
        BY <2>5, <3>1
      <3>2. CASE pass.left # q
        BY <1>1, <2>3, <2>5, <3>2 DEF Passes
      <3>. QED  BY <3>1, <3>2
    <2>7. ~Excused /\ trip.st = "open" => trip.held - q <= found.left
      BY <1>2, <1>3, <2>3, <2>4, <2>5
    <2>8. found.left <= pass.left /\ found.todo # <<>>
      BY <1>1, <1>2, <1>3, <2>3
    <2>. QED  BY <1>1, <1>3, <2>1, <2>3, <2>6, <2>7, <2>8, CloseKeeps
  <1>. QED  BY <1>4, <1>5

\* A close sells what is held.
LEMMA ClosePositionKeeps == ManageInv /\ ClosePosition => ManageInv'
  <1>. SUFFICES ASSUME ManageInv, ClosePosition PROVE ManageInv'
    OBVIOUS
  <1>. DEFINE found == [pass EXCEPT !.left = 0, !.full = TRUE]
  <1>1. pass # Idle /\ pass \in Passes /\ pass.todo # <<>>
    BY ActingPass DEF ClosePosition
  <1>2. /\ found \in Passes /\ found.todo = pass.todo /\ found.view = pass.view
        /\ found.stop = pass.stop /\ found.left = 0
    BY <1>1 DEF Passes
  <1>3. Close(trip.held, found)
    BY DEF ClosePosition
  <1>. HIDE DEF found
  <1>4. trip.held \in Nat /\ pass.left \in Nat
    BY <1>1 DEF ManageInv, TripInv, Passes
  <1>5. trip.held >= trip.held /\ trip.held - trip.held <= found.left /\ found.left <= pass.left
    BY <1>2, <1>4
  <1>. QED  BY <1>1, <1>2, <1>3, <1>4, <1>5, CloseKeeps

\* The outcome removes a row only when nothing is held, and moves a stop only closer.
LEMMA PersistKeeps == ManageInv /\ Persist => ManageInv'
  <1>. SUFFICES ASSUME ManageInv, Persist PROVE ManageInv'
    OBVIOUS
  <1>1. /\ pass.pc = "persist" /\ pass # Idle /\ pass \in Passes
        /\ pass' = Idle /\ managed' \in {managed, Outcome}
        /\ UNCHANGED <<day, account, books, manual, excuses, bounds>>
    BY DEF Persist, Idle, ManageInv, PassInv
  <1>2. TripInv' /\ CountersInv' /\ PassInv'
    BY <1>1 DEF ManageInv, TripInv, Shares, CountersInv, PassInv, account, books, bounds
  <1>3. /\ managed' = managed
        \/ /\ managed' = NoRow /\ pass.full
        \/ /\ managed' = [managed EXCEPT !.stop = pass.stop]
           /\ managed # NoRow /\ pass.stop # 0
    BY <1>1 DEF Outcome
  <1>4. CASE managed' = [managed EXCEPT !.stop = pass.stop] /\ managed # NoRow /\ pass.stop # 0
    <2>1. managed \in Rows /\ managed.qty = Bracket[managed.side].qty /\ pass.stop \in Price
      BY <1>1, <1>4 DEF ManageInv, RowInv, Passes, Price
    <2>2. managed' \in Rows /\ managed'.qty = managed.qty /\ managed'.side = managed.side
      BY <1>4, <2>1 DEF Rows
    <2>3. managed' # NoRow /\ RowInv'
      BY <2>1, <2>2, RowsAndPasses DEF RowInv, Rows
    <2>4. LiveInv'
      BY <1>1, <2>2, <2>3 DEF ManageInv, LiveInv, Excused, Living, account
    <2>. QED  BY <1>2, <2>3, <2>4 DEF ManageInv
  <1>5. CASE managed' = managed
    BY <1>1, <1>2, <1>5 DEF ManageInv, RowInv, LiveInv, Excused, Living, account
  <1>6. CASE managed' = NoRow /\ pass.full
    BY <1>1, <1>2, <1>6 DEF ManageInv, RowInv, LiveInv, Excused, Living, account
  <1>. QED  BY <1>3, <1>4, <1>5, <1>6

\* A pass begins with the shares of the row it reads.
LEMMA ConsultKeeps == ASSUME ManageInv, NEW menu \in Menus, Consult(menu) PROVE ManageInv'
  <1>. DEFINE todo == IF \E i \in DOMAIN menu : menu[i] = Closing THEN <<Closing>> ELSE menu
  <1>1. /\ pass = Idle /\ managed # NoRow /\ managed \in Rows
        /\ managed.qty = Bracket[managed.side].qty
        /\ pass' = [pc |-> "acting", view |-> managed, left |-> managed.qty, stop |-> 0,
                    full |-> FALSE, todo |-> todo]
        /\ excuses' = excuses \ {"touched"}
        /\ UNCHANGED <<day, account, managed, books, manual, sent, manuals>>
    BY DEF Consult, ManageInv, RowInv
  <1>2. todo \in Seq(Actions) /\ todo # <<>>
    <2>1. menu \in Seq(Actions) /\ menu # <<>>
      BY ManageAssumption
    <2>2. Closing \in Actions
      BY DEF Closing, Actions
    <2>. QED  BY <2>1, <2>2
  <1>. HIDE DEF todo
  <1>3. managed.qty \in Nat
    BY <1>1 DEF Rows
  <1>4. /\ pass' \in Passes /\ pass'.view = managed /\ pass'.left = managed.qty
        /\ pass'.stop = 0 /\ pass'.full = FALSE /\ pass'.todo = todo
    BY <1>1, <1>2, <1>3 DEF Passes
  <1>5. PassInv'
    BY <1>1, <1>2, <1>3, <1>4 DEF PassInv
  <1>6. TripInv' /\ RowInv'
    BY <1>1 DEF ManageInv, TripInv, Shares, RowInv, account, books
  <1>7. CountersInv'
    BY <1>1, ManageAssumption DEF ManageInv, CountersInv, Consult, account
  <1>8. LiveInv'
    <2>1. Excused' = Excused
      BY <1>1 DEF Excused
    <2>2. Living /\ managed.side = trip.side => trip.held <= managed.qty /\ managed.qty = Shares
      BY <1>1 DEF ManageInv, TripInv, Shares
    <2>. QED  BY <1>1, <1>4, <2>1, <2>2 DEF ManageInv, LiveInv, Living, Shares, account
  <1>. QED  BY <1>5, <1>6, <1>7, <1>8 DEF ManageInv

-----------------------------------------------------------------------------
(* Steps of the rows.                                                      *)

\* A bracket is sent, and its row is written or an excuse is.
LEMMA EnterKeeps == ASSUME ManageInv, NEW side \in Sides, Enter(side) PROVE ManageInv'
  <1>. DEFINE row == [side |-> side, qty |-> Bracket[side].qty, stop |-> Bracket[side].stop]
  <1>1. /\ pass = Idle /\ pass' = Idle
        /\ trip' = [side |-> side, st |-> "working", held |-> 0, legs |-> FALSE]
        /\ \/ managed' = row /\ excuses' = excuses \intersect OfBooks
           \/ managed' = managed
              /\ excuses' = (excuses \intersect OfBooks) \union {"unrecorded"}
    BY Zenon DEF Enter
  <1>2. Bracket[side].qty \in Nat \ {0} /\ Bracket[side].stop \in Price
    BY BracketType
  <1>3. row \in Rows /\ row.qty = Bracket[row.side].qty /\ row.side = side /\ row # NoRow
    BY <1>2, RowsAndPasses DEF Rows
  <1>. HIDE DEF row
  <1>4. TripInv'
    BY <1>1, <1>2 DEF TripInv, TripStates, Shares
  <1>5. RowInv' /\ PassInv'
    BY <1>1, <1>3 DEF ManageInv, RowInv, PassInv
  <1>6. CountersInv'
    BY <1>1, ManageAssumption DEF ManageInv, CountersInv, Enter, books, OfBooks, OfTrip
  <1>7. LiveInv'
    BY <1>1, <1>3 DEF LiveInv, Excused, OfBooks
  <1>. QED  BY <1>4, <1>5, <1>6, <1>7 DEF ManageInv

\* A stop that is set by hand changes nothing else of the row, and is seen.
LEMMA SetStopKeeps == ASSUME ManageInv, NEW p \in ManualStops, SetStop(p) PROVE ManageInv'
  <1>1. /\ p > 0 /\ managed # NoRow /\ managed \in Rows
        /\ managed.qty = Bracket[managed.side].qty
        /\ managed' = [managed EXCEPT !.stop = p]
        /\ excuses' = excuses \union {"touched"}
        /\ UNCHANGED <<account, pass, manual>>
    BY DEF SetStop, Acceptable, ManageInv, RowInv
  <1>2. p \in Price
    BY <1>1, ManageAssumption DEF Price
  <1>3. managed' \in Rows /\ managed'.qty = managed.qty /\ managed'.side = managed.side
    BY <1>1, <1>2 DEF Rows
  <1>4. managed' # NoRow /\ RowInv'
    BY <1>1, <1>3, RowsAndPasses DEF RowInv, Rows
  <1>5. TripInv' /\ PassInv' /\ LiveInv'
    BY <1>1, <1>3, <1>4 DEF ManageInv, TripInv, Shares, PassInv, LiveInv, Excused, Living, account
  <1>6. CountersInv'
    BY <1>1, ManageAssumption DEF ManageInv, CountersInv, SetStop, Manual, books,
                                  OfTrip, account
  <1>. QED  BY <1>4, <1>5, <1>6 DEF ManageInv

\* A row that is removed by hand is excused.
LEMMA ManualRemoveKeeps == ManageInv /\ ManualRemove => ManageInv'
  <1>. SUFFICES ASSUME ManageInv, ManualRemove PROVE ManageInv'
    OBVIOUS
  <1>1. /\ managed' = NoRow /\ excuses' = excuses \union {"race"} /\ manual' = FALSE
        /\ UNCHANGED <<day, account, books, pass, bounds>>
    BY DEF ManualRemove
  <1>2. TripInv' /\ RowInv' /\ PassInv' /\ LiveInv'
    BY <1>1 DEF ManageInv, TripInv, Shares, RowInv, PassInv, LiveInv, Excused, account
  <1>3. CountersInv'
    BY <1>1 DEF ManageInv, CountersInv, OfTrip, account, books, bounds
  <1>. QED  BY <1>2, <1>3 DEF ManageInv

\* A reconciliation drops the row of what is not held; that its entry still worked is an
\* excuse.
LEMMA ReconcileKeeps == ManageInv /\ Reconcile => ManageInv'
  <1>. SUFFICES ASSUME ManageInv, Reconcile PROVE ManageInv'
    OBVIOUS
  <1>1. pass = Idle /\ UNCHANGED <<day, account, pass, manual, bounds>>
    BY DEF Reconcile
  <1>2.
        /\ \/ managed' = managed /\ excuses' = excuses
           \/ /\ managed' = NoRow /\ trip.held = 0
              /\ excuses \union Early \subseteq excuses'
              /\ excuses' \subseteq excuses \union Early \union {"unseen"}
    BY DEF Reconcile, PositionOpened, PositionChanged, PositionClosed, ManagedDropped
  <1>3. TripInv' /\ RowInv' /\ PassInv'
    BY <1>1, <1>2 DEF ManageInv, TripInv, Shares, RowInv, PassInv, account
  <1>4. CountersInv'
    BY <1>1, <1>2 DEF ManageInv, CountersInv, account, bounds, Early, OfTrip, OfBooks
  <1>5. LiveInv'
    <2>1. CASE managed' = managed /\ excuses' = excuses
      BY <1>1, <2>1 DEF ManageInv, LiveInv, Excused, Living, Shares, account
    <2>2. CASE trip.held = 0 /\ excuses \union Early \subseteq excuses'
      <3>1. trip.st # "open"
        BY <2>2 DEF ManageInv, TripInv
      <3>2. trip.st = "working" => Excused'
        BY <2>2 DEF Early, Excused
      <3>. QED  BY <1>1, <3>1, <3>2 DEF LiveInv, Living, account
    <2>. QED  BY <1>2, <2>1, <2>2
  <1>. QED  BY <1>2, <1>3, <1>4, <1>5 DEF ManageInv

\* What leaves all but the day as it is.
LEMMA RestKeeps ==
    ASSUME ManageInv, UNCHANGED <<account, managed, books, pass, manual, excuses, bounds>>,
           day' \in 0..LastDay
    PROVE  ManageInv'
  BY DEF ManageInv, TripInv, RowInv, PassInv, LiveInv, CountersInv, Shares, Excused,
         Living, account, books, bounds

-----------------------------------------------------------------------------
(* Every step.                                                             *)

\* Nothing is held or managed at the beginning.
LEMMA ManageInit == Init => ManageInv
  <1>. SUFFICES ASSUME Init PROVE ManageInv
    OBVIOUS
  <1>1. TripInv /\ LiveInv
    <2>1. /\ trip \in [side : Sides, st : TripStates, held : Nat, legs : BOOLEAN]
          /\ trip.side = "long" /\ trip.st = "none" /\ trip.held = 0
      BY DEF Init, TripStates, Sides
    <2>2. Shares \in Nat
      BY <2>1, BracketType DEF Shares
    <2>. QED  BY <2>1, <2>2 DEF TripInv, LiveInv, Living
  <1>2. RowInv /\ PassInv
    BY DEF Init, RowInv, PassInv
  <1>3. CountersInv
    <2>1. LastDay \in Nat /\ Trips \in Nat /\ MaxPasses \in Nat /\ MaxManual \in Nat
      BY ManageAssumption
    <2>2. day = 0 /\ cash = 0 /\ manual = FALSE /\ excuses = {} /\ sent = 0 /\ passes = 0 /\ manuals = 0
      BY DEF Init
    <2>3. day \in 0..LastDay /\ cash \in Int
      BY <2>1, <2>2
    <2>4. sent \in 0..Trips /\ passes \in 0..MaxPasses /\ manuals \in 0..MaxManual
      BY <2>1, <2>2
    <2>5. manual \in BOOLEAN /\ excuses \subseteq OfTrip \union OfBooks
      BY <2>2
    <2>. QED  BY <2>3, <2>4, <2>5 DEF CountersInv
  <1>. QED  BY <1>1, <1>2, <1>3 DEF ManageInv

\* Every step keeps the invariant.
LEMMA ManageStep == ManageInv /\ [Next]_vars => ManageInv'
  <1>. SUFFICES ASSUME ManageInv, [Next]_vars PROVE ManageInv'
    OBVIOUS
  <1>1. CASE EntryFills
    BY <1>1, FillKeeps
  <1>2. CASE EntryEnds \/ ManualCancel
    BY <1>2, CancelKeeps
  <1>3. CASE LegFills
    BY <1>3, LegKeeps
  <1>4. ASSUME NEW n \in Gaps, DaysPass(n) PROVE ManageInv'
    <2>1. day' \in 0..LastDay
      <3>1. n \in Nat /\ day \in 0..LastDay /\ LastDay \in Nat
        BY ManageAssumption DEF ManageInv, CountersInv
      <3>. QED  BY <1>4, <3>1 DEF DaysPass
    <2>. QED  BY <1>4, <2>1, RestKeeps DEF DaysPass
  <1>5. ASSUME NEW side \in DOMAIN Bracket, Enter(side) PROVE ManageInv'
    BY <1>5, EnterKeeps, ManageAssumption
  <1>6. ASSUME NEW menu \in Menus, Consult(menu) PROVE ManageInv'
    BY <1>6, ConsultKeeps
  <1>7. CASE Trail
    BY <1>7, TrailKeeps
  <1>8. CASE ScaleOut
    BY <1>8, ScaleOutKeeps
  <1>9. CASE ClosePosition
    BY <1>9, ClosePositionKeeps
  <1>10. CASE ScaleIn
    BY <1>10, ScaleInKeeps
  <1>11. CASE Persist
    BY <1>11, PersistKeeps
  <1>12. ASSUME NEW p \in ManualStops, SetStop(p) PROVE ManageInv'
    BY <1>12, SetStopKeeps
  <1>13. CASE ManualClose
    BY <1>13, ManualCloseKeeps
  <1>14. CASE ManualRemove
    BY <1>14, ManualRemoveKeeps
  <1>15. CASE Reconcile
    BY <1>15, ReconcileKeeps
  <1>16. CASE UNCHANGED vars
    BY <1>16, RestKeeps DEF vars, ManageInv, CountersInv
  <1>. QED
    BY <1>1, <1>2, <1>3, <1>4, <1>5, <1>6, <1>7, <1>8, <1>9, <1>10, <1>11, <1>12, <1>13, <1>14,
       <1>15, <1>16 DEF Next

-----------------------------------------------------------------------------
(* The books.                                                              *)

Exit == [side : Sides, price : Price, day : Nat]
Trade == [side : Sides, qty : Nat \ {0}, opened : Nat, closed : Nat, net : Int, wash : BOOLEAN]
Position == [side : Sides, qty : Nat \ {0}, entry : Int, stop : Nat, opened : Nat, seen : Nat]

BooksInv ==
    /\ exits \in Seq(Exit) /\ trades \in Seq(Trade)
    /\ position # NoRow => position \in Position /\ position.qty <= Bracket[position.side].qty

\* What leaves the books and what they are about alone.
Still ==
    /\ UNCHANGED <<cash, exits, books>>
    /\ trip'.held = trip.held /\ (trip.held > 0 => trip'.side = trip.side)
    /\ excuses \intersect OfBooks \subseteq excuses'

\* Every other step fills the entry, sells shares or reconciles.
LEMMA BooksSteps ==
    ASSUME ManageInv, [Next]_vars
    PROVE  \/ Still \/ EntryFills \/ Reconcile
           \/ \E q \in 1..trip.held, price \in Price : Exited(q, price) /\ UNCHANGED books
  <1>1. trip \in [side : Sides, st : TripStates, held : Nat, legs : BOOLEAN]
        /\ (trip.held > 0) = (trip.st = "open")
    BY DEF ManageInv, TripInv
  <1>2. ASSUME UNCHANGED <<account, books, excuses>> PROVE Still
    BY <1>2 DEF Still, account
  <1>3. ASSUME NEW q \in Nat, Taken(q), UNCHANGED books
        PROVE  \E p \in 1..trip.held, price \in Price : Exited(p, price) /\ UNCHANGED books
    <2>1. PICK price \in MarketPrices : Exited(q, price)
      BY <1>3 DEF Taken
    <2>2. price \in Price /\ q \in 1..trip.held
      BY <1>1, <1>3, ManageAssumption DEF Taken
    <2>. QED  BY <1>3, <2>1, <2>2
  <1>4. CASE EntryEnds \/ ManualCancel
    <2>1. /\ UNCHANGED <<cash, exits, books, excuses>>
          /\ trip' = [trip EXCEPT !.st = "over"]
             \/ trip' = [trip EXCEPT !.st = IF trip.st = "working" THEN "over" ELSE trip.st,
                                     !.legs = FALSE]
      BY <1>4 DEF EntryEnds, ManualCancel, Manual
    <2>2. trip'.held = trip.held /\ trip'.side = trip.side
      BY <1>1, <2>1
    <2>. QED  BY <2>1, <2>2 DEF Still
  <1>5. CASE LegFills
    <2>1. PICK price \in {Bracket[trip.side].stop, Bracket[trip.side].target} :
              Exited(trip.held, price)
      BY <1>5 DEF LegFills
    <2>2. price \in Price /\ trip.held \in 1..trip.held
      BY <1>1, <1>5, BracketType DEF LegFills
    <2>. QED  BY <1>5, <2>1, <2>2 DEF LegFills
  <1>6. ASSUME NEW n \in Gaps, DaysPass(n) PROVE Still
    BY <1>2, <1>6 DEF DaysPass
  <1>7. ASSUME NEW side \in DOMAIN Bracket, Enter(side) PROVE Still
    <2>1. /\ UNCHANGED <<cash, exits, books>> /\ trip'.held = 0
          /\ trip.st \in {"none", "over"}
          /\ excuses \intersect OfBooks \subseteq excuses'
      BY <1>7 DEF Enter
    <2>2. trip.held = 0
      BY <1>1, <2>1
    <2>. QED  BY <2>1, <2>2 DEF Still
  <1>8. ASSUME NEW menu \in Menus, Consult(menu) PROVE Still
    BY <1>8 DEF Consult, Still, account, OfBooks
  <1>9. CASE Trail \/ ScaleIn \/ Persist
    BY <1>2, <1>9 DEF Trail, ScaleIn, Persist
  <1>10. ASSUME NEW q \in Nat, NEW found, Close(q, found)
         PROVE  \/ Still
                \/ \E p \in 1..trip.held, price \in Price : Exited(p, price) /\ UNCHANGED books
    BY <1>2, <1>3, <1>10 DEF Close, Refused
  <1>11. CASE ScaleOut
    <2>. DEFINE q == Part(Head(pass.todo).qty)
    <2>1. q \in Nat
      <3>1. pass # Idle /\ pass \in Passes /\ Head(pass.todo) \in Actions
            /\ Head(pass.todo).do = "out"
        BY <1>11, ActingPass DEF ScaleOut, Acting
      <3>2. Head(pass.todo).qty \in Nat /\ pass.left \in Nat
        BY <3>1 DEF Actions, Passes
      <3>. QED  BY <3>2 DEF Part
    <2>. HIDE DEF q
    <2>2. \/ UNCHANGED <<account, books, excuses>>
          \/ Close(q, [pass EXCEPT !.left = @ - q, !.full = (pass.left = q)])
      BY <1>11, Zenon DEF ScaleOut, q
    <2>. QED  BY <1>2, <1>10, <2>1, <2>2
  <1>12. CASE ClosePosition
    BY <1>1, <1>10, <1>12 DEF ClosePosition
  <1>13. ASSUME NEW p \in ManualStops, SetStop(p) PROVE Still
    BY <1>13 DEF SetStop, Manual, Still, account, books
  <1>14. CASE ManualClose
    BY <1>1, <1>3, <1>14 DEF ManualClose, Manual
  <1>15. CASE ManualRemove
    BY <1>15 DEF ManualRemove, Still, account
  <1>16. CASE UNCHANGED vars
    BY <1>2, <1>16 DEF vars
  <1>. QED
    BY <1>4, <1>5, <1>6, <1>7, <1>8, <1>9, <1>11, <1>12, <1>13, <1>14, <1>15, <1>16 DEF Next

\* The exit that is found, and what is booked for it.
LEMMA BookedType ==
    ASSUME ManageInv, BooksInv, position # NoRow, ExitsSince(position) # {}
    PROVE  /\ PickExit(position) \in Exit
           /\ Booked(position) \in Trade
           /\ Booked(position).net = NetPnl(position, PickExit(position).price)
           /\ Booked(position).closed = PickExit(position).day
           /\ Booked(position).wash = Wash(Booked(position).net, Booked(position).closed)
           /\ \E k \in DOMAIN exits : PickExit(position) = exits[k]
  <1>1. position \in Position /\ exits \in Seq(Exit)
    BY DEF BooksInv
  <1>2. PickExit(position) \in Exit /\ \E k \in DOMAIN exits : PickExit(position) = exits[k]
    <2>. DEFINE S == ExitsSince(position)
                a == position.seen
                n == Len(exits)
    <2>1. a \in Nat /\ n \in Nat /\ S \subseteq a + 1 .. n /\ S # {}
      BY <1>1 DEF ExitsSince, Position
    <2>. HIDE DEF S, a
    <2>2. Max(S) \in S
      <3>. HIDE DEF n
      <3>1. a + 1 \in Int /\ n \in Int /\ a + 1 .. n \subseteq Int
        BY <2>1
      <3>2. IsFiniteSet(S) /\ S \subseteq Int
        BY <2>1, <3>1, FS_Interval, FS_Subset
      <3>. QED  BY <2>1, <3>2, Largest
    <2>3. Max(S) \in 1..n
      <3>. DEFINE x == Max(S)
      <3>1. x \in a + 1 .. n
        BY <2>1, <2>2
      <3>. HIDE DEF x, n
      <3>2. x \in 1..n
        BY <2>1, <3>1
      <3>. QED  BY <3>2 DEF x
    <2>4. exits[Max(S)] \in Exit /\ Max(S) \in DOMAIN exits
      BY <1>1, <2>3, ElementOfSeq
    <2>. QED  BY <2>4 DEF PickExit, S
  <1>. DEFINE price == PickExit(position).price
              sale == PickExit(position).day
              net == NetPnl(position, price)
  <1>3. net \in Int
    <2>1. price \in Int /\ position.qty \in Int /\ position.entry \in Int
          /\ Direction(position.side) \in Int
      BY <1>1, <1>2 DEF Exit, Position, Price, Direction
    <2>2. price - position.entry \in Int
      BY <2>1
    <2>. HIDE DEF price
    <2>. QED  BY <2>1, <2>2, Products DEF NetPnl
  <1>4. Wash(net, sale) \in BOOLEAN /\ sale \in Nat
    BY <1>2 DEF Wash, Exit
  <1>5. Booked(position) = [side |-> position.side, qty |-> position.qty,
                            opened |-> position.opened, closed |-> sale,
                            net |-> net, wash |-> Wash(net, sale)]
    BY Zenon DEF Booked
  <1>. HIDE DEF price, net, sale
  <1>6. Booked(position) \in Trade
    BY <1>1, <1>3, <1>4, <1>5 DEF Trade, Position
  <1>. QED  BY <1>2, <1>5, <1>6 DEF net, price, sale

\* The books keep their types.
LEMMA BooksInit == Init => BooksInv
  BY DEF Init, BooksInv

LEMMA BooksStep == ManageInv /\ BooksInv /\ [Next]_vars => BooksInv'
  <1>. SUFFICES ASSUME ManageInv, BooksInv, [Next]_vars PROVE BooksInv'
    OBVIOUS
  <1>1. /\ trip.side \in Sides /\ trip.held \in Nat /\ trip.held <= Bracket[trip.side].qty
        /\ Bracket[trip.side].qty \in Nat /\ Bracket[trip.side].entry \in Int
    BY BracketType DEF ManageInv, TripInv, Shares
  <1>2. CASE Still \/ EntryFills
    BY <1>2 DEF BooksInv, Still, EntryFills, books
  <1>3. ASSUME NEW q \in 1..trip.held, NEW price \in Price, Exited(q, price), UNCHANGED books
        PROVE  BooksInv'
    <2>1. [side |-> trip.side, price |-> price, day |-> day] \in Exit
      BY <1>1, ManageAssumption DEF Exit, ManageInv, CountersInv
    <2>2. exits' \in Seq(Exit)
      <3>. DEFINE new == [side |-> trip.side, price |-> price, day |-> day]
      <3>. HIDE DEF new
      <3>. SUFFICES exits' = Append(exits, new) /\ new \in Exit
        BY AppendProperties DEF BooksInv
      <3>. QED  BY <1>3, <2>1 DEF Exited, new
    <2>. QED  BY <1>3, <2>2 DEF BooksInv, books
  <1>4. CASE Reconcile
    <2>1. exits' = exits
      BY <1>4 DEF Reconcile, account
    <2>2. CASE PositionOpened
      <3>1. day \in Nat /\ Len(exits) \in Nat /\ (managed # NoRow => managed.stop \in Nat)
        BY ManageAssumption DEF ManageInv, CountersInv, BooksInv, RowInv, Rows, Price
      <3>2. /\ position'.qty = trip.held /\ position'.side = trip.side /\ position' \in Position
            /\ trades' = trades
        BY <1>1, <2>2, <3>1 DEF PositionOpened, Position
      <3>. QED  BY <1>1, <2>1, <3>2 DEF BooksInv
    <2>3. CASE PositionChanged
      <3>1. /\ trip.held > 0 /\ position # NoRow /\ trades' = trades
            /\ position' = [position EXCEPT !.qty = trip.held, !.side = trip.side,
                                            !.entry = Bracket[trip.side].entry]
        BY <2>3 DEF PositionChanged
      <3>2. position \in Position
        BY <3>1 DEF BooksInv
      <3>3. position' \in Position /\ position'.qty = trip.held /\ position'.side = trip.side
        <4>1. trip.held \in Nat \ {0}
          BY <1>1, <3>1
        <4>. DEFINE held == trip.held
                    side == trip.side
                    entry == Bracket[trip.side].entry
        <4>2. held \in Nat \ {0} /\ side \in Sides /\ entry \in Int
              /\ position' = [position EXCEPT !.qty = held, !.side = side, !.entry = entry]
          BY <1>1, <3>1, <4>1
        <4>. HIDE DEF held, side, entry
        <4>3. position' \in Position /\ position'.qty = held /\ position'.side = side
          BY <3>2, <4>2 DEF Position
        <4>. QED  BY <4>3 DEF held, side
      <3>. QED  BY <1>1, <2>1, <3>1, <3>3 DEF BooksInv
    <2>4. CASE PositionClosed
      <3>1. /\ position # NoRow /\ position' = NoRow
            /\ \/ trades' = trades
               \/ ExitsSince(position) # {} /\ trades' = Append(trades, Booked(position))
        BY <2>4 DEF PositionClosed
      <3>2. CASE trades' = trades
        BY <2>1, <3>1, <3>2 DEF BooksInv
      <3>3. CASE ExitsSince(position) # {} /\ trades' = Append(trades, Booked(position))
        <4>1. Booked(position) \in Trade
          BY <3>1, <3>3, BookedType
        <4>2. trades' \in Seq(Trade)
          BY <3>3, <4>1, AppendProperties DEF BooksInv
        <4>. QED  BY <2>1, <3>1, <4>2 DEF BooksInv
      <3>. QED  BY <3>1, <3>2, <3>3
    <2>5. CASE ManagedDropped
      BY <2>1, <2>5 DEF ManagedDropped, BooksInv, books
    <2>. QED  BY <1>4, <2>2, <2>3, <2>4, <2>5 DEF Reconcile
  <1>. QED  BY <1>2, <1>3, <1>4, BooksSteps

-----------------------------------------------------------------------------
(* The result of the round trips.                                          *)

\* Unless shares went one by one or a change went unseen: what was booked is what the
\* account made before the trip the row is about; the row agrees with what is held; and
\* once that is gone, the last exit since the row was opened is the one that took it.
LedgerInv ==
    excuses \intersect OfBooks = {} =>
        /\ position = NoRow => cash = SumOf(trades)
        /\ position # NoRow /\ trip.held > 0 =>
              /\ position.side = trip.side /\ position.qty = trip.held
              /\ position.entry = Bracket[trip.side].entry
              /\ position.seen = Len(exits) /\ cash = SumOf(trades)
        /\ position # NoRow /\ trip.held = 0 =>
              /\ Len(exits) = position.seen + 1
              /\ exits[Len(exits)].side = position.side
              /\ cash = SumOf(trades) + NetPnl(position, exits[Len(exits)].price)

\* A trade that is appended adds its result.
LEMMA SumOfAppend ==
    ASSUME NEW ts \in Seq(Trade), NEW t \in Trade
    PROVE  SumOf(Append(ts, t)) = SumOf(ts) + t.net
  <1>. DEFINE S == DOMAIN ts
              f == [i \in S |-> ts[i].net]
              more == Append(ts, t)
              g == [i \in DOMAIN more |-> more[i].net]
  <1>. PICK n \in Nat : n = Len(ts) + 1
    OBVIOUS
  <1>1. /\ S = 1..Len(ts) /\ n \notin S /\ DOMAIN more = S \union {n}
        /\ more[n] = t /\ \A i \in S : more[i] = ts[i]
    OBVIOUS
  <1>2. IsFiniteSet(S)
    BY <1>1, FS_Interval
  <1>3. \A i \in S : ts[i] \in Trade
    OBVIOUS
  <1>4. /\ \A i \in S : f[i] = ts[i].net /\ g[i] = f[i] /\ f[i] \in Int
        /\ g[n] = t.net /\ t.net \in Int
    BY <1>1, <1>3 DEF Trade
  <1>5. SumOf(ts) = SumFunctionOnSet(f, S) /\ SumOf(more) = SumFunctionOnSet(g, S \union {n})
    BY <1>1, Zenon DEF SumOf
  <1>. HIDE DEF S, f, g, more
  <1>6. Whole(f, S) /\ Whole(g, S \union {n})
    BY <1>4 DEF Whole
  <1>7. SumFunctionOnSet(g, S \union {n}) = SumFunctionOnSet(g, S) + g[n]
    BY <1>1, <1>2, <1>6, SumAdd
  <1>8. SumFunctionOnSet(f, S) = SumFunctionOnSet(g, S)
    BY <1>2, <1>4, <1>6, SumEqual
  <1>. QED  BY <1>4, <1>5, <1>7, <1>8 DEF more

\* Nothing is booked of nothing.
LEMMA LedgerInit == Init => LedgerInv
  <1>. SUFFICES ASSUME Init PROVE LedgerInv
    OBVIOUS
  <1>1. cash = 0 /\ position = NoRow /\ trades = <<>>
    BY DEF Init
  <1>2. SumOf(<<>>) = 0
    <2>1. DOMAIN <<>> = {}
      OBVIOUS
    <2>. QED  BY <2>1, SumEmpty, Zenon DEF SumOf
  <1>. QED  BY <1>1, <1>2 DEF LedgerInv

\* The only exit since a row was opened is the one it is closed with.
LEMMA OnlyExit ==
    ASSUME BooksInv, position # NoRow, Len(exits) = position.seen + 1,
           exits[Len(exits)].side = position.side
    PROVE  ExitsSince(position) # {} /\ PickExit(position) = exits[Len(exits)]
  <1>. DEFINE n == Len(exits)
  <1>1. n \in Nat /\ n = position.seen + 1
    BY DEF BooksInv
  <1>2. ExitsSince(position) = {n}
    <2>. HIDE DEF n
    <2>1. position.seen + 1 .. n = {n}
      BY <1>1
    <2>. QED  BY <2>1 DEF ExitsSince, n
  <1>3. Max({n}) = n
    <2>. HIDE DEF n
    <2>. DEFINE S == {n}
    <2>1. IsFiniteSet(S) /\ S \subseteq Int /\ S # {} /\ \A x \in S : x = n
      <3>1. IsFiniteSet(S)
        BY FS_Singleton, Zenon
      <3>. QED  BY <1>1, <3>1
    <2>. HIDE DEF S
    <2>2. Max(S) \in S
      BY <2>1, Largest
    <2>3. Max(S) = n
      BY <2>1, <2>2
    <2>. QED  BY <2>3 DEF S
  <1>. HIDE DEF n
  <1>4. ExitsSince(position) # {} /\ PickExit(position) = exits[n]
    BY <1>2, <1>3 DEF PickExit
  <1>. QED  BY <1>4 DEF n

\* Shares that go at once leave their result to be booked.
LEMMA ExitKeepsLedger ==
    ASSUME ManageInv, BooksInv, LedgerInv, NEW q \in 1..trip.held, NEW price \in Price,
           Exited(q, price), UNCHANGED books
    PROVE  LedgerInv'
  <1>. SUFFICES ASSUME excuses' \intersect OfBooks = {} PROVE LedgerInv'
    BY DEF LedgerInv
  <1>1. trip.held \in Nat /\ trip.held > 0 /\ trip \in [side : Sides, st : TripStates, held : Nat, legs : BOOLEAN]
    BY DEF ManageInv, TripInv
  <1>2. q = trip.held /\ position # NoRow /\ excuses \intersect OfBooks = {}
    <2>1. "scaled" \notin excuses' /\ "unseen" \notin excuses'
      BY DEF OfBooks
    <2>. QED  BY <2>1, <1>1 DEF Exited, OfBooks
  <1>3. trip'.held = 0
    BY <1>1, <1>2 DEF Exited
  <1>. DEFINE new == [side |-> trip.side, price |-> price, day |-> day]
  <1>4. new.side = trip.side /\ new.price = price
    OBVIOUS
  <1>. HIDE DEF new
  <1>5. /\ exits' = Append(exits, new) /\ exits \in Seq(Exit)
        /\ cash' = cash + Direction(trip.side) * q * (price - Bracket[trip.side].entry)
    BY DEF Exited, BooksInv, new
  <1>6. Len(exits') = Len(exits) + 1 /\ exits'[Len(exits')] = new
    BY <1>5
  <1>7. /\ position.side = trip.side /\ position.qty = trip.held
        /\ position.entry = Bracket[trip.side].entry
        /\ position.seen = Len(exits) /\ cash = SumOf(trades)
    BY <1>1, <1>2 DEF LedgerInv
  <1>8. NetPnl(position, price) = Direction(trip.side) * q * (price - Bracket[trip.side].entry)
    BY <1>2, <1>7, Zenon DEF NetPnl
  <1>9. position' = position /\ trades' = trades
    BY DEF books
  <1>10. NetPnl(position', exits'[Len(exits')].price) = NetPnl(position, price)
    BY <1>4, <1>6, <1>9, Zenon
  <1>11. cash' = SumOf(trades') + NetPnl(position', exits'[Len(exits')].price)
    BY <1>5, <1>7, <1>8, <1>9, <1>10, Zenon
  <1>12. Len(exits') = position'.seen + 1 /\ exits'[Len(exits')].side = position'.side
    BY <1>4, <1>6, <1>7, <1>9
  <1>. QED  BY <1>2, <1>3, <1>9, <1>11, <1>12 DEF LedgerInv

\* A row that is closed with an exit found books what the account made of it.
LEMMA ClosedKeepsLedger ==
    ASSUME ManageInv, BooksInv, LedgerInv, PositionClosed, UNCHANGED account
    PROVE  LedgerInv'
  <1>. SUFFICES ASSUME excuses' \intersect OfBooks = {} PROVE LedgerInv'
    BY DEF LedgerInv
  <1>1. /\ trip.held = 0 /\ position # NoRow /\ position' = NoRow
        /\ excuses' = excuses \union Early
        /\ ExitsSince(position) # {} /\ trades' = Append(trades, Booked(position))
    BY DEF PositionClosed, OfBooks
  <1>2. /\ Len(exits) = position.seen + 1 /\ exits[Len(exits)].side = position.side
        /\ cash = SumOf(trades) + NetPnl(position, exits[Len(exits)].price)
    BY <1>1 DEF LedgerInv
  <1>3. /\ Booked(position) \in Trade
        /\ Booked(position).net = NetPnl(position, exits[Len(exits)].price)
    <2>1. PickExit(position) = exits[Len(exits)]
      BY <1>1, <1>2, OnlyExit
    <2>. QED  BY <1>1, <2>1, BookedType
  <1>4. SumOf(trades') = SumOf(trades) + Booked(position).net
    BY <1>1, <1>3, SumOfAppend DEF BooksInv
  <1>5. cash' = SumOf(trades')
    <2>1. cash' = cash
      BY DEF account
    <2>. QED  BY <1>2, <1>3, <1>4, <2>1, Zenon
  <1>. QED  BY <1>1, <1>5 DEF LedgerInv

LEMMA LedgerStep == ManageInv /\ BooksInv /\ LedgerInv /\ [Next]_vars => LedgerInv'
  <1>. SUFFICES ASSUME ManageInv, BooksInv, LedgerInv, [Next]_vars PROVE LedgerInv'
    OBVIOUS
  <1>1. CASE Still
    <2>1. excuses' \intersect OfBooks = {} => excuses \intersect OfBooks = {}
      BY <1>1 DEF Still
    <2>2. UNCHANGED <<cash, exits, position, trades>> /\ trip'.held = trip.held
          /\ (trip.held > 0 => trip'.side = trip.side)
      BY <1>1 DEF Still, books
    <2>. QED  BY <2>1, <2>2, Zenon DEF LedgerInv
  <1>2. CASE EntryFills
    <2>1. /\ UNCHANGED <<cash, exits, position, trades>>
          /\ excuses' = excuses \union (IF position # NoRow THEN {"unseen"} ELSE {})
      BY <1>2 DEF EntryFills, books
    <2>2. excuses' \intersect OfBooks = {} => position = NoRow /\ excuses \intersect OfBooks = {}
      BY <2>1 DEF OfBooks
    <2>. QED  BY <2>1, <2>2 DEF LedgerInv
  <1>3. ASSUME NEW q \in 1..trip.held, NEW price \in Price, Exited(q, price), UNCHANGED books
        PROVE  LedgerInv'
    BY <1>3, ExitKeepsLedger
  <1>4. CASE Reconcile
    <2>1. trip' = trip /\ cash' = cash /\ exits' = exits /\ UNCHANGED account
      BY <1>4 DEF Reconcile, account
    <2>2. CASE PositionOpened
      <3>1. /\ trip.held > 0 /\ position = NoRow /\ trades' = trades /\ excuses' = excuses
            /\ position'.side = trip.side /\ position'.qty = trip.held
            /\ position'.entry = Bracket[trip.side].entry /\ position'.seen = Len(exits)
        BY <2>2 DEF PositionOpened
      <3>. QED  BY <2>1, <3>1 DEF LedgerInv
    <2>3. CASE PositionChanged
      <3>1. /\ trip.held > 0 /\ position # NoRow /\ excuses' = excuses
            /\ ~(position.qty = trip.held /\ position.side = trip.side)
        BY <2>3, Zenon DEF PositionChanged
      <3>. QED  BY <3>1 DEF LedgerInv
    <2>4. CASE PositionClosed
      BY <2>1, <2>4, ClosedKeepsLedger
    <2>5. CASE ManagedDropped
      <3>1. UNCHANGED <<position, trades>> /\ excuses' = excuses \union Early
        BY <2>5 DEF ManagedDropped, books
      <3>2. excuses' \intersect OfBooks = {} => excuses \intersect OfBooks = {}
        BY <3>1
      <3>. QED  BY <2>1, <3>1, <3>2, Zenon DEF LedgerInv
    <2>. QED  BY <1>4, <2>2, <2>3, <2>4, <2>5 DEF Reconcile
  <1>. QED  BY <1>1, <1>2, <1>3, <1>4, BooksSteps

-----------------------------------------------------------------------------
(* Wash sales.                                                             *)

\* Sales are not of the future, and a row that is open was opened after every booked one.
TimesInv ==
    /\ \A k \in DOMAIN exits : exits[k].day <= day
    /\ \A i \in DOMAIN trades : trades[i].closed <= day
    /\ position # NoRow => \A i \in DOMAIN trades : trades[i].closed <= position.opened

\* No step takes the day back.
LEMMA DayGoesOn == ASSUME ManageInv, [Next]_vars PROVE day' \in Nat /\ day' >= day
  <1>1. day \in Nat
    BY ManageAssumption DEF ManageInv, CountersInv
  <1>2. ASSUME NEW n \in Gaps, DaysPass(n) PROVE day' \in Nat /\ day' >= day
    BY <1>1, <1>2, ManageAssumption DEF DaysPass
  <1>3. ASSUME ~\E n \in Gaps : DaysPass(n) PROVE day' = day
    BY <1>3 DEF Next, vars, EntryFills, EntryEnds, LegFills, Enter, Consult, Trail, ScaleOut,
       ClosePosition, ScaleIn, Persist, Manual, SetStop, ManualClose, ManualRemove, ManualCancel,
       Reconcile, Close
  <1>. QED  BY <1>1, <1>2, <1>3

\* What is booked is the only change of the trades, and ends the row.
LEMMA TradesGrow ==
    ASSUME ManageInv, BooksInv, [Next]_vars
    PROVE  \/ trades' = trades
           \/ /\ position # NoRow /\ position' = NoRow /\ exits' = exits
              /\ \E t \in Trade : /\ trades' = Append(trades, t)
                                  /\ t.opened = position.opened
                                  /\ \E k \in DOMAIN exits : t.closed = exits[k].day
                                  /\ t.wash = Wash(t.net, t.closed)
  <1>1. CASE ~Reconcile
    <2>1. UNCHANGED books
      BY <1>1, BooksSteps DEF Still, EntryFills
    <2>. QED  BY <2>1 DEF books
  <1>2. CASE Reconcile
    <2>1. trades' = trades \/ PositionClosed
      BY <1>2 DEF Reconcile, PositionOpened, PositionChanged, ManagedDropped, books
    <2>2. ASSUME PositionClosed, trades' # trades
          PROVE  \E t \in Trade : /\ trades' = Append(trades, t)
                                  /\ t.opened = position.opened
                                  /\ \E k \in DOMAIN exits : t.closed = exits[k].day
                                  /\ t.wash = Wash(t.net, t.closed)
      <3>1. position # NoRow /\ ExitsSince(position) # {} /\ trades' = Append(trades, Booked(position))
        BY <2>2 DEF PositionClosed
      <3>2. /\ Booked(position) \in Trade
            /\ Booked(position).closed = PickExit(position).day
            /\ Booked(position).wash = Wash(Booked(position).net, Booked(position).closed)
            /\ \E k \in DOMAIN exits : PickExit(position) = exits[k]
        BY <3>1, BookedType
      <3>3. Booked(position).opened = position.opened
        BY DEF Booked
      <3>. QED  BY <3>1, <3>2, <3>3
    <2>3. PositionClosed => position # NoRow /\ position' = NoRow
      BY DEF PositionClosed
    <2>4. exits' = exits
      BY <1>2 DEF Reconcile, account
    <2>. QED  BY <2>1, <2>2, <2>3, <2>4
  <1>. QED  BY <1>1, <1>2

LEMMA BooksDays ==
    ASSUME BooksInv
    PROVE  /\ \A k \in DOMAIN exits : exits[k].day \in Nat
           /\ \A i \in DOMAIN trades : trades[i].closed \in Nat
           /\ exits \in Seq(Exit) /\ trades \in Seq(Trade)
  <1>1. exits \in Seq(Exit) /\ trades \in Seq(Trade)
    BY DEF BooksInv
  <1>2. /\ \A k \in DOMAIN exits : exits[k] \in Exit
        /\ \A i \in DOMAIN trades : trades[i] \in Trade
    BY <1>1
  <1>3. /\ \A e \in Exit : e.day \in Nat
        /\ \A u \in Trade : u.closed \in Nat
    BY DEF Exit, Trade
  <1>. QED  BY <1>1, <1>2, <1>3

\* What becomes of the exits and of the row.
LEMMA TimesStep == ManageInv /\ BooksInv /\ TimesInv /\ [Next]_vars => TimesInv'
  <1>. SUFFICES ASSUME ManageInv, BooksInv, TimesInv, [Next]_vars PROVE TimesInv'
    OBVIOUS
  <1>1. day \in Nat /\ day' \in Nat /\ day' >= day
    BY DayGoesOn, ManageAssumption DEF ManageInv, CountersInv
  <1>2. /\ \A k \in DOMAIN exits : exits[k].day \in Nat
        /\ \A i \in DOMAIN trades : trades[i].closed \in Nat
        /\ exits \in Seq(Exit) /\ trades \in Seq(Trade)
    BY BooksDays
  <1>3. \A k \in DOMAIN exits' : exits'[k].day <= day'
    <2>1. CASE exits' = exits
      BY <1>1, <1>2, <2>1 DEF TimesInv
    <2>2. ASSUME NEW q \in 1..trip.held, NEW price \in Price, Exited(q, price)
          PROVE  \A k \in DOMAIN exits' : exits'[k].day <= day'
      <3>. PICK new : new = [side |-> trip.side, price |-> price, day |-> day]
        OBVIOUS
      <3>1. exits' = Append(exits, new) /\ new.day = day
        BY <2>2 DEF Exited
      <3>. QED  BY <1>1, <1>2, <3>1 DEF TimesInv
    <2>. QED  BY <2>1, <2>2, BooksSteps DEF Still, EntryFills, Reconcile, account
  <1>4. \A i \in DOMAIN trades' : trades'[i].closed <= day'
    <2>1. CASE trades' = trades
      BY <1>1, <1>2, <2>1 DEF TimesInv
    <2>2. CASE trades' # trades
      <3>1. PICK t \in Trade : trades' = Append(trades, t) /\ \E k \in DOMAIN exits : t.closed = exits[k].day
        BY <2>2, TradesGrow
      <3>2. t.closed <= day /\ t.closed \in Nat
        BY <1>2, <3>1 DEF TimesInv
      <3>. QED  BY <1>1, <1>2, <3>1, <3>2 DEF TimesInv
    <2>. QED  BY <2>1, <2>2
  <1>5. position' # NoRow => \A i \in DOMAIN trades' : trades'[i].closed <= position'.opened
    <2>1. CASE trades' # trades
      BY <2>1, TradesGrow
    <2>2. CASE trades' = trades /\ position' = position
      BY <2>2 DEF TimesInv
    <2>3. CASE trades' = trades /\ position' # position
      <3>1. PositionOpened \/ PositionChanged \/ PositionClosed
        BY <2>3, BooksSteps DEF Still, EntryFills, Reconcile, ManagedDropped, books
      <3>2. CASE PositionOpened
        <4>1. position'.opened = day
          BY <3>2 DEF PositionOpened
        <4>. QED  BY <2>3, <4>1 DEF TimesInv
      <3>3. CASE PositionChanged
        <4>1. /\ position # NoRow /\ position \in Position
              /\ position' = [position EXCEPT !.qty = trip.held, !.side = trip.side,
                                              !.entry = Bracket[trip.side].entry]
          BY <2>3, <3>3 DEF PositionChanged, BooksInv
        <4>2. position'.opened = position.opened
          BY <4>1 DEF Position
        <4>. QED  BY <2>3, <4>1, <4>2 DEF TimesInv
      <3>4. CASE PositionClosed
        BY <3>4 DEF PositionClosed
      <3>. QED  BY <3>1, <3>2, <3>3, <3>4
    <2>. QED  BY <2>1, <2>2, <2>3
  <1>. QED  BY <1>3, <1>4, <1>5 DEF TimesInv

\* A trade that is appended was opened after the sale of every other one.
LEMMA WashStep == ManageInv /\ BooksInv /\ TimesInv /\ WashSales /\ [Next]_vars => WashSales'
  <1>. SUFFICES ASSUME ManageInv, BooksInv, TimesInv, WashSales, [Next]_vars PROVE WashSales'
    OBVIOUS
  <1>1. CASE trades' = trades
    BY <1>1 DEF WashSales, EarlierEntry, Near
  <1>2. CASE trades' # trades
    <2>1. PICK t \in Trade : /\ trades' = Append(trades, t)
                             /\ t.opened = position.opened
                             /\ t.wash = Wash(t.net, t.closed)
      BY <1>2, TradesGrow
    <2>2. position # NoRow /\ trades \in Seq(Trade)
      BY <1>2, TradesGrow DEF BooksInv
    <2>. PICK n \in Nat : n = Len(trades) + 1
      BY <2>2
    <2>3. /\ DOMAIN trades = 1..(n - 1) /\ DOMAIN trades' = DOMAIN trades \union {n}
          /\ n \notin DOMAIN trades /\ DOMAIN trades \subseteq Nat
          /\ trades'[n] = t /\ \A i \in DOMAIN trades : trades'[i] = trades[i]
      BY <2>1, <2>2
    <2>4. \A i \in DOMAIN trades : i < n /\ ~(n < i)
      BY <2>3
    <2>5. ASSUME NEW i \in DOMAIN trades PROVE (trades[i].wash = (trades[i].net < 0 /\ EarlierEntry(i)))'
      <3>1. trades[i].wash = (trades[i].net < 0 /\ EarlierEntry(i)) /\ trades'[i] = trades[i]
        BY <2>3 DEF WashSales
      <3>2. ~(t.opened < trades[i].closed)
        <4>1. trades[i].closed <= position.opened
          BY <2>2 DEF TimesInv
        <4>2. trades[i].closed \in Nat /\ t.opened \in Nat
          BY BooksDays DEF Trade
        <4>. QED  BY <2>1, <4>1, <4>2
      <3>3. EarlierEntry(i)' <=> EarlierEntry(i)
        BY <2>3, <2>4, <3>1, <3>2 DEF EarlierEntry, Near
      <3>. QED  BY <3>1, <3>3
    <2>6. (trades[n].wash = (trades[n].net < 0 /\ EarlierEntry(n)))'
      <3>1. EarlierEntry(n)' <=> \E j \in DOMAIN trades : Near(t.closed, trades[j].opened)
        BY <2>3, <2>4 DEF EarlierEntry, Near
      <3>2. t.wash \in BOOLEAN
        BY DEF Trade
      <3>. QED  BY <2>1, <2>3, <3>1, <3>2, Zenon DEF Wash
    <2>. QED  BY <2>3, <2>5, <2>6 DEF WashSales
  <1>. QED  BY <1>1, <1>2

-----------------------------------------------------------------------------
(* The theorems.                                                           *)

\* The variables keep their types: nothing is held beyond the bracket's shares, a row has
\* the shares of its bracket and a stop, and a pass never has more left than it began with.
THEOREM ManageTypeCorrect == Spec => []TypeOK
  <1>1. ManageInv /\ BooksInv => TypeOK
    <2>. SUFFICES ASSUME ManageInv, BooksInv PROVE TypeOK
      OBVIOUS
    <2>1. /\ trip.st \in TripStates /\ trip.held \in 0..Shares /\ trip.legs \in BOOLEAN
          /\ (trip.held > 0) = (trip.st = "open")
      <3>1. Shares \in Nat
        BY BracketType DEF ManageInv, TripInv, Shares
      <3>. QED  BY <3>1 DEF ManageInv, TripInv
    <2>2. managed # NoRow => managed.qty = Bracket[managed.side].qty /\ managed.stop > 0
      BY DEF ManageInv, RowInv, Rows, Price
    <2>3. /\ position # NoRow => position.qty \in 1..Bracket[position.side].qty
          /\ \A i \in DOMAIN trades : trades[i].qty > 0 /\ trades[i].wash \in BOOLEAN
      <3>1. \A i \in DOMAIN trades : trades[i] \in Trade
        BY DEF BooksInv
      <3>2. position # NoRow => /\ position.qty \in Nat \ {0} /\ position.side \in Sides
                                /\ position.qty <= Bracket[position.side].qty
        BY DEF BooksInv, Position
      <3>. QED  BY <3>1, <3>2, BracketType DEF Trade
    <2>4. /\ pass.pc \in {"idle", "acting", "persist"}
          /\ pass.pc # "idle" => pass.left \in 0..pass.view.qty
      <3>1. CASE pass = Idle
        BY <3>1 DEF Idle
      <3>2. CASE pass # Idle
        <4>1. /\ pass.pc \in {"acting", "persist"} /\ pass.left \in Nat
              /\ pass.view.qty \in Nat /\ pass.left <= pass.view.qty
          BY <3>2 DEF ManageInv, PassInv, Passes, Rows
        <4>. QED  BY <4>1
      <3>. QED  BY <3>1, <3>2
    <2>. QED  BY <2>1, <2>2, <2>3, <2>4 DEF TypeOK, ManageInv, CountersInv, TripStates
  <1>. QED  BY ManageInit, ManageStep, BooksInit, BooksStep, <1>1, PTL DEF Spec

\* Shares are held without a managed row only where the row was never written, was dropped
\* before the entry filled, or fell to the dashboard (paper_run.py:200-214,
\* tracking.py:226-236, app.py's close).
THEOREM HeldStaysManaged == Spec => []HeldIsManaged
  <1>1. ManageInv => HeldIsManaged
    BY DEF ManageInv, TripInv, LiveInv, Living, Excused, HeldIsManaged
  <1>. QED  BY ManageInit, ManageStep, <1>1, PTL DEF Spec

\* Once reconciled, the booked round trips add up to the cash the account made, however many
\* brackets came and went, unless shares left one by one or the reconciliation missed a
\* change (portfolio/tracking.py, accounting/round_trip.py).
THEOREM TradesAreComplete == Spec => []TradesAddUp
  <1>1. LedgerInv => TradesAddUp
    BY DEF LedgerInv, TradesAddUp
  <1>. QED
    BY ManageInit, ManageStep, BooksInit, BooksStep, LedgerInit, LedgerStep, <1>1, PTL DEF Spec

\* A trade is marked just if it is a loss and another one was opened within 30 days of its
\* sale and before it, at any distance between the sale and its booking
\* (tracking.py:293-309, persistence/live_trade_store.py:19-33).
THEOREM WashSalesAreMarked == Spec => []WashSales
  <1>1. Init => TimesInv /\ WashSales
    BY DEF Init, TimesInv, WashSales
  <1>. QED
    BY ManageInit, ManageStep, BooksInit, BooksStep, TimesStep, <1>1, WashStep, PTL DEF Spec

\* A step that ends a pass moves the stop of the row it changes toward the price or leaves
\* it, unless the dashboard wrote the row since the pass read it (portfolio/manage.py:23-33).
LEMMA EndTightens ==
    ASSUME ManageInv, [Next]_vars, pass # Idle, pass' = Idle, managed # NoRow, managed' # NoRow,
           "touched" \notin excuses
    PROVE  Direction(managed.side) * (managed'.stop - managed.stop) >= 0
  <1>1. managed \in Rows
    BY DEF ManageInv, RowInv
  <1>2. managed.stop \in Nat /\ managed.side \in Sides
    BY <1>1 DEF Rows, Price
  <1>3. CASE managed' = managed
    <2>1. managed'.stop - managed.stop = 0
      BY <1>2, <1>3
    <2>2. Direction(managed.side) \in Int
      BY DEF Direction
    <2>. QED  BY <2>1, <2>2
  <1>4. CASE managed' # managed
    <2>1. Persist
      BY <1>4, RowsAndPasses DEF Next, vars, EntryFills, EntryEnds, LegFills, DaysPass, Enter,
         Consult, Trail, ScaleOut, ClosePosition, ScaleIn, SetStop, ManualClose, ManualRemove,
         ManualCancel, Reconcile, Close, Idle
    <2>2. managed' = [managed EXCEPT !.stop = pass.stop] /\ pass.stop # 0
      BY <1>4, <2>1 DEF Persist, Outcome
    <2>3. managed'.stop = pass.stop
      BY <1>1, <2>2 DEF Rows
    <2>4. managed = pass.view /\ Tightens(managed.side, managed.stop, pass.stop) /\ pass.stop \in Nat
      BY <2>2 DEF ManageInv, PassInv, Passes
    <2>. QED  BY <1>2, <2>3, <2>4 DEF Tightens, Direction, Sides
  <1>. QED  BY <1>3, <1>4

\* A pass never loosens a stop, for any menu of actions on either side.
THEOREM StopsTighten == Spec => PassTightens
  <1>1. ManageInv /\ [Next]_vars =>
            [pass # Idle /\ pass' = Idle /\ managed # NoRow /\ managed' # NoRow
                => Direction(managed.side) * (managed'.stop - managed.stop) >= 0
                   \/ "touched" \in excuses]_vars
    BY EndTightens
  <1>. QED  BY ManageInit, ManageStep, <1>1, PTL DEF Spec, PassTightens
=============================================================================
