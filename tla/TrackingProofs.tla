--------------------------- MODULE TrackingProofs ---------------------------
(***************************************************************************)
(* The books of a symbol, for any number of brackets, fills and crashes,   *)
(* and for either way the account may list a leg.                          *)
(*                                                                         *)
(* An order only moves onward, so what a loop has read may be old but is   *)
(* never wrong about a fill: that is what keeps the orders table faithful. *)
(* A sale is booked once because time separates the position rows: a row   *)
(* is opened after every fill that a trade has used, and its own trade     *)
(* takes a fill since it was opened.                                       *)
(***************************************************************************)
EXTENDS Tracking, TLAPS

-----------------------------------------------------------------------------
(* The invariant.                                                          *)

\* What may become of an order that was once seen as x.
Onward(x, y) ==
    \/ x.st = "none"
    \/ y = x
    \/ x.st = "open" /\ y.st \in {"open", "filled", "canceled"}

BookInv ==
    /\ \A o \in Order : (book[o].st = "filled" <=> book[o].at # 0) /\ book[o].at <= now
    /\ \A k \in Trip : /\ book[<<k, "close">>].st # "canceled"
                       /\ book[<<k, "entry">>].st = "none" => book[<<k, "leg">>].st = "none"

SnapInv == \A o \in Order : /\ Onward(snap[o], book[o])
                            /\ snap[o].at # 0 => snap[o].st = "filled"

LoopInv == (loop = "trade" <=> closed # 0) /\ (closed # 0 => position = 0)

\* Every sale that is booked came before the row that is open, or being closed.
TradesInv ==
    /\ \A i \in DOMAIN trades : LET t == trades[i].exit
                                IN  /\ book[t].at # 0
                                    /\ position # 0 => book[t].at < position
                                    /\ closed # 0 => book[t].at < closed
    /\ \A i, j \in DOMAIN trades : trades[i].exit = trades[j].exit => i = j

TrackInv == TypeOK /\ BookInv /\ SnapInv /\ RowsFaithful /\ LoopInv /\ TradesInv

-----------------------------------------------------------------------------
(* Lemmas.                                                                 *)

\* The three orders of a trip are orders, and no two of them are one.
LEMMA OrdersOfTrip ==
    ASSUME NEW k \in Trip
    PROVE  /\ <<k, "entry">> \in Order /\ <<k, "leg">> \in Order /\ <<k, "close">> \in Order
           /\ <<k, "entry">> # <<k, "leg">> /\ <<k, "close">> # <<k, "leg">>
           /\ \A j \in Trip : <<j, "close">> # <<k, "leg">> /\ <<j, "close">> # <<k, "entry">>
  BY DEF Order, Kind

\* An order is the one of its trip and kind.
LEMMA OrderParts ==
    ASSUME NEW o \in Order
    PROVE  /\ o[1] \in Trip /\ o[2] \in Kind /\ o = <<o[1], o[2]>>
           /\ \A k, x : <<k, x>>[1] = k /\ <<k, x>>[2] = x
  BY DEF Order

\* A trade's exit is an order.
LEMMA TradesAreExits == TypeOK => \A i \in DOMAIN trades : trades[i].exit \in Order
  <1>. DEFINE E == [opened : 1..MaxTime, exit : Exits]
  <1>1. TypeOK => trades \in Seq(E)
    BY DEF TypeOK
  <1>2. \A e \in E : e.exit \in Order
    BY DEF Exits
  <1>. HIDE DEF E
  <1>3. trades \in Seq(E) => \A i \in DOMAIN trades : trades[i] \in E
    OBVIOUS
  <1>. QED  BY <1>1, <1>2, <1>3

\* What has moved onward twice has moved onward.
LEMMA OnwardTwice ==
    ASSUME NEW x, NEW y, NEW z, Onward(x, y), Onward(y, z)
    PROVE  Onward(x, z)
  BY DEF Onward

\* While the account moves onward and the loops and tables stand still, all of it holds.
LEMMA AccountMoves ==
    ASSUME TrackInv, TypeOK', BookInv', \A o \in Order : Onward(book[o], book'[o]),
           UNCHANGED <<loopVars, orders, position, trades>>
    PROVE  TrackInv'
  <1>1. \A o \in Order : /\ book[o].st # "none" => book'[o].st # "none"
                         /\ book[o].st = "filled" => book'[o] = book[o]
    BY DEF Onward
  <1>2. SnapInv'
    <2>. SUFFICES ASSUME NEW o \in Order
                  PROVE  Onward(snap[o], book'[o]) /\ (snap[o].at # 0 => snap[o].st = "filled")
      BY DEF SnapInv, loopVars
    <2>1. Onward(snap[o], book[o]) /\ (snap[o].at # 0 => snap[o].st = "filled")
      BY DEF TrackInv, SnapInv
    <2>2. Onward(book[o], book'[o])
      OBVIOUS
    <2>. QED  BY <2>1, <2>2, OnwardTwice
  <1>3. RowsFaithful'
    BY <1>1 DEF TrackInv, RowsFaithful, Is, BookInv
  <1>4. LoopInv'
    BY DEF TrackInv, LoopInv, loopVars
  <1>5. TradesInv'
    <2>1. \A i \in DOMAIN trades : trades[i].exit \in Order
      BY TradesAreExits DEF TrackInv
    <2>2. \A i \in DOMAIN trades : book'[trades[i].exit].at = book[trades[i].exit].at
      BY <1>1, <2>1 DEF TrackInv, TradesInv, BookInv
    <2>. QED  BY <2>2 DEF TrackInv, TradesInv, loopVars
  <1>. QED  BY <1>2, <1>3, <1>4, <1>5 DEF TrackInv

-----------------------------------------------------------------------------
(* Steps of the account.                                                   *)

\* An order that is open fills, and time goes on.
LEMMA FillKeeps == ASSUME TrackInv, NEW o \in Order, Fill(o) PROVE TrackInv'
  <1>1. /\ now \in Nat /\ now < MaxTime /\ MaxTime \in Nat /\ now' = now + 1
        /\ book \in [Order -> Record] /\ book[o].st = "open"
        /\ book' = [book EXCEPT ![o] = [st |-> "filled", at |-> now + 1]]
    BY TrackingAssumption DEF TrackInv, TypeOK, Fill, Is
  <1>2. book'[o] = [st |-> "filled", at |-> now + 1] /\ \A p \in Order : p # o => book'[p] = book[p]
    BY <1>1
  <1>3. [st |-> "filled", at |-> now + 1] \in Record
    BY <1>1 DEF Record, State
  <1>4. TypeOK'
    <2>1. book' \in [Order -> Record]
      BY <1>1, <1>3
    <2>2. now' \in 0..MaxTime
      BY <1>1
    <2>. QED  BY <2>1, <2>2 DEF TrackInv, TypeOK, Fill, loopVars
  <1>5. BookInv'
    <2>1. \A p \in Order : (book'[p].st = "filled" <=> book'[p].at # 0) /\ book'[p].at <= now'
      <3>. SUFFICES ASSUME NEW p \in Order
                    PROVE (book'[p].st = "filled" <=> book'[p].at # 0) /\ book'[p].at <= now'
        OBVIOUS
      <3>1. CASE p = o
        BY <1>1, <1>2, <3>1
      <3>2. CASE p # o
        <4>1. book[p].at \in Nat /\ book[p].at <= now /\ (book[p].st = "filled" <=> book[p].at # 0)
          BY <1>1 DEF TrackInv, BookInv, Record
        <4>. QED  BY <1>1, <1>2, <3>2, <4>1
      <3>. QED  BY <3>1, <3>2
    <2>2. \A k \in Trip : /\ book'[<<k, "close">>].st # "canceled"
                          /\ book'[<<k, "entry">>].st = "none" => book'[<<k, "leg">>].st = "none"
      <3>. SUFFICES ASSUME NEW k \in Trip
                    PROVE  /\ book'[<<k, "close">>].st # "canceled"
                           /\ book'[<<k, "entry">>].st = "none" => book'[<<k, "leg">>].st = "none"
        OBVIOUS
      <3>1. /\ book[<<k, "close">>].st # "canceled"
            /\ book[<<k, "entry">>].st = "none" => book[<<k, "leg">>].st = "none"
        BY DEF TrackInv, BookInv
      <3>. QED  BY <1>1, <1>2, <3>1, OrdersOfTrip
    <2>. QED  BY <2>1, <2>2 DEF BookInv
  <1>6. \A p \in Order : Onward(book[p], book'[p])
    BY <1>1, <1>2 DEF Onward
  <1>. QED  BY <1>4, <1>5, <1>6, AccountMoves DEF Fill

\* Orders that are sent or cancelled, at one moment.
Sent(o) == book[o].st = "none" /\ book'[o] = [st |-> "open", at |-> 0]
Called(o) == /\ book[o].st = "open" /\ o[2] # "close"
             /\ book'[o] = [st |-> "canceled", at |-> book[o].at]

\* What they were, and what they become.
LEMMA SentOrCalled ==
    ASSUME NEW o
    PROVE  /\ Sent(o) => /\ book[o].st = "none"
                         /\ book'[o].st = "open" /\ book'[o].at = 0
           /\ Called(o) => /\ book[o].st = "open" /\ o[2] # "close"
                           /\ book'[o].st = "canceled" /\ book'[o].at = book[o].at
  BY DEF Sent, Called

\* Sending and cancelling moves orders onward.
LEMMA SendOrCancel ==
    ASSUME TrackInv, TypeOK', UNCHANGED <<now, loopVars, orders, position, trades>>,
           \A o \in Order : book'[o] = book[o] \/ Sent(o) \/ Called(o),
           \A k \in Trip : book'[<<k, "entry">>].st = "none" => book'[<<k, "leg">>].st = "none"
    PROVE  TrackInv'
  <1>1. \A o \in Order : book[o] \in Record /\ now \in Nat
    BY TrackingAssumption DEF TrackInv, TypeOK
  <1>2. \A o \in Order : (book[o].st = "filled" <=> book[o].at # 0) /\ book[o].at <= now
    BY DEF TrackInv, BookInv
  <1>3. \A o \in Order : Onward(book[o], book'[o])
    BY SentOrCalled DEF Onward
  <1>4. \A o \in Order : (book'[o].st = "filled" <=> book'[o].at # 0) /\ book'[o].at <= now'
    <2>. SUFFICES ASSUME NEW o \in Order
                  PROVE (book'[o].st = "filled" <=> book'[o].at # 0) /\ book'[o].at <= now'
      OBVIOUS
    <2>1. book'[o] = book[o] \/ Sent(o) \/ Called(o)
      OBVIOUS
    <2>2. /\ book[o] \in Record /\ now \in Nat /\ now' = now
          /\ book[o].st = "filled" <=> book[o].at # 0
          /\ book[o].at <= now
      BY <1>1, <1>2
    <2>. QED  BY <2>1, <2>2 DEF Sent, Called, Record
  <1>5. \A k \in Trip : book'[<<k, "close">>].st # "canceled"
    <2>. SUFFICES ASSUME NEW k \in Trip PROVE book'[<<k, "close">>].st # "canceled"
      OBVIOUS
    <2>1. <<k, "close">> \in Order /\ <<k, "close">>[2] = "close"
      BY OrdersOfTrip
    <2>2. book[<<k, "close">>].st # "canceled"
      BY DEF TrackInv, BookInv
    <2>3. book'[<<k, "close">>] = book[<<k, "close">>] \/ Sent(<<k, "close">>)
      BY <2>1, SentOrCalled
    <2>. QED  BY <2>2, <2>3, SentOrCalled
  <1>6. BookInv'
    BY <1>4, <1>5 DEF BookInv
  <1>. QED  BY <1>3, <1>6, AccountMoves

\* What is cancelled was open, and keeps the rest of its record.
LEMMA CancelledOrder ==
    ASSUME TrackInv, NEW o \in Order
    PROVE  /\ Cancelled(o, "canceled") \in Record
           /\ \/ Cancelled(o, "canceled") = book[o]
              \/ /\ book[o].st = "open"
                 /\ Cancelled(o, "canceled") = [st |-> "canceled", at |-> book[o].at]
  <1>1. book[o] \in Record
    BY DEF TrackInv, TypeOK
  <1>. QED  BY <1>1 DEF Cancelled, Is, Record, State

\* The tables and loops keep their types while the account moves.
LEMMA AccountTypes ==
    ASSUME TrackInv, \A o \in Order : book'[o] \in Record, book' = [o \in Order |-> book'[o]],
           seen' \in SUBSET Order, managed' \in 0..Trips,
           UNCHANGED <<now, loopVars, up, orders, position, trades, crashes>>
    PROVE  TypeOK'
  <1>1. book' \in [Order -> Record]
    OBVIOUS
  <1>. QED  BY <1>1 DEF TrackInv, TypeOK, loopVars

\* The session ends: entries and legs are cancelled.
LEMMA DayEndsKeeps == TrackInv /\ DayEnds => TrackInv'
  <1>. SUFFICES ASSUME TrackInv, DayEnds PROVE TrackInv'
    OBVIOUS
  <1>1. /\ book' = [o \in Order |-> Cancelled(o, "canceled")]
        /\ \A k \in Trip : book[<<k, "close">>].st # "open"
        /\ UNCHANGED <<seen, now, loopVars, up, orders, position, managed, trades, crashes>>
    BY DEF DayEnds, Is
  <1>2. TypeOK'
    BY <1>1, CancelledOrder, AccountTypes DEF TrackInv, TypeOK
  <1>3. \A o \in Order : book'[o] = book[o] \/ Called(o)
    <2>. SUFFICES ASSUME NEW o \in Order, book'[o] # book[o] PROVE Called(o)
      OBVIOUS
    <2>1. book[o].st = "open" /\ book'[o] = [st |-> "canceled", at |-> book[o].at]
      BY <1>1, CancelledOrder
    <2>2. o[2] # "close"
      BY <1>1, <2>1, OrderParts
    <2>. QED  BY <2>1, <2>2 DEF Called
  <1>4. \A k \in Trip : book'[<<k, "entry">>].st = "none" => book'[<<k, "leg">>].st = "none"
    <2>. SUFFICES ASSUME NEW k \in Trip, book'[<<k, "entry">>].st = "none"
                  PROVE  book'[<<k, "leg">>].st = "none"
      OBVIOUS
    <2>1. <<k, "entry">> \in Order /\ <<k, "leg">> \in Order
      BY OrdersOfTrip
    <2>2. book[<<k, "entry">>].st = "none"
      BY <1>3, <2>1, SentOrCalled
    <2>3. book[<<k, "leg">>].st = "none"
      BY <2>2 DEF TrackInv, BookInv
    <2>. QED  BY <1>3, <2>1, <2>3 DEF Called
  <1>. QED  BY <1>1, <1>2, <1>3, <1>4, SendOrCancel

\* A flatten cancels the orders of a bracket and sends the one that closes it.
LEMMA FlattenKeeps == ASSUME TrackInv, NEW k \in Trip, Flatten(k) PROVE TrackInv'
  <1>1. /\ book' = [o \in Order |->
                      IF o[1] # k THEN book[o]
                      ELSE IF o[2] = "close" /\ Open(k) THEN [st |-> "open", at |-> 0]
                      ELSE Cancelled(o, "canceled")]
        /\ book[<<k, "close">>].st # "open"
        /\ seen' = IF up THEN seen \union {<<k, "close">>} ELSE seen
        /\ managed' \in {managed, 0}
        /\ UNCHANGED <<now, loopVars, up, orders, position, trades, crashes>>
    BY DEF Flatten, Is
  <1>2. TypeOK'
    <2>1. [st |-> "open", at |-> 0] \in Record
      BY TrackingAssumption DEF Record, State
    <2>2. \A o \in Order : book[o] \in Record
      BY DEF TrackInv, TypeOK
    <2>3. \A o \in Order : book'[o] \in Record
      BY <1>1, <2>1, <2>2, CancelledOrder
    <2>4. seen' \in SUBSET Order
      BY <1>1, OrdersOfTrip DEF TrackInv, TypeOK
    <2>5. managed' \in 0..Trips
      BY <1>1, TrackingAssumption DEF TrackInv, TypeOK
    <2>. QED  BY <1>1, <2>3, <2>4, <2>5, AccountTypes
  <1>3. \A o \in Order : book'[o] = book[o] \/ Sent(o) \/ Called(o)
    <2>. SUFFICES ASSUME NEW o \in Order, book'[o] # book[o] PROVE Sent(o) \/ Called(o)
      OBVIOUS
    <2>1. o[1] = k /\ o[2] \in Kind /\ o = <<k, o[2]>>
      BY <1>1, OrderParts
    <2>2. CASE o[2] = "close" /\ Open(k)
      <3>1. o \in Exits /\ book[o].st # "filled"
        BY <2>1, <2>2 DEF Exits, Open, Exited, Is
      <3>2. book[o].st # "open" /\ book[o].st # "canceled"
        BY <1>1, <2>1, <2>2 DEF TrackInv, BookInv
      <3>3. book[o].st = "none"
        BY <3>1, <3>2 DEF TrackInv, TypeOK, Record, State
      <3>. QED  BY <1>1, <2>1, <2>2, <3>3 DEF Sent
    <2>3. CASE ~(o[2] = "close" /\ Open(k))
      <3>1. book'[o] = Cancelled(o, "canceled")
        BY <1>1, <2>1, <2>3
      <3>2. book[o].st = "open" /\ book'[o] = [st |-> "canceled", at |-> book[o].at]
        BY <3>1, CancelledOrder
      <3>3. o[2] # "close"
        BY <1>1, <2>1, <3>2
      <3>. QED  BY <3>2, <3>3 DEF Called
    <2>. QED  BY <2>2, <2>3
  <1>4. \A j \in Trip : book'[<<j, "entry">>].st = "none" => book'[<<j, "leg">>].st = "none"
    <2>. SUFFICES ASSUME NEW j \in Trip, book'[<<j, "entry">>].st = "none"
                  PROVE  book'[<<j, "leg">>].st = "none"
      OBVIOUS
    <2>1. <<j, "entry">> \in Order /\ <<j, "leg">> \in Order /\ <<j, "leg">>[2] = "leg"
      BY OrdersOfTrip
    <2>2. book[<<j, "entry">>].st = "none"
      BY <1>3, <2>1, SentOrCalled
    <2>3. book[<<j, "leg">>].st = "none"
      BY <2>2 DEF TrackInv, BookInv
    <2>4. book'[<<j, "leg">>] \in {book[<<j, "leg">>], Cancelled(<<j, "leg">>, "canceled")}
      BY <1>1, <2>1
    <2>. QED  BY <2>1, <2>3, <2>4, CancelledOrder
  <1>. QED  BY <1>1, <1>2, <1>3, <1>4, SendOrCancel

\* A bracket is sent once: its entry and its leg were no orders before.
LEMMA EnterKeeps == ASSUME TrackInv, NEW k \in Trip, Enter(k) PROVE TrackInv'
  <1>. DEFINE e == <<k, "entry">>
              l == <<k, "leg">>
  <1>1. e \in Order /\ l \in Order /\ e # l
    BY OrdersOfTrip
  <1>2. /\ book[e].st = "none" /\ book[l].st = "none"
        /\ book[e] \in Record /\ book[l] \in Record
        /\ book[e].at = 0 /\ book[l].at = 0
    BY <1>1 DEF Enter, Is, TrackInv, BookInv, TypeOK
  <1>3. /\ book' = [book EXCEPT ![e].st = "open", ![l].st = "open"]
        /\ seen' = seen \union {e, l} /\ managed' \in {managed, k}
        /\ UNCHANGED <<now, loopVars, up, orders, position, trades, crashes>>
    BY DEF Enter
  <1>4. book \in [Order -> Record]
    BY DEF TrackInv, TypeOK
  <1>. HIDE DEF e, l
  <1>5. /\ book'[e] = [st |-> "open", at |-> 0] /\ book'[l] = [st |-> "open", at |-> 0]
        /\ \A o \in Order : o # e /\ o # l => book'[o] = book[o]
        /\ book' = [o \in Order |-> book'[o]]
    BY <1>1, <1>2, <1>3, <1>4 DEF Record
  <1>6. \A o \in Order : book'[o] = book[o] \/ Sent(o)
    BY <1>2, <1>5 DEF Sent
  <1>7. TypeOK'
    <2>1. [st |-> "open", at |-> 0] \in Record
      BY TrackingAssumption DEF Record, State
    <2>2. \A o \in Order : book'[o] \in Record
      BY <1>4, <1>6, <2>1 DEF Sent
    <2>3. seen' \in SUBSET Order /\ managed' \in 0..Trips
      BY <1>1, <1>3, TrackingAssumption DEF TrackInv, TypeOK, Trip
    <2>. QED  BY <1>3, <1>5, <2>2, <2>3, AccountTypes
  <1>8. \A j \in Trip : book'[<<j, "entry">>].st = "none" => book'[<<j, "leg">>].st = "none"
    <2>. SUFFICES ASSUME NEW j \in Trip, book'[<<j, "entry">>].st = "none"
                  PROVE  book'[<<j, "leg">>].st = "none"
      OBVIOUS
    <2>1. <<j, "entry">> \in Order /\ <<j, "leg">> \in Order
      BY OrdersOfTrip
    <2>2. book[<<j, "entry">>].st = "none" /\ j # k
      BY <1>5, <1>6, <2>1 DEF Sent, e
    <2>3. book[<<j, "leg">>].st = "none"
      BY <2>2 DEF TrackInv, BookInv
    <2>4. <<j, "leg">> # e /\ <<j, "leg">> # l
      BY <2>2 DEF e, l
    <2>. QED  BY <1>5, <2>1, <2>3, <2>4
  <1>. QED  BY <1>3, <1>6, <1>7, <1>8, SendOrCancel

-----------------------------------------------------------------------------
(* Steps of the loops.                                                     *)

\* An answer of the account is what it is at that moment, or nothing.
LEMMA SyncFetchKeeps == TrackInv /\ SyncFetch => TrackInv'
  <1>. SUFFICES ASSUME TrackInv, SyncFetch PROVE TrackInv'
    OBVIOUS
  <1>1. /\ loop = "idle" /\ loop' = "sync"
        /\ snap' = [o \in Order |-> IF o \in seen THEN book[o] ELSE None]
        /\ UNCHANGED <<book, seen, now, up, orders, position, managed, trades, held, closed, crashes>>
    BY DEF SyncFetch, Idle, acctVars
  <1>2. None \in Record /\ None.st = "none" /\ None.at = 0
    BY TrackingAssumption DEF None, Record, State
  <1>3. TypeOK'
    <2>1. snap' \in [Order -> Record]
      BY <1>1, <1>2 DEF TrackInv, TypeOK
    <2>. QED  BY <1>1, <2>1 DEF TrackInv, TypeOK
  <1>4. SnapInv'
    BY <1>1, <1>2 DEF TrackInv, BookInv, SnapInv, Onward
  <1>5. BookInv' /\ RowsFaithful' /\ LoopInv' /\ TradesInv'
    BY <1>1 DEF TrackInv, BookInv, RowsFaithful, Is, LoopInv, TradesInv
  <1>. QED  BY <1>3, <1>4, <1>5 DEF TrackInv

\* A row that is updated is still no further than the account.
LEMMA UpdatedFaithful ==
    ASSUME TrackInv, NEW o \in Order,
           NEW row, row \in {Updated(o), [st |-> snap[o].st, at |-> 0], orders[o]}
    PROVE  /\ row \in Record
           /\ row.st = "filled" => book[o].st = "filled"
           /\ row.st # "none" => book[o].st # "none"
           /\ row.at # 0 => row.at = book[o].at
  <1>1. /\ snap[o] \in Record /\ orders[o] \in Record /\ book[o] \in Record
        /\ Onward(snap[o], book[o]) /\ (snap[o].at # 0 => snap[o].st = "filled")
    BY DEF TrackInv, TypeOK, SnapInv
  <1>2. /\ orders[o].st = "filled" => book[o].st = "filled"
        /\ orders[o].st # "none" => book[o].st # "none"
        /\ orders[o].at # 0 => orders[o].at = book[o].at
    BY DEF TrackInv, RowsFaithful, Is
  <1>3. /\ snap[o].st = "filled" => book[o] = snap[o]
        /\ snap[o].st # "none" => book[o].st # "none"
        /\ snap[o].at # 0 => book[o] = snap[o]
    BY <1>1 DEF Onward
  <1>4. row \in {[st |-> snap[o].st, at |-> 0], snap[o], orders[o]}
    BY DEF Updated
  <1>5. CASE row = [st |-> snap[o].st, at |-> 0]
    BY <1>1, <1>3, <1>5, TrackingAssumption DEF Record
  <1>6. CASE row = snap[o]
    BY <1>1, <1>3, <1>6
  <1>7. CASE row = orders[o]
    BY <1>1, <1>2, <1>7
  <1>. QED  BY <1>4, <1>5, <1>6, <1>7

\* The transaction of the order poll writes such rows, or none.
LEMMA SyncApplyKeeps == TrackInv /\ SyncApply => TrackInv'
  <1>. SUFFICES ASSUME TrackInv, SyncApply PROVE TrackInv'
    OBVIOUS
  <1>1. /\ loop = "sync" /\ loop' = "idle" /\ snap' = NoSnap
        /\ UNCHANGED <<book, seen, now, up, position, managed, trades, held, closed, crashes>>
    BY DEF SyncApply, acctVars
  <1>2. /\ orders' = [o \in Order |-> orders'[o]]
        /\ \A o \in Order : orders'[o] \in {Updated(o), [st |-> snap[o].st, at |-> 0], orders[o]}
    <2>1. CASE orders' = orders
      BY <2>1 DEF TrackInv, TypeOK
    <2>2. CASE orders' = [o \in Order |-> CASE o \in Own     -> Updated(o)
                                            [] o \in NewLegs -> [st |-> snap[o].st, at |-> 0]
                                            [] OTHER         -> orders[o]]
      <3>1. \A o \in Order : o \in Own => o \notin NewLegs
        BY DEF Own, NewLegs
      <3>. QED  BY <2>2, <3>1
    <2>. QED  BY <2>1, <2>2 DEF SyncApply
  <1>3. None \in Record /\ None.st = "none" /\ None.at = 0
    BY TrackingAssumption DEF None, Record, State
  <1>4. TypeOK'
    <2>1. orders' \in [Order -> Record]
      BY <1>2, UpdatedFaithful
    <2>2. snap' \in [Order -> Record]
      BY <1>1, <1>3 DEF NoSnap
    <2>. QED  BY <1>1, <2>1, <2>2 DEF TrackInv, TypeOK
  <1>5. RowsFaithful'
    BY <1>1, <1>2, UpdatedFaithful DEF RowsFaithful, Is
  <1>6. SnapInv'
    BY <1>1, <1>3 DEF SnapInv, NoSnap, Onward
  <1>7. BookInv' /\ LoopInv' /\ TradesInv'
    BY <1>1 DEF TrackInv, BookInv, LoopInv, TradesInv
  <1>. QED  BY <1>4, <1>5, <1>6, <1>7 DEF TrackInv

\* What only asks, dies or starts.
LEMMA RunnerKeeps == TrackInv /\ (ReconcileFetch \/ Crash \/ Restart) => TrackInv'
  <1>. SUFFICES ASSUME TrackInv, ReconcileFetch \/ Crash \/ Restart PROVE TrackInv'
    OBVIOUS
  <1>1. UNCHANGED <<book, now, orders, position, managed, trades>>
    BY DEF ReconcileFetch, Crash, Restart, acctVars
  <1>2. None \in Record /\ None.st = "none" /\ None.at = 0
    BY TrackingAssumption DEF None, Record, State
  <1>3. /\ snap' \in {snap, NoSnap} /\ closed' \in {closed, 0}
        /\ \/ loop' = loop /\ closed' = closed
           \/ loop = "idle" /\ loop' = "reconcile" /\ closed' = closed
           \/ loop' = "idle" /\ closed' = 0
    BY DEF ReconcileFetch, Crash, Restart, Idle, loopVars
  <1>4. TypeOK'
    <2>1. NoSnap \in [Order -> Record]
      BY <1>2 DEF NoSnap
    <2>2. /\ up' \in BOOLEAN /\ held' \in BOOLEAN /\ seen' \in SUBSET Order
      BY DEF ReconcileFetch, Crash, Restart, loopVars, acctVars, TrackInv, TypeOK, Held
    <2>3. crashes' \in 0..MaxCrashes
      BY TrackingAssumption DEF ReconcileFetch, Crash, Restart, TrackInv, TypeOK
    <2>4. closed' \in 0..MaxTime
      BY <1>3, TrackingAssumption DEF TrackInv, TypeOK
    <2>5. loop' \in {"idle", "sync", "reconcile", "trade"} /\ snap' \in [Order -> Record]
      BY <1>3, <2>1 DEF TrackInv, TypeOK
    <2>. QED  BY <1>1, <2>2, <2>3, <2>4, <2>5 DEF TrackInv, TypeOK
  <1>5. SnapInv'
    BY <1>1, <1>2, <1>3 DEF TrackInv, SnapInv, NoSnap, Onward
  <1>6. LoopInv'
    BY <1>1, <1>3 DEF TrackInv, LoopInv
  <1>7. TradesInv'
    BY <1>1, <1>3 DEF TrackInv, TradesInv
  <1>8. BookInv' /\ RowsFaithful'
    BY <1>1 DEF TrackInv, BookInv, RowsFaithful, Is
  <1>. QED  BY <1>4, <1>5, <1>6, <1>7, <1>8 DEF TrackInv

\* A row is opened after everything that is booked, or hands its time on to its trade.
LEMMA ReconcileApplyKeeps == TrackInv /\ ReconcileApply => TrackInv'
  <1>. SUFFICES ASSUME TrackInv, ReconcileApply PROVE TrackInv'
    OBVIOUS
  <1>1. /\ loop = "reconcile" /\ held' = FALSE /\ managed' \in {managed, 0}
        /\ UNCHANGED <<book, seen, up, orders, trades, snap, crashes>>
        /\ closed = 0
    BY DEF ReconcileApply, ManagedKept, TrackInv, LoopInv
  <1>2. /\ now \in Nat /\ position \in 0..MaxTime /\ MaxTime \in Nat /\ now <= MaxTime
    BY TrackingAssumption DEF TrackInv, TypeOK
  <1>3. \A i \in DOMAIN trades : LET t == trades[i].exit
                                IN  /\ t \in Order /\ book[t].at \in Nat
                                    /\ book[t].at # 0 /\ book[t].at <= now
                                    /\ position # 0 => book[t].at < position
    BY TradesAreExits DEF TrackInv, TradesInv, BookInv, TypeOK, Record
  <1>4. \/ /\ now < MaxTime /\ now' = now + 1 /\ position' = now + 1
           /\ loop' = "idle" /\ closed' = 0
        \/ /\ position # 0 /\ closed' = position /\ position' = 0
           /\ loop' = "trade" /\ now' = now
        \/ /\ loop' = "idle" /\ now' = now /\ position' = position /\ closed' = 0
    BY <1>1 DEF ReconcileApply
  <1>5. TypeOK'
    <2>1. managed' \in 0..Trips
      BY <1>1, TrackingAssumption DEF TrackInv, TypeOK
    <2>2. now' \in 0..MaxTime /\ position' \in 0..MaxTime /\ closed' \in 0..MaxTime
      BY <1>2, <1>4
    <2>3. loop' \in {"idle", "sync", "reconcile", "trade"} /\ held' \in BOOLEAN
      BY <1>1, <1>4
    <2>. QED  BY <1>1, <2>1, <2>2, <2>3 DEF TrackInv, TypeOK
  <1>6. LoopInv'
    BY <1>2, <1>4 DEF LoopInv
  <1>7. TradesInv'
    <2>1. \A i \in DOMAIN trades : LET t == trades[i].exit
                                  IN  /\ book[t].at # 0
                                      /\ position' # 0 => book[t].at < position'
                                      /\ closed' # 0 => book[t].at < closed'
      BY <1>2, <1>3, <1>4
    <2>. QED  BY <1>1, <2>1 DEF TrackInv, TradesInv
  <1>8. BookInv'
    <2>1. \A o \in Order : book[o].at \in Nat /\ book[o].at <= now
      BY DEF TrackInv, BookInv, TypeOK, Record
    <2>2. now' \in Nat /\ now <= now'
      BY <1>2, <1>4
    <2>3. \A o \in Order : book[o].at <= now'
      BY <1>2, <2>1, <2>2
    <2>. QED  BY <1>1, <2>3 DEF TrackInv, BookInv
  <1>9. SnapInv' /\ RowsFaithful'
    BY <1>1 DEF TrackInv, SnapInv, RowsFaithful, Is
  <1>. QED  BY <1>5, <1>6, <1>7, <1>8, <1>9 DEF TrackInv

\* The exit of a trade was filled since its row was opened, which no booked one was.
LEMMA RecordTradeKeeps == TrackInv /\ RecordTrade => TrackInv'
  <1>. SUFFICES ASSUME TrackInv, RecordTrade PROVE TrackInv'
    OBVIOUS
  <1>1. /\ loop = "trade" /\ loop' = "idle" /\ closed' = 0 /\ closed # 0 /\ position = 0
        /\ UNCHANGED <<book, seen, now, up, orders, position, managed, snap, held, crashes>>
    BY DEF RecordTrade, acctVars, TrackInv, LoopInv
  <1>2. BookInv' /\ SnapInv' /\ RowsFaithful' /\ LoopInv'
    BY <1>1 DEF TrackInv, BookInv, SnapInv, RowsFaithful, Is, LoopInv
  <1>3. 0 \in 0..MaxTime
    BY TrackingAssumption
  <1>4. CASE trades' = trades
    BY <1>1, <1>2, <1>3, <1>4 DEF TrackInv, TypeOK, TradesInv
  <1>5. ASSUME NEW o \in Candidates(closed),
               trades' = Append(trades, [opened |-> closed, exit |-> o])
        PROVE  TrackInv'
    <2>. DEFINE E == [opened : 1..MaxTime, exit : Exits]
                t == [opened |-> closed, exit |-> o]
    <2>1. /\ o \in Exits /\ o \in Order /\ orders[o].at # 0 /\ orders[o].at >= closed
      BY DEF Candidates, Exits
    <2>2. book[o].at = orders[o].at
      BY <2>1 DEF TrackInv, RowsFaithful
    <2>3. closed \in 1..MaxTime
      BY <1>1, TrackingAssumption DEF TrackInv, TypeOK
    <2>4. t \in E /\ trades \in Seq(E)
      BY <2>1, <2>3 DEF TrackInv, TypeOK
    <2>. HIDE DEF E, t
    <2>5. trades' \in Seq(E) /\ trades' = Append(trades, t)
      BY <1>5, <2>4 DEF t
    <2>6. /\ DOMAIN trades' = DOMAIN trades \union {Len(trades) + 1}
          /\ trades'[Len(trades) + 1] = t
          /\ \A i \in DOMAIN trades : trades'[i] = trades[i] /\ i # Len(trades) + 1
      BY <2>4, <2>5
    <2>7. t.exit = o
      BY DEF t
    <2>8. \A i \in DOMAIN trades : /\ book[trades[i].exit].at # 0
                                   /\ book[trades[i].exit].at < closed
                                   /\ trades[i].exit \in Order
      BY <1>1, TradesAreExits DEF TrackInv, TradesInv
    <2>9. \A i \in DOMAIN trades : trades[i].exit # o
      <3>1. \A p \in Order : book[p].at \in Nat
        BY DEF TrackInv, TypeOK, Record
      <3>. QED  BY <2>1, <2>2, <2>3, <2>8, <3>1
    <2>10. \A i, j \in DOMAIN trades : trades[i].exit = trades[j].exit => i = j
      BY DEF TrackInv, TradesInv
    <2>11. \A i, j \in DOMAIN trades' : trades'[i].exit = trades'[j].exit => i = j
      BY <2>6, <2>7, <2>9, <2>10
    <2>12. \A i \in DOMAIN trades' : book'[trades'[i].exit].at # 0
      BY <1>1, <2>1, <2>2, <2>6, <2>7, <2>8
    <2>13. TradesInv'
      BY <1>1, <2>11, <2>12 DEF TradesInv
    <2>14. TypeOK'
      BY <1>1, <1>3, <2>5 DEF TrackInv, TypeOK, E
    <2>. QED  BY <1>2, <2>13, <2>14 DEF TrackInv
  <1>. QED  BY <1>4, <1>5 DEF RecordTrade

-----------------------------------------------------------------------------
(* The theorems.                                                           *)

\* Nothing is known at the beginning.
LEMMA TrackInit == Init => TrackInv
  <1>. SUFFICES ASSUME Init PROVE TrackInv
    OBVIOUS
  <1>1. None \in Record /\ None.st = "none" /\ None.at = 0
    BY TrackingAssumption DEF None, Record, State
  <1>2. NoSnap \in [Order -> Record] /\ \A o \in Order : NoSnap[o] = None
    BY <1>1 DEF NoSnap
  <1>3. TypeOK
    <2>1. 0 \in 0..MaxTime /\ 0 \in 0..Trips /\ 0 \in 0..MaxCrashes
      BY TrackingAssumption
    <2>2. up \in BOOLEAN /\ held \in BOOLEAN /\ seen \in SUBSET Order
          /\ loop \in {"idle", "sync", "reconcile", "trade"}
      BY DEF Init
    <2>3. trades \in Seq([opened : 1..MaxTime, exit : Exits])
      BY DEF Init
    <2>4. /\ now \in 0..MaxTime /\ position \in 0..MaxTime /\ closed \in 0..MaxTime
          /\ managed \in 0..Trips /\ crashes \in 0..MaxCrashes
      BY <2>1 DEF Init
    <2>5. book \in [Order -> Record] /\ orders \in [Order -> Record] /\ snap \in [Order -> Record]
      BY <1>2 DEF Init
    <2>. QED  BY <2>2, <2>3, <2>4, <2>5 DEF TypeOK
  <1>4. BookInv
    BY <1>1, <1>2, OrdersOfTrip DEF Init, BookInv
  <1>5. SnapInv /\ RowsFaithful
    BY <1>1, <1>2 DEF Init, SnapInv, Onward, RowsFaithful, Is
  <1>6. LoopInv /\ TradesInv
    BY DEF Init, LoopInv, TradesInv
  <1>. QED  BY <1>3, <1>4, <1>5, <1>6 DEF TrackInv

\* Every step keeps the invariant.
LEMMA TrackStep == TrackInv /\ [Next]_vars => TrackInv'
  <1>. SUFFICES ASSUME TrackInv, [Next]_vars PROVE TrackInv'
    OBVIOUS
  <1>1. ASSUME NEW k \in Trip, EntryFills(k) \/ LegFills(k) \/ CloseFills(k) PROVE TrackInv'
    BY <1>1, OrdersOfTrip, FillKeeps DEF EntryFills, LegFills, CloseFills
  <1>2. ASSUME NEW k \in Trip, Flatten(k) PROVE TrackInv'
    BY <1>2, FlattenKeeps
  <1>3. CASE DayEnds
    BY <1>3, DayEndsKeeps
  <1>4. ASSUME NEW k \in Trip, Enter(k) PROVE TrackInv'
    BY <1>4, EnterKeeps
  <1>5. CASE SyncFetch
    BY <1>5, SyncFetchKeeps
  <1>6. CASE SyncApply
    BY <1>6, SyncApplyKeeps
  <1>7. CASE ReconcileFetch \/ Crash \/ Restart
    BY <1>7, RunnerKeeps
  <1>8. CASE ReconcileApply
    BY <1>8, ReconcileApplyKeeps
  <1>9. CASE RecordTrade
    BY <1>9, RecordTradeKeeps
  <1>10. CASE UNCHANGED vars
    BY <1>10 DEF vars, acctVars, loopVars, TrackInv, TypeOK, BookInv, SnapInv, RowsFaithful, Is,
                 LoopInv, TradesInv
  <1>. QED
    BY <1>1, <1>2, <1>3, <1>4, <1>5, <1>6, <1>7, <1>8, <1>9, <1>10 DEF Next, AccountStep

\* The variables keep their types: a booked trade has an opening time and an exit.
THEOREM TrackingTypeCorrect == Spec => []TypeOK
  <1>1. TrackInv => TypeOK
    BY DEF TrackInv
  <1>. QED  BY TrackInit, TrackStep, <1>1, PTL DEF Spec

\* The orders table never runs ahead of the account, and a fill time in it is the account's
\* (tracking.py:41-93), however old the answers are that the poll applies.
THEOREM RowsAreFaithful == Spec => []RowsFaithful
  <1>1. TrackInv => RowsFaithful
    BY DEF TrackInv
  <1>. QED  BY TrackInit, TrackStep, <1>1, PTL DEF Spec

\* One sale is the exit of one trade at most (tracking.py:239-301), across any number of
\* brackets, crashes and fills that are seen late.
THEOREM SalesBookedOnce == Spec => []SoldOnce
  <1>1. TrackInv => SoldOnce
    <2>1. TypeOK => DOMAIN trades = 1..Len(trades)
      BY DEF TypeOK
    <2>. QED  BY <2>1 DEF TrackInv, TradesInv, SoldOnce
  <1>. QED  BY TrackInit, TrackStep, <1>1, PTL DEF Spec

-----------------------------------------------------------------------------
(* The account.                                                            *)

E(k) == book[<<k, "entry">>].st
L(k) == book[<<k, "leg">>].st
C(k) == book[<<k, "close">>].st

\* The states in which the three orders of a bracket are found together.
Shape(k) ==
    \/ E(k) \in {"none", "open", "canceled"} /\ L(k) = E(k) /\ C(k) = "none"
    \/ E(k) = "filled" /\ L(k) \in {"open", "filled"} /\ C(k) = "none"
    \/ E(k) = "filled" /\ L(k) = "canceled" /\ C(k) \in {"none", "open", "filled"}

Ended(k) == E(k) = "canceled" \/ L(k) = "filled" \/ C(k) = "filled"

\* A bracket is sent when those before it are over.
BracketsInv ==
    /\ \A k \in Trip : Shape(k)
    /\ \A j, k \in Trip : j < k /\ E(k) # "none" => Ended(j)

\* A bracket is exited when its leg or its closing order filled.
LEMMA ExitsOfTrip ==
    ASSUME NEW k \in Trip
    PROVE  /\ Exited(k) <=> L(k) = "filled" \/ C(k) = "filled"
           /\ Exited(k)' <=> L(k)' = "filled" \/ C(k)' = "filled"
           /\ Over(k) <=> Ended(k)
  <1>1. \A o : o \in Exits /\ o[1] = k <=> o = <<k, "leg">> \/ o = <<k, "close">>
    BY DEF Exits, Order, Kind
  <1>2. Exited(k) <=> L(k) = "filled" \/ C(k) = "filled"
    BY <1>1 DEF Exited, Is, L, C
  <1>3. Exited(k)' <=> L(k)' = "filled" \/ C(k)' = "filled"
    BY <1>1 DEF Exited, Is, L, C
  <1>. QED  BY <1>2, <1>3 DEF Over, Ended, Is, E

\* What Broker sees of a bracket whose orders are in these states.
Look(e, l, c) ==
    [sym    |-> IF e = "none" THEN "no_symbol" ELSE "symbol",
     status |-> CASE e = "none"                   -> "none"
                  [] e = "open"                   -> "working"
                  [] e = "canceled"               -> "canceled"
                  [] l = "filled" \/ c = "filled" -> "exited"
                  [] c = "open"                   -> "closing"
                  [] e = "filled" /\ l = "open"   -> "filled"
                  [] OTHER                        -> "naked"]

\* The bracket as Broker sees it depends on its three orders and on nothing else.
LEMMA BracketSeen ==
    ASSUME NEW k \in Trip
    PROVE  /\ Bracket(k) = Look(E(k), L(k), C(k))
           /\ Bracket(k)' = Look(E(k)', L(k)', C(k)')
  <1>1. Bracket(k) = Look(E(k), L(k), C(k))
    BY ExitsOfTrip DEF Bracket, Look, Is, E, L, C
  <1>2. Bracket(k)' = Look(E(k)', L(k)', C(k)')
    BY ExitsOfTrip DEF Bracket, Look, Is, E, L, C
  <1>. QED  BY <1>1, <1>2

\* The orders of all trips as Broker sees them, before and after a step.
Same(k) == E(k)' = E(k) /\ L(k)' = L(k) /\ C(k)' = C(k)

\* A bracket none of whose orders moved looks the same.
LEMMA SameSeen ==
    ASSUME NEW k \in Trip, Same(k)
    PROVE  /\ Bracket(k)' = Bracket(k)
           /\ Shape(k) => Shape(k)'
           /\ Ended(k) => Ended(k)'
  <1>1. Bracket(k)' = Bracket(k)
    BY BracketSeen DEF Same
  <1>2. Shape(k) => Shape(k)'
    BY DEF Same, Shape
  <1>3. Ended(k) => Ended(k)'
    BY DEF Same, Ended
  <1>. QED  BY <1>1, <1>2, <1>3

\* One bracket moves onward, the others stand still.
LEMMA OneMoves ==
    ASSUME BracketsInv, NEW k \in Trip, \A j \in Trip : j # k => Same(j),
           Shape(k)', Ended(k) => Ended(k)',
           E(k) # "none" \/ \A j \in Trip : j < k => Ended(j)
    PROVE  BracketsInv' /\ \A j \in Trip : j # k => Bracket(j)' = Bracket(j)
  <1>1. \A j \in Trip : j # k => /\ Bracket(j)' = Bracket(j)
                                 /\ Shape(j) => Shape(j)'
                                 /\ Ended(j) => Ended(j)'
    BY SameSeen
  <1>2. \A j \in Trip : Shape(j)'
    BY <1>1 DEF BracketsInv
  <1>3. ASSUME NEW i \in Trip, NEW j \in Trip, i < j, E(j)' # "none"
        PROVE  Ended(i)'
    <2>1. Ended(i)
      <3>1. CASE j = k
        BY <1>3, <3>1 DEF BracketsInv
      <3>2. CASE j # k
        <4>1. E(j) # "none"
          BY <1>3, <3>2 DEF Same
        <4>. QED  BY <1>3, <4>1 DEF BracketsInv
      <3>. QED  BY <3>1, <3>2
    <2>. QED  BY <1>1, <2>1
  <1>4. BracketsInv'
    BY <1>2, <1>3 DEF BracketsInv
  <1>. QED  BY <1>1, <1>4

\* An update of one order leaves every other order as it was.
LEMMA OneOrder ==
    ASSUME TypeOK, NEW o \in Order, NEW r, book' = [book EXCEPT ![o] = r]
    PROVE  /\ book'[o] = r
           /\ \A p \in Order : p # o => book'[p] = book[p]
           /\ \A j \in Trip : j # o[1] => Same(j)
  <1>1. book'[o] = r /\ \A p \in Order : p # o => book'[p] = book[p]
    BY DEF TypeOK
  <1>2. ASSUME NEW j \in Trip, j # o[1]
        PROVE  Same(j)
    <2>1. <<j, "entry">> # o /\ <<j, "leg">> # o /\ <<j, "close">> # o
      BY <1>2
    <2>. QED  BY <1>1, <2>1, OrdersOfTrip DEF Same, E, L, C
  <1>. QED  BY <1>1, <1>2

-----------------------------------------------------------------------------
(* Each step as a step of Broker.                                          *)

\* The entry fills.
LEMMA EntryFillMaps ==
    ASSUME TypeOK, BracketsInv, NEW k \in Trip, EntryFills(k)
    PROVE  BracketsInv' /\ Account!BrokerNext
  <1>1. E(k) = "open" /\ L(k) = "open" /\ C(k) = "none"
    BY DEF EntryFills, Fill, Is, E, BracketsInv, Shape
  <1>2. /\ E(k)' = "filled" /\ L(k)' = L(k) /\ C(k)' = C(k)
        /\ \A j \in Trip : j # k => Same(j)
    <2>1. book' = [book EXCEPT ![<<k, "entry">>] = [st |-> "filled", at |-> now + 1]]
      BY DEF EntryFills, Fill
    <2>2. /\ book'[<<k, "entry">>] = [st |-> "filled", at |-> now + 1]
          /\ \A p \in Order : p # <<k, "entry">> => book'[p] = book[p]
          /\ \A j \in Trip : j # k => Same(j)
      BY <2>1, OneOrder, OrdersOfTrip
    <2>. QED  BY <2>2, OrdersOfTrip DEF E, L, C
  <1>3. BracketsInv' /\ \A j \in Trip : j # k => Bracket(j)' = Bracket(j)
    BY <1>1, <1>2, OneMoves DEF Shape, Ended
  <1>4. Bracket(k) = [sym |-> "symbol", status |-> "working"]
    <2>1. Bracket(k) = Look("open", "open", "none")
      BY <1>1, BracketSeen
    <2>. QED  BY <2>1 DEF Look
  <1>5. Bracket(k)' = [sym |-> "symbol", status |-> "filled"]
    <2>1. Bracket(k)' = Look("filled", "open", "none")
      BY <1>1, <1>2, BracketSeen
    <2>. QED  BY <2>1 DEF Look
  <1>6. Account!EntryFills(k)
    <2>1. [i \in Trip |-> Bracket(i)][k].status = "working"
      BY <1>4
    <2>2. [i \in Trip |-> Bracket(i)]' = [[i \in Trip |-> Bracket(i)] EXCEPT ![k] = Bracket(k)']
      BY <1>3
    <2>3. Bracket(k)' = [Bracket(k) EXCEPT !.status = "filled"]
      BY <1>4, <1>5
    <2>. QED  BY <2>1, <2>2, <2>3 DEF Account!EntryFills
  <1>. QED  BY <1>3, <1>6 DEF Account!BrokerNext, Account!BrokerStep

\* The leg fills.
LEMMA LegFillMaps ==
    ASSUME TypeOK, BracketsInv, NEW k \in Trip, LegFills(k)
    PROVE  BracketsInv' /\ Account!BrokerNext
  <1>1. E(k) = "filled" /\ L(k) = "open" /\ C(k) = "none"
    BY DEF LegFills, Fill, Is, E, L, BracketsInv, Shape
  <1>2. /\ E(k)' = E(k) /\ L(k)' = "filled" /\ C(k)' = C(k)
        /\ \A j \in Trip : j # k => Same(j)
    <2>1. book' = [book EXCEPT ![<<k, "leg">>] = [st |-> "filled", at |-> now + 1]]
      BY DEF LegFills, Fill
    <2>2. /\ book'[<<k, "leg">>] = [st |-> "filled", at |-> now + 1]
          /\ \A p \in Order : p # <<k, "leg">> => book'[p] = book[p]
          /\ \A j \in Trip : j # k => Same(j)
      BY <2>1, OneOrder, OrdersOfTrip
    <2>. QED  BY <2>2, OrdersOfTrip DEF E, L, C
  <1>3. BracketsInv' /\ \A j \in Trip : j # k => Bracket(j)' = Bracket(j)
    BY <1>1, <1>2, OneMoves DEF Shape, Ended
  <1>4. Bracket(k) = [sym |-> "symbol", status |-> "filled"]
    <2>1. Bracket(k) = Look("filled", "open", "none")
      BY <1>1, BracketSeen
    <2>. QED  BY <2>1 DEF Look
  <1>5. Bracket(k)' = [sym |-> "symbol", status |-> "exited"]
    <2>1. Bracket(k)' = Look("filled", "filled", "none")
      BY <1>1, <1>2, BracketSeen
    <2>. QED  BY <2>1 DEF Look
  <1>6. Account!LegFills(k)
    <2>1. [i \in Trip |-> Bracket(i)][k].status = "filled"
      BY <1>4
    <2>2. [i \in Trip |-> Bracket(i)]' = [[i \in Trip |-> Bracket(i)] EXCEPT ![k] = Bracket(k)']
      BY <1>3
    <2>3. Bracket(k)' = [Bracket(k) EXCEPT !.status = "exited"]
      BY <1>4, <1>5
    <2>. QED  BY <2>1, <2>2, <2>3 DEF Account!LegFills
  <1>. QED  BY <1>3, <1>6 DEF Account!BrokerNext, Account!BrokerStep

\* The closing order fills.
LEMMA CloseFillMaps ==
    ASSUME TypeOK, BracketsInv, NEW k \in Trip, CloseFills(k)
    PROVE  BracketsInv' /\ Account!BrokerNext
  <1>1. E(k) = "filled" /\ L(k) = "canceled" /\ C(k) = "open"
    BY DEF CloseFills, Fill, Is, C, BracketsInv, Shape
  <1>2. /\ E(k)' = E(k) /\ L(k)' = L(k) /\ C(k)' = "filled"
        /\ \A j \in Trip : j # k => Same(j)
    <2>1. book' = [book EXCEPT ![<<k, "close">>] = [st |-> "filled", at |-> now + 1]]
      BY DEF CloseFills, Fill
    <2>2. /\ book'[<<k, "close">>] = [st |-> "filled", at |-> now + 1]
          /\ \A p \in Order : p # <<k, "close">> => book'[p] = book[p]
          /\ \A j \in Trip : j # k => Same(j)
      BY <2>1, OneOrder, OrdersOfTrip
    <2>. QED  BY <2>2, OrdersOfTrip DEF E, L, C
  <1>3. BracketsInv' /\ \A j \in Trip : j # k => Bracket(j)' = Bracket(j)
    BY <1>1, <1>2, OneMoves DEF Shape, Ended
  <1>4. Bracket(k) = [sym |-> "symbol", status |-> "closing"]
    <2>1. Bracket(k) = Look("filled", "canceled", "open")
      BY <1>1, BracketSeen
    <2>. QED  BY <2>1 DEF Look
  <1>5. Bracket(k)' = [sym |-> "symbol", status |-> "exited"]
    <2>1. Bracket(k)' = Look("filled", "canceled", "filled")
      BY <1>1, <1>2, BracketSeen
    <2>. QED  BY <2>1 DEF Look
  <1>6. Account!CloseFills(k)
    <2>1. [i \in Trip |-> Bracket(i)][k].status = "closing"
      BY <1>4
    <2>2. [i \in Trip |-> Bracket(i)]' = [[i \in Trip |-> Bracket(i)] EXCEPT ![k] = Bracket(k)']
      BY <1>3
    <2>3. Bracket(k)' = [Bracket(k) EXCEPT !.status = "exited"]
      BY <1>4, <1>5
    <2>. QED  BY <2>1, <2>2, <2>3 DEF Account!CloseFills
  <1>. QED  BY <1>3, <1>6 DEF Account!BrokerNext, Account!BrokerStep

\* A bracket is sent: Broker accepts it.
LEMMA EnterMaps ==
    ASSUME TypeOK, BracketsInv, NEW k \in Trip, Enter(k)
    PROVE  BracketsInv' /\ Account!BrokerNext
  <1>1. E(k) = "none" /\ L(k) = "none" /\ C(k) = "none"
    BY DEF Enter, Is, E, BracketsInv, Shape
  <1>2. \A j \in Trip : j < k => Ended(j)
    <2>1. ASSUME NEW j \in Trip, j < k
          PROVE  Ended(j)
      <3>1. j \in 1..(k - 1)
        BY <2>1, TrackingAssumption DEF Trip
      <3>2. Over(j)
        BY <3>1 DEF Enter
      <3>. QED  BY <3>2, ExitsOfTrip
    <2>. QED  BY <2>1
  <1>3. /\ E(k)' = "open" /\ L(k)' = "open" /\ C(k)' = C(k)
        /\ \A j \in Trip : j # k => Same(j)
    <2>1. \A o \in Order : o # <<k, "entry">> /\ o # <<k, "leg">> => book'[o] = book[o]
      BY DEF Enter, TypeOK
    <2>2. book[<<k, "entry">>] \in Record /\ book[<<k, "leg">>] \in Record
      BY OrdersOfTrip DEF TypeOK
    <2>3. book'[<<k, "entry">>].st = "open" /\ book'[<<k, "leg">>].st = "open"
      BY <2>2, OrdersOfTrip DEF Enter, TypeOK, Record
    <2>4. \A j \in Trip : j # k => Same(j)
      <3>. SUFFICES ASSUME NEW j \in Trip, j # k
                    PROVE  Same(j)
        OBVIOUS
      <3>1. \A x, y : <<j, x>> # <<k, y>>
        OBVIOUS
      <3>. QED  BY <2>1, <3>1, OrdersOfTrip DEF Same, E, L, C
    <2>. QED  BY <2>1, <2>3, <2>4, OrdersOfTrip DEF E, L, C
  <1>4. BracketsInv' /\ \A j \in Trip : j # k => Bracket(j)' = Bracket(j)
    <2>1. Shape(k)' /\ ~Ended(k)
      BY <1>1, <1>3 DEF Shape, Ended
    <2>2. \A j \in Trip : j < k => Ended(j)
      BY <1>2
    <2>. QED  BY <1>3, <2>1, <2>2, OneMoves
  <1>5. Bracket(k) = [sym |-> "no_symbol", status |-> "none"]
    <2>1. Bracket(k) = Look("none", "none", "none")
      BY <1>1, BracketSeen
    <2>. QED  BY <2>1 DEF Look
  <1>6. Bracket(k)' = [sym |-> "symbol", status |-> "working"]
    <2>1. Bracket(k)' = Look("open", "open", "none")
      BY <1>1, <1>3, BracketSeen
    <2>. QED  BY <2>1 DEF Look
  <1>7. Account!Accept(k, "symbol")
    <2>1. [i \in Trip |-> Bracket(i)]' = [[i \in Trip |-> Bracket(i)] EXCEPT ![k] = Bracket(k)']
      BY <1>4
    <2>. QED  BY <1>6, <2>1 DEF Account!Accept
  <1>8. [i \in Trip |-> Bracket(i)][k].status = "none"
    BY <1>5
  <1>. QED  BY <1>4, <1>7, <1>8 DEF Account!BrokerNext

\* What a flatten makes of the orders of a bracket that has not ended.
LEMMA FlattenBook ==
    ASSUME TypeOK, BracketsInv, NEW k \in Trip, Flatten(k)
    PROVE  /\ \A j \in Trip : j # k => Same(j)
           /\ \/ /\ E(k) = "open" /\ L(k) = "open" /\ C(k) = "none"
                 /\ E(k)' = "canceled" /\ L(k)' = "canceled" /\ C(k)' = "none"
              \/ /\ E(k) = "filled" /\ L(k) \in {"open", "canceled"} /\ C(k) = "none"
                 /\ E(k)' = "filled" /\ L(k)' = "canceled" /\ C(k)' = "open"
  <1>. DEFINE B(o) == IF o[1] # k THEN book[o]
                      ELSE IF o[2] = "close" /\ Open(k) THEN [st |-> "open", at |-> 0]
                      ELSE Cancelled(o, "canceled")
  <1>1. book' = [o \in Order |-> B(o)]
    BY DEF Flatten
  <1>. HIDE DEF B
  <1>2. \A o \in Order : book'[o] = B(o)
    BY <1>1
  <1>3. \A j \in Trip : j # k => Same(j)
    <2>. SUFFICES ASSUME NEW j \in Trip, j # k
                  PROVE  Same(j)
      OBVIOUS
    <2>1. \A x : B(<<j, x>>) = book[<<j, x>>]
      BY DEF B
    <2>. QED  BY <1>2, <2>1, OrdersOfTrip DEF Same, E, L, C
  <1>4. /\ book'[<<k, "entry">>] = Cancelled(<<k, "entry">>, "canceled")
        /\ book'[<<k, "leg">>] = Cancelled(<<k, "leg">>, "canceled")
        /\ book'[<<k, "close">>] = IF Open(k) THEN [st |-> "open", at |-> 0]
                                   ELSE Cancelled(<<k, "close">>, "canceled")
    <2>1. /\ B(<<k, "entry">>) = Cancelled(<<k, "entry">>, "canceled")
          /\ B(<<k, "leg">>) = Cancelled(<<k, "leg">>, "canceled")
      BY DEF B
    <2>2. B(<<k, "close">>) = IF Open(k) THEN [st |-> "open", at |-> 0]
                              ELSE Cancelled(<<k, "close">>, "canceled")
      BY DEF B
    <2>. QED  BY <1>2, <2>1, <2>2, OrdersOfTrip
  <1>5. \A o \in Order : Cancelled(o, "canceled").st =
                            IF book[o].st = "open" THEN "canceled" ELSE book[o].st
    <2>1. \A o \in Order : book[o] \in Record
      BY DEF TypeOK
    <2>. QED  BY <2>1 DEF Cancelled, Is, Record
  <1>6. /\ E(k)' = IF E(k) = "open" THEN "canceled" ELSE E(k)
        /\ L(k)' = IF L(k) = "open" THEN "canceled" ELSE L(k)
        /\ C(k)' = IF Open(k) THEN "open" ELSE IF C(k) = "open" THEN "canceled" ELSE C(k)
    BY <1>4, <1>5, OrdersOfTrip DEF E, L, C
  <1>7. Open(k) <=> E(k) = "filled" /\ L(k) # "filled" /\ C(k) # "filled"
    BY ExitsOfTrip DEF Open, Is, E
  <1>8. (E(k) = "open" \/ Open(k)) /\ C(k) # "open" /\ Shape(k)
    BY DEF Flatten, Is, E, C, BracketsInv
  <1>9. CASE E(k) = "open"
    BY <1>3, <1>6, <1>7, <1>8, <1>9 DEF Shape
  <1>10. CASE Open(k)
    BY <1>3, <1>6, <1>7, <1>8, <1>10 DEF Shape
  <1>. QED  BY <1>8, <1>9, <1>10

\* An ended bracket, and one that was not sent, have nothing a flatten could close.
LEMMA EndedSeen ==
    ASSUME NEW k \in Trip, Shape(k), Ended(k) \/ E(k) = "none"
    PROVE  Bracket(k).status \in {"none", "canceled", "exited"}
  <1>1. Bracket(k) = Look(E(k), L(k), C(k))
    BY BracketSeen
  <1>2. CASE E(k) = "none"
    <2>1. Look("none", L(k), C(k)).status = "none"
      BY <1>2 DEF Look, Shape
    <2>. QED  BY <1>1, <1>2, <2>1
  <1>3. CASE E(k) = "canceled"
    <2>1. Look("canceled", "canceled", "none").status = "canceled"
      BY DEF Look
    <2>. QED  BY <1>1, <1>3, <2>1 DEF Shape
  <1>4. CASE E(k) = "filled" /\ L(k) = "filled"
    <2>1. Look("filled", "filled", "none").status = "exited"
      BY DEF Look
    <2>. QED  BY <1>1, <1>4, <2>1 DEF Shape
  <1>5. CASE E(k) = "filled" /\ C(k) = "filled"
    <2>1. Look("filled", "canceled", "filled").status = "exited"
      BY DEF Look
    <2>. QED  BY <1>1, <1>5, <2>1 DEF Shape
  <1>. QED  BY <1>2, <1>3, <1>4, <1>5 DEF Shape, Ended

\* A flatten closes the one bracket that has not ended: Broker closes everything.
LEMMA FlattenMaps ==
    ASSUME TypeOK, BracketsInv, NEW k \in Trip, Flatten(k)
    PROVE  BracketsInv' /\ Account!BrokerNext
  <1>1. /\ \A j \in Trip : j # k => Same(j)
        /\ \/ /\ E(k) = "open" /\ L(k) = "open" /\ C(k) = "none"
              /\ E(k)' = "canceled" /\ L(k)' = "canceled" /\ C(k)' = "none"
           \/ /\ E(k) = "filled" /\ L(k) \in {"open", "canceled"} /\ C(k) = "none"
              /\ E(k)' = "filled" /\ L(k)' = "canceled" /\ C(k)' = "open"
    BY FlattenBook
  <1>2. BracketsInv' /\ \A j \in Trip : j # k => Bracket(j)' = Bracket(j)
    <2>1. Shape(k)' /\ ~Ended(k) /\ E(k) # "none"
      BY <1>1 DEF Shape, Ended
    <2>. QED  BY <1>1, <2>1, OneMoves
  <1>3. ASSUME NEW j \in Trip, j # k
        PROVE  Bracket(j).status \in {"none", "canceled", "exited"}
    <2>1. ~Ended(k) /\ E(k) # "none"
      BY <1>1 DEF Ended
    <2>2. Ended(j) \/ E(j) = "none"
      <3>1. j < k \/ k < j
        BY <1>3 DEF Trip
      <3>. QED  BY <2>1, <3>1 DEF BracketsInv
    <2>. QED  BY <2>2, EndedSeen DEF BracketsInv
  <1>4. \/ /\ Bracket(k) = [sym |-> "symbol", status |-> "working"]
           /\ Bracket(k)' = [sym |-> "symbol", status |-> "canceled"]
        \/ /\ Bracket(k) = [sym |-> "symbol", status |-> "filled"]
           /\ Bracket(k)' = [sym |-> "symbol", status |-> "closing"]
        \/ /\ Bracket(k) = [sym |-> "symbol", status |-> "naked"]
           /\ Bracket(k)' = [sym |-> "symbol", status |-> "closing"]
    <2>1. /\ Look("open", "open", "none") = [sym |-> "symbol", status |-> "working"]
          /\ Look("canceled", "canceled", "none") = [sym |-> "symbol", status |-> "canceled"]
          /\ Look("filled", "open", "none") = [sym |-> "symbol", status |-> "filled"]
          /\ Look("filled", "canceled", "none") = [sym |-> "symbol", status |-> "naked"]
          /\ Look("filled", "canceled", "open") = [sym |-> "symbol", status |-> "closing"]
      BY DEF Look
    <2>2. Bracket(k) = Look(E(k), L(k), C(k)) /\ Bracket(k)' = Look(E(k)', L(k)', C(k)')
      BY BracketSeen
    <2>. QED  BY <1>1, <2>1, <2>2
  <1>5. \A j \in Trip :
           Bracket(j)' = CASE Bracket(j).status = "working" ->
                                [Bracket(j) EXCEPT !.status = "canceled"]
                           [] Bracket(j).status \in {"filled", "naked"} ->
                                [Bracket(j) EXCEPT !.status = "closing"]
                           [] OTHER -> Bracket(j)
    <2>. SUFFICES ASSUME NEW j \in Trip
                  PROVE  Bracket(j)' = CASE Bracket(j).status = "working" ->
                                              [Bracket(j) EXCEPT !.status = "canceled"]
                                         [] Bracket(j).status \in {"filled", "naked"} ->
                                              [Bracket(j) EXCEPT !.status = "closing"]
                                         [] OTHER -> Bracket(j)
      OBVIOUS
    <2>1. CASE j # k
      BY <1>2, <1>3, <2>1
    <2>2. CASE j = k
      BY <1>4, <2>2
    <2>. QED  BY <2>1, <2>2
  <1>6. [j \in Trip |-> Bracket(j)]' = Account!CloseAll([j \in Trip |-> Bracket(j)])
    BY <1>5 DEF Account!CloseAll
  <1>. QED  BY <1>2, <1>6 DEF Account!BrokerNext

\* The session ends: in Broker too the entries and the legs expire.
LEMMA DayEndsMaps ==
    ASSUME TypeOK, BracketsInv, DayEnds
    PROVE  BracketsInv' /\ Account!BrokerNext
  <1>1. \A k \in Trip : /\ E(k)' = IF E(k) = "open" THEN "canceled" ELSE E(k)
                        /\ L(k)' = IF L(k) = "open" THEN "canceled" ELSE L(k)
                        /\ C(k)' = C(k) /\ C(k) # "open"
    <2>1. \A o \in Order : book'[o] = Cancelled(o, "canceled")
      BY DEF DayEnds
    <2>2. \A o \in Order : book'[o].st = IF book[o].st = "open" THEN "canceled" ELSE book[o].st
      <3>1. \A o \in Order : book[o] \in Record
        BY DEF TypeOK
      <3>. QED  BY <2>1, <3>1 DEF Cancelled, Is, Record
    <2>3. \A k \in Trip : book[<<k, "close">>].st # "open"
      BY DEF DayEnds, Is
    <2>. QED  BY <2>2, <2>3, OrdersOfTrip DEF E, L, C
  <1>2. BracketsInv'
    <2>1. \A k \in Trip : Shape(k)'
      BY <1>1 DEF BracketsInv, Shape
    <2>2. \A k \in Trip : (Ended(k) => Ended(k)') /\ (E(k)' # "none" => E(k) # "none")
      BY <1>1 DEF Ended
    <2>. QED  BY <2>1, <2>2 DEF BracketsInv
  <1>3. \A k \in Trip :
           Bracket(k)' = CASE Bracket(k).status = "working" ->
                                [Bracket(k) EXCEPT !.status = "canceled"]
                           [] Bracket(k).status = "filled" ->
                                [Bracket(k) EXCEPT !.status = "naked"]
                           [] OTHER -> Bracket(k)
    <2>. SUFFICES ASSUME NEW k \in Trip
                  PROVE  Bracket(k)' = CASE Bracket(k).status = "working" ->
                                              [Bracket(k) EXCEPT !.status = "canceled"]
                                         [] Bracket(k).status = "filled" ->
                                              [Bracket(k) EXCEPT !.status = "naked"]
                                         [] OTHER -> Bracket(k)
      OBVIOUS
    <2>1. Bracket(k) = Look(E(k), L(k), C(k)) /\ Bracket(k)' = Look(E(k)', L(k)', C(k)')
      BY BracketSeen
    <2>2. Shape(k)
      BY DEF BracketsInv
    <2>3. CASE E(k) = "open"
      <3>1. /\ Look("open", "open", "none") = [sym |-> "symbol", status |-> "working"]
            /\ Look("canceled", "canceled", "none") = [sym |-> "symbol", status |-> "canceled"]
        BY DEF Look
      <3>2. /\ Bracket(k) = [sym |-> "symbol", status |-> "working"]
            /\ Bracket(k)' = [sym |-> "symbol", status |-> "canceled"]
        BY <1>1, <2>1, <2>2, <2>3, <3>1 DEF Shape
      <3>. QED  BY <3>2
    <2>4. CASE E(k) = "filled" /\ L(k) = "open"
      <3>1. /\ Look("filled", "open", "none") = [sym |-> "symbol", status |-> "filled"]
            /\ Look("filled", "canceled", "none") = [sym |-> "symbol", status |-> "naked"]
        BY DEF Look
      <3>2. /\ Bracket(k) = [sym |-> "symbol", status |-> "filled"]
            /\ Bracket(k)' = [sym |-> "symbol", status |-> "naked"]
        BY <1>1, <2>1, <2>2, <2>4, <3>1 DEF Shape
      <3>. QED  BY <3>2
    <2>5. CASE E(k) # "open" /\ ~(E(k) = "filled" /\ L(k) = "open")
      <3>1. Same(k)
        BY <1>1, <2>2, <2>5 DEF Same, Shape
      <3>2. Bracket(k)' = Bracket(k)
        BY <3>1, SameSeen
      <3>3. Bracket(k).status \in {"none", "canceled", "exited", "naked"}
        <4>1. CASE Ended(k) \/ E(k) = "none"
          BY <2>2, <4>1, EndedSeen
        <4>2. CASE E(k) = "filled" /\ L(k) = "canceled" /\ C(k) = "none"
          <5>1. Look("filled", "canceled", "none").status = "naked"
            BY DEF Look
          <5>. QED  BY <2>1, <4>2, <5>1
        <4>. QED  BY <1>1, <2>2, <2>5, <4>1, <4>2 DEF Shape, Ended
      <3>. QED  BY <3>2, <3>3
    <2>. QED  BY <2>3, <2>4, <2>5
  <1>4. [k \in Trip |-> Bracket(k)]' = Account!ExpireDayOrders([k \in Trip |-> Bracket(k)])
    BY <1>3 DEF Account!ExpireDayOrders
  <1>. QED  BY <1>2, <1>4 DEF Account!BrokerNext

\* A step that leaves the account alone changes nothing Broker sees.
LEMMA RestMaps ==
    ASSUME BracketsInv, UNCHANGED book
    PROVE  BracketsInv' /\ UNCHANGED [k \in Trip |-> Bracket(k)]
  <1>1. \A k \in Trip : Same(k)
    BY DEF Same, E, L, C
  <1>2. \A k \in Trip : Bracket(k)' = Bracket(k)
    BY <1>1, SameSeen
  <1>3. BracketsInv'
    BY <1>1 DEF BracketsInv, Shape, Ended, Same
  <1>. QED  BY <1>2, <1>3

\* Every step of the books is a step of Broker or none.
LEMMA BrokerStepMaps ==
    TypeOK /\ BracketsInv /\ [Next]_vars =>
        BracketsInv' /\ [Account!BrokerNext]_([k \in Trip |-> Bracket(k)])
  <1>. SUFFICES ASSUME TypeOK, BracketsInv, [Next]_vars
                PROVE  BracketsInv' /\ [Account!BrokerNext]_([k \in Trip |-> Bracket(k)])
    OBVIOUS
  <1>1. ASSUME NEW k \in Trip, EntryFills(k) \/ LegFills(k) \/ CloseFills(k) \/ Flatten(k)
        PROVE  BracketsInv' /\ Account!BrokerNext
    BY <1>1, EntryFillMaps, LegFillMaps, CloseFillMaps, FlattenMaps
  <1>2. ASSUME NEW k \in Trip, Enter(k)
        PROVE  BracketsInv' /\ Account!BrokerNext
    BY <1>2, EnterMaps
  <1>3. CASE DayEnds
    BY <1>3, DayEndsMaps
  <1>4. CASE \/ SyncFetch \/ SyncApply \/ ReconcileFetch \/ ReconcileApply \/ RecordTrade
             \/ Crash \/ Restart \/ UNCHANGED vars
    <2>1. UNCHANGED book
      BY <1>4 DEF SyncFetch, SyncApply, ReconcileFetch, ReconcileApply, RecordTrade, Crash,
                  Restart, vars, acctVars
    <2>. QED  BY <2>1, RestMaps
  <1>. QED  BY <1>1, <1>2, <1>3, <1>4 DEF Next, AccountStep

\* AccountIsBroker: whatever the loops, the flattens and the end of the session do, every
\* step of the account is one that Broker allows.
THEOREM TrackingImplementsBroker == Spec => AccountIsBroker
  <1>1. Init => BracketsInv /\ Account!BrokerInit
    <2>. SUFFICES ASSUME Init
                  PROVE  BracketsInv /\ Account!BrokerInit
      OBVIOUS
    <2>1. \A k \in Trip : E(k) = "none" /\ L(k) = "none" /\ C(k) = "none"
      BY OrdersOfTrip DEF Init, NoSnap, None, E, L, C
    <2>2. BracketsInv
      BY <2>1 DEF BracketsInv, Shape
    <2>3. Look("none", "none", "none") = [sym |-> "no_symbol", status |-> "none"]
      BY DEF Look
    <2>4. \A k \in Trip : Bracket(k) = [sym |-> "no_symbol", status |-> "none"]
      BY <2>1, <2>3, BracketSeen
    <2>. QED  BY <2>2, <2>4 DEF Account!BrokerInit, Account!NoOrder
  <1>2. TrackInv => TypeOK
    BY DEF TrackInv
  <1>. QED  BY <1>1, <1>2, BrokerStepMaps, TrackInit, TrackStep, PTL
            DEF Spec, AccountIsBroker, Account!BrokerSpec

-----------------------------------------------------------------------------
(* Trades and brackets.                                                    *)

\* The bracket whose shares a row stands for was filled before the row was opened, and no
\* order fills at the moment a row is opened.
Entered(t) == \E k \in Trip : book[<<k, "entry">>].at # 0 /\ book[<<k, "entry">>].at < t

RowInv(t) == t # 0 => t <= now /\ Entered(t) /\ \A o \in Order : book[o].at # t

\* A bracket is entered after those before it were sold.
ApartInv ==
    \A j, k \in Trip : j < k =>
        \A o \in Exits : o[1] = j /\ book[o].at # 0 /\ book[<<k, "entry">>].at # 0 =>
            book[o].at < book[<<k, "entry">>].at

RealTrade(t) ==
    /\ t.opened < book[t.exit].at
    /\ \E k \in 1..t.exit[1] : /\ book[<<k, "entry">>].at # 0
                               /\ book[<<k, "entry">>].at < t.opened

RealInv ==
    /\ held => \E k \in Trip : book[<<k, "entry">>].at # 0
    /\ RowInv(position) /\ RowInv(closed)
    /\ ApartInv
    /\ \A i \in DOMAIN trades : RealTrade(trades[i])

\* What has filled stays, and what fills was open and takes the next moment.
Fills ==
    /\ \A o \in Order : book[o].at # 0 => book'[o] = book[o]
    /\ \A o \in Order : book'[o].at # 0 =>
          \/ book'[o] = book[o]
          \/ book'[o].at = now + 1 /\ now' = now + 1 /\ book[o].st = "open"

\* A fill is such a step.
LEMMA FillFills == ASSUME TrackInv, NEW o \in Order, Fill(o) PROVE Fills
  <1>1. /\ book' = [book EXCEPT ![o] = [st |-> "filled", at |-> now + 1]]
        /\ book[o].st = "open" /\ now' = now + 1
    BY DEF Fill, Is
  <1>2. book[o].at = 0
    BY <1>1 DEF TrackInv, BookInv
  <1>3. /\ book'[o] = [st |-> "filled", at |-> now + 1]
        /\ \A p \in Order : p # o => book'[p] = book[p]
    BY <1>1 DEF TrackInv, TypeOK
  <1>. QED  BY <1>1, <1>2, <1>3 DEF Fills

\* Sending and cancelling fills nothing and undoes no fill.
LEMMA OthersFill ==
    ASSUME TrackInv, DayEnds \/ \E k \in Trip : Flatten(k) \/ Enter(k)
    PROVE  Fills
  <1>1. \A o \in Order : /\ book[o] \in Record
                         /\ book[o].st = "filled" <=> book[o].at # 0
    BY DEF TrackInv, TypeOK, BookInv
  <1>2. \A o \in Order : /\ book[o].st = "filled" => Cancelled(o, "canceled") = book[o]
                         /\ book[o].st # "filled" => Cancelled(o, "canceled").at = 0
    BY <1>1 DEF Cancelled, Is, Record
  <1>3. CASE DayEnds
    <2>1. \A o \in Order : book'[o] = Cancelled(o, "canceled")
      BY <1>3 DEF DayEnds
    <2>. QED  BY <1>1, <1>2, <2>1 DEF Fills
  <1>4. ASSUME NEW k \in Trip, Flatten(k)
        PROVE  Fills
    <2>1. \A o \in Order : book'[o] = IF o[1] # k THEN book[o]
                                      ELSE IF o[2] = "close" /\ Open(k) THEN [st |-> "open", at |-> 0]
                                      ELSE Cancelled(o, "canceled")
      BY <1>4 DEF Flatten
    <2>2. \A o \in Order : o[1] = k /\ o[2] = "close" /\ Open(k) => book[o].st # "filled"
      BY DEF Open, Exited, Exits, Is
    <2>3. [st |-> "open", at |-> 0].at = 0
      OBVIOUS
    <2>. QED  BY <1>1, <1>2, <2>1, <2>2, <2>3 DEF Fills
  <1>5. ASSUME NEW k \in Trip, Enter(k)
        PROVE  Fills
    <2>. DEFINE e == <<k, "entry">>
                l == <<k, "leg">>
    <2>1. e \in Order /\ l \in Order /\ book[e].st = "none" /\ book[l].st = "none"
      BY <1>5, OrdersOfTrip DEF Enter, Is, TrackInv, BookInv
    <2>2. /\ book' = [book EXCEPT ![e].st = "open", ![l].st = "open"]
          /\ book \in [Order -> Record]
      BY <1>5 DEF Enter, TrackInv, TypeOK
    <2>. HIDE DEF e, l
    <2>3. \A o \in Order : o # e /\ o # l => book'[o] = book[o]
      BY <2>2
    <2>4. book'[e].at = book[e].at /\ book'[l].at = book[l].at
      BY <2>1, <2>2 DEF Record
    <2>. QED  BY <1>1, <2>1, <2>3, <2>4 DEF Fills
  <1>. QED  BY <1>3, <1>4, <1>5

\* While the account moves, what the rows and the trades stand on stays.
LEMMA RealMoves ==
    ASSUME TrackInv, TrackInv', BracketsInv, RealInv, Fills, now' \in {now, now + 1},
           UNCHANGED <<held, position, closed, trades>>
    PROVE  RealInv'
  <1>1. /\ now \in Nat /\ position \in Nat /\ closed \in Nat
        /\ \A o \in Order : book[o].at \in Nat /\ book'[o].at \in Nat /\ book[o].at <= now
    BY TrackingAssumption DEF TrackInv, TypeOK, BookInv, Record
  <1>2. \A o \in Order : book[o].at # 0 => book'[o] = book[o]
    BY DEF Fills
  <1>3. \A o \in Order : book'[o].at = book[o].at \/ book'[o].at = now + 1 \/ book'[o].at = 0
    BY DEF Fills
  <1>4. ASSUME NEW t \in Nat, RowInv(t)
        PROVE  t # 0 => t <= now' /\ Entered(t)' /\ \A o \in Order : book'[o].at # t
    <2>. SUFFICES ASSUME t # 0
                  PROVE  t <= now' /\ Entered(t)' /\ \A o \in Order : book'[o].at # t
      OBVIOUS
    <2>1. t <= now /\ Entered(t) /\ \A o \in Order : book[o].at # t
      BY <1>4 DEF RowInv
    <2>2. Entered(t)'
      BY <1>2, <2>1, OrdersOfTrip DEF Entered
    <2>. QED  BY <1>1, <1>3, <2>1, <2>2
  <1>5. RowInv(position)' /\ RowInv(closed)'
    BY <1>1, <1>4 DEF RealInv, RowInv, Entered
  <1>6. held' => \E k \in Trip : book'[<<k, "entry">>].at # 0
    BY <1>2, OrdersOfTrip DEF RealInv
  <1>7. ApartInv'
    <2>. SUFFICES ASSUME NEW j \in Trip, NEW k \in Trip, j < k, NEW o \in Exits, o[1] = j,
                         book'[o].at # 0, book'[<<k, "entry">>].at # 0
                  PROVE  book'[o].at < book'[<<k, "entry">>].at
      BY DEF ApartInv
    <2>1. o \in Order /\ <<k, "entry">> \in Order /\ (o = <<j, "leg">> \/ o = <<j, "close">>)
      BY OrdersOfTrip DEF Exits, Order, Kind
    <2>2. E(k) # "none"
      BY <2>1 DEF Fills, E, TrackInv, BookInv
    <2>3. Ended(j) /\ Shape(j)
      BY <2>2 DEF BracketsInv
    <2>4. book[o].st # "open"
      BY <2>1, <2>3 DEF Shape, Ended, E, L, C
    <2>5. book'[o] = book[o]
      BY <2>1, <2>4 DEF Fills
    <2>6. CASE book[<<k, "entry">>].at # 0
      BY <1>2, <2>1, <2>5, <2>6 DEF RealInv, ApartInv
    <2>7. CASE book[<<k, "entry">>].at = 0
      BY <1>1, <1>3, <2>1, <2>5, <2>7
    <2>. QED  BY <2>6, <2>7
  <1>8. \A i \in DOMAIN trades : RealTrade(trades[i])'
    <2>. SUFFICES ASSUME NEW i \in DOMAIN trades
                  PROVE  RealTrade(trades[i])'
      OBVIOUS
    <2>1. RealTrade(trades[i]) /\ trades' = trades
      BY DEF RealInv
    <2>2. trades[i].exit \in Order
      BY TradesAreExits DEF TrackInv
    <2>3. book[trades[i].exit].at # 0
      BY DEF TrackInv, TradesInv
    <2>4. book'[trades[i].exit] = book[trades[i].exit]
      BY <1>2, <2>2, <2>3
    <2>5. \A k \in 1..trades[i].exit[1] : k \in Trip
      BY <2>2, TrackingAssumption DEF Order, Trip
    <2>6. \A k \in Trip : book[<<k, "entry">>].at # 0 => book'[<<k, "entry">>] = book[<<k, "entry">>]
      BY <1>2, OrdersOfTrip
    <2>. QED  BY <2>1, <2>4, <2>5, <2>6 DEF RealTrade
  <1>. QED  BY <1>5, <1>6, <1>7, <1>8 DEF RealInv

\* The steps of the loops that neither open, close nor book anything.
LEMMA RealAsks ==
    ASSUME TrackInv, RealInv,
           \/ SyncFetch \/ SyncApply \/ ReconcileFetch \/ Crash \/ Restart \/ UNCHANGED vars
    PROVE  RealInv'
  <1>1. /\ UNCHANGED <<book, now, position, trades>>
        /\ held' \in {held, FALSE, Held} /\ closed' \in {closed, 0}
    BY DEF SyncFetch, SyncApply, ReconcileFetch, Crash, Restart, vars, acctVars, loopVars
  <1>2. Held => \E k \in Trip : book[<<k, "entry">>].at # 0
    BY OrdersOfTrip DEF Held, Open, Is, TrackInv, BookInv
  <1>3. held' => \E k \in Trip : book'[<<k, "entry">>].at # 0
    BY <1>1, <1>2 DEF RealInv
  <1>4. RowInv(position)' /\ RowInv(closed)'
    BY <1>1 DEF RealInv, RowInv, Entered
  <1>5. ApartInv'
    BY <1>1 DEF RealInv, ApartInv
  <1>6. \A i \in DOMAIN trades : RealTrade(trades[i])'
    BY <1>1 DEF RealInv, RealTrade
  <1>. QED  BY <1>1, <1>3, <1>4, <1>5, <1>6 DEF RealInv

\* A row is opened at a moment of its own, after the entry the answer showed.
LEMMA RealReconciles == ASSUME TrackInv, RealInv, ReconcileApply PROVE RealInv'
  <1>1. /\ held' = FALSE /\ UNCHANGED <<book, trades>>
        /\ \/ held /\ now' = now + 1 /\ position' = now + 1 /\ closed' = closed
           \/ closed' = position /\ position' = 0 /\ now' = now
           \/ UNCHANGED <<now, position, closed>>
    BY DEF ReconcileApply
  <1>2. /\ now \in Nat /\ position \in Nat /\ closed \in Nat
        /\ \A o \in Order : book[o].at \in Nat /\ book[o].at <= now
    BY TrackingAssumption DEF TrackInv, TypeOK, BookInv, Record
  <1>3. closed = 0
    BY DEF ReconcileApply, TrackInv, LoopInv
  <1>4. RowInv(position)' /\ RowInv(closed)'
    <2>1. CASE held /\ now' = now + 1 /\ position' = now + 1 /\ closed' = closed
      <3>1. PICK k \in Trip : book[<<k, "entry">>].at # 0
        BY <2>1 DEF RealInv
      <3>2. book[<<k, "entry">>].at < now + 1
        <4>1. book[<<k, "entry">>].at \in Nat /\ book[<<k, "entry">>].at <= now
          BY <1>2, OrdersOfTrip
        <4>. QED  BY <1>2, <4>1
      <3>3. Entered(position)'
        BY <1>1, <2>1, <3>1, <3>2 DEF Entered
      <3>4. \A o \in Order : book'[o].at # position'
        BY <1>1, <1>2, <2>1
      <3>. QED  BY <1>2, <1>3, <2>1, <3>3, <3>4 DEF RowInv
    <2>2. CASE closed' = position /\ position' = 0 /\ now' = now
      BY <1>1, <2>2 DEF RealInv, RowInv, Entered
    <2>3. CASE UNCHANGED <<now, position, closed>>
      BY <1>1, <2>3 DEF RealInv, RowInv, Entered
    <2>. QED  BY <1>1, <2>1, <2>2, <2>3
  <1>5. ApartInv'
    BY <1>1 DEF RealInv, ApartInv
  <1>6. \A i \in DOMAIN trades : RealTrade(trades[i])'
    BY <1>1 DEF RealInv, RealTrade
  <1>. QED  BY <1>1, <1>4, <1>5, <1>6 DEF RealInv

\* The sale that is booked came after the row was opened, so the bracket that was held
\* then is the sold one or one before it.
LEMMA RealRecords == ASSUME TrackInv, BracketsInv, RealInv, RecordTrade PROVE RealInv'
  <1>1. /\ closed' = 0 /\ closed # 0 /\ loop = "trade"
        /\ UNCHANGED <<book, now, position, held>>
    BY DEF RecordTrade, acctVars, TrackInv, LoopInv
  <1>2. /\ closed \in Nat
        /\ \A o \in Order : book[o].at \in Nat
    BY TrackingAssumption DEF TrackInv, TypeOK, Record
  <1>3. RowInv(position)' /\ RowInv(closed)' /\ ApartInv'
        /\ (held' => \E k \in Trip : book'[<<k, "entry">>].at # 0)
    BY <1>1 DEF RealInv, RowInv, Entered, ApartInv
  <1>4. CASE trades' = trades
    BY <1>1, <1>3, <1>4 DEF RealInv, RealTrade
  <1>5. ASSUME NEW o \in Candidates(closed),
               trades' = Append(trades, [opened |-> closed, exit |-> o])
        PROVE  RealInv'
    <2>. DEFINE t == [opened |-> closed, exit |-> o]
    <2>1. /\ o \in Exits /\ o \in Order /\ o[1] \in Trip
          /\ (o = <<o[1], "leg">> \/ o = <<o[1], "close">>)
          /\ orders[o].at # 0 /\ orders[o].at >= closed
      BY DEF Candidates, Exits, Order, Kind
    <2>2. book[o].at = orders[o].at /\ book[o].at # closed
      BY <1>1, <2>1 DEF TrackInv, RowsFaithful, RealInv, RowInv
    <2>3. closed < book[o].at
      BY <1>2, <2>1, <2>2
    <2>4. PICK k \in Trip : book[<<k, "entry">>].at # 0 /\ book[<<k, "entry">>].at < closed
      BY <1>1 DEF RealInv, RowInv, Entered
    <2>5. ~(o[1] < k)
      <3>1. SUFFICES ASSUME o[1] < k
                     PROVE  FALSE
        OBVIOUS
      <3>2. book[o].at < book[<<k, "entry">>].at
        BY <2>1, <2>2, <2>4, <3>1 DEF RealInv, ApartInv
      <3>3. book[o].at \in Nat /\ book[<<k, "entry">>].at \in Nat
        BY <1>2, <2>1, OrdersOfTrip
      <3>. QED  BY <1>2, <2>3, <2>4, <3>2, <3>3
    <2>6. k \in 1..o[1]
      BY <2>1, <2>5, TrackingAssumption DEF Trip
    <2>. DEFINE S == [opened : 1..MaxTime, exit : Exits]
    <2>7. trades \in Seq(S) /\ t \in S
      <3>1. closed \in 1..MaxTime
        BY <1>1, TrackingAssumption DEF TrackInv, TypeOK
      <3>. QED  BY <2>1, <3>1 DEF TrackInv, TypeOK
    <2>. HIDE DEF S, t
    <2>8. trades' = Append(trades, t)
      BY <1>5 DEF t
    <2>9. /\ DOMAIN trades' = DOMAIN trades \union {Len(trades) + 1}
           /\ trades'[Len(trades) + 1] = t
           /\ \A i \in DOMAIN trades : trades'[i] = trades[i]
      BY <2>7, <2>8
    <2>10. \A i \in DOMAIN trades : RealTrade(trades[i])'
      <3>. SUFFICES ASSUME NEW i \in DOMAIN trades
                    PROVE  RealTrade(trades[i])'
        OBVIOUS
      <3>1. RealTrade(trades[i]) /\ trades'[i] = trades[i]
        BY <2>9 DEF RealInv
      <3>. QED  BY <1>1, <3>1 DEF RealTrade
    <2>11. \A i \in DOMAIN trades' : RealTrade(trades[i])'
      <3>. SUFFICES ASSUME NEW i \in DOMAIN trades'
                    PROVE  RealTrade(trades[i])'
        OBVIOUS
      <3>1. CASE i \in DOMAIN trades
        BY <2>10, <3>1
      <3>2. CASE i = Len(trades) + 1
        <4>1. trades'[i] = t
          BY <2>9, <3>2
        <4>2. closed < book[t.exit].at /\ t.opened = closed /\ t.exit = o
          BY <2>3 DEF t
        <4>. QED  BY <1>1, <2>4, <2>6, <4>1, <4>2 DEF RealTrade
      <3>. QED  BY <2>9, <3>1, <3>2
    <2>. QED  BY <1>3, <2>11 DEF RealInv
  <1>. QED  BY <1>4, <1>5 DEF RecordTrade

\* Every step keeps it.
LEMMA RealStep ==
    TrackInv /\ TrackInv' /\ BracketsInv /\ RealInv /\ [Next]_vars => RealInv'
  <1>. SUFFICES ASSUME TrackInv, TrackInv', BracketsInv, RealInv, [Next]_vars
                PROVE  RealInv'
    OBVIOUS
  <1>1. ASSUME NEW k \in Trip, EntryFills(k) \/ LegFills(k) \/ CloseFills(k)
        PROVE  RealInv'
    <2>1. PICK o \in Order : Fill(o)
      BY <1>1, OrdersOfTrip DEF EntryFills, LegFills, CloseFills
    <2>2. Fills /\ now' = now + 1 /\ UNCHANGED <<held, position, closed, trades>>
      BY <2>1, FillFills DEF Fill, loopVars
    <2>. QED  BY <2>2, RealMoves
  <1>2. CASE DayEnds \/ \E k \in Trip : Flatten(k) \/ Enter(k)
    <2>1. Fills /\ now' = now /\ UNCHANGED <<held, position, closed, trades>>
      BY <1>2, OthersFill DEF DayEnds, Flatten, Enter, loopVars
    <2>. QED  BY <2>1, RealMoves
  <1>3. CASE \/ SyncFetch \/ SyncApply \/ ReconcileFetch \/ Crash \/ Restart \/ UNCHANGED vars
    BY <1>3, RealAsks
  <1>4. CASE ReconcileApply
    BY <1>4, RealReconciles
  <1>5. CASE RecordTrade
    BY <1>5, RealRecords
  <1>. QED  BY <1>1, <1>2, <1>3, <1>4, <1>5 DEF Next, AccountStep

\* A booked trade has a real sale: it was filled after the row it closes was opened, and
\* that row was opened on shares of that bracket or one before it (tracking.py:239-301).
THEOREM TradesAreReal == Spec => []TradeIsReal
  <1>1. Init => RealInv /\ BracketsInv
    <2>. SUFFICES ASSUME Init
                  PROVE  RealInv /\ BracketsInv
      OBVIOUS
    <2>1. \A o \in Order : book[o].st = "none" /\ book[o].at = 0
      BY DEF Init, NoSnap, None
    <2>2. /\ held = FALSE /\ position = 0 /\ closed = 0 /\ DOMAIN trades = {}
      BY DEF Init
    <2>3. RealInv
      BY <2>1, <2>2, OrdersOfTrip DEF RealInv, RowInv, ApartInv, Exits
    <2>4. BracketsInv
      BY <2>1, OrdersOfTrip DEF BracketsInv, Shape, E, L, C
    <2>. QED  BY <2>3, <2>4
  <1>2. TrackInv /\ RealInv => TypeOK /\ TradeIsReal
    <2>. SUFFICES ASSUME TrackInv, RealInv
                  PROVE  TypeOK /\ TradeIsReal
      OBVIOUS
    <2>1. TypeOK /\ DOMAIN trades = 1..Len(trades)
      BY DEF TrackInv, TypeOK
    <2>2. \A o \in Order : book[o].at # 0 => Is(o, "filled")
      BY DEF Is, TrackInv, BookInv
    <2>3. ASSUME NEW i \in DOMAIN trades
          PROVE  LET t == trades[i]
                 IN  /\ Is(t.exit, "filled") /\ book[t.exit].at > t.opened
                     /\ \E k \in 1..t.exit[1] :
                         /\ Is(<<k, "entry">>, "filled")
                         /\ book[<<k, "entry">>].at < t.opened
      <3>. DEFINE t == trades[i]
      <3>1. /\ t.opened < book[t.exit].at
            /\ \E k \in 1..t.exit[1] : /\ book[<<k, "entry">>].at # 0
                                       /\ book[<<k, "entry">>].at < t.opened
        BY DEF RealInv, RealTrade
      <3>2. t.exit \in Order /\ book[t.exit].at # 0
        BY TradesAreExits DEF TrackInv, TradesInv
      <3>3. \A k \in 1..t.exit[1] : k \in Trip
        BY <3>2, TrackingAssumption DEF Order, Trip
      <3>. QED  BY <2>2, <3>1, <3>2, <3>3, OrdersOfTrip
    <2>. QED  BY <2>1, <2>3 DEF TradeIsReal
  <1>. QED  BY <1>1, <1>2, TrackInit, TrackStep, BrokerStepMaps, RealStep, PTL DEF Spec

=============================================================================
