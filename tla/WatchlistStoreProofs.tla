------------------------ MODULE WatchlistStoreProofs ------------------------
(***************************************************************************)
(* Proofs about WatchlistStore for any clients, names, symbols and lists.  *)
(***************************************************************************)
EXTENDS WatchlistStore, TLAPS

\* u and v differ at most in whether they are alone.
SameBut(u, v) ==
    /\ u.at = v.at /\ u.id = v.id /\ u.new = v.new /\ u.flag = v.flag
    /\ u.seen = v.seen /\ u.heir = v.heir /\ u.locked = v.locked

\* Marking a transaction does nothing else to it.
LEMMA MarkEffect ==
    ASSUME NEW t \in Transaction, NEW b \in BOOLEAN
    PROVE  /\ [t EXCEPT !.alone = b] \in Transaction
           /\ [t EXCEPT !.alone = b].alone = b
           /\ SameBut([t EXCEPT !.alone = b], t)
BY DEF Transaction, SameBut

\* What a call that opens a transaction leaves: its own record, and everybody's
\* mark that he is no longer alone.
LEMMA OpenEffect ==
    ASSUME TypeOK, NEW c \in Client, NEW t \in Transaction, Open(c, t)
    PROVE  /\ txn' \in [Client -> Transaction]
           /\ SameBut(txn'[c], t)
           /\ txn'[c].alone <=> Others(c) = {}
           /\ \A d \in Client \ {c} : SameBut(txn'[d], txn[d]) /\ ~txn'[d].alone
           /\ tidy' \in BOOLEAN
<1>. DEFINE b == Others(c) = {}
            m == [t EXCEPT !.alone = b]
            n == [d \in Client |-> [txn[d] EXCEPT !.alone = FALSE]]
<1>0. b \in BOOLEAN
  OBVIOUS
<1>1. m \in Transaction /\ m.alone = b /\ SameBut(m, t)
  <2>. HIDE DEF b
  <2>. QED  BY <1>0, MarkEffect
<1>2. \A d \in Client : n[d] \in Transaction /\ n[d].alone = FALSE /\ SameBut(n[d], txn[d])
  BY MarkEffect DEF TypeOK
<1>3. tidy' \in BOOLEAN
  BY DEF Open, TypeOK
<1>4. txn' = [d \in Client |-> IF d = c THEN m ELSE n[d]]
  BY DEF Open
<1>5. txn'[c] = m /\ \A d \in Client \ {c} : txn'[d] = n[d]
  <2>. HIDE DEF m, n
  <2>. QED  BY <1>4
<1>6. txn' \in [Client -> Transaction]
  <2>. HIDE DEF m, n
  <2>. QED  BY <1>1, <1>2, <1>4
<1>7. m.alone <=> Others(c) = {}
  BY <1>1
<1>. HIDE DEF m, n, b
<1>. QED  BY <1>1, <1>2, <1>3, <1>5, <1>6, <1>7

\* What the end of a transaction leaves.
LEMMA CloseEffect ==
    ASSUME TypeOK, NEW c \in Client, Close(c)
    PROVE  /\ txn' \in [Client -> Transaction]
           /\ txn'[c] = Idle
           /\ \A d \in Client \ {c} : txn'[d] = txn[d]
<1>1. Idle \in Transaction
  BY DEF Idle, Transaction, Steps, Content, Blank
<1>. QED  BY <1>1 DEF Close, TypeOK

\* c opens transaction t, which has a row in hand and knows the table as it is.
Opens(c, t) ==
    /\ Open(c, t) /\ Reads(t)
    /\ t.id # 0 /\ t.at \notin {"idle", "inherit"}
    /\ t.at \in {"create", "rename"} => t.new.name \in Name

\* Everything a client can ask for opens a transaction that remembers what it read
\* and leaves the table alone.
LEMMA RequestOpens ==
    ASSUME TypeOK, NEW c \in Client, Request(c)
    PROVE  /\ UNCHANGED table
           /\ \E t \in Transaction : Opens(c, t)
<1>1. ASSUME NEW i \in WatchlistId, NEW n \in Name, NEW S \in SUBSET Symbol,
             BeginCreate(c, i, n, S)
      PROVE  \E t \in Transaction : Opens(c, t)
  <2>. DEFINE t == [Idle EXCEPT !.at = "create", !.id = i, !.new = [name |-> n, symbols |-> S],
                    !.flag = (active = {})]
  <2>1. t \in Transaction
    BY DEF Idle, Transaction, Steps, Content, Blank, TypeOK
  <2>2. /\ t.id # 0 /\ t.at \notin {"idle", "inherit"}
        /\ t.at \in {"create", "rename"} => t.new.name \in Name
    BY StoreAssumption DEF Idle, WatchlistId, Blank
  <2>3. Open(c, t)
    BY <1>1 DEF BeginCreate
  <2>4. Reads(t)
    BY <1>1 DEF Reads, Idle, BeginCreate, InUse
  <2>. HIDE DEF t
  <2>. QED  BY <2>1, <2>2, <2>3, <2>4 DEF Opens
<1>2. ASSUME NEW i \in WatchlistId, NEW n \in Name, BeginRename(c, i, n)
      PROVE  \E t \in Transaction : Opens(c, t)
  <2>. DEFINE t == [Idle EXCEPT !.at = "rename", !.id = i, !.new.name = n]
  <2>1. t \in Transaction
    BY DEF Idle, Transaction, Steps, Content, Blank
  <2>2. /\ t.id # 0 /\ t.at \notin {"idle", "inherit"}
        /\ t.at \in {"create", "rename"} => t.new.name \in Name
    BY StoreAssumption DEF Idle, WatchlistId, Blank
  <2>3. Open(c, t)
    BY <1>2 DEF BeginRename
  <2>4. Reads(t)
    BY <1>2 DEF Reads, Idle, BeginRename
  <2>. HIDE DEF t
  <2>. QED  BY <2>1, <2>2, <2>3, <2>4 DEF Opens
<1>3. ASSUME NEW i \in WatchlistId, NEW S \in SUBSET Symbol, BeginEdit(c, i, S)
      PROVE  \E t \in Transaction : Opens(c, t)
  <2>. DEFINE t == [Idle EXCEPT !.at = "edit", !.id = i, !.new.symbols = S]
  <2>1. t \in Transaction
    BY DEF Idle, Transaction, Steps, Content, Blank
  <2>2. /\ t.id # 0 /\ t.at \notin {"idle", "inherit"}
        /\ t.at \in {"create", "rename"} => t.new.name \in Name
    BY StoreAssumption DEF Idle, WatchlistId, Blank
  <2>3. Open(c, t)
    BY <1>3 DEF BeginEdit
  <2>4. Reads(t)
    BY <1>3 DEF Reads, Idle, BeginEdit
  <2>. HIDE DEF t
  <2>. QED  BY <2>1, <2>2, <2>3, <2>4 DEF Opens
<1>4. ASSUME NEW i \in WatchlistId PROVE content[i].symbols \in SUBSET Symbol
  BY DEF TypeOK, Content
<1>5. ASSUME NEW i \in WatchlistId, BeginActivate(c, i)
      PROVE  \E t \in Transaction : Opens(c, t)
  <2>. DEFINE t == [Idle EXCEPT !.at = "activate", !.id = i, !.seen = active]
  <2>1. t \in Transaction
    BY DEF Idle, Transaction, Steps, Content, Blank, TypeOK
  <2>2. /\ t.id # 0 /\ t.at \notin {"idle", "inherit"}
        /\ t.at \in {"create", "rename"} => t.new.name \in Name
    BY StoreAssumption DEF Idle, WatchlistId, Blank
  <2>3. Open(c, t)
    BY <1>5 DEF BeginActivate
  <2>4. Reads(t)
    BY <1>5 DEF Reads, Idle, BeginActivate
  <2>. HIDE DEF t
  <2>. QED  BY <2>1, <2>2, <2>3, <2>4 DEF Opens
<1>6. ASSUME NEW i \in WatchlistId, BeginDelete(c, i)
      PROVE  \E t \in Transaction : Opens(c, t)
  <2>. DEFINE t == [Idle EXCEPT !.at = IF i \in active THEN "drop" ELSE "delete", !.id = i]
  <2>1. t \in Transaction
    BY DEF Idle, Transaction, Steps, Content, Blank, TypeOK
  <2>2. /\ t.id # 0 /\ t.at \notin {"idle", "inherit"}
        /\ t.at \in {"create", "rename"} => t.new.name \in Name
    BY StoreAssumption DEF Idle, WatchlistId, Blank
  <2>3. Open(c, t)
    BY <1>6 DEF BeginDelete
  <2>4. Reads(t)
    BY <1>6 DEF Reads, Idle, BeginDelete
  <2>. HIDE DEF t
  <2>. QED  BY <2>1, <2>2, <2>3, <2>4 DEF Opens
<1>7. UNCHANGED table
  BY DEF Request, BeginCreate, BeginRename, BeginSet, BeginAdd, BeginRemove,
         BeginEdit, BeginActivate, BeginDelete
<1>8. PICK i \in WatchlistId :
        \/ \E n \in Name, S \in SUBSET Symbol : BeginCreate(c, i, n, S)
        \/ \E n \in Name : BeginRename(c, i, n)
        \/ \E S \in SUBSET Symbol : BeginSet(c, i, S) \/ BeginAdd(c, i, S)
        \/ \E s \in Symbol : BeginRemove(c, i, s)
        \/ BeginActivate(c, i)
        \/ BeginDelete(c, i)
  BY DEF Request
<1>9. CASE \/ \E S \in SUBSET Symbol : BeginSet(c, i, S) \/ BeginAdd(c, i, S)
           \/ \E s \in Symbol : BeginRemove(c, i, s)
  <2>1. \E S \in SUBSET Symbol : BeginEdit(c, i, S)
    BY <1>4, <1>9 DEF BeginSet, BeginAdd, BeginRemove
  <2>. QED  BY <2>1, <1>3, <1>7
<1>. QED  BY <1>1, <1>2, <1>5, <1>6, <1>7, <1>8, <1>9

\* Every reachable state of the watchlist store is well typed (TypeOK); with it goes
\* that a deletion activates a row other than the one it deletes.
THEOREM StoreTypeCorrect == Spec => [](TypeOK /\ HandInv)
<1>1. Init => TypeOK /\ HandInv
  <2>1. Idle \in Transaction
    BY DEF Idle, Transaction, Steps, Content, Blank
  <2>2. Init => TypeOK
    BY <2>1 DEF Init, TypeOK, Content, Blank
  <2>3. Init => HandInv
    <3>1. Idle.at = "idle"
      BY DEF Idle
    <3>. QED  BY <3>1 DEF Init, HandInv
  <2>. QED  BY <2>2, <2>3
<1>2. TypeOK /\ HandInv /\ [Next]_vars => TypeOK' /\ HandInv'
  <2> SUFFICES ASSUME TypeOK, HandInv, [Next]_vars PROVE TypeOK' /\ HandInv'
    OBVIOUS
  <2>1. ASSUME NEW c \in Client, Request(c) PROVE TypeOK' /\ HandInv'
    <3>1. PICK t \in Transaction : Opens(c, t)
      BY <2>1, RequestOpens
    <3>2. UNCHANGED table
      BY <2>1, RequestOpens
    <3>3. TypeOK'
      BY <3>1, <3>2, OpenEffect DEF TypeOK, table, Opens
    <3>4. /\ txn'[c].id # 0 /\ txn'[c].at # "inherit"
          /\ txn'[c].at \in {"create", "rename"} => txn'[c].new.name \in Name
      BY <3>1, OpenEffect DEF Opens, SameBut
    <3>5. ASSUME NEW d \in Client \ {c}
          PROVE  /\ txn'[d].at = txn[d].at /\ txn'[d].id = txn[d].id
                 /\ txn'[d].heir = txn[d].heir /\ txn'[d].flag = txn[d].flag
                 /\ txn'[d].new = txn[d].new
      BY <3>1, OpenEffect DEF Opens, SameBut
    <3>. QED  BY <3>3, <3>4, <3>5 DEF HandInv
  <2>2. ASSUME NEW c \in Client, InsertRow(c) PROVE TypeOK' /\ HandInv'
    <3>1. txn[c].id \in WatchlistId
      BY <2>2 DEF InsertRow, HandInv, TypeOK, Transaction
    <3>2. content' \in [WatchlistId -> Content]
      BY <2>2 DEF InsertRow, TypeOK, Transaction
    <3>. QED  BY <2>2, <3>1, <3>2, CloseEffect DEF InsertRow, TypeOK, HandInv, Idle
  <2>3. ASSUME NEW c \in Client, UpdateName(c) \/ UpdateSymbols(c) PROVE TypeOK' /\ HandInv'
    <3>0. txn[c].new \in Content
      BY DEF TypeOK, Transaction
    <3>1. content' \in [WatchlistId -> Content]
      <4>1. \A i \in WatchlistId : [content[i] EXCEPT !.name = txn[c].new.name] \in Content
        BY <3>0 DEF TypeOK, Content
      <4>2. \A i \in WatchlistId :
              [content[i] EXCEPT !.symbols = txn[c].new.symbols] \in Content
        BY <3>0 DEF TypeOK, Content
      <4>. QED  BY <2>3, <4>1, <4>2 DEF UpdateName, UpdateSymbols, TypeOK
    <3>2. UNCHANGED <<rows, active, tidy>> /\ Close(c)
      BY <2>3 DEF UpdateName, UpdateSymbols
    <3>3. TypeOK'
      BY <3>1, <3>2, CloseEffect DEF TypeOK
    <3>. QED  BY <3>2, <3>3, CloseEffect DEF HandInv, Idle
  <2>4. ASSUME NEW c \in Client, Deactivate(c) PROVE TypeOK' /\ HandInv'
    <3>. DEFINE t == [txn[c] EXCEPT !.at = "switch", !.seen = {},
                                    !.locked = txn[c].seen \intersect active]
    <3>1. t \in Transaction /\ t.at = "switch" /\ t.id = txn[c].id
      BY DEF TypeOK, Transaction, Steps
    <3>2. txn' = [txn EXCEPT ![c] = t]
      BY <2>4 DEF Deactivate
    <3>3. txn[c].id # 0
      BY <2>4 DEF Deactivate, HandInv
    <3>. HIDE DEF t
    <3>4. TypeOK'
      BY <2>4, <3>1, <3>2 DEF Deactivate, TypeOK
    <3>. QED  BY <3>1, <3>2, <3>3, <3>4 DEF HandInv, TypeOK
  <2>5. ASSUME NEW c \in Client, Switch(c) PROVE TypeOK' /\ HandInv'
    <3>1. TypeOK'
      BY <2>5, CloseEffect DEF Switch, TypeOK, Transaction
    <3>. QED  BY <2>5, <3>1, CloseEffect DEF Switch, HandInv, Idle
  <2>6. ASSUME NEW c \in Client, DeleteRow(c) PROVE TypeOK' /\ HandInv'
    <3>1. TypeOK'
      BY <2>6, CloseEffect DEF DeleteRow, TypeOK, Content, Blank
    <3>. QED  BY <2>6, <3>1, CloseEffect DEF DeleteRow, HandInv, Idle
  <2>7. ASSUME NEW c \in Client, Drop(c) PROVE TypeOK' /\ HandInv'
    <3>1. PICK h \in WatchlistId \union {0} :
            /\ Newest(h, rows \ {txn[c].id})
            /\ txn' = [txn EXCEPT ![c].at = "inherit", ![c].heir = h,
                                  ![c].flag = h \in rows \ active,
                                  ![c].locked = rows \intersect {txn[c].id}]
      BY <2>7 DEF Drop
    <3>2. h # txn[c].id /\ (h \in rows \ active => h # 0)
      <4>1. 0 \notin rows
        BY StoreAssumption DEF TypeOK, WatchlistId
      <4>2. txn[c].id # 0
        BY <2>7 DEF Drop, HandInv
      <4>. QED  BY <3>1, <4>1, <4>2 DEF Newest
    <3>. DEFINE b == h \in rows \ active
                t == [txn[c] EXCEPT !.at = "inherit", !.heir = h, !.flag = b,
                                    !.locked = rows \intersect {txn[c].id}]
    <3>3. b \in BOOLEAN
      OBVIOUS
    <3>4. txn' = [txn EXCEPT ![c] = t] /\ txn[c].id # 0
      BY <2>7, <3>1 DEF Drop, HandInv
    <3>5. /\ t \in Transaction
          /\ t.at = "inherit" /\ t.id = txn[c].id /\ t.heir = h /\ t.flag = b
      <4>. HIDE DEF b
      <4>. QED  BY <3>3 DEF TypeOK, Transaction, Steps
    <3>6. t.id # 0 /\ t.heir # t.id /\ (t.flag => t.heir # 0)
      <4>. HIDE DEF t
      <4>. QED  BY <3>2, <3>4, <3>5
    <3>. HIDE DEF t, b
    <3>7. TypeOK'
      BY <2>7, <3>4, <3>5 DEF Drop, TypeOK
    <3>. QED  BY <3>4, <3>5, <3>6, <3>7 DEF HandInv, TypeOK
  <2>8. ASSUME NEW c \in Client, Inherit(c) PROVE TypeOK' /\ HandInv'
    <3>1. content' \in [WatchlistId -> Content]
      BY <2>8 DEF Inherit, TypeOK, Content, Blank
    <3>2. active' \subseteq rows'
      BY <2>8 DEF Inherit, TypeOK, HandInv
    <3>. QED  BY <2>8, <3>1, <3>2, CloseEffect DEF Inherit, TypeOK, HandInv, Idle
  <2>9. ASSUME NEW c \in Client, Rollback(c) PROVE TypeOK' /\ HandInv'
    BY <2>9, CloseEffect DEF Rollback, TypeOK, HandInv, Idle
  <2>10. CASE UNCHANGED vars
    BY <2>10 DEF vars, TypeOK, HandInv
  <2>. QED
    BY <2>1, <2>2, <2>3, <2>4, <2>5, <2>6, <2>7, <2>8, <2>9, <2>10 DEF Next
<1>. QED  BY <1>1, <1>2, PTL DEF Spec

\* A transaction that ends leaves nobody whose reads could be stale: while one was
\* alone, the others were idle.
LEMMA CloseKeeps ==
    ASSUME TypeOK, AloneInv, TidyInv, NEW c \in Client, txn[c].at # "idle", Close(c),
           tidy' => tidy \/ txn[c].alone
    PROVE  AloneInv' /\ TidyInv'
<1>1. Idle.at = "idle" /\ Idle.alone = FALSE
  BY DEF Idle
<1>2. ASSUME NEW d \in Client \ {c}, txn[d].alone PROVE FALSE
  BY <1>2 DEF AloneInv, Others
<1>3. AloneInv'
  BY <1>1, <1>2, CloseEffect DEF AloneInv
<1>4. tidy' => \A d \in Client \ {c} : txn[d].at = "idle"
  BY DEF TidyInv, AloneInv, Others
<1>5. TidyInv'
  BY <1>1, <1>4, CloseEffect DEF TidyInv
<1>. QED  BY <1>3, <1>5

\* So is it when a transaction takes a step: what it knows now is what counts.
LEMMA StepKeeps ==
    ASSUME TypeOK, AloneInv, TidyInv, NEW c \in Client, NEW t \in Transaction,
           txn[c].at # "idle", t.at # "idle", t.alone = txn[c].alone,
           t.alone => Reads(t), txn' = [txn EXCEPT ![c] = t],
           UNCHANGED <<rows, active, content, tidy>>
    PROVE  AloneInv' /\ TidyInv'
<1>1. txn'[c] = t /\ \A d \in Client \ {c} : txn'[d] = txn[d]
  BY DEF TypeOK
<1>2. ASSUME NEW d \in Client \ {c}, txn[d].alone PROVE FALSE
  BY <1>2 DEF AloneInv, Others
<1>3. t.alone => Others(c) = {}
  BY DEF AloneInv
<1>4. Others(c)' = Others(c)
  BY <1>1 DEF Others
<1>5. Reads(t) => Reads(t)'
  BY DEF Reads, Newest
<1>6. AloneInv'
  <2>1. ASSUME t.alone PROVE t.at # "idle" /\ Others(c)' = {} /\ Reads(t)'
    BY <2>1, <1>3, <1>4, <1>5
  <2>. QED  BY <1>1, <1>2, <2>1 DEF AloneInv
<1>7. TidyInv'
  BY <1>1 DEF TidyInv
<1>. QED  BY <1>6, <1>7

\* The inductive invariant (StoreInv): what a transaction that was never joined by
\* another has read still holds, and while it holds its last step keeps one list active.
LEMMA StoreInvariant == Spec => []StoreInv
<1>1. Init => StoreInv
  <2>1. Idle.at = "idle" /\ Idle.alone = FALSE
    BY DEF Idle
  <2>2. Init => HandInv /\ AloneInv /\ TidyInv
    BY <2>1 DEF Init, HandInv, AloneInv, TidyInv
  <2>. QED  BY <2>2 DEF Init, StoreInv, OneActive, IsBook
<1>2. TypeOK /\ HandInv' /\ StoreInv /\ [Next]_vars => StoreInv'
  <2> SUFFICES ASSUME TypeOK, HandInv', AloneInv, TidyInv, OneActive, [Next]_vars
               PROVE AloneInv' /\ TidyInv' /\ OneActive'
    BY DEF StoreInv
  <2>0. ASSUME NEW c \in Client, tidy, txn[c].at # "idle"
        PROVE  IsBook /\ Reads(txn[c])
    BY <2>0 DEF TidyInv, AloneInv, OneActive
  <2>1. ASSUME NEW c \in Client, Request(c) PROVE AloneInv' /\ TidyInv' /\ OneActive'
    <3>1. PICK t \in Transaction : Opens(c, t)
      BY <2>1, RequestOpens
    <3>2. UNCHANGED table
      BY <2>1, RequestOpens
    <3>3. /\ SameBut(txn'[c], t)
          /\ txn'[c].alone <=> Others(c) = {}
          /\ \A d \in Client \ {c} : SameBut(txn'[d], txn[d]) /\ ~txn'[d].alone
      BY <3>1, OpenEffect DEF Opens
    <3>4. Others(c)' = Others(c)
      BY <3>3 DEF Others, SameBut
    <3>5. txn'[c].at # "idle" /\ Reads(txn[c])'
      BY <3>1, <3>2, <3>3 DEF Opens, SameBut, Reads, Newest, table
    <3>6. AloneInv'
      BY <3>3, <3>4, <3>5 DEF AloneInv
    <3>7. tidy' => tidy /\ Others(c) = {}
      BY <3>1 DEF Opens, Open
    <3>8. TidyInv'
      BY <3>3, <3>7 DEF TidyInv, Others, SameBut
    <3>9. OneActive'
      BY <3>2, <3>7 DEF OneActive, IsBook, table
    <3>. QED  BY <3>6, <3>8, <3>9
  <2>2. ASSUME NEW c \in Client, InsertRow(c) PROVE AloneInv' /\ TidyInv' /\ OneActive'
    <3>1. AloneInv' /\ TidyInv'
      BY <2>2, CloseKeeps DEF InsertRow
    <3>2. OneActive'
      BY <2>2, <2>0 DEF InsertRow, OneActive, IsBook, Reads, TypeOK
    <3>. QED  BY <3>1, <3>2
  <2>3. ASSUME NEW c \in Client, UpdateName(c) \/ UpdateSymbols(c) \/ Rollback(c)
        PROVE  AloneInv' /\ TidyInv' /\ OneActive'
    <3>1. txn[c].at # "idle" /\ Close(c) /\ UNCHANGED <<rows, active, tidy>>
      BY <2>3 DEF UpdateName, UpdateSymbols, Rollback
    <3>2. AloneInv' /\ TidyInv'
      BY <3>1, CloseKeeps
    <3>. QED  BY <3>1, <3>2 DEF OneActive, IsBook
  <2>4. ASSUME NEW c \in Client, Deactivate(c) PROVE AloneInv' /\ TidyInv' /\ OneActive'
    <3>. DEFINE t == [txn[c] EXCEPT !.at = "switch", !.seen = {},
                                    !.locked = txn[c].seen \intersect active]
    <3>1. /\ t \in Transaction
          /\ t.at = "switch" /\ t.locked = txn[c].seen \intersect active
          /\ t.alone = txn[c].alone
      BY DEF TypeOK, Transaction, Steps
    <3>2. txn[c].at = "activate" /\ txn' = [txn EXCEPT ![c] = t]
          /\ UNCHANGED <<rows, active, content, tidy>>
      BY <2>4 DEF Deactivate
    <3>. HIDE DEF t
    <3>3. t.alone => Reads(t)
      BY <3>1, <3>2 DEF AloneInv, Reads
    <3>4. AloneInv' /\ TidyInv'
      BY <3>1, <3>2, <3>3, StepKeeps
    <3>. QED  BY <3>2, <3>4 DEF OneActive, IsBook
  <2>5. ASSUME NEW c \in Client, Switch(c) PROVE AloneInv' /\ TidyInv' /\ OneActive'
    <3>1. AloneInv' /\ TidyInv'
      BY <2>5, CloseKeeps DEF Switch
    <3>2. tidy' => Reads(txn[c])
      BY <2>5, <2>0 DEF Switch, AloneInv
    <3>3. OneActive'
      BY <2>5, <3>2 DEF Switch, OneActive, IsBook, Reads
    <3>. QED  BY <3>1, <3>3
  <2>6. ASSUME NEW c \in Client, DeleteRow(c) PROVE AloneInv' /\ TidyInv' /\ OneActive'
    <3>1. AloneInv' /\ TidyInv'
      BY <2>6, CloseKeeps DEF DeleteRow
    <3>2. OneActive'
      BY <2>6, <2>0 DEF DeleteRow, OneActive, IsBook, Reads, TypeOK
    <3>. QED  BY <3>1, <3>2
  <2>7. ASSUME NEW c \in Client, Drop(c) PROVE AloneInv' /\ TidyInv' /\ OneActive'
    <3>1. PICK h \in WatchlistId \union {0} :
            /\ Newest(h, rows \ {txn[c].id})
            /\ txn' = [txn EXCEPT ![c].at = "inherit", ![c].heir = h,
                                  ![c].flag = h \in rows \ active,
                                  ![c].locked = rows \intersect {txn[c].id}]
      BY <2>7 DEF Drop
    <3>. DEFINE b == h \in rows \ active
                t == [txn[c] EXCEPT !.at = "inherit", !.heir = h, !.flag = b,
                                    !.locked = rows \intersect {txn[c].id}]
    <3>2. b \in BOOLEAN
      OBVIOUS
    <3>3. txn' = [txn EXCEPT ![c] = t]
      BY <3>1
    <3>4. txn[c].at = "drop" /\ UNCHANGED <<rows, active, content, tidy>>
      BY <2>7 DEF Drop
    <3>5. /\ t \in Transaction /\ t.alone = txn[c].alone
          /\ t.at = "inherit" /\ t.id = txn[c].id /\ t.heir = h /\ t.flag = b
      <4>. HIDE DEF b
      <4>. QED  BY <3>2 DEF TypeOK, Transaction, Steps
    <3>6. b <=> h \in rows \ active
      OBVIOUS
    <3>. HIDE DEF t, b
    <3>7. t.alone => Reads(t)
      BY <3>1, <3>4, <3>5, <3>6 DEF AloneInv, Reads
    <3>8. AloneInv' /\ TidyInv'
      BY <3>3, <3>4, <3>5, <3>7, StepKeeps
    <3>. QED  BY <3>4, <3>8 DEF OneActive, IsBook
  <2>8. ASSUME NEW c \in Client, Inherit(c) PROVE AloneInv' /\ TidyInv' /\ OneActive'
    <3>1. AloneInv' /\ TidyInv'
      BY <2>8, CloseKeeps DEF Inherit
    <3>2. CASE rows \ {txn[c].id} = {}
      <4>1. tidy => ~txn[c].flag /\ active = {txn[c].id}
        BY <2>0, <2>8, <3>2, StoreAssumption
        DEF Inherit, Reads, Newest, IsBook, TypeOK, WatchlistId
      <4>. QED  BY <2>8, <3>1, <3>2, <4>1 DEF Inherit, OneActive, IsBook
    <3>3. CASE rows \ {txn[c].id} # {}
      <4>1. tidy => /\ txn[c].flag /\ active = {txn[c].id}
                    /\ txn[c].heir \in rows \ {txn[c].id}
        BY <2>0, <2>8, <3>3 DEF Inherit, Reads, Newest, IsBook
      <4>. QED  BY <2>8, <3>1, <4>1 DEF Inherit, OneActive, IsBook
    <3>. QED  BY <3>2, <3>3
  <2>9. CASE UNCHANGED vars
    <3>1. AloneInv'
      BY <2>9 DEF vars, AloneInv, Others, Reads, Newest
    <3>. QED  BY <2>9, <3>1 DEF vars, TidyInv, OneActive, IsBook
  <2>. QED  BY <2>1, <2>2, <2>3, <2>4, <2>5, <2>6, <2>7, <2>8, <2>9 DEF Next
<1>. QED  BY <1>1, <1>2, StoreTypeCorrect, PTL DEF Spec

\* Exactly one list is active once there is any, in every state that no two
\* overlapping transactions have led to since an activation ran alone (OneActive).
THEOREM OneListActive == Spec => []OneActive
<1>1. StoreInv => OneActive
  BY DEF StoreInv
<1>. QED  BY <1>1, StoreInvariant, PTL

\* The list get_active_watchlist returns is the active one, if exactly one is.
LEMMA CurrentIsActive ==
    ASSUME TypeOK, NEW i \in WatchlistId \union {0}, active = IF i = 0 THEN {} ELSE {i}
    PROVE  ActiveWatchlist = i
<1>1. \A h \in WatchlistId \union {0} : Newest(h, active) <=> h = i
  BY StoreAssumption DEF Newest, WatchlistId
<1>. QED  BY <1>1 DEF ActiveWatchlist

\* And so it does in the next state.
LEMMA CurrentIsActiveNext ==
    ASSUME TypeOK', NEW i \in WatchlistId \union {0}, active' = IF i = 0 THEN {} ELSE {i}
    PROVE  ActiveWatchlist' = i
<1>1. \A h \in WatchlistId \union {0} : Newest(h, active') <=> h = i
  BY StoreAssumption DEF Newest, WatchlistId
<1>. QED  BY <1>1 DEF ActiveWatchlist

\* While no two transactions overlap, every commit is a step of the book (BookSteps).
THEOREM StepsOfTheBook == Spec => BookSteps
<1>. DEFINE BookStep == Book!Next \/ UNCHANGED <<BookLists, ActiveWatchlist>>
<1>1. TypeOK /\ TypeOK' /\ HandInv /\ StoreInv /\ [Next]_vars => (tidy => BookStep)
  <2> SUFFICES ASSUME TypeOK, TypeOK', HandInv, StoreInv, tidy, [Next]_vars
               PROVE  BookStep
    OBVIOUS
  <2>0. IsBook
    BY DEF StoreInv, OneActive
  <2>1. ASSUME NEW c \in Client, txn[c].at # "idle" PROVE Reads(txn[c])
    BY <2>1 DEF StoreInv, TidyInv, AloneInv
  <2>2. 0 \notin WatchlistId
    BY StoreAssumption DEF WatchlistId
  <2>3. PICK a \in WatchlistId \union {0} :
          /\ active = IF a = 0 THEN {} ELSE {a}
          /\ a = 0 => rows = {}
    BY <2>0, <2>2 DEF IsBook, TypeOK
  <2>4. ActiveWatchlist = a
    BY <2>3, CurrentIsActive
  <2>5. DOMAIN BookLists = rows /\ \A j \in rows : BookLists[j] = content[j]
    BY DEF BookLists
  <2>6. ASSUME UNCHANGED table PROVE BookStep
    BY <2>6 DEF table, BookLists, ActiveWatchlist, Newest
  <2>7. ASSUME NEW c \in Client, InsertRow(c) PROVE BookStep
    <3>. DEFINE i == txn[c].id
                n == txn[c].new.name
                S == txn[c].new.symbols
    <3>1. txn[c].new \in Content /\ i \in WatchlistId
      BY <2>7 DEF InsertRow, HandInv, TypeOK, Transaction
    <3>2. n \in Name /\ S \in SUBSET Symbol /\ txn[c].new = [name |-> n, symbols |-> S]
      BY <2>7, <3>1 DEF InsertRow, HandInv, Content
    <3>3. \A j \in rows : j < i
      BY <2>1, <2>7 DEF InsertRow, Reads
    <3>4. txn[c].flag <=> active = {}
      BY <2>1, <2>7 DEF InsertRow, Reads
    <3>5. Book!NameFree(n, i)
      BY <2>5, <2>7 DEF InsertRow, NameFree, Book!NameFree
    <3>6. BookLists' = [j \in rows \union {i} |->
                          IF j = i THEN [name |-> n, symbols |-> S] ELSE BookLists[j]]
      <4>1. rows' = rows \union {i} /\ content' = [content EXCEPT ![i] = txn[c].new]
        BY <2>7 DEF InsertRow
      <4>2. \A j \in rows \union {i} : content'[j] =
              IF j = i THEN [name |-> n, symbols |-> S] ELSE BookLists[j]
        BY <2>5, <3>1, <3>2, <4>1 DEF TypeOK
      <4>3. BookLists' = [j \in rows \union {i} |-> content'[j]]
        BY <4>1 DEF BookLists
      <4>. HIDE DEF i, n, S
      <4>. QED  BY <4>2, <4>3
    <3>7. ActiveWatchlist' = IF a = 0 THEN i ELSE a
      <4>1. active' = {IF a = 0 THEN i ELSE a}
        BY <2>2, <2>3, <2>7, <3>4 DEF InsertRow
      <4>. QED  BY <2>2, <2>3, <3>1, <4>1, CurrentIsActiveNext
    <3>8. Book!Create(i, n, S)
      BY <2>4, <2>5, <3>3, <3>5, <3>6, <3>7 DEF Book!Create
    <3>. QED  BY <3>1, <3>2, <3>8 DEF Book!Next
  <2>8. ASSUME NEW c \in Client, UpdateName(c) PROVE BookStep
    <3>. DEFINE i == txn[c].id
                n == txn[c].new.name
    <3>1. i \in rows /\ n \in Name
      BY <2>8 DEF UpdateName, HandInv
    <3>2. Book!NameFree(n, i)
      BY <2>5, <2>8 DEF UpdateName, NameFree, Book!NameFree
    <3>3. content' = [content EXCEPT ![i].name = n] /\ rows' = rows /\ active' = active
      BY <2>8 DEF UpdateName
    <3>4. BookLists' = [BookLists EXCEPT ![i].name = n]
      BY <3>1, <3>3 DEF BookLists, TypeOK
    <3>5. ActiveWatchlist' = ActiveWatchlist
      BY <3>3 DEF ActiveWatchlist, Newest
    <3>6. Book!Rename(i, n)
      BY <2>5, <3>1, <3>2, <3>4, <3>5 DEF Book!Rename
    <3>. QED  BY <3>1, <3>6 DEF Book!Next, TypeOK
  <2>9. ASSUME NEW c \in Client, UpdateSymbols(c) PROVE BookStep
    <3>. DEFINE i == txn[c].id
                S == txn[c].new.symbols
    <3>1. i \in rows /\ S \in SUBSET Symbol
      BY <2>9 DEF UpdateSymbols, TypeOK, Transaction, Content
    <3>2. content' = [content EXCEPT ![i].symbols = S] /\ rows' = rows /\ active' = active
      BY <2>9 DEF UpdateSymbols
    <3>3. BookLists' = [BookLists EXCEPT ![i].symbols = S]
      BY <3>1, <3>2 DEF BookLists, TypeOK
    <3>4. ActiveWatchlist' = ActiveWatchlist
      BY <3>2 DEF ActiveWatchlist, Newest
    <3>5. Book!Edit(i, S)
      BY <2>5, <3>1, <3>3, <3>4 DEF Book!Edit
    <3>. QED  BY <3>1, <3>5 DEF Book!Next, TypeOK
  <2>10. ASSUME NEW c \in Client, Switch(c) PROVE BookStep
    <3>1. txn[c].id \in rows /\ active' = {txn[c].id} /\ rows' = rows /\ content' = content
      BY <2>1, <2>10 DEF Switch, Reads
    <3>2. txn[c].id \in WatchlistId
      BY <3>1 DEF TypeOK
    <3>3. ActiveWatchlist' = txn[c].id
      BY <2>2, <3>1, <3>2, CurrentIsActiveNext
    <3>4. BookLists' = BookLists
      BY <3>1 DEF BookLists
    <3>5. Book!Activate(txn[c].id)
      BY <2>5, <3>1, <3>3, <3>4 DEF Book!Activate
    <3>. QED  BY <3>2, <3>5 DEF Book!Next
  <2>11. ASSUME NEW c \in Client, DeleteRow(c) \/ Inherit(c) PROVE BookStep
    <3>. DEFINE i == txn[c].id
    <3>1. i \in rows /\ i \in WatchlistId
      BY <2>1, <2>11 DEF DeleteRow, Inherit, Reads, TypeOK
    <3>2. rows' = rows \ {i} /\ content' = [content EXCEPT ![i] = Blank]
      BY <2>11 DEF DeleteRow, Inherit
    <3>3. BookLists' = [j \in rows \ {i} |-> BookLists[j]]
      BY <3>1, <3>2 DEF BookLists, TypeOK
    <3>4. CASE DeleteRow(c)
      <4>1. i # a /\ active' = active
        BY <2>1, <2>2, <2>3, <3>1, <3>4 DEF DeleteRow, Reads
      <4>2. ActiveWatchlist' = a
        BY <2>3, <4>1, CurrentIsActiveNext
      <4>. QED
        BY <2>4, <2>5, <3>1, <3>3, <4>1, <4>2 DEF Book!Delete, Book!Next
    <3>5. CASE Inherit(c)
      <4>1. i = a /\ Newest(txn[c].heir, rows \ {i})
            /\ (txn[c].flag <=> txn[c].heir \in rows \ active)
        BY <2>1, <2>2, <2>3, <3>1, <3>5 DEF Inherit, Reads
      <4>2. txn[c].heir \in WatchlistId \union {0}
        BY DEF TypeOK, Transaction
      <4>3. active' = IF txn[c].heir = 0 THEN {} ELSE {txn[c].heir}
        BY <2>2, <2>3, <3>1, <3>5, <4>1 DEF Inherit, Newest, TypeOK
      <4>4. ActiveWatchlist' = txn[c].heir
        BY <4>2, <4>3, CurrentIsActiveNext
      <4>5. Book!Newest(ActiveWatchlist', rows \ {i})
        BY <4>1, <4>4 DEF Newest, Book!Newest
      <4>. QED
        BY <2>4, <2>5, <3>1, <3>3, <4>1, <4>5 DEF Book!Delete, Book!Next
    <3>. QED  BY <2>11, <3>4, <3>5
  <2>12. ASSUME NEW c \in Client, Request(c) \/ Deactivate(c) \/ Drop(c) \/ Rollback(c)
         PROVE  UNCHANGED table
    BY <2>12, RequestOpens DEF Deactivate, Drop, Rollback, table
  <2>13. CASE UNCHANGED vars
    BY <2>6, <2>13 DEF vars, table
  <2>. HIDE DEF BookStep
  <2>. QED  BY <2>6, <2>7, <2>8, <2>9, <2>10, <2>11, <2>12, <2>13 DEF Next
<1>. QED  BY <1>1, StoreTypeCorrect, StoreInvariant, PTL DEF Spec, BookSteps
=============================================================================
