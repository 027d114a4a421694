--------------------------- MODULE WatchlistStore --------------------------
(***************************************************************************)
(* The watchlists table and the operations of watchlist_store.py on it.    *)
(*                                                                         *)
(* The dashboard and the CLI are two processes, so two transactions may    *)
(* overlap (session_scope, Postgres' default READ COMMITTED): a statement  *)
(* sees what is committed when it starts, waits for rows that another open *)
(* transaction has written, and then looks at those rows again, but not    *)
(* at others.  Each operation is cut at the statements between which       *)
(* another transaction can make a difference:                              *)
(*                                                                         *)
(*   create    idle --BeginCreate--> create --InsertRow--> idle            *)
(*   rename    idle --BeginRename--> rename --UpdateName--> idle           *)
(*   add, remove, set   idle --Begin...--> edit --UpdateSymbols--> idle    *)
(*   activate  idle --BeginActivate--> activate --Deactivate--> switch     *)
(*                  --Switch--> idle                                       *)
(*   delete    idle --BeginDelete--> delete --DeleteRow--> idle            *)
(*             or of the active list  drop --Drop--> inherit --Inherit-->  *)
(*                                                                         *)
(* The last step of each is its last statement and its commit.  A call     *)
(* that raises before it writes (blank or taken name, unknown id) changes  *)
(* nothing and is no step.  updated_at and source are left out, and so is  *)
(* the order of the symbols of a list.                                     *)
(***************************************************************************)
EXTENDS Integers

CONSTANTS
    Client,         \* processes that write: the dashboard, the CLI
    Name, NoName,
    Symbol,
    MaxLists        \* bound on the ranks in use

ASSUME StoreAssumption == MaxLists \in Nat /\ NoName \notin Name

\* An id (a uuid) is represented by the rank of its created_at; a rank above all
\* that are in use can be used again.
WatchlistId == 1..MaxLists

VARIABLES
    rows,       \* ids of the committed rows
    active,     \* those with is_active
    content,    \* name and symbols of each
    txn,        \* the open transaction of each client
    tidy        \* history: since the last activation that ran alone, or since the
                \* start, no two transactions have been open at once

table == <<rows, active, content>>
vars == <<rows, active, content, txn, tidy>>

Content == [name : Name \union {NoName}, symbols : SUBSET Symbol]
Blank == [name |-> NoName, symbols |-> {}]

Steps == {"idle", "create", "rename", "edit", "activate", "switch", "delete",
          "drop", "inherit"}

\* What a transaction remembers of its reads, and the rows it has written so far.
Transaction ==
    [at : Steps, id : WatchlistId \union {0}, new : Content,
     flag : BOOLEAN,                        \* the row it activates is inactive
     seen : SUBSET WatchlistId,             \* rows its UPDATE found active
     heir : WatchlistId \union {0},         \* the survivor it activates
     locked : SUBSET WatchlistId,
     alone : BOOLEAN]                       \* history: nobody else was in one

Idle == [at |-> "idle", id |-> 0, new |-> Blank, flag |-> FALSE, seen |-> {},
         heir |-> 0, locked |-> {}, alone |-> FALSE]

TypeOK ==
    /\ rows \subseteq WatchlistId
    /\ active \subseteq rows
    /\ content \in [WatchlistId -> Content]
    /\ txn \in [Client -> Transaction]
    /\ tidy \in BOOLEAN

Init ==
    /\ rows = {} /\ active = {}
    /\ content = [i \in WatchlistId |-> Blank]
    /\ txn = [c \in Client |-> Idle]
    /\ tidy = TRUE

-----------------------------------------------------------------------------
(* Transactions.                                                           *)

Others(c) == {d \in Client \ {c} : txn[d].at # "idle"}

LockedByOthers(c) == UNION {txn[d].locked : d \in Client \ {c}}

\* _name_taken, and the unique constraint on name.
NameFree(n, i) == \A j \in rows \ {i} : content[j].name # n

Open(c, t) ==
    /\ txn[c].at = "idle"
    /\ txn' = [d \in Client |->
                  IF d = c THEN [t EXCEPT !.alone = (Others(c) = {})]
                           ELSE [txn[d] EXCEPT !.alone = FALSE]]
    /\ tidy' = (tidy /\ Others(c) = {})

Close(c) == txn' = [txn EXCEPT ![c] = Idle]

\* A statement fails (the name is taken by now, the row to update is gone, two
\* transactions wait for each other), or the client or its connection is lost.
Rollback(c) ==
    /\ txn[c].at # "idle"
    /\ Close(c)
    /\ UNCHANGED <<rows, active, content, tidy>>

-----------------------------------------------------------------------------
(* create_watchlist                                                        *)

InUse == rows \union {txn[d].id : d \in Client} \union {txn[d].heir : d \in Client}

BeginCreate(c, i, n, S) ==
    /\ \A j \in InUse : j < i
    /\ NameFree(n, i)
    /\ Open(c, [Idle EXCEPT !.at = "create", !.id = i,
                            !.new = [name |-> n, symbols |-> S],
                            !.flag = (active = {})])
    /\ UNCHANGED table

InsertRow(c) ==
    /\ txn[c].at = "create"
    /\ NameFree(txn[c].new.name, txn[c].id)
    /\ rows' = rows \union {txn[c].id}
    /\ active' = IF txn[c].flag THEN active \union {txn[c].id} ELSE active
    /\ content' = [content EXCEPT ![txn[c].id] = txn[c].new]
    /\ Close(c)
    /\ UNCHANGED tidy

-----------------------------------------------------------------------------
(* rename_watchlist, set_watchlist_symbols, add_symbols, remove_symbol: the *)
(* new value is computed from what was read, and one column is written.    *)

BeginRename(c, i, n) ==
    /\ i \in rows
    /\ NameFree(n, i)
    /\ Open(c, [Idle EXCEPT !.at = "rename", !.id = i, !.new.name = n])
    /\ UNCHANGED table

UpdateName(c) ==
    /\ txn[c].at = "rename"
    /\ txn[c].id \in rows \ LockedByOthers(c)
    /\ NameFree(txn[c].new.name, txn[c].id)
    /\ content' = [content EXCEPT ![txn[c].id].name = txn[c].new.name]
    /\ Close(c)
    /\ UNCHANGED <<rows, active, tidy>>

\* An unchanged list is not written.
BeginEdit(c, i, S) ==
    /\ i \in rows
    /\ S # content[i].symbols
    /\ Open(c, [Idle EXCEPT !.at = "edit", !.id = i, !.new.symbols = S])
    /\ UNCHANGED table

BeginSet(c, i, S) == BeginEdit(c, i, S)

BeginAdd(c, i, S) == BeginEdit(c, i, content[i].symbols \union S)

BeginRemove(c, i, s) == BeginEdit(c, i, content[i].symbols \ {s})

UpdateSymbols(c) ==
    /\ txn[c].at = "edit"
    /\ txn[c].id \in rows \ LockedByOthers(c)
    /\ content' = [content EXCEPT ![txn[c].id].symbols = txn[c].new.symbols]
    /\ Close(c)
    /\ UNCHANGED <<rows, active, tidy>>

-----------------------------------------------------------------------------
(* activate_watchlist: an UPDATE of the rows found active, then of the      *)
(* target.  The rows are found when the first UPDATE starts; those another  *)
(* transaction has written are looked at again once it is over.             *)

BeginActivate(c, i) ==
    /\ i \in rows
    /\ Open(c, [Idle EXCEPT !.at = "activate", !.id = i, !.seen = active])
    /\ UNCHANGED table

Mutant_Deactivate(c) ==                     \* nothing is deactivated
    /\ txn[c].at = "activate"
    /\ txn' = [txn EXCEPT ![c].at = "switch", ![c].seen = {}]
    /\ UNCHANGED <<rows, active, content, tidy>>

Deactivate(c) ==
    /\ txn[c].at = "activate"
    /\ txn[c].seen \intersect LockedByOthers(c) = {}
    /\ txn' = [txn EXCEPT ![c].at = "switch", ![c].seen = {},
                          ![c].locked = txn[c].seen \intersect active]
    /\ UNCHANGED <<rows, active, content, tidy>>

Mutant_Switch(c) ==                         \* the UPDATE may find no row
    /\ txn[c].at = "switch"
    /\ txn[c].id \notin LockedByOthers(c)
    /\ active' = (active \ txn[c].locked) \union {txn[c].id}
    /\ Close(c)
    /\ tidy' = (tidy \/ txn[c].alone)
    /\ UNCHANGED <<rows, content>>

Switch(c) ==
    /\ txn[c].at = "switch"
    /\ txn[c].id \in rows \ LockedByOthers(c)
    /\ active' = (active \ txn[c].locked) \union {txn[c].id}
    /\ Close(c)
    /\ tidy' = (tidy \/ txn[c].alone)
    /\ UNCHANGED <<rows, content>>

-----------------------------------------------------------------------------
(* delete_watchlist: of an inactive list, one DELETE; of the active one, a  *)
(* DELETE, then the newest survivor is read and activated.  A DELETE that   *)
(* finds its row gone is only warned about.                                 *)

BeginDelete(c, i) ==
    /\ i \in rows
    /\ Open(c, [Idle EXCEPT !.at = IF i \in active THEN "drop" ELSE "delete", !.id = i])
    /\ UNCHANGED table

DeleteRow(c) ==
    /\ txn[c].at = "delete"
    /\ txn[c].id \notin LockedByOthers(c)
    /\ rows' = rows \ {txn[c].id}
    /\ active' = active \ {txn[c].id}
    /\ content' = [content EXCEPT ![txn[c].id] = Blank]
    /\ Close(c)
    /\ UNCHANGED tidy

Mutant_Newest(h, S) ==                      \* the oldest survivor
    IF S = {} THEN h = 0 ELSE h \in S /\ \A j \in S : j >= h

\* h is the row with the latest created_at; 0 stands for none.
Newest(h, S) == IF S = {} THEN h = 0 ELSE h \in S /\ \A j \in S : j <= h

Drop(c) ==
    /\ txn[c].at = "drop"
    /\ txn[c].id \notin LockedByOthers(c)
    /\ \E h \in WatchlistId \union {0} :
        /\ Newest(h, rows \ {txn[c].id})
        /\ txn' = [txn EXCEPT ![c].at = "inherit", ![c].heir = h,
                              ![c].flag = h \in rows \ active,
                              ![c].locked = rows \intersect {txn[c].id}]
    /\ UNCHANGED <<rows, active, content, tidy>>

Mutant_Inherit(c) ==                        \* the survivor is not activated
    /\ txn[c].at = "inherit"
    /\ rows' = rows \ {txn[c].id}
    /\ active' = active \ {txn[c].id}
    /\ content' = [content EXCEPT ![txn[c].id] = Blank]
    /\ Close(c)
    /\ UNCHANGED tidy

\* A survivor that was read as active gets a new updated_at only.
Inherit(c) ==
    /\ txn[c].at = "inherit"
    /\ txn[c].heir = 0 \/ txn[c].heir \in rows \ LockedByOthers(c)
    /\ rows' = rows \ {txn[c].id}
    /\ active' = (active \ {txn[c].id})
                 \union (IF txn[c].flag THEN {txn[c].heir} ELSE {})
    /\ content' = [content EXCEPT ![txn[c].id] = Blank]
    /\ Close(c)
    /\ UNCHANGED tidy

-----------------------------------------------------------------------------
\* The forms of the dashboard and the commands of the CLI carry the id of any list
\* they have shown, which may be gone or inactive by now.
Request(c) ==
    \E i \in WatchlistId :
        \/ \E n \in Name, S \in SUBSET Symbol : BeginCreate(c, i, n, S)
        \/ \E n \in Name : BeginRename(c, i, n)
        \/ \E S \in SUBSET Symbol : BeginSet(c, i, S) \/ BeginAdd(c, i, S)
        \/ \E s \in Symbol : BeginRemove(c, i, s)
        \/ BeginActivate(c, i)
        \/ BeginDelete(c, i)

Next ==
    \E c \in Client :
        \/ Request(c)
        \/ InsertRow(c) \/ UpdateName(c) \/ UpdateSymbols(c)
        \/ Deactivate(c) \/ Switch(c)
        \/ DeleteRow(c) \/ Drop(c) \/ Inherit(c)
        \/ Rollback(c)

Spec == Init /\ [][Next]_vars

-----------------------------------------------------------------------------
(* Properties.                                                             *)

IsBook == rows = {} \/ \E i \in rows : active = {i}

\* Exactly one list is active once there is any (models.py: "exactly one has
\* is_active True at a time"), as long as no two transactions overlap; and if they
\* have, one activation that runs alone restores it, whatever they left behind.
OneActive == tidy => IsBook

\* The same promise without the condition.
ExactlyOneActive == IsBook

\* get_active_watchlist, which resolve_watchlist asks: the newest active row.
ActiveWatchlist == CHOOSE h \in WatchlistId \union {0} : Newest(h, active)

BookLists == [i \in rows |-> content[i]]

Book == INSTANCE WatchlistBook WITH lists <- BookLists, current <- ActiveWatchlist

\* Every transaction that overlaps no other does in one commit what the book allows:
\* an operation on one list leaves the others and the current one alone, and only
\* deleting the current list makes another current, the newest.
BookSteps == [][tidy => Book!Next \/ UNCHANGED <<BookLists, ActiveWatchlist>>]_vars

-----------------------------------------------------------------------------
(* The invariant of the proofs.                                            *)

\* An open transaction has a row in hand, and the survivor of a deletion is another.
HandInv ==
    \A c \in Client :
        /\ txn[c].at # "idle" => txn[c].id # 0
        /\ txn[c].at \in {"create", "rename"} => txn[c].new.name \in Name
        /\ txn[c].at = "inherit" =>
            /\ txn[c].heir # txn[c].id
            /\ txn[c].flag => txn[c].heir # 0

\* What transaction t has read is still so.
Reads(t) ==
    /\ t.at = "create" => /\ \A j \in rows : j < t.id
                          /\ t.flag <=> active = {}
    /\ t.at = "activate" => t.seen = active
    /\ t.at = "switch" => t.locked = active
    /\ t.at = "delete" => t.id \in rows \ active
    /\ t.at = "drop" => t.id \in active
    /\ t.at = "inherit" => /\ t.id \in active
                           /\ Newest(t.heir, rows \ {t.id})
                           /\ t.flag <=> t.heir \in rows \ active

AloneInv ==
    \A c \in Client : txn[c].alone =>
        txn[c].at # "idle" /\ Others(c) = {} /\ Reads(txn[c])

TidyInv == tidy => \A c \in Client : txn[c].at # "idle" => txn[c].alone

\* What the proofs of OneActive and BookSteps rest on: as long as nobody joined it, a
\* transaction's last step finds the table as its first step read it.
StoreInv == HandInv /\ AloneInv /\ TidyInv /\ OneActive
=============================================================================
