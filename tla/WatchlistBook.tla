--------------------------- MODULE WatchlistBook ---------------------------
(***************************************************************************)
(* What the watchlist store promises its clients: a set of named lists, of *)
(* which exactly one is current as soon as there is any.  An id is the     *)
(* rank of the list's created_at, so a higher id is a newer list.          *)
(***************************************************************************)
EXTENDS Integers

CONSTANTS WatchlistId, Name, Symbol

VARIABLES
    lists,      \* the lists there are: a function from some ids to contents
    current     \* the active one, 0 while there is none

NameFree(n, i) == \A j \in DOMAIN lists \ {i} : lists[j].name # n

\* h is the newest of the lists S; 0 stands for none.
Newest(h, S) == IF S = {} THEN h = 0 ELSE h \in S /\ \A j \in S : j <= h

Create(i, n, S) ==
    /\ \A j \in DOMAIN lists : j < i
    /\ NameFree(n, i)
    /\ lists' = [j \in DOMAIN lists \union {i} |->
                    IF j = i THEN [name |-> n, symbols |-> S] ELSE lists[j]]
    /\ current' = IF current = 0 THEN i ELSE current

Rename(i, n) ==
    /\ i \in DOMAIN lists /\ NameFree(n, i)
    /\ lists' = [lists EXCEPT ![i].name = n]
    /\ UNCHANGED current

Edit(i, S) ==
    /\ i \in DOMAIN lists
    /\ lists' = [lists EXCEPT ![i].symbols = S]
    /\ UNCHANGED current

Activate(i) ==
    /\ i \in DOMAIN lists
    /\ current' = i
    /\ UNCHANGED lists

Delete(i) ==
    /\ i \in DOMAIN lists
    /\ lists' = [j \in DOMAIN lists \ {i} |-> lists[j]]
    /\ IF i = current THEN Newest(current', DOMAIN lists \ {i}) ELSE UNCHANGED current

Next ==
    \E i \in WatchlistId :
        \/ \E n \in Name : Rename(i, n) \/ \E S \in SUBSET Symbol : Create(i, n, S)
        \/ \E S \in SUBSET Symbol : Edit(i, S)
        \/ Activate(i)
        \/ Delete(i)
=============================================================================
