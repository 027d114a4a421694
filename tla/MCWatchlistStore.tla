------------------------- MODULE MCWatchlistStore --------------------------
(* WatchlistStore on small instances: clients, names and symbols are model  *)
(* values.                                                                  *)
EXTENDS WatchlistStore, TLC

Symmetry == Permutations(Client) \union Permutations(Name)
=============================================================================
