--------------------------- MODULE MCPaperRunner ---------------------------
(* PaperRunner on small instances: symbols and signal ids are model values. *)
EXTENDS PaperRunner, TLC

Symmetry == Permutations(Symbol) \union Permutations(SignalId)
=============================================================================
