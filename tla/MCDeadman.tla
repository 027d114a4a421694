----------------------------- MODULE MCDeadman -----------------------------
(* Deadman on small instances: symbols and signal ids are model values.    *)
EXTENDS Deadman
=============================================================================
