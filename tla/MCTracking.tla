----------------------------- MODULE MCTracking -----------------------------
(* Tracking on small instances.                                            *)
EXTENDS Tracking
=============================================================================
