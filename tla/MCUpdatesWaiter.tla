--------------------------- MODULE MCUpdatesWaiter ---------------------------
(* Instances of UpdatesWaiter for TLC. *)
EXTENDS UpdatesWaiter
=============================================================================
