---------------------------- MODULE MCHistories ----------------------------
(* Instances of Histories for TLC. *)
EXTENDS Histories

CONSTANTS h1, h2
=============================================================================
