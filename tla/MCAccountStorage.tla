--------------------------- MODULE MCAccountStorage ---------------------------
(* The instance of AccountStorage that TLC checks: a slot that is written at *)
(* once and one that is written by a timer.                                  *)
EXTENDS AccountStorage
===============================================================================
