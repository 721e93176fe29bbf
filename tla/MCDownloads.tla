---------------------------- MODULE MCDownloads ----------------------------
(* The instance of Downloads that TLC checks: one of two files is urgent.  *)
EXTENDS Downloads

CONSTANTS t1, t2

FirstUrgent == [t \in Task |-> IF t = t1 THEN 1 ELSE 0]
=============================================================================
