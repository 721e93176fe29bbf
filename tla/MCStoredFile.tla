----------------------------- MODULE MCStoredFile -----------------------------
(* The instance of StoredFile that TLC checks: three values, so that a file  *)
(* may differ in "0", "1" and "s", and a disk that may be full.              *)
EXTENDS StoredFile
===============================================================================
