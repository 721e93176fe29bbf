--------------------------- MODULE MCMtpInstance ---------------------------
(* The instance of MtpInstance that TLC checks: requests for the main data  *)
(* centre and for the main session of another one.                          *)
EXTENDS MtpInstance

MainAndGuest == {ToMain, [dc |-> 2, shift |-> 0]}
=============================================================================
