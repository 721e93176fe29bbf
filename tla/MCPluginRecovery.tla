--------------------------- MODULE MCPluginRecovery ---------------------------
(* Instances of PluginRecovery for TLC. *)
EXTENDS PluginRecovery
=============================================================================
