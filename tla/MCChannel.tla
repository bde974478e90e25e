----------------------------- MODULE MCChannel -----------------------------
(* Channel for TLC: its constants are numbers, set in the configuration.   *)
EXTENDS Channel
=============================================================================
