-------------------------- MODULE MCMasterProcess --------------------------
(* Instances of MasterProcess for TLC.                                      *)
EXTENDS MasterProcess
=============================================================================
