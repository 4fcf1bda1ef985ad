---------------------------- MODULE MCModuleHost ----------------------------
(* Instances of ModuleHost for TLC. *)
EXTENDS ModuleHost, TLC
=============================================================================
