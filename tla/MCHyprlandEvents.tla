-------------------------- MODULE MCHyprlandEvents --------------------------
(* Instances of HyprlandEvents for TLC. *)
EXTENDS HyprlandEvents
=============================================================================
