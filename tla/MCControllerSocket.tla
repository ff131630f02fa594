-------------------------- MODULE MCControllerSocket --------------------------
(* Instances of ControllerSocket for TLC. *)
EXTENDS ControllerSocket, TLC
=============================================================================
