---------------------------- MODULE MCController ----------------------------
(* Instances of Controller for TLC. *)
EXTENDS ControllerInv

CONSTANTS a, b

TwoIngresses == {a, b}
OneUser == {a}
=============================================================================
