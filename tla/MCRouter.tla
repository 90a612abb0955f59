------------------------------ MODULE MCRouter ------------------------------
(* Instances of Router for TLC. *)
EXTENDS Router

AnyFault == Checked \cup Unchecked \cup Later
=============================================================================
