------------------------------ MODULE MCViewer ------------------------------
(* Instances of Viewer for TLC. *)
EXTENDS Viewer

AnyFault == Checked \cup Unchecked \cup {"usr1"}
=============================================================================
