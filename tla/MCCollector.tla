---------------------------- MODULE MCCollector -----------------------------
(* Instances of Collector for TLC. *)
EXTENDS Collector

AnyFault == Calls \cup {"poll"}
=============================================================================
