------------------------------- MODULE MCRelay ------------------------------
(* Bounds for Relay: a few datagrams, a queue of one or two messages. *)
EXTENDS Relay

BothProcs == {C, R}
ThreeDatagrams == 1 .. 3
FourDatagrams == 1 .. 4
EveryFault == AllFaults

=============================================================================
