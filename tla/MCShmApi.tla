------------------------------ MODULE MCShmApi ------------------------------
(* Model values and bounds for ShmApi: two processes, two values. *)
EXTENDS ShmApi

CONSTANTS p1, p2

TwoProcs == {p1, p2}
TwoValues == {1, 2}

=============================================================================
