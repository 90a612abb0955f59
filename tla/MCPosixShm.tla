----------------------------- MODULE MCPosixShm -----------------------------
(* Model values for PosixShm: two processes, one value. *)
EXTENDS PosixShm

CONSTANTS p1, p2

TwoProcs == {p1, p2}
OneValue == {1}

=============================================================================
